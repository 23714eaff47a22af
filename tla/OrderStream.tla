----------------------------- MODULE OrderStream -----------------------------
(***************************************************************************)
(* The status of orders as GET /orders/:id/events streams it: updateStatus *)
(* commits a status and then, when the query's answer is back, emits an    *)
(* event. OrderEventsService keeps the events of the running process in    *)
(* memory, some for each order, and passes each on to its subscribers. An  *)
(* EventSource that lost its connection opens another, with the id of the  *)
(* last event it got.                                                      *)
(***************************************************************************)
EXTENDS Integers, Sequences, FiniteSets, SequencesExt

CONSTANTS
  Orders,
  Statuses,     \* ORDER_STATUSES
  Created,      \* the status an order starts with
  Updates,      \* PATCH /orders/:id/status calls
  Clients,      \* EventSource clients
  Watched,      \* Watched[c]: the order whose stream c opens
  Connections,  \* bound: requests for a stream
  MaxBuffered,  \* MAX_BUFFERED_EVENTS_PER_ORDER
  MaxRestarts,  \* bound: restarts of the process
  NoClient

ASSUME StreamAssumption ==
  /\ Created \in Statuses
  /\ Watched \in [Clients -> Orders] /\ NoClient \notin Clients
  /\ MaxBuffered \in Nat \ {0} /\ MaxRestarts \in Nat

VARIABLES
  status,       \* orders.status
  update,       \* update[u]: the await of call u, and the row its query returned
  nextEventId,
  buffers,      \* buffers[o]: the last events of o
  connection,   \* connection[n]: its client, the await of its handler, its Last-Event-ID
  lastId,       \* lastId[c]: the id of the last event c got
  received,     \* history: ids c got from this process
  emitted,      \* history: emitted[i] is the order of event i of this process
  stale,        \* history: clients that brought an id of an earlier process
  disturbed,    \* history: orders updated while another update was on its way
  restarts      \* restarts so far

memoryVars == <<nextEventId, buffers, emitted>>
clientVars == <<connection, lastId, received, stale>>
vars == <<status, update, memoryVars, clientVars, disturbed, restarts>>

Waiting == [at |-> "idle", order |-> 0, status |-> Created]

Done == [Waiting EXCEPT !.at = "done"]

(***************************************************************************)
(* live: the client still has the connection. gone: Node has emitted       *)
(* 'close' on the request.                                                 *)
(***************************************************************************)
Unused == [client |-> NoClient, at |-> "unused", after |-> 0, live |-> FALSE, gone |-> FALSE]

Closed == [Unused EXCEPT !.at = "closed"]

Init ==
  /\ status = [o \in Orders |-> Created]
  /\ update = [u \in Updates |-> Waiting]
  /\ nextEventId = 1
  /\ buffers = [o \in Orders |-> <<>>]
  /\ connection = [n \in Connections |-> Unused]
  /\ lastId = [c \in Clients |-> 0]
  /\ received = [c \in Clients |-> <<>>]
  /\ emitted = <<>> /\ stale = {} /\ disturbed = {}
  /\ restarts = 0

-----------------------------------------------------------------------------
Announcing(o) == {u \in Updates : update[u].at = "emit" /\ update[u].order = o}

\* Mutation of RowReturned: the row is read before the UPDATE.
RowBefore(o, s) == status[o]

RowReturned(o, s) == s

(***************************************************************************)
(* UPDATE orders ... RETURNING, committed as a statement of its own.       *)
(***************************************************************************)
CommitStatus(u, o, s) ==
  /\ update[u].at = "idle"
  /\ status' = [status EXCEPT ![o] = s]
  /\ update' = [update EXCEPT ![u] = [at |-> "emit", order |-> o, status |-> RowReturned(o, s)]]
  /\ disturbed' = IF Announcing(o) # {} THEN disturbed \cup {o} ELSE disturbed \ {o}
  /\ UNCHANGED <<memoryVars, clientVars, restarts>>

Trimmed(buffer) ==
  IF Len(buffer) > MaxBuffered
    THEN SubSeq(buffer, Len(buffer) - MaxBuffered + 1, Len(buffer))
    ELSE buffer

Subscribers(o) ==
  {n \in Connections : connection[n].at = "subscribed" /\ Watched[connection[n].client] = o}

IdsOf(events) == [i \in DOMAIN events |-> events[i].id]

(***************************************************************************)
(* Events written to a connection reach the client if it is still there.   *)
(***************************************************************************)
Receive(ns, events) ==
  LET reached == {connection[n].client : n \in {k \in ns : connection[k].live}} IN
  /\ received' = [c \in Clients |-> IF c \in reached THEN received[c] \o IdsOf(events)
                                                     ELSE received[c]]
  /\ lastId' = [c \in Clients |-> IF c \in reached /\ events # <<>> THEN Last(events).id
                                                                   ELSE lastId[c]]

(***************************************************************************)
(* emitStatusChanged: everything up to the last subscriber is one turn of  *)
(* the event loop.                                                         *)
(***************************************************************************)
Emit(u) ==
  LET o == update[u].order
      event == [id |-> nextEventId, order |-> o, status |-> update[u].status]
  IN
  /\ update[u].at = "emit"
  /\ update' = [update EXCEPT ![u] = Done]
  /\ nextEventId' = nextEventId + 1
  /\ buffers' = [buffers EXCEPT ![o] = Trimmed(Append(@, event))]
  /\ emitted' = Append(emitted, o)
  /\ Receive(Subscribers(o), <<event>>)
  /\ UNCHANGED <<status, connection, stale, disturbed, restarts>>

(***************************************************************************)
(* The status is committed, the query's answer gets lost. A status that is *)
(* not one, or an order that is not there, changes nothing.                *)
(***************************************************************************)
LoseAnswer(u) ==
  /\ update[u].at = "emit"
  /\ update' = [update EXCEPT ![u] = Done]
  /\ disturbed' = disturbed \cup {update[u].order}
  /\ UNCHANGED <<status, memoryVars, clientVars, restarts>>

-----------------------------------------------------------------------------
(***************************************************************************)
(* A client without a connection asks for the stream, by Last-Event-ID.    *)
(***************************************************************************)
Open(n, c) ==
  /\ connection[n] = Unused
  /\ \A k \in Connections : connection[k].client = c => ~connection[k].live
  /\ connection' = [connection EXCEPT ![n] =
       [client |-> c, at |-> "find", after |-> lastId[c], live |-> TRUE, gone |-> FALSE]]
  /\ UNCHANGED <<status, update, memoryVars, lastId, received, stale, disturbed, restarts>>

(***************************************************************************)
(* buffer.filter(event => event.id > id). The ids of a buffer ascend, so   *)
(* that what the filter lets through is the rest from the first such event.*)
(***************************************************************************)
EventsAfter(buffer, id) ==
  SubSeq(buffer, Min({i \in DOMAIN buffer : buffer[i].id > id} \cup {Len(buffer) + 1}), Len(buffer))

\* Mutation of MissedEvents: the comparison takes the last event again.
MissedOrLast(n) == EventsAfter(buffers[Watched[connection[n].client]], connection[n].after - 1)

\* Mutation of MissedEvents: only live events are streamed.
NothingMissed(n) == <<>>

MissedEvents(n) == EventsAfter(buffers[Watched[connection[n].client]], connection[n].after)

(***************************************************************************)
(* After findById, in one turn: the replay, the subscription, and the      *)
(* listener for 'close', which is too late for a 'close' already emitted.  *)
(***************************************************************************)
Stream(n) ==
  /\ connection[n].at = "find"
  /\ connection' = [connection EXCEPT ![n].at = "subscribed"]
  /\ Receive({n}, MissedEvents(n))
  /\ UNCHANGED <<status, update, memoryVars, stale, disturbed, restarts>>

(***************************************************************************)
(* findById fails: the client gets an error instead of a stream.           *)
(***************************************************************************)
Refuse(n) ==
  /\ connection[n].at = "find"
  /\ connection' = [connection EXCEPT ![n] = Closed]
  /\ UNCHANGED <<status, update, memoryVars, lastId, received, stale, disturbed, restarts>>

Disconnect(n) ==
  /\ connection[n].live
  /\ connection' = [connection EXCEPT ![n].live = FALSE]
  /\ UNCHANGED <<status, update, memoryVars, lastId, received, stale, disturbed, restarts>>

\* Mutation of Close: the listener ends the response only.
CloseStillSubscribed(n) ==
  /\ connection[n].at \in {"find", "subscribed"} /\ ~connection[n].live /\ ~connection[n].gone
  /\ connection' = [connection EXCEPT ![n].gone = TRUE]
  /\ UNCHANGED <<status, update, memoryVars, lastId, received, stale, disturbed, restarts>>

(***************************************************************************)
(* Node sees that the client has gone and emits 'close', once.             *)
(***************************************************************************)
Close(n) ==
  /\ connection[n].at \in {"find", "subscribed"} /\ ~connection[n].live /\ ~connection[n].gone
  /\ connection' = [connection EXCEPT ![n] =
       IF connection[n].at = "subscribed" THEN Closed ELSE [connection[n] EXCEPT !.gone = TRUE]]
  /\ UNCHANGED <<status, update, memoryVars, lastId, received, stale, disturbed, restarts>>

(***************************************************************************)
(* The process ends and another starts: connections, calls, subscriptions, *)
(* buffers and the counter are gone.                                       *)
(***************************************************************************)
Restart ==
  /\ restarts < MaxRestarts
  /\ restarts' = restarts + 1
  /\ nextEventId' = 1
  /\ buffers' = [o \in Orders |-> <<>>]
  /\ emitted' = <<>>
  /\ update' = [u \in Updates |-> IF update[u].at = "emit" THEN Done ELSE update[u]]
  /\ connection' = [n \in Connections |->
       IF connection[n] = Unused THEN Unused ELSE Closed]
  /\ received' = [c \in Clients |-> <<>>]
  /\ stale' = {c \in Clients : lastId[c] > 0}
  /\ UNCHANGED <<status, lastId, disturbed>>

(***************************************************************************)
(* Steps that neither emit an event nor end the process.                   *)
(***************************************************************************)
QuietStep ==
  \/ \E u \in Updates, o \in Orders, s \in Statuses : CommitStatus(u, o, s)
  \/ \E u \in Updates : LoseAnswer(u)
  \/ \E n \in Connections, c \in Clients : Open(n, c)
  \/ \E n \in Connections : Stream(n) \/ Refuse(n) \/ Disconnect(n) \/ Close(n)

Next == QuietStep \/ (\E u \in Updates : Emit(u)) \/ Restart

(***************************************************************************)
(* Node gets to every answer of the database and to every closed socket.   *)
(***************************************************************************)
Fairness ==
  /\ \A u \in Updates : WF_vars(Emit(u))
  /\ \A n \in Connections : WF_vars(Stream(n) \/ Refuse(n)) /\ WF_vars(Close(n))

Spec == Init /\ [][Next]_vars /\ Fairness

-----------------------------------------------------------------------------
(***************************************************************************)
(* However often a client reconnects, one process sends it the events of   *)
(* its order only, each once, and in the order of their ids.               *)
(***************************************************************************)
StreamInOrder ==
  \A c \in Clients :
    /\ \A i, j \in DOMAIN received[c] : i < j => received[c][i] < received[c][j]
    /\ \A i \in ToSet(received[c]) : emitted[i] = Watched[c]

Streaming(c) ==
  \E n \in Connections :
    connection[n].client = c /\ connection[n].at = "subscribed" /\ connection[n].live

(***************************************************************************)
(* A client with a stream has every event of its order that is buffered,   *)
(* those emitted while it was away or while the handler looked for the     *)
(* order included, unless it knew an earlier process.                      *)
(***************************************************************************)
CaughtUp ==
  \A c \in Clients \ stale : Streaming(c) =>
    \A e \in ToSet(buffers[Watched[c]]) : e.id \in ToSet(received[c])

(***************************************************************************)
(* When no update of an order is on its way, the last event tells its      *)
(* status, unless updates overlapped or an answer got lost.                *)
(***************************************************************************)
SettledStatusIsAnnounced ==
  \A o \in Orders \ disturbed :
    buffers[o] # <<>> /\ Announcing(o) = {} => Last(buffers[o]).status = status[o]

(***************************************************************************)
(* The subscription of a client that has gone ends, unless 'close' came    *)
(* while the handler looked for the order: it listens for it too late.     *)
(***************************************************************************)
SubscriptionsEndUnlessClosedEarly ==
  \A n \in Connections :
    (connection[n].at = "subscribed" /\ ~connection[n].live /\ ~connection[n].gone)
      ~> connection[n].at = "closed"

=============================================================================
