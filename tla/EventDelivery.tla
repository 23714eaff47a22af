---------------------------- MODULE EventDelivery ----------------------------
(***************************************************************************)
(* The way of an order.placed event from its committed outbox_messages row *)
(* to its effect: relayOutboxBatch publishes pending rows and marks them   *)
(* in one transaction, RabbitMQ keeps the copies, and every consumer       *)
(* process handles up to Prefetch of them at a time, each in a transaction *)
(* that stores a processed_messages marker and the effect.                 *)
(*                                                                         *)
(* The queue is a bag: no definition here depends on its order. The column *)
(* attempts and the stats are left out.                                    *)
(***************************************************************************)
EXTENDS Integers, Sequences, FiniteSets, FiniteSetsExt

CONSTANTS
  N,          \* events, numbered in the order of created_at, id
  Relays,     \* processes that run relayOutboxBatch
  Consumers,  \* processes that run startOrderPlacedConsumer
  BatchSize,  \* LIMIT of the relay's SELECT
  Prefetch,   \* ORDER_PLACED_PREFETCH
  MaxFaults,  \* bound: failures of queries, channels and processes
  Declared    \* what the broker may have of the topology when a run starts

Events == 1..N

Slots == Consumers \X (1..Prefetch)

Parts == {"exchange", "dlq", "queue"}

ASSUME DeliveryAssumption ==
  /\ N \in Nat /\ BatchSize \in Nat \ {0} /\ Prefetch \in Nat \ {0} /\ MaxFaults \in Nat
  /\ IsFiniteSet(Relays) /\ IsFiniteSet(Consumers)
  /\ Declared \subseteq {{}, {"exchange"}, {"exchange", "dlq"}, Parts}

VARIABLES
  outbox,     \* outbox[e]: no row, or a row without or with published_at
  relay,      \* relay[r]: the await of r, its batch, and what of it is left to mark
  topology,   \* parts of the topology the broker has
  queue,      \* queue[e]: copies of e that are ready in the queue
  dead,       \* events with a copy in the dead-letter queue
  unrouted,   \* history: events published while no queue was bound
  process,    \* process[c]: down, up, or cut off from its closed channel
  asserted,   \* asserted[c]: steps of assertOrderPlacedTopology c has done
  handler,    \* handler[s]: the await of the callback in slot s, its event
  processed,  \* committed processed_messages
  effects,    \* committed order_event_effects
  applied,    \* history: how often each event was reported as applied
  faults      \* faults so far

brokerVars == <<topology, queue, dead, unrouted>>
consumerVars == <<process, asserted, handler, processed, effects, applied>>
vars == <<outbox, relay, brokerVars, consumerVars, faults>>

Idle == [at |-> "idle", batch |-> {}, left |-> {}]

(***************************************************************************)
(* live: the copy is unacknowledged on a channel that is open.             *)
(***************************************************************************)
Free == [at |-> "free", event |-> 0, live |-> FALSE]

Row(r) == Min(relay[r].left)

Locked == UNION {relay[r].batch : r \in Relays}

SlotsOf(c) == {c} \X (1..Prefetch)

Unacked(e) == {s \in Slots : handler[s].event = e /\ handler[s].live}

Copies(e) == queue[e] + Cardinality(Unacked(e))

Init ==
  /\ outbox = [e \in Events |-> "none"]
  /\ relay = [r \in Relays |-> Idle]
  /\ topology \in Declared
  /\ queue = [e \in Events |-> 0]
  /\ dead = {}
  /\ unrouted = {}
  /\ process = [c \in Consumers |-> "down"]
  /\ asserted = [c \in Consumers |-> 0]
  /\ handler = [s \in Slots |-> Free]
  /\ processed = {}
  /\ effects = {}
  /\ applied = [e \in Events |-> 0]
  /\ faults = 0

-----------------------------------------------------------------------------
(***************************************************************************)
(* POST /orders commits an order with its event (OrderPlacement).          *)
(***************************************************************************)
CommitOrder(e) ==
  /\ outbox[e] = "none"
  /\ outbox' = [outbox EXCEPT ![e] = "pending"]
  /\ UNCHANGED <<relay, brokerVars, consumerVars, faults>>

Selectable == {e \in Events : outbox[e] = "pending"} \ Locked

OldestOf(rows) == {e \in rows : Cardinality({d \in rows : d < e}) < BatchSize}

(***************************************************************************)
(* The oldest rows without published_at that no other relay has locked.    *)
(***************************************************************************)
SelectRows(r) ==
  LET batch == OldestOf(Selectable) IN
  /\ relay[r].at = "idle"
  /\ relay' = [relay EXCEPT ![r] =
       [at |-> IF batch = {} THEN "commit" ELSE "publish", batch |-> batch, left |-> batch]]
  /\ UNCHANGED <<outbox, brokerVars, consumerVars, faults>>

Rollback(r) == relay' = [relay EXCEPT ![r] = Idle] /\ UNCHANGED outbox

(***************************************************************************)
(* A topic exchange puts the message in the queue bound to it, or drops    *)
(* it: the publish is not mandatory and is confirmed all the same.         *)
(***************************************************************************)
Route(e) ==
  /\ "exchange" \in topology
  /\ IF "queue" \in topology
       THEN queue' = [queue EXCEPT ![e] = @ + 1] /\ UNCHANGED unrouted
       ELSE unrouted' = unrouted \cup {e} /\ UNCHANGED queue
  /\ UNCHANGED <<topology, dead>>

\* Mutation of Publish: the row counts as published whatever happens to it.
PublishUnchecked(r) ==
  /\ relay[r].at = "publish"
  /\ relay' = [relay EXCEPT ![r].at = "mark"]
  /\ Route(Row(r)) \/ UNCHANGED brokerVars
  /\ UNCHANGED outbox

(***************************************************************************)
(* publishOrderPlaced: the publish is confirmed, or it fails because there *)
(* is no exchange, which rolls the whole batch back.                       *)
(***************************************************************************)
Publish(r) ==
  /\ relay[r].at = "publish"
  /\ \/ /\ Route(Row(r))
        /\ relay' = [relay EXCEPT ![r].at = "mark"]
        /\ UNCHANGED outbox
     \/ /\ "exchange" \notin topology
        /\ Rollback(r)
        /\ UNCHANGED brokerVars

MarkPublished(r) ==
  LET left == relay[r].left \ {Row(r)} IN
  /\ relay[r].at = "mark"
  /\ relay' = [relay EXCEPT ![r].left = left, ![r].at = IF left = {} THEN "commit" ELSE "publish"]
  /\ UNCHANGED <<outbox, brokerVars>>

CommitBatch(r) ==
  /\ relay[r].at = "commit"
  /\ outbox' = [e \in Events |->
                  IF e \in relay[r].batch THEN "published" ELSE outbox[e]]
  /\ relay' = [relay EXCEPT ![r] = Idle]
  /\ UNCHANGED brokerVars

RelayStep(r) ==
  /\ Publish(r) \/ MarkPublished(r) \/ CommitBatch(r)
  /\ UNCHANGED <<consumerVars, faults>>

(***************************************************************************)
(* A query fails, the process dies, or the broker's confirm does not       *)
(* arrive: all rows of the batch stay pending, those sent included.        *)
(***************************************************************************)
RelayFails(r) ==
  /\ relay[r].at # "idle"
  /\ Rollback(r)
  /\ \/ UNCHANGED brokerVars
     \/ relay[r].at = "publish" /\ Route(Row(r))
  /\ UNCHANGED consumerVars

-----------------------------------------------------------------------------
(***************************************************************************)
(* The order of assertOrderPlacedTopology: the exchanges, the dead-letter  *)
(* queue with its binding, the queue with its binding.                     *)
(***************************************************************************)
AssertOrder == <<"exchange", "dlq", "queue">>

StartConsumer(c) ==
  /\ process[c] # "up"
  /\ \A s \in SlotsOf(c) : handler[s] = Free
  /\ process' = [process EXCEPT ![c] = "up"]
  /\ asserted' = [asserted EXCEPT ![c] = 0]
  /\ UNCHANGED <<outbox, relay, brokerVars, handler, processed, effects, applied, faults>>

AssertTopology(c) ==
  /\ process[c] = "up"
  /\ asserted[c] < Len(AssertOrder)
  /\ asserted' = [asserted EXCEPT ![c] = @ + 1]
  /\ topology' = topology \cup {AssertOrder[asserted[c] + 1]}
  /\ UNCHANGED <<outbox, relay, queue, dead, unrouted, process, handler, processed, effects, applied>>

Consuming(c) ==
  /\ process[c] = "up"
  /\ asserted[c] = Len(AssertOrder)
  /\ "queue" \in topology

Deliver(s, e) ==
  /\ Consuming(s[1])
  /\ handler[s] = Free
  /\ queue[e] > 0
  /\ queue' = [queue EXCEPT ![e] = @ - 1]
  /\ handler' = [handler EXCEPT ![s] = [at |-> "marker", event |-> e, live |-> TRUE]]
  /\ UNCHANGED <<outbox, relay, topology, dead, unrouted, process, asserted, processed, effects, applied>>

(***************************************************************************)
(* An uncommitted marker of the event by another handler's transaction.    *)
(***************************************************************************)
MarkerHeld(e) == \E s \in Slots : handler[s].at \in {"effect", "commit"} /\ handler[s].event = e

HandlerStep(s, label) ==
  /\ handler' = [handler EXCEPT ![s].at = label]
  /\ UNCHANGED <<outbox, relay, brokerVars, process, asserted>>

\* Mutation of InsertMarker: it does not wait for an uncommitted marker.
InsertMarkerUnchecked(s) ==
  /\ handler[s].at = "marker"
  /\ HandlerStep(s, IF handler[s].event \in processed THEN "ack" ELSE "effect")
  /\ UNCHANGED <<processed, effects, applied>>

(***************************************************************************)
(* INSERT INTO processed_messages ... ON CONFLICT DO NOTHING: waits for an *)
(* uncommitted marker; a committed one makes the event 'skipped'.          *)
(***************************************************************************)
InsertMarker(s) ==
  LET e == handler[s].event IN
  /\ handler[s].at = "marker"
  /\ ~MarkerHeld(e)
  /\ HandlerStep(s, IF e \in processed THEN "ack" ELSE "effect")
  /\ UNCHANGED <<processed, effects, applied>>

InsertEffect(s) ==
  /\ handler[s].at = "effect"
  /\ HandlerStep(s, "commit")
  /\ UNCHANGED <<processed, effects, applied>>

StoreEffect(e) ==
  /\ processed' = processed \cup {e}
  /\ effects' = effects \cup {e}

(***************************************************************************)
(* commitTransaction, then 'applied' goes to stats and to onMessage.       *)
(***************************************************************************)
CommitEffect(s) ==
  LET e == handler[s].event IN
  /\ handler[s].at = "commit"
  /\ StoreEffect(e)
  /\ applied' = [applied EXCEPT ![e] = @ + 1]
  /\ HandlerStep(s, "ack")

(***************************************************************************)
(* The end of a process: its transactions are rolled back, its connection  *)
(* is closed and the broker takes back what it had not acknowledged.       *)
(***************************************************************************)
Requeue(c) ==
  queue' = [e \in Events |-> queue[e] + Cardinality(Unacked(e) \cap SlotsOf(c))]

Kill(c) ==
  /\ process' = [process EXCEPT ![c] = "down"]
  /\ handler' = [s \in Slots |-> IF s[1] = c THEN Free ELSE handler[s]]
  /\ asserted' = [asserted EXCEPT ![c] = 0]
  /\ Requeue(c)
  /\ UNCHANGED <<outbox, relay, topology, dead, unrouted, processed, effects, applied>>

(***************************************************************************)
(* nack(message, false, false): the broker sends the copy to the           *)
(* dead-letter queue. There must be one.                                   *)
(***************************************************************************)
DeadLetter(e) == IF "dlq" \in topology THEN dead \cup {e} ELSE dead

(***************************************************************************)
(* channel.ack or channel.nack: the slot is free. On a closed channel both *)
(* throw, the nack in the catch block too, and Node ends the process.      *)
(***************************************************************************)
Settle(s, deadLetters) ==
  IF handler[s].live
    THEN /\ handler' = [handler EXCEPT ![s] = Free]
         /\ dead' = deadLetters
         /\ UNCHANGED <<outbox, relay, topology, queue, unrouted, process, asserted, processed,
                        effects, applied>>
    ELSE Kill(s[1])

Ack(s) ==
  /\ handler[s].at = "ack"
  /\ Settle(s, dead)

\* Mutation of Nack: the catch block does not settle the message.
LeaveUnsettled(s) ==
  /\ HandlerStep(s, "failed")
  /\ UNCHANGED <<processed, effects, applied>>

Nack(s) == Settle(s, DeadLetter(handler[s].event))

Handle(s) ==
  /\ InsertMarker(s) \/ InsertEffect(s) \/ CommitEffect(s) \/ Ack(s)
  /\ UNCHANGED faults

(***************************************************************************)
(* A query fails before the commit, the callback throws after it, or       *)
(* at "failed" the commit came back as an error: the catch block nacks.    *)
(***************************************************************************)
HandlerFails(s) ==
  /\ handler[s].at \in {"marker", "effect", "commit", "ack"}
  /\ Nack(s)

CommitUnacknowledged(s) ==
  /\ handler[s].at = "commit"
  /\ StoreEffect(handler[s].event)
  /\ HandlerStep(s, "failed")
  /\ UNCHANGED applied

NackFailed(s) ==
  /\ handler[s].at = "failed"
  /\ Nack(s)
  /\ UNCHANGED faults

(***************************************************************************)
(* The broker closes the connection: it takes the copies back, while the   *)
(* handlers go on. broker.ts does not connect again.                       *)
(***************************************************************************)
CutConnection(c) ==
  /\ process[c] = "up"
  /\ process' = [process EXCEPT ![c] = "cut"]
  /\ handler' = [s \in Slots |-> IF s[1] = c THEN [handler[s] EXCEPT !.live = FALSE] ELSE handler[s]]
  /\ Requeue(c)
  /\ UNCHANGED <<outbox, relay, topology, dead, unrouted, asserted, processed, effects, applied>>

CrashConsumer(c) == process[c] # "down" /\ Kill(c)

ConsumerStep(c) ==
  /\ \/ AssertTopology(c)
     \/ \E s \in SlotsOf(c), e \in Events : Deliver(s, e)
  /\ UNCHANGED faults

Fault ==
  /\ faults < MaxFaults
  /\ faults' = faults + 1
  /\ \/ \E r \in Relays : RelayFails(r)
     \/ \E s \in Slots : HandlerFails(s) \/ CommitUnacknowledged(s)
     \/ \E c \in Consumers : CutConnection(c) \/ CrashConsumer(c)

Next ==
  \/ \E e \in Events : CommitOrder(e)
  \/ \E r \in Relays : SelectRows(r) \/ RelayStep(r)
  \/ \E c \in Consumers : StartConsumer(c) \/ ConsumerStep(c)
  \/ \E s \in Slots : Handle(s) \/ NackFailed(s)
  \/ Fault

(***************************************************************************)
(* Started work goes on. Nothing in the code runs the relay again or       *)
(* starts a consumer: see Operated.                                        *)
(***************************************************************************)
Fairness ==
  /\ \A r \in Relays : WF_vars(RelayStep(r))
  /\ \A c \in Consumers : WF_vars(ConsumerStep(c))
  /\ \A s \in Slots : WF_vars(Handle(s) \/ NackFailed(s))

Spec == Init /\ [][Next]_vars /\ Fairness

-----------------------------------------------------------------------------
(***************************************************************************)
(* However often an event is published and delivered, at most one handler  *)
(* reports it as applied. The marker that makes a later copy 'skipped' is  *)
(* there exactly when the effect is.                                       *)
(***************************************************************************)
AppliedAtMostOnce ==
  /\ processed = effects
  /\ \A e \in Events : applied[e] <= 1 /\ (applied[e] = 1 => e \in effects)

(***************************************************************************)
(* An event whose row says published has its effect, or a copy on its way, *)
(* or one in the dead-letter queue, unless it was published before the     *)
(* queue was bound.                                                        *)
(***************************************************************************)
PublishedAccountedFor ==
  \A e \in Events : outbox[e] = "published" =>
    e \in effects \cup dead \cup unrouted \/ Copies(e) > 0

(***************************************************************************)
(* What an operator has to see to: relays are run again and again, and     *)
(* from some time on a consumer with an open channel is there.             *)
(***************************************************************************)
Operated ==
  /\ []<>(\E r \in Relays : relay[r].at # "idle")
  /\ <>[](\E c \in Consumers : Consuming(c))

(***************************************************************************)
(* Then every committed order's event is published, and handled or         *)
(* dead-lettered, unless it was published before the queue was bound.      *)
(***************************************************************************)
EveryEventSettled ==
  Operated => \A e \in Events :
    outbox[e] = "pending" ~> outbox[e] = "published" /\ e \in effects \cup dead \cup unrouted

(***************************************************************************)
(* README.md:149: delivery is at least once. Before a first consumer has   *)
(* bound the queue, a published event reaches no queue.                    *)
(***************************************************************************)
PublishedIsDelivered ==
  \A e \in Events : outbox[e] = "published" => e \in effects \cup dead \/ Copies(e) > 0

=============================================================================
