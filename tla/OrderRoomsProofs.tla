-------------------------- MODULE OrderRoomsProofs --------------------------
(***************************************************************************)
(* Proofs about OrderStream and OrderRooms, for any number of orders,      *)
(* updates, clients and sockets, buffers of any size and any number of     *)
(* restarts of the process.                                                *)
(***************************************************************************)
EXTENDS OrderRooms, SequenceTheorems, WellFoundedInduction, TLAPS

Calls ==
  [at : {"idle", "emit", "done"}, order : Orders \cup {0}, status : Statuses]

Events == [id : Nat, order : Orders, status : Statuses]

StreamTypes ==
  /\ status \in [Orders -> Statuses]
  /\ update \in [Updates -> Calls]
  /\ \A u \in Updates : update[u].at = "emit" => update[u].order \in Orders
  /\ buffers \in [Orders -> Seq(Events)]
  /\ emitted \in Seq(Orders)
  /\ nextEventId = Len(emitted) + 1

(***************************************************************************)
(* An order that is not disturbed has at most one update on its way, and   *)
(* that one brings the status of its row.                                  *)
(***************************************************************************)
OneUpdateOnItsWay ==
  \A o \in Orders \ disturbed : \A u \in Announcing(o) :
    /\ update[u].status = status[o]
    /\ \A v \in Announcing(o) : v = u

StreamInv == StreamTypes /\ OneUpdateOnItsWay /\ SettledStatusIsAnnounced

ConnectionRecords ==
  [client : Clients \cup {NoClient}, at : {"unused", "find", "subscribed", "closed"},
   after : Nat, live : BOOLEAN, gone : BOOLEAN]

ClientTypes ==
  /\ connection \in [Connections -> ConnectionRecords]
  /\ \A n \in Connections :
       /\ connection[n].live => connection[n].at \in {"find", "subscribed"}
       /\ connection[n].at \in {"find", "subscribed"} => connection[n].client \in Clients
  /\ received \in [Clients -> Seq(Nat)] /\ lastId \in [Clients -> Nat]

OneLiveConnection ==
  \A n, k \in Connections :
    connection[n].live /\ connection[k].live /\ connection[n].client = connection[k].client => n = k

AsksAfterTheLast ==
  \A n \in Connections :
    connection[n].live /\ connection[n].at = "find" =>
      connection[n].after = lastId[connection[n].client]

Ascending(events) == \A j, k \in DOMAIN events : j < k => events[j].id < events[k].id

BuffersAscend ==
  \A o \in Orders :
    /\ Ascending(buffers[o])
    /\ \A k \in DOMAIN buffers[o] :
         buffers[o][k].id \in DOMAIN emitted /\ emitted[buffers[o][k].id] = o

ReceivedInOrder ==
  \A c \in Clients :
    /\ \A i, j \in DOMAIN received[c] : i < j => received[c][i] < received[c][j]
    /\ \A i \in DOMAIN received[c] : received[c][i] <= lastId[c]

ReceivedAreEmitted ==
  \A c \in Clients : \A i \in ToSet(received[c]) : i \in DOMAIN emitted /\ emitted[i] = Watched[c]

(***************************************************************************)
(* Up to its Last-Event-ID a client has all that is buffered for it.       *)
(***************************************************************************)
KnownUpToTheLast ==
  \A c \in Clients \ stale :
    /\ lastId[c] <= Len(emitted)
    /\ \A e \in ToSet(buffers[Watched[c]]) : e.id <= lastId[c] => e.id \in ToSet(received[c])

ClientInv ==
  /\ StreamInv /\ ClientTypes /\ OneLiveConnection /\ AsksAfterTheLast /\ BuffersAscend
  /\ ReceivedInOrder /\ ReceivedAreEmitted /\ KnownUpToTheLast /\ CaughtUp

RoomTypes ==
  /\ rooms \in [Sockets -> SUBSET Orders]
  /\ since \in [Sockets -> [Orders -> Nat]]
  /\ heard \in [Sockets -> Seq(Nat)]

RoomsOfTheUser == \A s \in Sockets : \A o \in rooms[s] : Owner[o] = Reader[s]

HeardIsEmitted == \A s \in Sockets : \A k \in DOMAIN heard[s] : heard[s][k] \in DOMAIN emitted

RoomsInv ==
  StreamInv /\ RoomTypes /\ RoomsOfTheUser /\ HeardIsEmitted /\ RoomsHearTheirOrders

-----------------------------------------------------------------------------
(***************************************************************************)
(* The records of a call of updateStatus that has not begun or has ended.  *)
(***************************************************************************)
LEMMA EndedCalls ==
  Waiting \in Calls /\ Waiting.at = "idle" /\ Done \in Calls /\ Done.at = "done"
<1>1. Created \in Statuses
  BY StreamAssumption
<1>2. Waiting \in Calls /\ Waiting.at = "idle"
  BY <1>1 DEF Waiting, Calls
<1>3. Done = [at |-> "done", order |-> 0, status |-> Created]
  BY DEF Done, Waiting
<1> QED
  BY <1>1, <1>2, <1>3 DEF Calls

(***************************************************************************)
(* buffer.push(event), and the splice that keeps the buffer at its limit:  *)
(* the last event of the buffer is the one just pushed.                    *)
(***************************************************************************)
LEMMA TrimmedKeepsTheLast ==
  ASSUME NEW buffer \in Seq(Events), NEW event \in Events
  PROVE  /\ Trimmed(Append(buffer, event)) \in Seq(Events)
         /\ Trimmed(Append(buffer, event)) # <<>>
         /\ Last(Trimmed(Append(buffer, event))) = event
<1> DEFINE longer == Append(buffer, event)
<1>1. /\ longer \in Seq(Events) /\ Len(longer) = Len(buffer) + 1 /\ Len(longer) \in Nat
      /\ longer[Len(longer)] = event /\ longer # <<>>
  BY LenProperties
<1> HIDE DEF longer
<1>2. MaxBuffered \in Nat /\ MaxBuffered > 0
  BY StreamAssumption
<1>3. ASSUME Len(longer) > MaxBuffered
      PROVE  Trimmed(longer) \in Seq(Events) /\ Trimmed(longer) # <<>> /\ Last(Trimmed(longer)) = event
  <2> DEFINE kept == SubSeq(longer, Len(longer) - MaxBuffered + 1, Len(longer))
  <2>1. /\ kept \in Seq(Events) /\ Len(kept) = MaxBuffered
        /\ kept[MaxBuffered] = longer[Len(longer)]
    BY <1>1, <1>2, <1>3, SubSeqProperties
  <2>2. Trimmed(longer) = kept
    BY <1>3 DEF Trimmed
  <2> HIDE DEF kept
  <2> QED
    BY <1>2, <1>1, <2>1, <2>2 DEF Last
<1>4. ASSUME ~(Len(longer) > MaxBuffered)
      PROVE  Trimmed(longer) \in Seq(Events) /\ Trimmed(longer) # <<>> /\ Last(Trimmed(longer)) = event
  BY <1>1, <1>4 DEF Trimmed, Last
<1>5. Trimmed(longer) \in Seq(Events) /\ Trimmed(longer) # <<>> /\ Last(Trimmed(longer)) = event
  BY <1>3, <1>4
<1> QED
  BY <1>5 DEF longer

-----------------------------------------------------------------------------
(***************************************************************************)
(* No order has been updated, and no event emitted, at the start.          *)
(***************************************************************************)
LEMMA StreamInit == Init => StreamInv
<1> SUFFICES ASSUME Init PROVE StreamInv
  OBVIOUS
<1>1. status \in [Orders -> Statuses]
  BY StreamAssumption DEF Init
<1>2. update \in [Updates -> Calls] /\ \A u \in Updates : update[u].at = "idle"
  BY EndedCalls DEF Init
<1>3. /\ buffers \in [Orders -> Seq(Events)] /\ \A o \in Orders : buffers[o] = <<>>
      /\ emitted = <<>> /\ nextEventId = 1 /\ emitted \in Seq(Orders) /\ Len(emitted) = 0
  BY DEF Init
<1>4. StreamTypes
  BY <1>1, <1>2, <1>3 DEF StreamTypes
<1>5. \A o \in Orders : Announcing(o) = {}
  BY <1>2 DEF Announcing
<1> QED
  BY <1>3, <1>4, <1>5 DEF StreamInv, OneUpdateOnItsWay, SettledStatusIsAnnounced

(***************************************************************************)
(* A step that changes none of these variables keeps the invariant of the  *)
(* stream: Open, Stream, Refuse, Disconnect and Close change clients only. *)
(***************************************************************************)
LEMMA StreamKept ==
  ASSUME StreamInv, UNCHANGED <<status, update, nextEventId, buffers, emitted, disturbed>>
  PROVE  StreamInv'
BY DEF StreamInv, StreamTypes, OneUpdateOnItsWay, SettledStatusIsAnnounced, Announcing

(***************************************************************************)
(* The commit of a status: the order is disturbed unless this is the only  *)
(* update of it whose event is still to come.                              *)
(***************************************************************************)
LEMMA CommitStatusInv ==
  ASSUME StreamInv, NEW u \in Updates, NEW o \in Orders, NEW s \in Statuses, CommitStatus(u, o, s)
  PROVE  StreamInv'
<1>1. /\ update' \in [Updates -> Calls] /\ \A v \in Updates \ {u} : update'[v] = update[v]
      /\ update'[u].at = "emit" /\ update'[u].order = o /\ update'[u].status = s
  BY DEF CommitStatus, RowReturned, StreamInv, StreamTypes, Calls
<1>2. /\ status' \in [Orders -> Statuses] /\ status'[o] = s
      /\ \A p \in Orders \ {o} : status'[p] = status[p]
  BY DEF CommitStatus, StreamInv, StreamTypes
<1>3. UNCHANGED <<nextEventId, buffers, emitted>> /\ update[u].at = "idle"
  BY DEF CommitStatus, memoryVars
<1>4. StreamTypes'
  BY <1>1, <1>2, <1>3 DEF StreamInv, StreamTypes
<1>5. Announcing(o)' = Announcing(o) \cup {u}
  BY <1>1, <1>3 DEF Announcing
<1>6. \A p \in Orders \ {o} : Announcing(p)' = Announcing(p)
  BY <1>1, <1>3 DEF Announcing
<1>7. disturbed' = IF Announcing(o) # {} THEN disturbed \cup {o} ELSE disturbed \ {o}
  BY DEF CommitStatus
<1>8. OneUpdateOnItsWay'
  <2> SUFFICES ASSUME NEW p \in Orders, p \notin disturbed', NEW v \in Updates, v \in Announcing(p)'
               PROVE  update'[v].status = status'[p] /\ \A w \in Announcing(p)' : w = v
    BY DEF OneUpdateOnItsWay, Announcing
  <2>1. CASE p = o
    <3>1. Announcing(o)' = {u} /\ v = u
      BY <1>5, <1>7, <2>1
    <3> QED
      BY <1>1, <1>2, <2>1, <3>1
  <2>2. CASE p # o
    <3>1. p \in Orders \ disturbed /\ v \in Announcing(p) /\ v # u
      BY <1>3, <1>6, <1>7, <2>2 DEF Announcing
    <3> QED
      BY <1>1, <1>2, <1>6, <2>2, <3>1 DEF StreamInv, OneUpdateOnItsWay
  <2> QED
    BY <2>1, <2>2
<1>9. SettledStatusIsAnnounced'
  <2> SUFFICES ASSUME NEW p \in Orders, p \notin disturbed', buffers'[p] # <<>>, Announcing(p)' = {}
               PROVE  Last(buffers'[p]).status = status'[p]
    BY DEF SettledStatusIsAnnounced
  <2>1. p # o
    BY <1>5
  <2> QED
    BY <1>2, <1>3, <1>6, <1>7, <2>1 DEF StreamInv, SettledStatusIsAnnounced
<1> QED
  BY <1>4, <1>8, <1>9 DEF StreamInv

(***************************************************************************)
(* A call that ends without an event: its order is disturbed.              *)
(***************************************************************************)
LEMMA LoseAnswerInv ==
  ASSUME StreamInv, NEW u \in Updates, LoseAnswer(u)
  PROVE  StreamInv'
<1>1. /\ update' \in [Updates -> Calls] /\ \A v \in Updates \ {u} : update'[v] = update[v]
      /\ update'[u].at = "done"
  BY EndedCalls DEF LoseAnswer, StreamInv, StreamTypes
<1>2. /\ UNCHANGED <<status, nextEventId, buffers, emitted>>
      /\ disturbed' = disturbed \cup {update[u].order} /\ update[u].at = "emit"
  BY DEF LoseAnswer, memoryVars
<1>3. StreamTypes'
  BY <1>1, <1>2 DEF StreamInv, StreamTypes
<1>4. \A p \in Orders \ disturbed' : Announcing(p)' = Announcing(p)
  BY <1>1, <1>2 DEF Announcing
<1>5. OneUpdateOnItsWay'
  <2> SUFFICES ASSUME NEW p \in Orders \ disturbed', NEW v \in Announcing(p)
               PROVE  update'[v].status = status'[p] /\ \A w \in Announcing(p) : w = v
    BY <1>4 DEF OneUpdateOnItsWay
  <2>1. p \notin disturbed /\ v # u /\ v \in Updates
    BY <1>2 DEF Announcing
  <2> QED
    BY <1>1, <1>2, <2>1 DEF StreamInv, OneUpdateOnItsWay
<1>6. SettledStatusIsAnnounced'
  BY <1>2, <1>4 DEF StreamInv, SettledStatusIsAnnounced
<1> QED
  BY <1>3, <1>5, <1>6 DEF StreamInv

(***************************************************************************)
(* emitStatusChanged: the event tells the status its call committed.       *)
(***************************************************************************)
LEMMA EmitInv ==
  ASSUME StreamInv, NEW u \in Updates, Emit(u)
  PROVE  StreamInv'
<1> DEFINE o == update[u].order
           event == [id |-> nextEventId, order |-> o, status |-> update[u].status]
<1>1. /\ o \in Orders /\ update[u].status \in Statuses /\ nextEventId = Len(emitted) + 1
      /\ emitted \in Seq(Orders) /\ nextEventId \in Nat /\ update[u].at = "emit"
  BY DEF Emit, StreamInv, StreamTypes, Calls
<1>2. event \in Events /\ event.status = update[u].status
  BY <1>1 DEF Events
<1>3. /\ update' \in [Updates -> Calls] /\ \A v \in Updates \ {u} : update'[v] = update[v]
      /\ update'[u].at = "done"
  BY EndedCalls DEF Emit, StreamInv, StreamTypes
<1>4. /\ UNCHANGED <<status, disturbed>> /\ nextEventId' = nextEventId + 1
      /\ emitted' = Append(emitted, o)
      /\ buffers' = [buffers EXCEPT ![o] = Trimmed(Append(@, event))]
  BY DEF Emit
<1>5. emitted' \in Seq(Orders) /\ Len(emitted') = Len(emitted) + 1
  BY <1>1, <1>4
<1>6. buffers \in [Orders -> Seq(Events)] /\ buffers[o] \in Seq(Events)
  BY <1>1 DEF StreamInv, StreamTypes
<1> HIDE DEF event
<1>7. /\ Trimmed(Append(buffers[o], event)) \in Seq(Events)
      /\ Last(Trimmed(Append(buffers[o], event))) = event
  BY <1>2, <1>6, TrimmedKeepsTheLast
<1>8. /\ buffers' \in [Orders -> Seq(Events)] /\ Last(buffers'[o]) = event
      /\ \A p \in Orders \ {o} : buffers'[p] = buffers[p]
  BY <1>1, <1>4, <1>6, <1>7
<1>9. StreamTypes'
  BY <1>1, <1>3, <1>4, <1>5, <1>8 DEF StreamInv, StreamTypes
<1>10. \A p \in Orders : Announcing(p)' = Announcing(p) \ {u}
  BY <1>3 DEF Announcing
<1>11. \A p \in Orders \ {o} : Announcing(p)' = Announcing(p)
  BY <1>3 DEF Announcing
<1>12. u \in Announcing(o)
  BY <1>1 DEF Announcing
<1>13. OneUpdateOnItsWay'
  <2> SUFFICES ASSUME NEW p \in Orders \ disturbed, NEW v \in Announcing(p) \ {u}
               PROVE  update'[v].status = status'[p] /\ \A w \in Announcing(p) \ {u} : w = v
    BY <1>4, <1>10 DEF OneUpdateOnItsWay
  <2>1. v \in Updates
    BY DEF Announcing
  <2> QED
    BY <1>3, <1>4, <2>1 DEF StreamInv, OneUpdateOnItsWay
<1>14. SettledStatusIsAnnounced'
  <2> SUFFICES ASSUME NEW p \in Orders \ disturbed, buffers'[p] # <<>>, Announcing(p)' = {}
               PROVE  Last(buffers'[p]).status = status[p]
    BY <1>4 DEF SettledStatusIsAnnounced
  <2>1. CASE p = o
    BY <1>2, <1>8, <1>12, <2>1 DEF StreamInv, OneUpdateOnItsWay
  <2>2. CASE p # o
    BY <1>8, <1>11, <2>2 DEF StreamInv, SettledStatusIsAnnounced
  <2> QED
    BY <2>1, <2>2
<1> QED
  BY <1>9, <1>13, <1>14 DEF StreamInv

(***************************************************************************)
(* A process that has just started has no event and no update on its way.  *)
(***************************************************************************)
LEMMA RestartInv ==
  ASSUME StreamInv, Restart
  PROVE  StreamInv'
<1>1. update' \in [Updates -> Calls] /\ \A u \in Updates : update'[u].at # "emit"
  BY EndedCalls DEF Restart, StreamInv, StreamTypes
<1>2. /\ UNCHANGED status /\ nextEventId' = 1 /\ emitted' = <<>>
      /\ \A o \in Orders : buffers'[o] = <<>>
      /\ buffers' \in [Orders -> Seq(Events)] /\ emitted' \in Seq(Orders) /\ Len(emitted') = 0
  BY DEF Restart
<1>3. \A o \in Orders : Announcing(o)' = {}
  BY <1>1 DEF Announcing
<1>4. StreamTypes'
  BY <1>1, <1>2 DEF StreamInv, StreamTypes
<1> QED
  BY <1>2, <1>3, <1>4 DEF StreamInv, OneUpdateOnItsWay, SettledStatusIsAnnounced

(***************************************************************************)
(* Every step of the stream keeps its invariant.                           *)
(***************************************************************************)
LEMMA QuietInv == ASSUME StreamInv, QuietStep PROVE StreamInv'
<1>1. ASSUME NEW n \in Connections, Stream(n) \/ Refuse(n) \/ Disconnect(n) \/ Close(n)
      PROVE  StreamInv'
  BY <1>1, StreamKept DEF Stream, Refuse, Disconnect, Close, memoryVars
<1>2. ASSUME NEW n \in Connections, NEW c \in Clients, Open(n, c) PROVE StreamInv'
  BY <1>2, StreamKept DEF Open, memoryVars
<1> QED
  BY <1>1, <1>2, CommitStatusInv, LoseAnswerInv DEF QuietStep

(***************************************************************************)
(* When no update of an order is on its way, the last event of the order   *)
(* tells the status of its row, unless updates overlapped.                 *)
(***************************************************************************)
THEOREM StatusIsAnnounced == Spec => []SettledStatusIsAnnounced
<1>1. StreamInv /\ [Next]_vars => StreamInv'
  <2> SUFFICES ASSUME StreamInv, [Next]_vars PROVE StreamInv'
    OBVIOUS
  <2>1. CASE UNCHANGED vars
    BY <2>1, StreamKept DEF vars, memoryVars
  <2> QED
    BY <2>1, QuietInv, EmitInv, RestartInv DEF Next
<1>2. StreamInv => SettledStatusIsAnnounced
  BY DEF StreamInv
<1> QED
  BY <1>1, <1>2, StreamInit, PTL DEF Spec

-----------------------------------------------------------------------------
(***************************************************************************)
(* A set of natural numbers that is not empty has a least element.         *)
(***************************************************************************)
LEMMA LeastOfNaturals ==
  ASSUME NEW S \in SUBSET Nat, S # {}
  PROVE  Min(S) \in S /\ \A y \in S : Min(S) <= y
<1>1. PICK x \in S : \A y \in S : ~ (<<y, x>> \in OpToRel(<, Nat))
  BY NatLessThanWellFounded, WFMin
<1>2. ASSUME NEW y \in S PROVE x <= y
  <2>1. <<y, x>> \in Nat \X Nat /\ <<y, x>>[1] = y /\ <<y, x>>[2] = x
    OBVIOUS
  <2>2. y < x => <<y, x>> \in OpToRel(<, Nat)
    BY <2>1 DEF OpToRel
  <2>3. ~ (y < x)
    BY <1>1, <2>2, Zenon
  <2> QED
    BY <2>3
<1> QED
  BY <1>2 DEF Min

(***************************************************************************)
(* buffer.push(event), and the splice: an event beyond all of an ascending *)
(* buffer goes to its end, and nothing comes in from elsewhere.            *)
(***************************************************************************)
LEMMA TrimmedAscends ==
  ASSUME NEW buffer \in Seq(Events), Ascending(buffer), NEW event \in Events,
         \A k \in DOMAIN buffer : buffer[k].id < event.id
  PROVE  LET after == Trimmed(Append(buffer, event)) IN
         /\ Ascending(after)
         /\ \A e \in ToSet(after) : e \in ToSet(buffer) \/ e = event
<1>1. PICK l \in Nat : l = Len(buffer)
  BY LenProperties
<1>2. PICK longer : longer = Append(buffer, event)
  OBVIOUS
<1>3. /\ longer \in Seq(Events) /\ Len(longer) = l + 1 /\ DOMAIN longer = 1..(l + 1)
      /\ DOMAIN buffer = 1..l
      /\ longer[l + 1] = event /\ \A k \in 1..l : longer[k] = buffer[k]
  BY <1>1, <1>2, AppendProperties
<1>4. \A k \in 1..(l + 1) : longer[k] \in Events /\ longer[k].id \in Nat
  <2>1. \A k \in 1..(l + 1) : longer[k] \in Events
    BY <1>3, ElementOfSeq
  <2> QED
    BY <2>1 DEF Events
<1>5. ASSUME NEW j \in 1..(l + 1), NEW k \in 1..(l + 1), j < k
      PROVE  longer[j].id < longer[k].id
  <2>1. j \in 1..l /\ (k \in 1..l \/ k = l + 1)
    BY <1>1, <1>5
  <2> QED
    BY <1>3, <1>5, <2>1 DEF Ascending
<1>6. PICK m \in Nat : m = MaxBuffered
  BY StreamAssumption
<1>7. PICK after : after = Trimmed(longer)
  OBVIOUS
<1>8. \E d \in Nat : /\ DOMAIN after = 1..(l + 1 - d)
                     /\ \A k \in 1..(l + 1 - d) : after[k] = longer[k + d] /\ k + d \in 1..(l + 1)
  <2>1. CASE l + 1 > m
    <3>1. after = SubSeq(longer, l + 1 - m + 1, l + 1)
      <4>1. Trimmed(longer) = SubSeq(longer, Len(longer) - MaxBuffered + 1, Len(longer))
        BY <1>3, <1>6, <2>1 DEF Trimmed
      <4> QED
        BY <1>3, <1>6, <1>7, <4>1
    <3>2. /\ after \in Seq(Events) /\ Len(after) = m
          /\ \A k \in 1..m : after[k] = longer[(l + 1 - m + 1) + k - 1]
      BY <1>1, <1>4, <1>6, <2>1, <3>1, SubSeqProperties
    <3>3. l + 1 - m \in Nat /\ l + 1 - (l + 1 - m) = m /\ DOMAIN after = 1..m
      BY <1>1, <1>6, <2>1, <3>2
    <3>4. \A k \in 1..m : after[k] = longer[k + (l + 1 - m)] /\ k + (l + 1 - m) \in 1..(l + 1)
      BY <1>1, <1>6, <2>1, <3>2
    <3> QED
      BY <3>3, <3>4
  <2>2. CASE ~(l + 1 > m)
    <3>1. after = longer
      BY <1>3, <1>6, <1>7, <2>2 DEF Trimmed
    <3>2. 0 \in Nat /\ l + 1 - 0 = l + 1 /\ \A k \in 1..(l + 1) : k + 0 = k
      BY <1>1
    <3> QED
      BY <1>3, <3>1, <3>2
  <2> QED
    BY <2>1, <2>2
<1>9. PICK d \in Nat : /\ DOMAIN after = 1..(l + 1 - d)
                       /\ \A k \in 1..(l + 1 - d) : after[k] = longer[k + d] /\ k + d \in 1..(l + 1)
  BY <1>8
<1>10. Ascending(after)
  <2> SUFFICES ASSUME NEW j \in DOMAIN after, NEW k \in DOMAIN after, j < k
               PROVE  after[j].id < after[k].id
    BY DEF Ascending
  <2>1. j + d < k + d
    BY <1>1, <1>9
  <2> QED
    BY <1>5, <1>9, <2>1
<1>11. ASSUME NEW e \in ToSet(after) PROVE e \in ToSet(buffer) \/ e = event
  <2>1. PICK k \in DOMAIN after : e = after[k]
    BY DEF ToSet
  <2>2. e = longer[k + d] /\ k + d \in 1..(l + 1)
    BY <1>9, <2>1
  <2>3. CASE k + d = l + 1
    BY <1>3, <2>2, <2>3
  <2>4. CASE k + d # l + 1
    <3>1. k + d \in 1..l
      BY <1>1, <2>2, <2>4
    <3> QED
      BY <1>3, <2>2, <3>1 DEF ToSet
  <2> QED
    BY <2>3, <2>4
<1> QED
  BY <1>2, <1>7, <1>10, <1>11

(***************************************************************************)
(* getEventsAfter on an ascending buffer: exactly the events beyond id, in *)
(* the order of their ids.                                                 *)
(***************************************************************************)
LEMMA EventsAfterTheId ==
  ASSUME NEW buffer \in Seq(Events), Ascending(buffer), NEW id \in Nat
  PROVE  /\ EventsAfter(buffer, id) \in Seq(Events)
         /\ Ascending(EventsAfter(buffer, id))
         /\ ToSet(EventsAfter(buffer, id)) = {e \in ToSet(buffer) : e.id > id}
<1>1. PICK l \in Nat : l = Len(buffer)
  BY LenProperties
<1>2. /\ DOMAIN buffer = 1..l
      /\ \A k \in 1..l : buffer[k] \in Events /\ buffer[k].id \in Nat
  <2>1. DOMAIN buffer = 1..l /\ \A k \in 1..l : buffer[k] \in Events
    BY <1>1, ElementOfSeq
  <2> QED
    BY <2>1 DEF Events
<1>3. PICK later : later = {i \in DOMAIN buffer : buffer[i].id > id} \cup {l + 1}
  OBVIOUS
<1>4. later \in SUBSET Nat /\ later # {}
  BY <1>1, <1>2, <1>3
<1>5. PICK m : m = Min(later)
  OBVIOUS
<1>6. m \in later /\ \A i \in later : m <= i
  BY <1>4, <1>5, LeastOfNaturals
<1>7. m \in 1..(l + 1)
  BY <1>1, <1>2, <1>3, <1>6
<1>8. PICK after : after = EventsAfter(buffer, id)
  OBVIOUS
<1>9. after = SubSeq(buffer, m, l)
  BY <1>1, <1>3, <1>5, <1>8 DEF EventsAfter
<1>10. \A i \in m..l : buffer[i] \in Events
  BY <1>1, <1>2, <1>7
<1>11. /\ after \in Seq(Events) /\ Len(after) = IF m <= l THEN l - m + 1 ELSE 0
       /\ \A i \in 1..(l - m + 1) : after[i] = buffer[m + i - 1]
  BY <1>1, <1>7, <1>9, <1>10, SubSeqProperties
<1>12. Len(after) = l - m + 1
  BY <1>1, <1>7, <1>11
<1>13. /\ DOMAIN after = 1..(l - m + 1)
       /\ \A i \in 1..(l - m + 1) : after[i] = buffer[m + i - 1] /\ m + i - 1 \in m..l
  BY <1>1, <1>7, <1>11, <1>12
<1>14. Ascending(after)
  <2> SUFFICES ASSUME NEW j \in DOMAIN after, NEW k \in DOMAIN after, j < k
               PROVE  after[j].id < after[k].id
    BY DEF Ascending
  <2>1. m + j - 1 < m + k - 1 /\ m + j - 1 \in 1..l /\ m + k - 1 \in 1..l
    BY <1>1, <1>7, <1>13
  <2> QED
    BY <1>2, <1>13, <2>1 DEF Ascending
<1>15. \A i \in 1..l : buffer[i].id > id <=> i \in m..l
  <2> SUFFICES ASSUME NEW i \in 1..l PROVE buffer[i].id > id <=> i \in m..l
    OBVIOUS
  <2>1. ASSUME buffer[i].id > id PROVE i \in m..l
    <3>1. i \in later
      BY <1>2, <1>3, <2>1
    <3> QED
      BY <1>1, <1>6, <1>7, <3>1
  <2>2. ASSUME i \in m..l PROVE buffer[i].id > id
    <3>1. m \in 1..l /\ m # l + 1 /\ m <= i
      BY <1>1, <1>7, <2>2
    <3>2. buffer[m].id > id
      BY <1>3, <1>6, <3>1
    <3>3. m = i \/ buffer[m].id < buffer[i].id
      BY <1>2, <3>1 DEF Ascending
    <3> QED
      BY <1>2, <3>1, <3>2, <3>3
  <2> QED
    BY <2>1, <2>2
<1>16. ASSUME NEW e \in ToSet(after) PROVE e \in ToSet(buffer) /\ e.id > id
  <2>1. PICK i \in DOMAIN after : e = after[i]
    BY DEF ToSet
  <2>2. e = buffer[m + i - 1] /\ m + i - 1 \in m..l
    BY <1>13, <2>1
  <2>3. m + i - 1 \in 1..l
    BY <1>1, <1>7, <2>2
  <2> QED
    BY <1>2, <1>15, <2>2, <2>3 DEF ToSet
<1>17. ASSUME NEW e \in ToSet(buffer), e.id > id PROVE e \in ToSet(after)
  <2>1. PICK k \in DOMAIN buffer : e = buffer[k]
    BY DEF ToSet
  <2>2. k \in m..l
    BY <1>2, <1>15, <1>17, <2>1
  <2>3. k - m + 1 \in 1..(l - m + 1) /\ m + (k - m + 1) - 1 = k
    BY <1>1, <1>7, <2>2
  <2>4. after[k - m + 1] = buffer[k]
    BY <1>13, <2>3
  <2> QED
    BY <1>13, <2>1, <2>3, <2>4 DEF ToSet
<1> QED
  BY <1>8, <1>11, <1>14, <1>16, <1>17

(***************************************************************************)
(* The clients that events written to the connections ns reach.            *)
(***************************************************************************)
Reached(ns) == {connection[n].client : n \in {k \in ns : connection[k].live}}

(***************************************************************************)
(* The ids of some events, in the same order.                              *)
(***************************************************************************)
LEMMA IdsOfEvents ==
  ASSUME NEW events \in Seq(Events)
  PROVE  /\ IdsOf(events) \in Seq(Nat) /\ Len(IdsOf(events)) = Len(events)
         /\ \A k \in DOMAIN events : IdsOf(events)[k] = events[k].id /\ events[k].id \in Nat
<1>1. PICK l \in Nat : l = Len(events)
  BY LenProperties
<1>2. DOMAIN events = 1..l /\ \A k \in 1..l : events[k] \in Events
  BY <1>1, ElementOfSeq
<1>3. \A k \in 1..l : events[k].id \in Nat
  BY <1>2 DEF Events
<1>4. IdsOf(events) \in [1..l -> Nat] /\ \A k \in 1..l : IdsOf(events)[k] = events[k].id
  BY <1>2, <1>3 DEF IdsOf
<1>5. IdsOf(events) \in Seq(Nat)
  BY <1>4
<1>6. Len(IdsOf(events)) = l
  BY <1>1, <1>4, <1>5, LenProperties
<1> QED
  BY <1>1, <1>2, <1>3, <1>4, <1>5, <1>6

(***************************************************************************)
(* Ascending ids after ascending ids, all of them larger.                  *)
(***************************************************************************)
LEMMA LaterIdsGoLast ==
  ASSUME NEW ids \in Seq(Nat), NEW more \in Seq(Nat),
         \A j, k \in DOMAIN ids : j < k => ids[j] < ids[k],
         \A j, k \in DOMAIN more : j < k => more[j] < more[k],
         \A j \in DOMAIN ids : \A k \in DOMAIN more : ids[j] < more[k]
  PROVE  /\ ids \o more \in Seq(Nat)
         /\ \A j, k \in DOMAIN (ids \o more) : j < k => (ids \o more)[j] < (ids \o more)[k]
         /\ ToSet(ids \o more) = ToSet(ids) \cup ToSet(more)
<1>1. PICK l \in Nat : l = Len(ids)
  BY LenProperties
<1>2. PICK m \in Nat : m = Len(more)
  BY LenProperties
<1>3. PICK all : all = ids \o more
  OBVIOUS
<1>4. /\ all \in Seq(Nat) /\ Len(all) = l + m
      /\ \A i \in 1..(l + m) : all[i] = IF i <= l THEN ids[i] ELSE more[i - l]
  BY <1>1, <1>2, <1>3, ConcatProperties
<1>5. DOMAIN all = 1..(l + m) /\ DOMAIN ids = 1..l /\ DOMAIN more = 1..m
  BY <1>1, <1>2, <1>4
<1>6. \A i \in 1..(l + m) : \/ i \in 1..l /\ all[i] = ids[i]
                            \/ i - l \in 1..m /\ i > l /\ all[i] = more[i - l]
  BY <1>1, <1>2, <1>4
<1>7. ASSUME NEW j \in 1..(l + m), NEW k \in 1..(l + m), j < k PROVE all[j] < all[k]
  <2>1. CASE k \in 1..l /\ all[k] = ids[k]
    <3>1. j \in 1..l /\ all[j] = ids[j]
      BY <1>1, <1>6, <1>7, <2>1
    <3> QED
      BY <1>5, <1>7, <2>1, <3>1
  <2>2. CASE k - l \in 1..m /\ k > l /\ all[k] = more[k - l]
    <3>1. CASE j \in 1..l /\ all[j] = ids[j]
      BY <1>5, <2>2, <3>1
    <3>2. CASE j - l \in 1..m /\ j > l /\ all[j] = more[j - l]
      <4>1. j - l < k - l
        BY <1>1, <1>7
      <4> QED
        BY <1>5, <2>2, <3>2, <4>1
    <3> QED
      BY <1>6, <3>1, <3>2
  <2> QED
    BY <1>6, <2>1, <2>2
<1>8. ToSet(all) \subseteq ToSet(ids) \cup ToSet(more)
  BY <1>5, <1>6 DEF ToSet
<1>9. ASSUME NEW x \in ToSet(ids) \cup ToSet(more) PROVE x \in ToSet(all)
  <2>1. CASE x \in ToSet(ids)
    <3>1. PICK i \in 1..l : ids[i] = x
      BY <1>5, <2>1 DEF ToSet
    <3>2. i \in 1..(l + m) /\ all[i] = ids[i]
      BY <1>1, <1>2, <1>4, <3>1
    <3> QED
      BY <1>5, <3>1, <3>2 DEF ToSet
  <2>2. CASE x \in ToSet(more)
    <3>1. PICK i \in 1..m : more[i] = x
      BY <1>5, <2>2 DEF ToSet
    <3>2. l + i \in 1..(l + m) /\ ~(l + i <= l) /\ (l + i) - l = i
      BY <1>1, <1>2, <3>1
    <3>3. all[l + i] = more[i]
      BY <1>4, <3>2
    <3> QED
      BY <1>5, <3>1, <3>2, <3>3 DEF ToSet
  <2> QED
    BY <2>1, <2>2
<1> QED
  BY <1>3, <1>4, <1>5, <1>7, <1>8, <1>9

(***************************************************************************)
(* What clients have when events newer than all they got are written to    *)
(* their connections.                                                      *)
(***************************************************************************)
LEMMA ReceiveGoesOn ==
  ASSUME ClientTypes, ReceivedInOrder, NEW ns, NEW events \in Seq(Events), Ascending(events),
         Receive(ns, events),
         \A c \in Clients \cap Reached(ns) : \A j \in DOMAIN received[c] :
           \A k \in DOMAIN events : received[c][j] < events[k].id
  PROVE  /\ received' \in [Clients -> Seq(Nat)] /\ lastId' \in [Clients -> Nat]
         /\ ReceivedInOrder'
         /\ \A c \in Clients \ Reached(ns) : received'[c] = received[c] /\ lastId'[c] = lastId[c]
         /\ \A c \in Clients \cap Reached(ns) :
              /\ ToSet(received'[c]) = ToSet(received[c]) \cup {e.id : e \in ToSet(events)}
              /\ events = <<>> => lastId'[c] = lastId[c]
              /\ events # <<>> => lastId'[c] = events[Len(events)].id
              /\ \A e \in ToSet(events) : e.id <= lastId'[c]
<1>1. /\ received' = [c \in Clients |-> IF c \in Reached(ns) THEN received[c] \o IdsOf(events)
                                                            ELSE received[c]]
      /\ lastId' = [c \in Clients |-> IF c \in Reached(ns) /\ events # <<>> THEN Last(events).id
                                                                           ELSE lastId[c]]
  BY DEF Receive, Reached
<1>2. PICK l \in Nat : l = Len(events)
  BY LenProperties
<1>3. DOMAIN events = 1..l /\ \A k \in 1..l : events[k] \in Events /\ events[k].id \in Nat
  <2>1. DOMAIN events = 1..l /\ \A k \in 1..l : events[k] \in Events
    BY <1>2, ElementOfSeq
  <2> QED
    BY <2>1 DEF Events
<1>4. events # <<>> => l \in 1..l /\ Last(events) = events[l]
  BY <1>2 DEF Last
<1>5. PICK ids : ids = IdsOf(events)
  OBVIOUS
<1>6. /\ ids \in Seq(Nat) /\ Len(ids) = l /\ DOMAIN ids = 1..l
      /\ \A k \in 1..l : ids[k] = events[k].id
  BY <1>2, <1>3, <1>5, IdsOfEvents
<1>7. \A j, k \in DOMAIN ids : j < k => ids[j] < ids[k]
  BY <1>3, <1>6 DEF Ascending
<1>8. ToSet(ids) = {e.id : e \in ToSet(events)}
  BY <1>3, <1>6 DEF ToSet
<1>9. \A k \in 1..l : events[k].id <= events[l].id
  <2> SUFFICES ASSUME NEW k \in 1..l PROVE events[k].id <= events[l].id
    OBVIOUS
  <2>1. CASE k = l
    BY <1>3, <2>1
  <2>2. CASE k # l
    BY <1>2, <1>3, <2>2 DEF Ascending
  <2> QED
    BY <2>1, <2>2
<1>10. ASSUME NEW c \in Clients, c \notin Reached(ns)
       PROVE  /\ received'[c] = received[c] /\ lastId'[c] = lastId[c]
              /\ received'[c] \in Seq(Nat) /\ lastId'[c] \in Nat
  BY <1>1, <1>10 DEF ClientTypes
<1>11. ASSUME NEW c \in Clients, c \in Reached(ns)
       PROVE  /\ received'[c] \in Seq(Nat) /\ lastId'[c] \in Nat
              /\ \A i, j \in DOMAIN received'[c] : i < j => received'[c][i] < received'[c][j]
              /\ \A i \in ToSet(received'[c]) : i <= lastId'[c]
              /\ ToSet(received'[c]) = ToSet(received[c]) \cup {e.id : e \in ToSet(events)}
              /\ events = <<>> => lastId'[c] = lastId[c]
              /\ events # <<>> => lastId'[c] = events[l].id
              /\ \A e \in ToSet(events) : e.id <= lastId'[c]
  <2>1. received'[c] = received[c] \o ids /\ received[c] \in Seq(Nat)
    BY <1>1, <1>5, <1>11 DEF ClientTypes
  <2>2. \A j \in DOMAIN received[c] : \A k \in DOMAIN ids : received[c][j] < ids[k]
    BY <1>3, <1>6, <1>11
  <2>3. \A i, j \in DOMAIN received[c] : i < j => received[c][i] < received[c][j]
    BY DEF ReceivedInOrder
  <2>4. /\ received'[c] \in Seq(Nat)
        /\ \A i, j \in DOMAIN received'[c] : i < j => received'[c][i] < received'[c][j]
        /\ ToSet(received'[c]) = ToSet(received[c]) \cup ToSet(ids)
    BY <1>6, <1>7, <2>1, <2>2, <2>3, LaterIdsGoLast
  <2>5. /\ events = <<>> => lastId'[c] = lastId[c]
        /\ events # <<>> => lastId'[c] = events[l].id /\ events[l].id \in Nat /\ l \in 1..l
        /\ lastId[c] \in Nat
    BY <1>1, <1>3, <1>4, <1>11 DEF ClientTypes
  <2>6. \A i \in ToSet(received[c]) : i <= lastId[c] /\ i \in Nat
    BY <2>1 DEF ReceivedInOrder, ToSet
  <2>7. \A k \in 1..l : events # <<>>
    BY <1>2
  <2>8. \A e \in ToSet(events) : e.id <= lastId'[c]
    BY <1>3, <1>9, <2>5, <2>7 DEF ToSet
  <2>9. \A i \in ToSet(received[c]) : i <= lastId'[c]
    <3>1. CASE events = <<>>
      BY <2>5, <2>6, <3>1
    <3>2. CASE events # <<>>
      <4>1. \A i \in ToSet(received[c]) : i < events[l].id
        BY <1>3, <1>11, <2>5, <3>2 DEF ToSet
      <4> QED
        BY <2>5, <2>6, <3>2, <4>1
    <3> QED
      BY <3>1, <3>2
  <2> QED
    BY <1>8, <2>4, <2>5, <2>8, <2>9
<1>12. received' \in [Clients -> Seq(Nat)] /\ lastId' \in [Clients -> Nat]
  BY <1>1, <1>10, <1>11
<1>13. ReceivedInOrder'
  <2> SUFFICES ASSUME NEW c \in Clients
               PROVE  /\ \A i, j \in DOMAIN received'[c] : i < j => received'[c][i] < received'[c][j]
                      /\ \A i \in DOMAIN received'[c] : received'[c][i] <= lastId'[c]
    BY DEF ReceivedInOrder
  <2>1. CASE c \in Reached(ns)
    BY <1>11, <2>1 DEF ToSet
  <2>2. CASE c \notin Reached(ns)
    BY <1>10, <2>2 DEF ReceivedInOrder
  <2> QED
    BY <2>1, <2>2
<1> QED
  BY <1>2, <1>10, <1>11, <1>12, <1>13

(***************************************************************************)
(* Nobody is connected at the start.                                       *)
(***************************************************************************)
LEMMA ClientsStart == Init => ClientInv
<1> SUFFICES ASSUME Init PROVE ClientInv
  OBVIOUS
<1>1. /\ connection = [n \in Connections |-> Unused]
      /\ received = [c \in Clients |-> <<>>] /\ lastId = [c \in Clients |-> 0]
      /\ buffers = [o \in Orders |-> <<>>] /\ emitted = <<>>
  BY DEF Init
<1>2. Unused \in ConnectionRecords /\ Unused.live = FALSE /\ Unused.at = "unused"
  BY DEF Unused, ConnectionRecords
<1>3. \A n \in Connections : connection[n].live = FALSE /\ connection[n].at = "unused"
  BY <1>1, <1>2
<1>4. ClientTypes
  BY <1>1, <1>2, <1>3 DEF ClientTypes
<1>5. OneLiveConnection /\ AsksAfterTheLast
  BY <1>3 DEF OneLiveConnection, AsksAfterTheLast
<1>6. BuffersAscend
  BY <1>1 DEF BuffersAscend, Ascending
<1>7. ReceivedInOrder /\ ReceivedAreEmitted
  BY <1>1 DEF ReceivedInOrder, ReceivedAreEmitted, ToSet
<1>8. \A c \in Clients : lastId[c] <= Len(emitted) /\ ToSet(buffers[Watched[c]]) = {}
  BY <1>1, StreamAssumption DEF ToSet
<1>9. KnownUpToTheLast /\ CaughtUp
  BY <1>3, <1>8 DEF KnownUpToTheLast, CaughtUp
<1> QED
  BY <1>4, <1>5, <1>6, <1>7, <1>9, StreamInit DEF ClientInv

(***************************************************************************)
(* What holds of buffers and of what clients got does not depend on the    *)
(* connections; a step that adds no stream keeps clients caught up.        *)
(***************************************************************************)
LEMMA ClientsKept ==
  ASSUME ClientInv, StreamInv', ClientTypes', OneLiveConnection', AsksAfterTheLast',
         UNCHANGED <<buffers, emitted, lastId, received, stale>>,
         \A c \in Clients : Streaming(c)' => Streaming(c)
  PROVE  ClientInv'
<1>1. BuffersAscend' /\ ReceivedInOrder' /\ ReceivedAreEmitted' /\ KnownUpToTheLast'
  BY DEF ClientInv, BuffersAscend, ReceivedInOrder, ReceivedAreEmitted, KnownUpToTheLast
<1>2. CaughtUp'
  BY DEF ClientInv, CaughtUp
<1> QED
  BY <1>1, <1>2 DEF ClientInv

(***************************************************************************)
(* Steps after which a connection that is still live is as it was.         *)
(***************************************************************************)
LEMMA FewerConnections ==
  ASSUME ClientInv, StreamInv', ClientTypes',
         UNCHANGED <<buffers, emitted, lastId, received, stale>>,
         \A n \in Connections : connection'[n].live => connection'[n] = connection[n]
  PROVE  ClientInv'
<1>1. OneLiveConnection' /\ AsksAfterTheLast'
  BY DEF ClientInv, OneLiveConnection, AsksAfterTheLast
<1>2. \A c \in Clients : Streaming(c)' => Streaming(c)
  BY DEF Streaming
<1> QED
  BY <1>1, <1>2, ClientsKept

(***************************************************************************)
(* What is left of a connection whose handler has ended.                   *)
(***************************************************************************)
LEMMA ClosedConnection ==
  Closed \in ConnectionRecords /\ Closed.live = FALSE /\ Closed.at = "closed"
<1>1. Unused \in ConnectionRecords /\ Unused.live = FALSE
  BY DEF Unused, ConnectionRecords
<1> QED
  BY <1>1 DEF Closed, ConnectionRecords

(***************************************************************************)
(* findById fails, the client goes, or Node emits 'close'.                 *)
(***************************************************************************)
LEMMA LeaveInv ==
  ASSUME ClientInv, NEW n \in Connections, Refuse(n) \/ Disconnect(n) \/ Close(n)
  PROVE  ClientInv'
<1>1. UNCHANGED <<status, update, nextEventId, buffers, emitted, lastId, received, stale, disturbed>>
  BY DEF Refuse, Disconnect, Close, memoryVars
<1>2. StreamInv'
  BY <1>1, StreamKept DEF ClientInv
<1>3. PICK r : /\ connection' = [connection EXCEPT ![n] = r]
               /\ r \in ConnectionRecords /\ r.live = FALSE
               /\ r.at \in {"find", "subscribed"} => r.at = connection[n].at /\ r.client = connection[n].client
  <2>1. connection[n] \in ConnectionRecords
    BY DEF ClientInv, ClientTypes
  <2>2. Closed \in ConnectionRecords /\ Closed.live = FALSE /\ Closed.at = "closed"
    BY ClosedConnection
  <2>3. CASE Refuse(n)
    <3>1. connection' = [connection EXCEPT ![n] = Closed]
      BY <2>3 DEF Refuse
    <3> QED
      BY <2>2, <3>1
  <2>4. CASE Disconnect(n)
    <3> DEFINE r == [connection[n] EXCEPT !.live = FALSE]
    <3>1. connection' = [connection EXCEPT ![n] = r]
      BY <2>4 DEF Disconnect
    <3>2. /\ r \in ConnectionRecords /\ r.live = FALSE
          /\ r.at = connection[n].at /\ r.client = connection[n].client
      BY <2>1 DEF ConnectionRecords
    <3> QED
      BY <3>1, <3>2
  <2>5. CASE Close(n)
    <3> DEFINE r == IF connection[n].at = "subscribed" THEN Closed
                                                       ELSE [connection[n] EXCEPT !.gone = TRUE]
    <3>1. connection' = [connection EXCEPT ![n] = r] /\ connection[n].live = FALSE
      BY <2>1, <2>5 DEF Close, ConnectionRecords
    <3>2. r \in ConnectionRecords
      BY <2>1, <2>2 DEF ConnectionRecords
    <3>3. r.live = FALSE
      BY <2>1, <2>2, <3>1 DEF ConnectionRecords
    <3>4. r.at \in {"find", "subscribed"} => r.at = connection[n].at /\ r.client = connection[n].client
      BY <2>1, <2>2 DEF ConnectionRecords
    <3> QED
      BY <3>1, <3>2, <3>3, <3>4
  <2> QED
    BY <2>3, <2>4, <2>5
<1>4. connection \in [Connections -> ConnectionRecords]
  BY DEF ClientInv, ClientTypes
<1>5. connection'[n] = r /\ \A k \in Connections \ {n} : connection'[k] = connection[k]
  BY <1>3, <1>4
<1>6. ClientTypes'
  BY <1>1, <1>3, <1>4, <1>5 DEF ClientInv, ClientTypes
<1>7. \A k \in Connections : connection'[k].live => connection'[k] = connection[k]
  BY <1>3, <1>5
<1> QED
  BY <1>1, <1>2, <1>6, <1>7, FewerConnections

(***************************************************************************)
(* A request for a stream brings the id of the last event its client got.  *)
(***************************************************************************)
LEMMA OpenInv ==
  ASSUME ClientInv, NEW n \in Connections, NEW c \in Clients, Open(n, c)
  PROVE  ClientInv'
<1> DEFINE r == [client |-> c, at |-> "find", after |-> lastId[c], live |-> TRUE, gone |-> FALSE]
<1>1. /\ UNCHANGED <<status, update, nextEventId, buffers, emitted, lastId, received, stale, disturbed>>
      /\ \A k \in Connections : connection[k].client = c => ~connection[k].live
      /\ connection' = [connection EXCEPT ![n] = r]
  BY DEF Open, memoryVars
<1>2. StreamInv'
  BY <1>1, StreamKept DEF ClientInv
<1>3. /\ r \in ConnectionRecords /\ r.at = "find" /\ r.client = c /\ r.after = lastId[c]
  BY DEF ClientInv, ClientTypes, ConnectionRecords
<1> HIDE DEF r
<1>4. connection \in [Connections -> ConnectionRecords]
  BY DEF ClientInv, ClientTypes
<1>5. connection'[n] = r /\ \A k \in Connections \ {n} : connection'[k] = connection[k]
  BY <1>1, <1>4
<1>6. ClientTypes'
  BY <1>1, <1>3, <1>4, <1>5 DEF ClientInv, ClientTypes
<1>7. OneLiveConnection'
  BY <1>1, <1>3, <1>5 DEF ClientInv, OneLiveConnection
<1>8. AsksAfterTheLast'
  BY <1>1, <1>3, <1>5 DEF ClientInv, AsksAfterTheLast
<1>9. \A d \in Clients : Streaming(d)' => Streaming(d)
  BY <1>3, <1>5 DEF Streaming
<1> QED
  BY <1>1, <1>2, <1>6, <1>7, <1>8, <1>9, ClientsKept

(***************************************************************************)
(* The replay: a client that has all up to its Last-Event-ID gets exactly  *)
(* what is buffered beyond it.                                             *)
(***************************************************************************)
LEMMA StreamStepInv ==
  ASSUME ClientInv, NEW n \in Connections, Stream(n)
  PROVE  ClientInv'
<1> DEFINE c == connection[n].client
           o == Watched[c]
<1>1. /\ UNCHANGED <<status, update, nextEventId, buffers, emitted, stale, disturbed>>
      /\ connection[n].at = "find" /\ connection' = [connection EXCEPT ![n].at = "subscribed"]
      /\ Receive({n}, MissedEvents(n))
  BY DEF Stream, memoryVars
<1>2. StreamInv'
  BY <1>1, StreamKept DEF ClientInv
<1>3. connection \in [Connections -> ConnectionRecords] /\ connection[n] \in ConnectionRecords
  BY DEF ClientInv, ClientTypes
<1>4. c \in Clients /\ o \in Orders
  BY <1>1, StreamAssumption DEF ClientInv, ClientTypes
<1>5. /\ connection'[n].at = "subscribed" /\ connection'[n].client = c
      /\ connection'[n].live = connection[n].live /\ connection'[n] \in ConnectionRecords
      /\ \A k \in Connections \ {n} : connection'[k] = connection[k]
  BY <1>1, <1>3 DEF ConnectionRecords
<1>6. connection' \in [Connections -> ConnectionRecords]
  BY <1>1, <1>3, <1>5
<1>7. PICK missed : missed = MissedEvents(n)
  OBVIOUS
<1>8. buffers[o] \in Seq(Events) /\ Ascending(buffers[o]) /\ connection[n].after \in Nat
  BY <1>3, <1>4 DEF ClientInv, StreamInv, StreamTypes, BuffersAscend, ConnectionRecords
<1>9. /\ missed \in Seq(Events) /\ Ascending(missed)
      /\ ToSet(missed) = {e \in ToSet(buffers[o]) : e.id > connection[n].after}
  BY <1>7, <1>8, EventsAfterTheId DEF MissedEvents
<1>10. Reached({n}) = IF connection[n].live THEN {c} ELSE {}
  BY DEF Reached
<1>11. connection[n].live => connection[n].after = lastId[c]
  BY <1>1 DEF ClientInv, AsksAfterTheLast
<1>12. /\ \A j \in DOMAIN received[c] : received[c][j] \in Nat /\ received[c][j] <= lastId[c]
       /\ lastId[c] \in Nat
  <2>1. received[c] \in Seq(Nat) /\ lastId[c] \in Nat
    BY <1>4 DEF ClientInv, ClientTypes
  <2> QED
    BY <1>4, <2>1 DEF ClientInv, ReceivedInOrder
<1>13. \A e \in ToSet(buffers[o]) : e.id \in Nat /\ e.id \in DOMAIN emitted /\ emitted[e.id] = o
  <2>1. \A e \in ToSet(buffers[o]) : e.id \in DOMAIN emitted /\ emitted[e.id] = o
    BY <1>4 DEF ClientInv, BuffersAscend, ToSet
  <2>2. DOMAIN emitted \subseteq Nat
    BY DEF ClientInv, StreamInv, StreamTypes
  <2> QED
    BY <2>1, <2>2
<1>14. \A d \in Clients \cap Reached({n}) : \A j \in DOMAIN received[d] :
         \A k \in DOMAIN missed : received[d][j] < missed[k].id
  <2> SUFFICES ASSUME connection[n].live, NEW j \in DOMAIN received[c], NEW k \in DOMAIN missed
               PROVE  received[c][j] < missed[k].id
    BY <1>10
  <2>1. missed[k] \in ToSet(missed)
    BY DEF ToSet
  <2>2. missed[k].id > lastId[c] /\ missed[k].id \in Nat
    BY <1>9, <1>11, <1>13, <2>1
  <2> QED
    BY <1>12, <2>2
<1>15. /\ received' \in [Clients -> Seq(Nat)] /\ lastId' \in [Clients -> Nat]
       /\ ReceivedInOrder'
       /\ \A d \in Clients \ Reached({n}) : received'[d] = received[d] /\ lastId'[d] = lastId[d]
       /\ \A d \in Clients \cap Reached({n}) :
            /\ ToSet(received'[d]) = ToSet(received[d]) \cup {e.id : e \in ToSet(missed)}
            /\ missed = <<>> => lastId'[d] = lastId[d]
            /\ missed # <<>> => lastId'[d] = missed[Len(missed)].id
            /\ \A e \in ToSet(missed) : e.id <= lastId'[d]
  BY <1>1, <1>7, <1>9, <1>14, ReceiveGoesOn DEF ClientInv
<1>16. ClientTypes'
  BY <1>4, <1>5, <1>6, <1>15 DEF ClientInv, ClientTypes
<1>17. OneLiveConnection'
  BY <1>5 DEF ClientInv, OneLiveConnection
<1>18. AsksAfterTheLast'
  <2> SUFFICES ASSUME NEW k \in Connections, connection'[k].live, connection'[k].at = "find"
               PROVE  connection'[k].after = lastId'[connection'[k].client]
    BY DEF AsksAfterTheLast
  <2>1. k # n /\ connection'[k] = connection[k]
    BY <1>5
  <2>2. connection[k].client \in Clients /\ connection[k].client \notin Reached({n})
    BY <1>10, <2>1 DEF ClientInv, ClientTypes, OneLiveConnection
  <2> QED
    BY <1>15, <2>1, <2>2 DEF ClientInv, AsksAfterTheLast
<1>19. BuffersAscend'
  BY <1>1 DEF ClientInv, BuffersAscend
<1>20. ReceivedAreEmitted'
  <2> SUFFICES ASSUME NEW d \in Clients, NEW i \in ToSet(received'[d])
               PROVE  i \in DOMAIN emitted /\ emitted[i] = Watched[d]
    BY <1>1 DEF ReceivedAreEmitted
  <2>1. CASE d \notin Reached({n})
    BY <1>15, <2>1 DEF ClientInv, ReceivedAreEmitted
  <2>2. CASE d \in Reached({n})
    <3>1. d = c
      BY <1>10, <2>2
    <3>2. ToSet(received'[c]) = ToSet(received[c]) \cup {e.id : e \in ToSet(missed)}
      BY <1>15, <2>2, <3>1
    <3>3. i \in ToSet(received[c]) \/ \E e \in ToSet(missed) : i = e.id
      BY <3>1, <3>2
    <3> QED
      BY <1>9, <1>13, <3>1, <3>3 DEF ClientInv, ReceivedAreEmitted
  <2> QED
    BY <2>1, <2>2
<1>21. c \in Reached({n}) /\ c \notin stale =>
         /\ lastId'[c] <= Len(emitted)
         /\ \A e \in ToSet(buffers[o]) : e.id \in ToSet(received'[c])
  <2> SUFFICES ASSUME c \in Reached({n}), c \notin stale
               PROVE  /\ lastId'[c] <= Len(emitted)
                      /\ \A e \in ToSet(buffers[o]) : e.id \in ToSet(received'[c])
    OBVIOUS
  <2>1. /\ lastId[c] <= Len(emitted) /\ connection[n].live
        /\ \A e \in ToSet(buffers[o]) : e.id <= lastId[c] => e.id \in ToSet(received[c])
    BY <1>4, <1>10 DEF ClientInv, KnownUpToTheLast
  <2>2. \A e \in ToSet(buffers[o]) : e.id \in ToSet(received'[c])
    <3> SUFFICES ASSUME NEW e \in ToSet(buffers[o]) PROVE e.id \in ToSet(received'[c])
      OBVIOUS
    <3>1. e.id <= lastId[c] \/ e.id > connection[n].after
      BY <1>11, <1>12, <1>13, <2>1
    <3> QED
      BY <1>4, <1>9, <1>15, <2>1, <3>1
  <2>3. lastId'[c] <= Len(emitted)
    <3>1. CASE missed = <<>>
      BY <1>4, <1>15, <2>1, <3>1
    <3>2. CASE missed # <<>>
      <4>1. missed[Len(missed)] \in ToSet(missed)
        BY <1>9, <3>2 DEF ToSet
      <4>2. lastId'[c] \in DOMAIN emitted
        BY <1>4, <1>9, <1>13, <1>15, <3>2, <4>1
      <4> QED
        BY <4>2 DEF ClientInv, StreamInv, StreamTypes
    <3> QED
      BY <3>1, <3>2
  <2> QED
    BY <2>2, <2>3
<1>22. KnownUpToTheLast'
  <2> SUFFICES ASSUME NEW d \in Clients \ stale
               PROVE  /\ lastId'[d] <= Len(emitted)
                      /\ \A e \in ToSet(buffers[Watched[d]]) :
                           e.id <= lastId'[d] => e.id \in ToSet(received'[d])
    BY <1>1 DEF KnownUpToTheLast
  <2>1. CASE d \notin Reached({n})
    BY <1>15, <2>1 DEF ClientInv, KnownUpToTheLast
  <2>2. CASE d \in Reached({n})
    BY <1>10, <1>21, <2>2
  <2> QED
    BY <2>1, <2>2
<1>23. CaughtUp'
  <2> SUFFICES ASSUME NEW d \in Clients \ stale, Streaming(d)', NEW e \in ToSet(buffers[Watched[d]])
               PROVE  e.id \in ToSet(received'[d])
    BY <1>1 DEF CaughtUp
  <2>1. CASE d \notin Reached({n})
    <3>1. Streaming(d)
      BY <1>5, <1>10, <2>1 DEF Streaming
    <3> QED
      BY <1>15, <2>1, <3>1 DEF ClientInv, CaughtUp
  <2>2. CASE d \in Reached({n})
    BY <1>10, <1>21, <2>2
  <2> QED
    BY <2>1, <2>2
<1> QED
  BY <1>2, <1>15, <1>16, <1>17, <1>18, <1>19, <1>20, <1>22, <1>23 DEF ClientInv

(***************************************************************************)
(* emitStatusChanged: the new id is beyond every id in a buffer or at a    *)
(* client, and every client with a stream of the order gets it.            *)
(***************************************************************************)
LEMMA EmitToClients ==
  ASSUME ClientInv, NEW u \in Updates, Emit(u)
  PROVE  ClientInv'
<1> DEFINE o == update[u].order
           event == [id |-> nextEventId, order |-> o, status |-> update[u].status]
<1>1. StreamInv'
  BY EmitInv DEF ClientInv
<1>2. PICK l \in Nat : l = Len(emitted)
  BY DEF ClientInv, StreamInv, StreamTypes
<1>3. /\ o \in Orders /\ update[u].status \in Statuses /\ nextEventId = l + 1
      /\ emitted \in Seq(Orders) /\ DOMAIN emitted = 1..l
      /\ buffers \in [Orders -> Seq(Events)]
  BY <1>2 DEF Emit, ClientInv, StreamInv, StreamTypes, Calls
<1>4. event \in Events /\ event.id = l + 1
  BY <1>2, <1>3 DEF Events
<1>5. /\ UNCHANGED <<connection, stale>>
      /\ emitted' = Append(emitted, o)
      /\ buffers' = [buffers EXCEPT ![o] = Trimmed(Append(@, event))]
      /\ Receive(Subscribers(o), <<event>>)
  BY DEF Emit
<1> HIDE DEF o, event
<1>6. /\ DOMAIN emitted' = 1..(l + 1) /\ emitted'[l + 1] = o
      /\ \A i \in 1..l : emitted'[i] = emitted[i]
      /\ emitted' \in Seq(Orders) /\ Len(emitted') = l + 1
  BY <1>2, <1>3, <1>5, AppendProperties
<1>7. \A p \in Orders : /\ buffers[p] \in Seq(Events) /\ Ascending(buffers[p])
                        /\ \A e \in ToSet(buffers[p]) : e.id \in 1..l /\ emitted[e.id] = p
  BY <1>3 DEF ClientInv, BuffersAscend, ToSet
<1>8. \A k \in DOMAIN buffers[o] : buffers[o][k].id < event.id
  <2> SUFFICES ASSUME NEW k \in DOMAIN buffers[o] PROVE buffers[o][k].id < event.id
    OBVIOUS
  <2>1. buffers[o][k].id \in 1..l
    BY <1>3, <1>7 DEF ToSet
  <2> QED
    BY <1>2, <1>4, <2>1
<1>9. /\ Ascending(buffers'[o])
      /\ \A e \in ToSet(buffers'[o]) : e \in ToSet(buffers[o]) \/ e = event
      /\ \A p \in Orders \ {o} : buffers'[p] = buffers[p]
  <2>1. /\ buffers'[o] = Trimmed(Append(buffers[o], event))
        /\ \A p \in Orders \ {o} : buffers'[p] = buffers[p]
    BY <1>3, <1>5
  <2> QED
    BY <1>3, <1>4, <1>7, <1>8, <2>1, TrimmedAscends
<1>10. BuffersAscend'
  <2> SUFFICES ASSUME NEW p \in Orders
               PROVE  /\ Ascending(buffers'[p])
                      /\ \A e \in ToSet(buffers'[p]) : e.id \in DOMAIN emitted' /\ emitted'[e.id] = p
    BY DEF BuffersAscend, Ascending, ToSet
  <2>1. \A e \in ToSet(buffers[p]) : e.id \in DOMAIN emitted' /\ emitted'[e.id] = p
    <3> SUFFICES ASSUME NEW e \in ToSet(buffers[p])
                 PROVE  e.id \in DOMAIN emitted' /\ emitted'[e.id] = p
      OBVIOUS
    <3>1. e.id \in 1..l /\ emitted[e.id] = p
      BY <1>7
    <3> QED
      BY <1>2, <1>6, <3>1
  <2>2. CASE p = o
    <3>1. event.id \in DOMAIN emitted' /\ emitted'[event.id] = o
      BY <1>2, <1>4, <1>6
    <3> QED
      BY <1>9, <2>1, <2>2, <3>1
  <2>3. CASE p # o
    BY <1>7, <1>9, <2>1, <2>3
  <2> QED
    BY <2>2, <2>3
<1>11. /\ <<event>> \in Seq(Events) /\ Ascending(<<event>>) /\ ToSet(<<event>>) = {event}
       /\ <<event>> # <<>> /\ DOMAIN <<event>> = {1} /\ <<event>>[1] = event
       /\ <<event>>[Len(<<event>>)] = event
  BY <1>4 DEF Ascending, ToSet
<1>12. PICK ns : ns = Subscribers(o)
  OBVIOUS
<1>13. \A c \in Clients \cap Reached(ns) : Watched[c] = o /\ Streaming(c)
  BY <1>12 DEF Reached, Subscribers, Streaming
<1>14. \A c \in Clients : Streaming(c) /\ Watched[c] = o => c \in Reached(ns)
  BY <1>12 DEF Reached, Subscribers, Streaming
<1>15. \A c \in Clients : \A i \in ToSet(received[c]) : i \in 1..l /\ emitted[i] = Watched[c]
  BY <1>3 DEF ClientInv, ReceivedAreEmitted
<1>16. \A c \in Clients \cap Reached(ns) : \A j \in DOMAIN received[c] :
         \A k \in DOMAIN <<event>> : received[c][j] < <<event>>[k].id
  <2> SUFFICES ASSUME NEW c \in Clients, NEW j \in DOMAIN received[c]
               PROVE  received[c][j] < event.id
    BY <1>11
  <2>1. received[c][j] \in 1..l
    BY <1>15 DEF ToSet
  <2> QED
    BY <1>2, <1>4, <2>1
<1>17. PICK events : events = <<event>>
  OBVIOUS
<1>18. /\ events \in Seq(Events) /\ Ascending(events) /\ Receive(ns, events)
       /\ \A c \in Clients \cap Reached(ns) : \A j \in DOMAIN received[c] :
            \A k \in DOMAIN events : received[c][j] < events[k].id
  BY <1>5, <1>11, <1>16, <1>17, <1>12
<1>19. /\ received' \in [Clients -> Seq(Nat)] /\ lastId' \in [Clients -> Nat]
       /\ ReceivedInOrder'
       /\ \A c \in Clients \ Reached(ns) : received'[c] = received[c] /\ lastId'[c] = lastId[c]
       /\ \A c \in Clients \cap Reached(ns) :
            /\ ToSet(received'[c]) = ToSet(received[c]) \cup {e.id : e \in ToSet(events)}
            /\ events = <<>> => lastId'[c] = lastId[c]
            /\ events # <<>> => lastId'[c] = events[Len(events)].id
            /\ \A e \in ToSet(events) : e.id <= lastId'[c]
  BY <1>18, ReceiveGoesOn DEF ClientInv
<1>20. \A c \in Clients \cap Reached(ns) :
         ToSet(received'[c]) = ToSet(received[c]) \cup {l + 1} /\ lastId'[c] = l + 1
  BY <1>4, <1>11, <1>17, <1>19
<1>21. ClientTypes' /\ OneLiveConnection'
  BY <1>5, <1>19 DEF ClientInv, ClientTypes, OneLiveConnection
<1>22. AsksAfterTheLast'
  <2> SUFFICES ASSUME NEW k \in Connections, connection[k].live, connection[k].at = "find"
               PROVE  connection[k].after = lastId'[connection[k].client]
    BY <1>5 DEF AsksAfterTheLast
  <2>1. connection[k].client \in Clients
    BY DEF ClientInv, ClientTypes
  <2>2. ~Streaming(connection[k].client)
    BY DEF ClientInv, OneLiveConnection, Streaming
  <2> QED
    BY <1>13, <1>19, <2>1, <2>2 DEF ClientInv, AsksAfterTheLast
<1>23. ReceivedAreEmitted'
  <2> SUFFICES ASSUME NEW c \in Clients, NEW i \in ToSet(received'[c])
               PROVE  i \in DOMAIN emitted' /\ emitted'[i] = Watched[c]
    BY DEF ReceivedAreEmitted
  <2>1. ASSUME i \in ToSet(received[c]) PROVE i \in DOMAIN emitted' /\ emitted'[i] = Watched[c]
    <3>1. i \in 1..l /\ emitted[i] = Watched[c]
      BY <1>15, <2>1
    <3>2. i \in 1..(l + 1) /\ emitted'[i] = emitted[i]
      BY <1>2, <1>6, <3>1
    <3> QED
      BY <1>6, <3>1, <3>2
  <2>2. i \in ToSet(received[c]) \/ (c \in Reached(ns) /\ i = l + 1)
    BY <1>19, <1>20
  <2> QED
    BY <1>2, <1>6, <1>13, <2>1, <2>2
<1>24. \A c \in Clients : ToSet(received[c]) \subseteq ToSet(received'[c])
  BY <1>19, <1>20
<1>25. CaughtUp'
  <2> SUFFICES ASSUME NEW c \in Clients \ stale, Streaming(c), NEW e \in ToSet(buffers'[Watched[c]])
               PROVE  e.id \in ToSet(received'[c])
    BY <1>5 DEF CaughtUp, Streaming
  <2>1. Watched[c] \in Orders
    BY StreamAssumption
  <2>2. CASE e \in ToSet(buffers[Watched[c]])
    BY <1>24, <2>2 DEF ClientInv, CaughtUp
  <2>3. CASE Watched[c] = o /\ e = event
    BY <1>4, <1>14, <1>20, <2>3
  <2> QED
    BY <1>9, <2>1, <2>2, <2>3
<1>26. KnownUpToTheLast'
  <2> SUFFICES ASSUME NEW c \in Clients \ stale
               PROVE  /\ lastId'[c] <= l + 1
                      /\ \A e \in ToSet(buffers'[Watched[c]]) :
                           e.id <= lastId'[c] => e.id \in ToSet(received'[c])
    BY <1>5, <1>6 DEF KnownUpToTheLast
  <2>1. CASE c \in Reached(ns)
    <3>1. Streaming(c)'
      BY <1>5, <1>13, <2>1 DEF Streaming
    <3>2. \A e \in ToSet(buffers'[Watched[c]]) : e.id \in ToSet(received'[c])
      BY <1>5, <1>25, <3>1 DEF CaughtUp
    <3> QED
      BY <1>2, <1>20, <2>1, <3>2
  <2>2. CASE c \notin Reached(ns)
    <3>1. /\ lastId'[c] = lastId[c] /\ received'[c] = received[c] /\ lastId[c] <= l
          /\ lastId[c] \in Nat /\ Watched[c] \in Orders
      BY <1>2, <1>19, <2>2, StreamAssumption DEF ClientInv, KnownUpToTheLast, ClientTypes
    <3>2. \A e \in ToSet(buffers[Watched[c]]) : e.id <= lastId[c] => e.id \in ToSet(received[c])
      BY DEF ClientInv, KnownUpToTheLast
    <3>3. ~(event.id <= lastId[c])
      BY <1>2, <1>4, <3>1
    <3>4. \A e \in ToSet(buffers'[Watched[c]]) : e \in ToSet(buffers[Watched[c]]) \/ e = event
      BY <1>9, <3>1
    <3> QED
      BY <1>2, <3>1, <3>2, <3>3, <3>4
  <2> QED
    BY <2>1, <2>2
<1> QED
  BY <1>1, <1>10, <1>19, <1>21, <1>22, <1>23, <1>25, <1>26 DEF ClientInv

(***************************************************************************)
(* The new process has no connection and no event, and a client that       *)
(* brings an id of the old one is stale.                                   *)
(***************************************************************************)
LEMMA RestartClients ==
  ASSUME ClientInv, Restart
  PROVE  ClientInv'
<1>1. StreamInv'
  BY RestartInv DEF ClientInv
<1>2. /\ connection' = [n \in Connections |-> IF connection[n] = Unused THEN Unused ELSE Closed]
      /\ received' = [c \in Clients |-> <<>>] /\ stale' = {c \in Clients : lastId[c] > 0}
      /\ buffers' = [o \in Orders |-> <<>>] /\ emitted' = <<>> /\ UNCHANGED lastId
  BY DEF Restart
<1>3. /\ Unused \in ConnectionRecords /\ Unused.live = FALSE /\ Unused.at = "unused"
      /\ Closed \in ConnectionRecords /\ Closed.live = FALSE /\ Closed.at = "closed"
  BY ClosedConnection DEF Unused, ConnectionRecords
<1>4. \A n \in Connections : /\ connection'[n] \in ConnectionRecords /\ connection'[n].live = FALSE
                             /\ connection'[n].at \in {"unused", "closed"}
  BY <1>2, <1>3
<1>5. ClientTypes'
  BY <1>2, <1>4 DEF ClientInv, ClientTypes
<1>6. OneLiveConnection' /\ AsksAfterTheLast'
  BY <1>4 DEF OneLiveConnection, AsksAfterTheLast
<1>7. BuffersAscend' /\ ReceivedInOrder' /\ ReceivedAreEmitted'
  BY <1>2 DEF BuffersAscend, Ascending, ReceivedInOrder, ReceivedAreEmitted, ToSet
<1>8. \A c \in Clients \ stale' : lastId'[c] = 0
  BY <1>2 DEF ClientInv, ClientTypes
<1>9. Len(emitted') = 0 /\ \A c \in Clients : ToSet(buffers'[Watched[c]]) = {}
  BY <1>2, StreamAssumption DEF ToSet
<1>10. KnownUpToTheLast'
  <2>1. \A c \in Clients \ stale' : lastId'[c] <= Len(emitted')
    BY <1>8, <1>9
  <2> QED
    BY <1>9, <2>1 DEF KnownUpToTheLast
<1>11. CaughtUp'
  BY <1>9 DEF CaughtUp
<1> QED
  BY <1>1, <1>5, <1>6, <1>7, <1>10, <1>11 DEF ClientInv

(***************************************************************************)
(* Every step of the stream keeps the invariant.                           *)
(***************************************************************************)
LEMMA ClientsStep == ClientInv /\ [Next]_vars => ClientInv'
<1> SUFFICES ASSUME ClientInv, [Next]_vars PROVE ClientInv'
  OBVIOUS
<1>1. ASSUME StreamInv', UNCHANGED <<buffers, emitted, clientVars>> PROVE ClientInv'
  BY <1>1, FewerConnections DEF clientVars, ClientInv, ClientTypes
<1>2. ASSUME NEW u \in Updates, NEW o \in Orders, NEW s \in Statuses, CommitStatus(u, o, s)
      PROVE  ClientInv'
  BY <1>1, <1>2, CommitStatusInv DEF CommitStatus, ClientInv, memoryVars
<1>3. ASSUME NEW u \in Updates, LoseAnswer(u) PROVE ClientInv'
  BY <1>1, <1>3, LoseAnswerInv DEF LoseAnswer, ClientInv, memoryVars
<1>4. CASE QuietStep
  BY <1>2, <1>3, <1>4, OpenInv, StreamStepInv, LeaveInv DEF QuietStep
<1>5. CASE UNCHANGED vars
  BY <1>1, <1>5, StreamKept DEF vars, memoryVars, ClientInv
<1> QED
  BY <1>4, <1>5, EmitToClients, RestartClients DEF Next

(***************************************************************************)
(* One process sends a client the events of its order only, each once and  *)
(* in the order of their ids, however often the client reconnects.         *)
(***************************************************************************)
THEOREM StreamsAreInOrder == Spec => []StreamInOrder
<1>1. ClientInv => StreamInOrder
  BY DEF ClientInv, ReceivedInOrder, ReceivedAreEmitted, StreamInOrder
<1> QED
  BY <1>1, ClientsStart, ClientsStep, PTL DEF Spec

(***************************************************************************)
(* A client with a stream has every buffered event of its order, those of  *)
(* the time it was away included, unless it knew an earlier process.       *)
(***************************************************************************)
THEOREM StreamsCatchUp == Spec => []CaughtUp
<1>1. ClientInv => CaughtUp
  BY DEF ClientInv
<1> QED
  BY <1>1, ClientsStart, ClientsStep, PTL DEF Spec

-----------------------------------------------------------------------------
(***************************************************************************)
(* No socket is in a room, and none has heard anything, at the start.      *)
(***************************************************************************)
LEMMA RoomsStart == Init /\ RoomsInit => RoomsInv
<1> SUFFICES ASSUME Init, RoomsInit PROVE RoomsInv
  OBVIOUS
<1>1. emitted = <<>> /\ \A s \in Sockets : rooms[s] = {} /\ heard[s] = <<>>
  BY DEF Init, RoomsInit
<1>2. RoomTypes
  BY DEF RoomsInit, RoomTypes
<1>3. RoomsOfTheUser /\ HeardIsEmitted
  BY <1>1 DEF RoomsOfTheUser, HeardIsEmitted
<1>4. RoomsHearTheirOrders
  BY <1>1 DEF RoomsHearTheirOrders, ToSet
<1> QED
  BY <1>2, <1>3, <1>4, StreamInit DEF RoomsInv

(***************************************************************************)
(* A step that neither emits nor takes anything into a room keeps it all:  *)
(* a socket in fewer rooms has missed nothing.                             *)
(***************************************************************************)
LEMMA RoomsKept ==
  ASSUME RoomsInv, StreamInv', UNCHANGED <<emitted, heard, since>>,
         rooms' \in [Sockets -> SUBSET Orders], \A s \in Sockets : rooms'[s] \subseteq rooms[s]
  PROVE  RoomsInv'
<1>1. RoomTypes'
  BY DEF RoomsInv, RoomTypes
<1>2. RoomsOfTheUser' /\ HeardIsEmitted'
  BY DEF RoomsInv, RoomsOfTheUser, HeardIsEmitted
<1>3. RoomsHearTheirOrders'
  BY DEF RoomsInv, RoomsHearTheirOrders
<1> QED
  BY <1>1, <1>2, <1>3 DEF RoomsInv

(***************************************************************************)
(* joinOrderRoom after the owner is known: every event of the order so far *)
(* is older than the socket's membership.                                  *)
(***************************************************************************)
LEMMA CheckOwnerInv ==
  ASSUME RoomsInv, NEW s \in Sockets, NEW o \in Orders, CheckOwner(s, o), UNCHANGED vars
  PROVE  RoomsInv'
<1>1. UNCHANGED <<emitted, heard>> /\ emitted \in Seq(Orders)
  BY DEF CheckOwner, vars, memoryVars, RoomsInv, StreamInv, StreamTypes
<1>2. StreamInv'
  BY StreamKept DEF RoomsInv, vars, memoryVars
<1>3. CASE UNCHANGED <<rooms, since>>
  BY <1>1, <1>2, <1>3, RoomsKept DEF RoomsInv, RoomTypes
<1>4. CASE /\ BelongsToUser(o, s)
           /\ rooms' = [rooms EXCEPT ![s] = @ \cup {o}]
           /\ since' = [since EXCEPT ![s][o] = Len(emitted)]
  <2>1. /\ rooms' \in [Sockets -> SUBSET Orders] /\ rooms'[s] = rooms[s] \cup {o}
        /\ \A t \in Sockets \ {s} : rooms'[t] = rooms[t]
    BY <1>4 DEF RoomsInv, RoomTypes
  <2>2. Len(emitted) \in Nat
    BY <1>1
  <2>3. /\ since' \in [Sockets -> [Orders -> Nat]] /\ since'[s][o] = Len(emitted)
        /\ \A p \in Orders \ {o} : since'[s][p] = since[s][p]
        /\ \A t \in Sockets \ {s} : since'[t] = since[t]
    BY <1>4, <2>2 DEF RoomsInv, RoomTypes
  <2>4. RoomTypes' /\ HeardIsEmitted'
    BY <1>1, <2>1, <2>3 DEF RoomsInv, RoomTypes, HeardIsEmitted
  <2>5. RoomsOfTheUser'
    BY <1>4, <2>1 DEF RoomsInv, RoomsOfTheUser, BelongsToUser
  <2>6. ASSUME NEW t \in Sockets, NEW i \in DOMAIN emitted,
               emitted[i] \in rooms'[t], i > since'[t][emitted[i]]
        PROVE  i \in ToSet(heard[t])
    <3>1. emitted[i] \in Orders /\ i \in 1..Len(emitted)
      BY <1>1
    <3>2. ~(t = s /\ emitted[i] = o)
      BY <2>2, <2>3, <2>6, <3>1
    <3>3. emitted[i] \in rooms[t] /\ i > since[t][emitted[i]]
      BY <2>1, <2>3, <2>6, <3>1, <3>2
    <3> QED
      BY <3>3 DEF RoomsInv, RoomsHearTheirOrders
  <2>7. RoomsHearTheirOrders'
    BY <1>1, <2>6 DEF RoomsInv, RoomsHearTheirOrders
  <2> QED
    BY <1>2, <2>4, <2>5, <2>7 DEF RoomsInv
<1> QED
  BY <1>3, <1>4 DEF CheckOwner, EnterRoom

(***************************************************************************)
(* An id beyond all of an increasing sequence goes to its end.             *)
(***************************************************************************)
LEMMA NewIdGoesLast ==
  ASSUME NEW ids \in Seq(Nat), NEW n \in Nat, \A k \in DOMAIN ids : ids[k] \in 1..n,
         \A j, k \in DOMAIN ids : j < k => ids[j] < ids[k]
  PROVE  /\ Append(ids, n + 1) \in Seq(Nat)
         /\ \A j, k \in DOMAIN Append(ids, n + 1) :
              j < k => Append(ids, n + 1)[j] < Append(ids, n + 1)[k]
         /\ ToSet(Append(ids, n + 1)) = ToSet(ids) \cup {n + 1}
<1>1. PICK more : more = <<n + 1>>
  OBVIOUS
<1>2. more \in Seq(Nat) /\ DOMAIN more = {1} /\ more[1] = n + 1 /\ ToSet(more) = {n + 1}
  BY <1>1 DEF ToSet
<1>3. Append(ids, n + 1) = ids \o more
  BY <1>1, AppendIsConcat
<1>4. \A j \in DOMAIN ids : \A k \in DOMAIN more : ids[j] < more[k]
  BY <1>2
<1>5. \A j, k \in DOMAIN more : j < k => more[j] < more[k]
  BY <1>2
<1> QED
  BY <1>2, <1>3, <1>4, <1>5, LaterIdsGoLast

(***************************************************************************)
(* The gateway's subscription: the event goes to the room of its order, in *)
(* the turn that emits it.                                                 *)
(***************************************************************************)
LEMMA BroadcastInv ==
  ASSUME RoomsInv, NEW u \in Updates, Broadcast(nextEventId, update[u].order), Emit(u)
  PROVE  RoomsInv'
<1> DEFINE i == nextEventId
           o == update[u].order
<1>1. StreamInv'
  BY EmitInv DEF RoomsInv
<1>2. /\ i = Len(emitted) + 1 /\ emitted \in Seq(Orders) /\ o \in Orders /\ i \in Nat
      /\ Len(emitted) \in Nat /\ DOMAIN emitted = 1..Len(emitted)
  BY DEF RoomsInv, StreamInv, StreamTypes, Emit
<1>3. /\ emitted' = Append(emitted, o) /\ UNCHANGED <<rooms, since>>
      /\ heard' = [s \in Sockets |-> IF o \in rooms[s] THEN Append(heard[s], i) ELSE heard[s]]
  BY DEF Emit, Broadcast
<1> HIDE DEF i, o
<1>4. /\ DOMAIN emitted' = 1..i /\ emitted'[i] = o
      /\ \A k \in DOMAIN emitted : emitted'[k] = emitted[k]
  BY <1>2, <1>3
<1>5. \A s \in Sockets : /\ heard[s] \in Seq(Nat) /\ DOMAIN heard[s] = 1..Len(heard[s])
                         /\ Len(heard[s]) \in Nat
                         /\ \A k \in DOMAIN heard[s] : heard[s][k] \in 1..Len(emitted)
  BY <1>2 DEF RoomsInv, RoomTypes, HeardIsEmitted
<1>6. ASSUME NEW s \in Sockets
      PROVE  /\ heard'[s] \in Seq(Nat)
             /\ \A k \in ToSet(heard'[s]) : k \in 1..i /\ Owner[emitted'[k]] = Reader[s]
             /\ \A j, k \in DOMAIN heard'[s] : j < k => heard'[s][j] < heard'[s][k]
             /\ \A k \in DOMAIN emitted' :
                  emitted'[k] \in rooms'[s] /\ k > since'[s][emitted'[k]] => k \in ToSet(heard'[s])
  <2>1. /\ \A j, k \in DOMAIN heard[s] : j < k => heard[s][j] < heard[s][k]
        /\ \A k \in ToSet(heard[s]) : k \in 1..Len(emitted) /\ Owner[emitted[k]] = Reader[s]
        /\ \A k \in DOMAIN emitted :
             emitted[k] \in rooms[s] /\ k > since[s][emitted[k]] => k \in ToSet(heard[s])
    BY <1>2, <1>5 DEF RoomsInv, RoomsHearTheirOrders, ToSet
  <2>2. CASE o \notin rooms[s]
    BY <1>2, <1>3, <1>4, <1>5, <2>1, <2>2
  <2>3. CASE o \in rooms[s]
    <3>1. heard'[s] = Append(heard[s], Len(emitted) + 1) /\ Owner[o] = Reader[s]
      BY <1>2, <1>3, <2>3 DEF RoomsInv, RoomsOfTheUser
    <3>2. /\ heard'[s] \in Seq(Nat)
          /\ \A j, k \in DOMAIN heard'[s] : j < k => heard'[s][j] < heard'[s][k]
          /\ ToSet(heard'[s]) = ToSet(heard[s]) \cup {i}
      BY <1>2, <1>5, <2>1, <3>1, NewIdGoesLast
    <3>3. \A k \in ToSet(heard'[s]) : k \in 1..i /\ Owner[emitted'[k]] = Reader[s]
      BY <1>2, <1>4, <2>1, <3>1, <3>2
    <3>4. \A k \in DOMAIN emitted' :
            emitted'[k] \in rooms'[s] /\ k > since'[s][emitted'[k]] => k \in ToSet(heard'[s])
      BY <1>2, <1>3, <1>4, <2>1, <3>2
    <3> QED
      BY <3>2, <3>3, <3>4
  <2> QED
    BY <2>2, <2>3
<1>7. heard' \in [Sockets -> Seq(Nat)]
  BY <1>3, <1>6
<1>8. RoomTypes' /\ RoomsOfTheUser'
  BY <1>3, <1>7 DEF RoomsInv, RoomTypes, RoomsOfTheUser
<1>9. HeardIsEmitted' /\ RoomsHearTheirOrders'
  BY <1>4, <1>6 DEF HeardIsEmitted, RoomsHearTheirOrders, ToSet
<1> QED
  BY <1>1, <1>8, <1>9 DEF RoomsInv

(***************************************************************************)
(* After a restart nobody is in a room, and the ids start again.           *)
(***************************************************************************)
LEMMA CloseSocketsInv ==
  ASSUME RoomsInv, Restart, CloseSockets
  PROVE  RoomsInv'
<1>1. StreamInv' /\ emitted' = <<>>
  BY RestartInv DEF RoomsInv, Restart
<1>2. RoomTypes' /\ \A s \in Sockets : rooms'[s] = {} /\ heard'[s] = <<>>
  BY DEF CloseSockets, RoomsInv, RoomTypes
<1>3. RoomsOfTheUser' /\ HeardIsEmitted'
  BY <1>2 DEF RoomsOfTheUser, HeardIsEmitted
<1>4. RoomsHearTheirOrders'
  BY <1>1, <1>2 DEF RoomsHearTheirOrders, ToSet
<1> QED
  BY <1>1, <1>2, <1>3, <1>4 DEF RoomsInv

(***************************************************************************)
(* Every step of the stream and of the gateway keeps the invariant.        *)
(***************************************************************************)
LEMMA RoomsStep == RoomsInv /\ [RoomsNext]_<<vars, roomVars>> => RoomsInv'
<1> SUFFICES ASSUME RoomsInv, [RoomsNext]_<<vars, roomVars>> PROVE RoomsInv'
  OBVIOUS
<1>1. CASE QuietStep /\ UNCHANGED roomVars
  <2>1. StreamInv'
    BY <1>1, QuietInv DEF RoomsInv
  <2>2. UNCHANGED emitted
    BY <1>1 DEF QuietStep, CommitStatus, LoseAnswer, Open, Stream, Refuse, Disconnect, Close, memoryVars
  <2> QED
    BY <1>1, <2>1, <2>2, RoomsKept DEF roomVars, RoomsInv, RoomTypes
<1>2. CASE \E u \in Updates : Broadcast(nextEventId, update[u].order) /\ Emit(u)
  BY <1>2, BroadcastInv
<1>3. CASE Restart /\ CloseSockets
  BY <1>3, CloseSocketsInv
<1>4. ASSUME UNCHANGED vars, NEW s \in Sockets, SocketStep(s) PROVE RoomsInv'
  <2>1. StreamInv' /\ UNCHANGED emitted
    BY <1>4, StreamKept DEF RoomsInv, vars, memoryVars
  <2>2. ASSUME NEW o \in Orders, JoinOrderRoom(s, o) PROVE RoomsInv'
    BY <2>1, <2>2, RoomsKept DEF JoinOrderRoom, RoomsInv, RoomTypes
  <2>3. CASE DisconnectSocket(s)
    <3>1. /\ rooms' \in [Sockets -> SUBSET Orders] /\ \A t \in Sockets : rooms'[t] \subseteq rooms[t]
          /\ UNCHANGED <<heard, since>>
      BY <2>3 DEF DisconnectSocket, RoomsInv, RoomTypes
    <3> QED
      BY <2>1, <3>1, RoomsKept
  <2> QED
    BY <1>4, <2>2, <2>3, CheckOwnerInv DEF SocketStep
<1>5. CASE UNCHANGED <<vars, roomVars>>
  <2>1. StreamInv' /\ UNCHANGED <<emitted, roomVars>>
    BY <1>5, StreamKept DEF RoomsInv, vars, memoryVars
  <2> QED
    BY <2>1, RoomsKept DEF roomVars, RoomsInv, RoomTypes
<1> QED
  BY <1>1, <1>2, <1>3, <1>4, <1>5 DEF RoomsNext

(***************************************************************************)
(* A socket gets each event of its user's orders once, in the order of the *)
(* ids, and none of those emitted while it is in the room is missing.      *)
(***************************************************************************)
THEOREM RoomsAreComplete == RoomsSpec => []RoomsHearTheirOrders
<1>1. RoomsInv => RoomsHearTheirOrders
  BY DEF RoomsInv
<1> QED
  BY <1>1, RoomsStart, RoomsStep, PTL DEF RoomsSpec

=============================================================================
