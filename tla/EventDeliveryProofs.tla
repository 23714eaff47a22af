------------------------ MODULE EventDeliveryProofs ------------------------
(***************************************************************************)
(* Proofs about EventDelivery, for any number of events, relays, consumers *)
(* and faults, and any batch and prefetch.                                 *)
(***************************************************************************)
EXTENDS EventDelivery, FiniteSetTheorems, WellFoundedInduction, TLAPS

Batches ==
  [at : {"idle", "publish", "mark", "commit"}, batch : SUBSET Events, left : SUBSET Events]

Callbacks ==
  [at : {"free", "marker", "effect", "commit", "ack", "failed"}, event : Events \cup {0},
   live : BOOLEAN]

RelayTypes ==
  /\ outbox \in [Events -> {"none", "pending", "published"}]
  /\ relay \in [Relays -> Batches]

BrokerTypes ==
  /\ topology \subseteq Parts
  /\ queue \in [Events -> Nat]
  /\ dead \subseteq Events
  /\ unrouted \subseteq Events

ConsumerTypes ==
  /\ asserted \in [Consumers -> 0..3]
  /\ handler \in [Slots -> Callbacks]
  /\ processed \subseteq Events
  /\ effects \subseteq Events
  /\ applied \in [Events -> Nat]

TypeInv == RelayTypes /\ BrokerTypes /\ ConsumerTypes

(***************************************************************************)
(* Callbacks in a slot: what they have to do with the event they hold.     *)
(***************************************************************************)
Busy(s) == handler[s].at # "free"

Holds(s) == handler[s].at \in {"effect", "commit"}

SlotsHoldEvents ==
  \A s \in Slots : IF Busy(s) THEN handler[s].event \in Events ELSE handler[s] = Free

(***************************************************************************)
(* A marker that is not committed is that of one transaction only, and     *)
(* its event has not been processed.                                       *)
(***************************************************************************)
OneMarkerHolder ==
  /\ \A s \in Slots : Holds(s) => handler[s].event \notin processed
  /\ \A s, t \in Slots : Holds(s) /\ Holds(t) /\ handler[s].event = handler[t].event => s = t

EndedIsProcessed ==
  \A s \in Slots : handler[s].at \in {"ack", "failed"} => handler[s].event \in processed

(***************************************************************************)
(* assertOrderPlacedTopology declares the dead-letter queue before the     *)
(* queue: what has been delivered can be dead-lettered.                    *)
(***************************************************************************)
TopologyInOrder ==
  /\ "queue" \in topology => "dlq" \in topology
  /\ \A c \in Consumers : \A i \in 1..asserted[c] : AssertOrder[i] \in topology
  /\ \A s \in Slots : handler[s].live => "dlq" \in topology

OnItsWay(e) == queue[e] > 0 \/ Unacked(e) # {}

AccountedFor(e) == e \in effects \cup dead \cup unrouted \/ OnItsWay(e)

(***************************************************************************)
(* Whatever of its batch a relay has published is accounted for.           *)
(***************************************************************************)
BatchOk(r) ==
  /\ relay[r].left \subseteq relay[r].batch
  /\ relay[r].at = "idle" => relay[r].batch = {}
  /\ relay[r].at \in {"publish", "mark"} => relay[r].left # {}
  /\ relay[r].at = "commit" => relay[r].left = {}
  /\ \A e \in relay[r].batch \ relay[r].left : AccountedFor(e)
  /\ relay[r].at = "mark" => AccountedFor(Row(r))

BatchesAccountedFor == \A r \in Relays : BatchOk(r)

RowsAccountedFor == \A e \in Events : outbox[e] = "published" => AccountedFor(e)

ConsumerInv ==
  /\ SlotsHoldEvents
  /\ OneMarkerHolder
  /\ EndedIsProcessed
  /\ AppliedAtMostOnce

DInv == TypeInv /\ ConsumerInv /\ TopologyInOrder /\ BatchesAccountedFor /\ RowsAccountedFor

-----------------------------------------------------------------------------
(***************************************************************************)
(* Min is defined by CHOOSE: a batch has a first row.                      *)
(***************************************************************************)
LEMMA MinOfEvents ==
  ASSUME NEW S \in SUBSET Events, S # {}
  PROVE  Min(S) \in S
<1> DEFINE R == {ss \in Nat \X Nat : ss[1] < ss[2]}
<1>1. S \subseteq Nat
  BY DEF Events
<1>2. R = OpToRel(<, Nat)
  BY Zenon DEF OpToRel
<1>3. IsWellFoundedOn(R, Nat)
  BY <1>2, NatLessThanWellFounded
<1>4. \A m, n \in Nat : m < n => <<m, n>> \in R
  <2> SUFFICES ASSUME NEW m \in Nat, NEW n \in Nat, m < n PROVE <<m, n>> \in R
    OBVIOUS
  <2> DEFINE p == <<m, n>>
  <2>1. p \in Nat \X Nat /\ p[1] = m /\ p[2] = n
    OBVIOUS
  <2> HIDE DEF p
  <2>2. p \in R
    BY <2>1
  <2> QED
    BY <2>2 DEF p
<1> HIDE DEF R
<1>5. PICK x \in S : \A y \in S : ~(<<y, x>> \in R)
  BY <1>1, <1>3, WFMin
<1>6. ASSUME NEW y \in S PROVE x <= y
  <2>1. x \in Nat /\ y \in Nat
    BY <1>1
  <2>2. ~(y < x)
    BY <1>4, <1>5, <2>1, Zenon
  <2> QED
    BY <2>1, <2>2
<1> QED
  BY <1>6 DEF Min

(***************************************************************************)
(* There are as many unacknowledged copies as there are slots, at most.    *)
(***************************************************************************)
LEMMA UnackedFinite ==
  ASSUME NEW e
  PROVE  IsFiniteSet(Unacked(e))
<1>1. IsFiniteSet(1..Prefetch)
  BY DeliveryAssumption, FS_Interval
<1>2. IsFiniteSet(Slots)
  BY <1>1, DeliveryAssumption, FS_Product DEF Slots
<1>3. Unacked(e) \subseteq Slots
  BY DEF Unacked
<1> QED
  BY <1>2, <1>3, FS_Subset

(***************************************************************************)
(* Copies(e) is a count: positive when a copy is ready or unacknowledged.  *)
(***************************************************************************)
LEMMA CopiesCount ==
  ASSUME TypeInv, NEW e \in Events
  PROVE  Copies(e) > 0 <=> OnItsWay(e)
<1>1. IsFiniteSet(Unacked(e))
  BY UnackedFinite
<1>2. Cardinality(Unacked(e)) \in Nat /\ (Cardinality(Unacked(e)) = 0 <=> Unacked(e) = {})
  BY <1>1, FS_CardinalityType, FS_EmptySet
<1>3. queue[e] \in Nat
  BY DEF TypeInv, BrokerTypes
<1> QED
  BY <1>2, <1>3 DEF Copies, OnItsWay

-----------------------------------------------------------------------------
(***************************************************************************)
(* Nothing has been committed, published or delivered yet.                 *)
(***************************************************************************)
LEMMA InitInv == Init => DInv
<1> SUFFICES ASSUME Init PROVE DInv
  OBVIOUS
<1>1. TypeInv
  <2>1. topology \subseteq Parts
    BY DeliveryAssumption DEF Init, Parts
  <2>2. RelayTypes
    BY DEF Init, RelayTypes, Batches, Idle
  <2>3. ConsumerTypes
    BY DEF Init, ConsumerTypes, Callbacks, Free
  <2> QED
    BY <2>1, <2>2, <2>3 DEF Init, TypeInv, BrokerTypes
<1>2. ConsumerInv
  BY DEF Init, ConsumerInv, SlotsHoldEvents, OneMarkerHolder, EndedIsProcessed,
         AppliedAtMostOnce, Busy, Holds, Free
<1>3. TopologyInOrder
  <2>1. "queue" \in topology => "dlq" \in topology
    BY DeliveryAssumption DEF Init, Parts
  <2>2. \A c \in Consumers : 1..asserted[c] = {}
    BY DEF Init
  <2> QED
    BY <2>1, <2>2 DEF Init, TopologyInOrder, Free
<1>4. BatchesAccountedFor /\ RowsAccountedFor
  BY DEF Init, BatchesAccountedFor, BatchOk, RowsAccountedFor, Idle
<1> QED
  BY <1>1, <1>2, <1>3, <1>4 DEF DInv

(***************************************************************************)
(* Steps of relays and of orders leave consumers alone.                    *)
(***************************************************************************)
LEMMA ConsumersUntouched ==
  ASSUME ConsumerTypes, ConsumerInv, UNCHANGED consumerVars
  PROVE  ConsumerTypes' /\ ConsumerInv'
<1>1. ConsumerTypes'
  BY DEF ConsumerTypes, consumerVars
<1>2. ConsumerInv'
  BY DEF ConsumerInv, SlotsHoldEvents, OneMarkerHolder, EndedIsProcessed, AppliedAtMostOnce,
         Busy, Holds, consumerVars
<1> QED
  BY <1>1, <1>2

(***************************************************************************)
(* Steps of consumers leave relays and orders alone, and lose nothing that *)
(* has been published.                                                     *)
(***************************************************************************)
LEMMA NothingLost ==
  ASSUME RelayTypes, BatchesAccountedFor, RowsAccountedFor, UNCHANGED <<outbox, relay>>,
         \A e \in Events : AccountedFor(e) => AccountedFor(e)'
  PROVE  RelayTypes' /\ BatchesAccountedFor' /\ RowsAccountedFor'
<1>1. RelayTypes'
  BY DEF RelayTypes
<1>2. \A r \in Relays : relay[r].batch \subseteq Events
  BY DEF RelayTypes, Batches
<1>3. BatchesAccountedFor'
  <2> SUFFICES ASSUME NEW r \in Relays PROVE BatchOk(r)'
    BY DEF BatchesAccountedFor
  <2>1. BatchOk(r) /\ relay'[r] = relay[r] /\ Row(r)' = Row(r)
    BY DEF BatchesAccountedFor, Row
  <2>2. relay[r].at = "mark" => Row(r) \in Events
    <3>1. relay[r].left \in SUBSET Events
      BY <1>2, <2>1 DEF BatchOk
    <3> QED
      BY <2>1, <3>1, MinOfEvents DEF BatchOk, Row
  <2> QED
    BY <1>2, <2>1, <2>2 DEF BatchOk
<1>4. RowsAccountedFor'
  BY DEF RowsAccountedFor
<1> QED
  BY <1>1, <1>3, <1>4

-----------------------------------------------------------------------------
(***************************************************************************)
(* Steps of relays and of orders: what is left to show of them.            *)
(***************************************************************************)
LEMMA RelaySide ==
  ASSUME DInv, UNCHANGED consumerVars, topology' = topology,
         RelayTypes', BrokerTypes', BatchesAccountedFor', RowsAccountedFor'
  PROVE  DInv'
<1>1. ConsumerTypes' /\ ConsumerInv'
  BY ConsumersUntouched DEF DInv, TypeInv
<1>2. TopologyInOrder'
  BY DEF DInv, TopologyInOrder, consumerVars
<1> QED
  BY <1>1, <1>2 DEF DInv, TypeInv

(***************************************************************************)
(* An exchange that takes a message makes its event accounted for: a copy  *)
(* is in the queue, or no queue was bound.                                 *)
(***************************************************************************)
LEMMA RouteAccounts ==
  ASSUME BrokerTypes, NEW e \in Events, Route(e), UNCHANGED consumerVars
  PROVE  /\ BrokerTypes'
         /\ topology' = topology
         /\ AccountedFor(e)'
         /\ \A d \in Events : AccountedFor(d) => AccountedFor(d)'
<1>1. \A d \in Events : Unacked(d)' = Unacked(d)
  BY DEF Unacked, consumerVars
<1>2. CASE "queue" \in topology
  <2>1. queue' = [queue EXCEPT ![e] = @ + 1] /\ UNCHANGED <<unrouted, topology, dead>>
    BY <1>2 DEF Route
  <2>2. BrokerTypes' /\ \A d \in Events : queue'[d] \in Nat /\ queue[d] \in Nat /\ queue'[d] >= queue[d]
    BY <2>1 DEF BrokerTypes
  <2>3. queue'[e] > 0
    BY <2>1 DEF BrokerTypes
  <2> QED
    BY <1>1, <2>1, <2>2, <2>3 DEF AccountedFor, OnItsWay, consumerVars
<1>3. CASE "queue" \notin topology
  <2>1. unrouted' = unrouted \cup {e} /\ UNCHANGED <<queue, topology, dead>>
    BY <1>3 DEF Route
  <2> QED
    BY <1>1, <2>1 DEF AccountedFor, OnItsWay, consumerVars, BrokerTypes
<1> QED
  BY <1>2, <1>3

(***************************************************************************)
(* When nothing of the broker or of the consumers changes, what was        *)
(* accounted for still is.                                                 *)
(***************************************************************************)
LEMMA StillAccountedFor ==
  ASSUME UNCHANGED <<brokerVars, consumerVars>>
  PROVE  \A d \in Events : AccountedFor(d) <=> AccountedFor(d)'
BY DEF AccountedFor, OnItsWay, Unacked, brokerVars, consumerVars

(***************************************************************************)
(* A relay that has rows left to mark has a first one, an event.           *)
(***************************************************************************)
LEMMA RowIsLeft ==
  ASSUME RelayTypes, BatchesAccountedFor, NEW r \in Relays, relay[r].at \in {"publish", "mark"}
  PROVE  Row(r) \in relay[r].left /\ Row(r) \in relay[r].batch /\ Row(r) \in Events
<1>1. relay[r].left \in SUBSET Events
  BY DEF RelayTypes, Batches
<1>2. relay[r].left # {} /\ relay[r].left \subseteq relay[r].batch
  BY DEF BatchesAccountedFor, BatchOk
<1> QED
  BY <1>1, <1>2, MinOfEvents DEF Row

(***************************************************************************)
(* The other relays' batches, while one relay takes a step that loses      *)
(* nothing.                                                                *)
(***************************************************************************)
LEMMA OtherBatches ==
  ASSUME RelayTypes, BatchesAccountedFor, NEW r \in Relays, NEW new \in Batches,
         relay' = [relay EXCEPT ![r] = new], BatchOk(r)',
         \A d \in Events : AccountedFor(d) => AccountedFor(d)'
  PROVE  relay' \in [Relays -> Batches] /\ BatchesAccountedFor'
<1>1. relay' \in [Relays -> Batches]
  BY DEF RelayTypes
<1>2. ASSUME NEW q \in Relays, q # r PROVE BatchOk(q)'
  <2>1. relay'[q] = relay[q] /\ BatchOk(q) /\ Row(q)' = Row(q) /\ relay[q].batch \subseteq Events
    BY <1>2 DEF RelayTypes, Batches, BatchesAccountedFor, Row
  <2>2. relay[q].at = "mark" => Row(q) \in Events
    BY RowIsLeft
  <2> QED
    BY <2>1, <2>2 DEF BatchOk
<1> QED
  BY <1>1, <1>2 DEF BatchesAccountedFor

-----------------------------------------------------------------------------
(***************************************************************************)
(* A committed order's row is pending.                                     *)
(***************************************************************************)
LEMMA CommitOrderInv ==
  ASSUME DInv, NEW e \in Events, CommitOrder(e)
  PROVE  DInv'
<1>1. UNCHANGED <<relay, brokerVars, consumerVars>> /\ outbox' = [outbox EXCEPT ![e] = "pending"]
  BY DEF CommitOrder
<1>2. RelayTypes'
  BY <1>1 DEF DInv, TypeInv, RelayTypes
<1>3. \A d \in Events : AccountedFor(d) <=> AccountedFor(d)'
  BY <1>1, StillAccountedFor
<1>4. BatchesAccountedFor'
  <2> SUFFICES ASSUME NEW r \in Relays PROVE BatchOk(r)'
    BY DEF BatchesAccountedFor
  <2>1. BatchOk(r) /\ relay'[r] = relay[r] /\ Row(r)' = Row(r) /\ relay[r].batch \subseteq Events
    BY <1>1 DEF DInv, TypeInv, RelayTypes, Batches, BatchesAccountedFor, Row
  <2>2. relay[r].at = "mark" => Row(r) \in Events
    BY RowIsLeft DEF DInv, TypeInv
  <2> QED
    BY <1>3, <2>1, <2>2 DEF BatchOk
<1>5. RowsAccountedFor'
  BY <1>1, <1>3 DEF DInv, TypeInv, RelayTypes, RowsAccountedFor
<1>6. BrokerTypes' /\ topology' = topology
  BY <1>1 DEF DInv, TypeInv, BrokerTypes, brokerVars
<1> QED
  BY <1>1, <1>2, <1>4, <1>5, <1>6, RelaySide

(***************************************************************************)
(* A new batch has nothing marked yet.                                     *)
(***************************************************************************)
LEMMA SelectRowsInv ==
  ASSUME DInv, NEW r \in Relays, SelectRows(r)
  PROVE  DInv'
<1> DEFINE batch == OldestOf(Selectable)
           new == [at |-> IF batch = {} THEN "commit" ELSE "publish", batch |-> batch, left |-> batch]
<1>1. batch \subseteq Events
  BY DEF OldestOf, Selectable
<1> HIDE DEF batch
<1>2. new \in Batches
  BY <1>1 DEF Batches
<1>3. UNCHANGED <<outbox, brokerVars, consumerVars>> /\ relay' = [relay EXCEPT ![r] = new]
  BY DEF SelectRows, batch
<1>4. \A d \in Events : AccountedFor(d) <=> AccountedFor(d)'
  BY <1>3, StillAccountedFor
<1>5. BatchOk(r)'
  <2>1. relay'[r] = new
    BY <1>3 DEF DInv, TypeInv, RelayTypes
  <2> QED
    BY <2>1 DEF BatchOk
<1>6. relay' \in [Relays -> Batches] /\ BatchesAccountedFor'
  BY <1>2, <1>3, <1>4, <1>5, OtherBatches DEF DInv, TypeInv
<1>7. RelayTypes'
  BY <1>3, <1>6 DEF DInv, TypeInv, RelayTypes
<1>8. RowsAccountedFor'
  BY <1>3, <1>4 DEF DInv, RowsAccountedFor
<1>9. BrokerTypes' /\ topology' = topology
  BY <1>3 DEF DInv, TypeInv, BrokerTypes, brokerVars
<1> QED
  BY <1>3, <1>6, <1>7, <1>8, <1>9, RelaySide

(***************************************************************************)
(* A batch that is rolled back, whatever became of the message sent last.  *)
(***************************************************************************)
LEMMA RollbackInv ==
  ASSUME DInv, NEW r \in Relays, Rollback(r), UNCHANGED consumerVars, topology' = topology,
         BrokerTypes', \A d \in Events : AccountedFor(d) => AccountedFor(d)'
  PROVE  DInv'
<1>1. UNCHANGED outbox /\ relay' = [relay EXCEPT ![r] = Idle] /\ Idle \in Batches
  BY DEF Rollback, Idle, Batches
<1>2. BatchOk(r)'
  <2>1. relay'[r] = Idle
    BY <1>1 DEF DInv, TypeInv, RelayTypes
  <2> QED
    BY <2>1 DEF BatchOk, Idle
<1>3. relay' \in [Relays -> Batches] /\ BatchesAccountedFor'
  BY <1>1, <1>2, OtherBatches DEF DInv, TypeInv
<1>4. RelayTypes' /\ RowsAccountedFor'
  BY <1>1, <1>3 DEF DInv, TypeInv, RelayTypes, RowsAccountedFor
<1> QED
  BY <1>3, <1>4, RelaySide

(***************************************************************************)
(* A relay that fails leaves its rows pending.                             *)
(***************************************************************************)
LEMMA RelayFailsInv ==
  ASSUME DInv, NEW r \in Relays, RelayFails(r)
  PROVE  DInv'
<1>1. Rollback(r) /\ UNCHANGED consumerVars
  BY DEF RelayFails
<1>2. CASE UNCHANGED brokerVars
  <2>1. \A d \in Events : AccountedFor(d) => AccountedFor(d)'
    BY <1>1, <1>2, StillAccountedFor
  <2>2. BrokerTypes' /\ topology' = topology
    BY <1>2 DEF DInv, TypeInv, BrokerTypes, brokerVars
  <2> QED
    BY <1>1, <2>1, <2>2, RollbackInv
<1>3. CASE relay[r].at = "publish" /\ Route(Row(r))
  <2>1. Row(r) \in Events
    BY <1>3, RowIsLeft DEF DInv, TypeInv
  <2>2. BrokerTypes' /\ topology' = topology /\ \A d \in Events : AccountedFor(d) => AccountedFor(d)'
    BY <1>1, <1>3, <2>1, RouteAccounts DEF DInv, TypeInv
  <2> QED
    BY <1>1, <2>2, RollbackInv
<1> QED
  BY <1>2, <1>3 DEF RelayFails

(***************************************************************************)
(* The publish of a row is confirmed, or the batch is rolled back.         *)
(***************************************************************************)
LEMMA PublishInv ==
  ASSUME DInv, NEW r \in Relays, Publish(r), UNCHANGED consumerVars
  PROVE  DInv'
<1>1. relay[r].at = "publish" /\ Row(r) \in Events
  BY RowIsLeft DEF Publish, DInv, TypeInv
<1>2. CASE Route(Row(r)) /\ relay' = [relay EXCEPT ![r].at = "mark"] /\ UNCHANGED outbox
  <2> DEFINE new == [relay[r] EXCEPT !.at = "mark"]
  <2>1. /\ BrokerTypes' /\ topology' = topology /\ AccountedFor(Row(r))'
        /\ \A d \in Events : AccountedFor(d) => AccountedFor(d)'
    <3>1. PICK e \in Events : e = Row(r)
      BY <1>1
    <3>2. BrokerTypes' /\ topology' = topology /\ AccountedFor(e)'
          /\ \A d \in Events : AccountedFor(d) => AccountedFor(d)'
      BY <1>2, <3>1, RouteAccounts DEF DInv, TypeInv
    <3>3. Row(r)' = Row(r)
      BY <1>2 DEF Row, DInv, TypeInv, RelayTypes, Batches
    <3> QED
      BY <3>1, <3>2, <3>3
  <2>2. relay[r] \in Batches
    BY DEF DInv, TypeInv, RelayTypes
  <2>3. new \in Batches /\ relay' = [relay EXCEPT ![r] = new]
    BY <1>2, <2>2 DEF Batches
  <2>4. relay'[r] = new /\ new.at = "mark" /\ new.batch = relay[r].batch /\ new.left = relay[r].left
    BY <2>2, <2>3 DEF DInv, TypeInv, RelayTypes, Batches
  <2>5. BatchOk(r)'
    <3>1. BatchOk(r) /\ relay[r].batch \subseteq Events
      BY <2>2 DEF DInv, BatchesAccountedFor, Batches
    <3> QED
      BY <1>1, <2>1, <2>4, <3>1 DEF BatchOk
  <2>6. relay' \in [Relays -> Batches] /\ BatchesAccountedFor'
    BY <2>1, <2>3, <2>5, OtherBatches DEF DInv, TypeInv
  <2>7. RelayTypes' /\ RowsAccountedFor'
    BY <1>2, <2>1, <2>6 DEF DInv, TypeInv, RelayTypes, RowsAccountedFor
  <2> QED
    BY <2>1, <2>6, <2>7, RelaySide
<1>3. CASE Rollback(r) /\ UNCHANGED brokerVars
  <2>1. \A d \in Events : AccountedFor(d) => AccountedFor(d)'
    BY <1>3, StillAccountedFor
  <2>2. BrokerTypes' /\ topology' = topology
    BY <1>3 DEF DInv, TypeInv, BrokerTypes, brokerVars
  <2> QED
    BY <1>3, <2>1, <2>2, RollbackInv
<1> QED
  BY <1>2, <1>3 DEF Publish

(***************************************************************************)
(* The UPDATE of a row whose message was confirmed.                        *)
(***************************************************************************)
LEMMA MarkPublishedInv ==
  ASSUME DInv, NEW r \in Relays, MarkPublished(r), UNCHANGED consumerVars
  PROVE  DInv'
<1> DEFINE left == relay[r].left \ {Row(r)}
           new == [relay[r] EXCEPT !.left = left, !.at = IF left = {} THEN "commit" ELSE "publish"]
<1>1. relay[r].at = "mark" /\ UNCHANGED <<outbox, brokerVars>> /\ relay' = [relay EXCEPT ![r] = new]
  BY DEF MarkPublished
<1>2. relay[r] \in Batches /\ new \in Batches
  BY DEF DInv, TypeInv, RelayTypes, Batches
<1>3. \A d \in Events : AccountedFor(d) <=> AccountedFor(d)'
  BY <1>1, StillAccountedFor
<1>4. relay'[r] = new /\ new.batch = relay[r].batch /\ new.left = left
      /\ new.at = IF left = {} THEN "commit" ELSE "publish"
  BY <1>1, <1>2 DEF DInv, TypeInv, RelayTypes, Batches
<1>5. BatchOk(r)'
  <2>1. BatchOk(r) /\ relay[r].batch \subseteq Events
    BY <1>2 DEF DInv, BatchesAccountedFor, Batches
  <2>2. left \subseteq relay[r].batch /\ \A e \in relay[r].batch \ left : AccountedFor(e)'
    BY <1>1, <1>3, <2>1 DEF BatchOk
  <2> QED
    BY <1>4, <2>2 DEF BatchOk
<1>6. relay' \in [Relays -> Batches] /\ BatchesAccountedFor'
  BY <1>1, <1>2, <1>3, <1>5, OtherBatches DEF DInv, TypeInv
<1>7. RelayTypes' /\ RowsAccountedFor'
  BY <1>1, <1>3, <1>6 DEF DInv, TypeInv, RelayTypes, RowsAccountedFor
<1>8. BrokerTypes' /\ topology' = topology
  BY <1>1 DEF DInv, TypeInv, BrokerTypes, brokerVars
<1> QED
  BY <1>6, <1>7, <1>8, RelaySide

(***************************************************************************)
(* The commit makes a batch published of which every row was marked.       *)
(***************************************************************************)
LEMMA CommitBatchInv ==
  ASSUME DInv, NEW r \in Relays, CommitBatch(r), UNCHANGED consumerVars
  PROVE  DInv'
<1>1. /\ relay[r].at = "commit" /\ UNCHANGED brokerVars /\ relay' = [relay EXCEPT ![r] = Idle]
      /\ outbox' = [e \in Events |-> IF e \in relay[r].batch THEN "published" ELSE outbox[e]]
  BY DEF CommitBatch
<1>2. \A d \in Events : AccountedFor(d) <=> AccountedFor(d)'
  BY <1>1, StillAccountedFor
<1>3. \A e \in relay[r].batch : AccountedFor(e)
  BY <1>1 DEF DInv, BatchesAccountedFor, BatchOk
<1>4. RowsAccountedFor'
  BY <1>1, <1>2, <1>3 DEF DInv, RowsAccountedFor
<1>5. BatchOk(r)'
  <2>1. relay'[r] = Idle
    BY <1>1 DEF DInv, TypeInv, RelayTypes
  <2> QED
    BY <2>1 DEF BatchOk, Idle
<1>6. relay' \in [Relays -> Batches] /\ BatchesAccountedFor'
  <2>1. Idle \in Batches
    BY DEF Idle, Batches
  <2> QED
    BY <1>1, <1>2, <1>5, <2>1, OtherBatches DEF DInv, TypeInv
<1>7. RelayTypes'
  BY <1>1, <1>6 DEF DInv, TypeInv, RelayTypes
<1>8. BrokerTypes' /\ topology' = topology
  BY <1>1 DEF DInv, TypeInv, BrokerTypes, brokerVars
<1> QED
  BY <1>4, <1>6, <1>7, <1>8, RelaySide

-----------------------------------------------------------------------------
(***************************************************************************)
(* Steps of consumers: what is left to show of them.                       *)
(***************************************************************************)
LEMMA ConsumerSide ==
  ASSUME DInv, UNCHANGED <<outbox, relay>>, BrokerTypes', ConsumerTypes', ConsumerInv',
         TopologyInOrder', \A e \in Events : AccountedFor(e) => AccountedFor(e)'
  PROVE  DInv'
<1>1. RelayTypes' /\ BatchesAccountedFor' /\ RowsAccountedFor'
  BY NothingLost DEF DInv, TypeInv
<1> QED
  BY <1>1 DEF DInv, TypeInv

(***************************************************************************)
(* Callbacks that end, or only lose their channel, break nothing that is   *)
(* said of the callbacks.                                                  *)
(***************************************************************************)
LEMMA CallbacksEnd ==
  ASSUME ConsumerInv, handler' \in [Slots -> Callbacks],
         UNCHANGED <<processed, effects, applied>>,
         \A s \in Slots : \/ handler'[s] = Free
                          \/ /\ Busy(s)
                             /\ handler'[s].at = handler[s].at
                             /\ handler'[s].event = handler[s].event
  PROVE  ConsumerInv'
<1>1. SlotsHoldEvents'
  BY DEF ConsumerInv, SlotsHoldEvents, Busy, Free
<1>2. OneMarkerHolder'
  BY DEF ConsumerInv, OneMarkerHolder, Holds, Free
<1>3. EndedIsProcessed'
  BY DEF ConsumerInv, EndedIsProcessed, Free
<1>4. AppliedAtMostOnce'
  BY DEF ConsumerInv, AppliedAtMostOnce
<1> QED
  BY <1>1, <1>2, <1>3, <1>4 DEF ConsumerInv

(***************************************************************************)
(* The broker takes back every copy that the channels of c had not         *)
(* acknowledged, and those of other channels stay where they are.          *)
(***************************************************************************)
LEMMA RequeueKeeps ==
  ASSUME BrokerTypes, NEW c \in Consumers, Requeue(c),
         UNCHANGED <<topology, dead, unrouted, effects>>,
         \A s \in Slots : s[1] # c => handler'[s] = handler[s]
  PROVE  BrokerTypes' /\ \A e \in Events : AccountedFor(e) => AccountedFor(e)'
<1> DEFINE taken(e) == Unacked(e) \cap SlotsOf(c)
<1>1. ASSUME NEW e \in Events
      PROVE  /\ Cardinality(taken(e)) \in Nat
             /\ Cardinality(taken(e)) = 0 <=> taken(e) = {}
             /\ queue[e] \in Nat
             /\ queue'[e] = queue[e] + Cardinality(taken(e))
  <2>1. IsFiniteSet(taken(e))
    BY UnackedFinite, FS_Subset
  <2>2. Cardinality(taken(e)) \in Nat /\ (Cardinality(taken(e)) = 0 <=> taken(e) = {})
    BY <2>1, FS_CardinalityType, FS_EmptySet
  <2> QED
    BY <2>2 DEF BrokerTypes, Requeue
<1>2. \A s \in Slots : s \notin SlotsOf(c) => handler'[s] = handler[s]
  BY DEF Slots, SlotsOf
<1>3. BrokerTypes'
  BY <1>1 DEF BrokerTypes, Requeue
<1>4. ASSUME NEW e \in Events, AccountedFor(e) PROVE AccountedFor(e)'
  <2>1. CASE e \in effects \cup dead \cup unrouted
    BY <2>1 DEF AccountedFor
  <2>2. CASE queue[e] > 0 \/ taken(e) # {}
    <3> DEFINE n == Cardinality(taken(e))
    <3>1. n \in Nat /\ (taken(e) # {} => n # 0) /\ queue[e] \in Nat /\ queue'[e] = queue[e] + n
      BY <1>1
    <3> HIDE DEF n
    <3>2. queue'[e] > 0
      BY <2>2, <3>1
    <3> QED
      BY <3>2 DEF AccountedFor, OnItsWay
  <2>3. CASE Unacked(e) # {} /\ taken(e) = {}
    <3>1. Unacked(e) \subseteq Unacked(e)'
      BY <1>2, <2>3 DEF Unacked
    <3> QED
      BY <2>3, <3>1 DEF AccountedFor, OnItsWay
  <2> QED
    BY <1>4, <2>1, <2>2, <2>3 DEF AccountedFor, OnItsWay
<1> QED
  BY <1>3, <1>4

(***************************************************************************)
(* What a consumer's start, and its part in the topology, leave in order.  *)
(***************************************************************************)
LEMMA StartConsumerInv ==
  ASSUME DInv, NEW c \in Consumers, StartConsumer(c)
  PROVE  DInv'
<1>1. /\ asserted' = [asserted EXCEPT ![c] = 0]
      /\ UNCHANGED <<outbox, relay, topology, queue, dead, unrouted, handler, processed, effects, applied>>
  BY DEF StartConsumer, brokerVars
<1>2. BrokerTypes' /\ ConsumerTypes'
  BY <1>1 DEF DInv, TypeInv, BrokerTypes, ConsumerTypes
<1>3. ConsumerInv'
  BY <1>1 DEF DInv, ConsumerInv, SlotsHoldEvents, OneMarkerHolder, EndedIsProcessed,
              AppliedAtMostOnce, Busy, Holds
<1>4. TopologyInOrder'
  BY <1>1 DEF DInv, TypeInv, ConsumerTypes, TopologyInOrder
<1>5. \A e \in Events : AccountedFor(e) => AccountedFor(e)'
  BY <1>1 DEF AccountedFor, OnItsWay, Unacked
<1> QED
  BY <1>1, <1>2, <1>3, <1>4, <1>5, ConsumerSide

(***************************************************************************)
(* The part that is asserted last, the queue, comes after the dead-letter  *)
(* queue.                                                                  *)
(***************************************************************************)
LEMMA AssertTopologyInv ==
  ASSUME DInv, NEW c \in Consumers, AssertTopology(c)
  PROVE  DInv'
<1> DEFINE i == asserted[c] + 1
<1>1. /\ asserted[c] < 3 /\ asserted' = [asserted EXCEPT ![c] = @ + 1]
      /\ topology' = topology \cup {AssertOrder[asserted[c] + 1]}
      /\ UNCHANGED <<outbox, relay, queue, dead, unrouted, handler, processed, effects, applied>>
  BY DEF AssertTopology, AssertOrder
<1>2. asserted[c] \in 0..2 /\ i \in 1..3 /\ asserted'[c] = i
  BY <1>1 DEF DInv, TypeInv, ConsumerTypes
<1>3. AssertOrder[1] = "exchange" /\ AssertOrder[2] = "dlq" /\ AssertOrder[3] = "queue"
  BY DEF AssertOrder
<1>4. BrokerTypes'
  <2>1. AssertOrder[i] \in Parts
    BY <1>2, <1>3 DEF Parts
  <2> QED
    BY <1>1, <2>1 DEF DInv, TypeInv, BrokerTypes
<1>5. ConsumerTypes'
  BY <1>1, <1>2 DEF DInv, TypeInv, ConsumerTypes
<1>6. ConsumerInv'
  BY <1>1 DEF DInv, ConsumerInv, SlotsHoldEvents, OneMarkerHolder, EndedIsProcessed,
              AppliedAtMostOnce, Busy, Holds
<1>7. TopologyInOrder'
  <2>1. "queue" \in topology' => "dlq" \in topology'
    <3>1. i = 3 => AssertOrder[2] \in topology
      BY <1>2 DEF DInv, TopologyInOrder
    <3> QED
      BY <1>1, <1>2, <1>3, <3>1 DEF DInv, TopologyInOrder
  <2>2. \A d \in Consumers : \A j \in 1..asserted'[d] : AssertOrder[j] \in topology'
    <3> SUFFICES ASSUME NEW d \in Consumers, NEW j \in 1..asserted'[d]
                 PROVE  AssertOrder[j] \in topology'
      OBVIOUS
    <3>1. CASE d = c /\ j = i
      BY <1>1, <3>1
    <3>2. CASE ~(d = c /\ j = i)
      <4>1. j \in 1..asserted[d]
        BY <1>1, <1>2, <3>2 DEF DInv, TypeInv, ConsumerTypes
      <4> QED
        BY <1>1, <4>1 DEF DInv, TopologyInOrder
    <3> QED
      BY <3>1, <3>2
  <2> QED
    BY <1>1, <2>1, <2>2 DEF DInv, TopologyInOrder
<1>8. \A e \in Events : AccountedFor(e) => AccountedFor(e)'
  BY <1>1 DEF AccountedFor, OnItsWay, Unacked
<1> QED
  BY <1>1, <1>4, <1>5, <1>6, <1>7, <1>8, ConsumerSide

(***************************************************************************)
(* A delivery moves a copy from the queue to a free slot.                  *)
(***************************************************************************)
LEMMA DeliverInv ==
  ASSUME DInv, NEW s \in Slots, NEW e \in Events, Deliver(s, e)
  PROVE  DInv'
<1> DEFINE new == [at |-> "marker", event |-> e, live |-> TRUE]
<1>1. /\ handler[s] = Free /\ handler' = [handler EXCEPT ![s] = new]
      /\ "queue" \in topology /\ queue[e] > 0 /\ queue' = [queue EXCEPT ![e] = @ - 1]
      /\ UNCHANGED <<outbox, relay, topology, dead, unrouted, asserted, processed, effects, applied>>
  BY DEF Deliver, Consuming
<1>2. BrokerTypes' /\ ConsumerTypes'
  <2>1. new \in Callbacks
    BY DEF Callbacks
  <2>2. BrokerTypes'
    BY <1>1 DEF DInv, TypeInv, BrokerTypes
  <2>3. ConsumerTypes'
    BY <1>1, <2>1 DEF DInv, TypeInv, ConsumerTypes
  <2> QED
    BY <2>2, <2>3
<1>3. \A t \in Slots : handler'[t] = IF t = s THEN new ELSE handler[t]
  BY <1>1 DEF DInv, TypeInv, ConsumerTypes
<1>4. ConsumerInv'
  <2>1. SlotsHoldEvents' /\ EndedIsProcessed'
    BY <1>1, <1>3 DEF DInv, ConsumerInv, SlotsHoldEvents, EndedIsProcessed, Busy
  <2>2. OneMarkerHolder'
    BY <1>1, <1>3 DEF DInv, ConsumerInv, OneMarkerHolder, Holds
  <2> QED
    BY <1>1, <2>1, <2>2 DEF DInv, ConsumerInv, AppliedAtMostOnce
<1>5. TopologyInOrder'
  BY <1>1, <1>3 DEF DInv, TopologyInOrder
<1>6. ASSUME NEW d \in Events, AccountedFor(d) PROVE AccountedFor(d)'
  <2>1. Unacked(d) \subseteq Unacked(d)'
    BY <1>1, <1>3 DEF Unacked, Free
  <2>2. CASE d = e
    <3>1. s \in Unacked(d)'
      BY <1>3, <2>2 DEF Unacked
    <3> QED
      BY <3>1 DEF AccountedFor, OnItsWay
  <2>3. CASE d # e
    <3>1. queue'[d] = queue[d]
      BY <1>1, <2>3 DEF DInv, TypeInv, BrokerTypes
    <3> QED
      BY <1>1, <1>6, <2>1, <3>1 DEF AccountedFor, OnItsWay
  <2> QED
    BY <2>2, <2>3
<1> QED
  BY <1>1, <1>2, <1>4, <1>5, <1>6, ConsumerSide

-----------------------------------------------------------------------------
(***************************************************************************)
(* A callback that goes on keeps its event and its channel.                *)
(***************************************************************************)
LEMMA CallbackGoesOn ==
  ASSUME DInv, NEW s \in Slots, handler[s].at # "free",
         NEW label \in {"effect", "commit", "ack", "failed"}, HandlerStep(s, label),
         effects \subseteq effects', processed' \subseteq Events, effects' \subseteq Events,
         applied' \in [Events -> Nat], ConsumerInv'
  PROVE  DInv'
<1>1. /\ handler' = [handler EXCEPT ![s].at = label]
      /\ UNCHANGED <<outbox, relay, topology, queue, dead, unrouted, process, asserted>>
  BY DEF HandlerStep, brokerVars
<1>2. BrokerTypes'
  BY <1>1 DEF DInv, TypeInv, BrokerTypes
<1>3. ConsumerTypes'
  <2>1. handler' \in [Slots -> Callbacks]
    BY <1>1 DEF DInv, TypeInv, ConsumerTypes, Callbacks
  <2> QED
    BY <1>1, <2>1 DEF DInv, TypeInv, ConsumerTypes
<1>4. \A t \in Slots : handler'[t].event = handler[t].event /\ handler'[t].live = handler[t].live
  BY <1>1 DEF DInv, TypeInv, ConsumerTypes, Callbacks
<1>5. TopologyInOrder'
  BY <1>1, <1>4 DEF DInv, TopologyInOrder
<1>6. \A e \in Events : AccountedFor(e) => AccountedFor(e)'
  BY <1>1, <1>4 DEF AccountedFor, OnItsWay, Unacked
<1> QED
  BY <1>1, <1>2, <1>3, <1>5, <1>6, ConsumerSide

(***************************************************************************)
(* The state of one callback after its step, and that of the others.       *)
(***************************************************************************)
LEMMA StepOfOne ==
  ASSUME DInv, NEW s \in Slots, NEW label, HandlerStep(s, label)
  PROVE  /\ handler'[s].at = label
         /\ handler'[s].event = handler[s].event
         /\ \A t \in Slots : t # s => handler'[t] = handler[t]
BY DEF DInv, TypeInv, ConsumerTypes, Callbacks, HandlerStep

(***************************************************************************)
(* The marker is inserted when no other transaction holds one for the      *)
(* event and none is committed, or the event is skipped.                   *)
(***************************************************************************)
LEMMA InsertMarkerInv ==
  ASSUME DInv, NEW s \in Slots, InsertMarker(s)
  PROVE  DInv'
<1> DEFINE e == handler[s].event
           label == IF e \in processed THEN "ack" ELSE "effect"
<1>1. /\ handler[s].at = "marker" /\ HandlerStep(s, label)
      /\ UNCHANGED <<processed, effects, applied>>
      /\ \A t \in Slots : Holds(t) => handler[t].event # e
  BY DEF InsertMarker, MarkerHeld, Holds
<1>2. /\ handler'[s].at = label /\ handler'[s].event = e
      /\ \A t \in Slots : t # s => handler'[t] = handler[t]
  BY <1>1, StepOfOne
<1>3. e \in Events
  BY <1>1 DEF DInv, ConsumerInv, SlotsHoldEvents, Busy
<1>4. ConsumerInv'
  <2>1. SlotsHoldEvents' /\ EndedIsProcessed'
    BY <1>1, <1>2, <1>3 DEF DInv, ConsumerInv, SlotsHoldEvents, EndedIsProcessed, Busy
  <2>2. OneMarkerHolder'
    BY <1>1, <1>2 DEF DInv, ConsumerInv, OneMarkerHolder, Holds
  <2> QED
    BY <1>1, <2>1, <2>2 DEF DInv, ConsumerInv, AppliedAtMostOnce
<1>5. processed' \subseteq Events /\ effects' \subseteq Events /\ applied' \in [Events -> Nat]
  BY <1>1 DEF DInv, TypeInv, ConsumerTypes
<1> QED
  BY <1>1, <1>4, <1>5, CallbackGoesOn

(***************************************************************************)
(* The effect is inserted in the transaction that holds the marker.        *)
(***************************************************************************)
LEMMA InsertEffectInv ==
  ASSUME DInv, NEW s \in Slots, InsertEffect(s)
  PROVE  DInv'
<1>1. handler[s].at = "effect" /\ HandlerStep(s, "commit") /\ UNCHANGED <<processed, effects, applied>>
  BY DEF InsertEffect
<1>2. /\ handler'[s].at = "commit" /\ handler'[s].event = handler[s].event
      /\ \A t \in Slots : t # s => handler'[t] = handler[t]
  BY <1>1, StepOfOne
<1>3. ConsumerInv'
  <2>1. SlotsHoldEvents' /\ EndedIsProcessed'
    BY <1>1, <1>2 DEF DInv, ConsumerInv, SlotsHoldEvents, EndedIsProcessed, Busy
  <2>2. OneMarkerHolder'
    BY <1>1, <1>2 DEF DInv, ConsumerInv, OneMarkerHolder, Holds
  <2> QED
    BY <1>1, <2>1, <2>2 DEF DInv, ConsumerInv, AppliedAtMostOnce
<1>4. processed' \subseteq Events /\ effects' \subseteq Events /\ applied' \in [Events -> Nat]
  BY <1>1 DEF DInv, TypeInv, ConsumerTypes
<1> QED
  BY <1>1, <1>3, <1>4, CallbackGoesOn

(***************************************************************************)
(* The commit of marker and effect, reported as applied or come back as an *)
(* error: the event had neither, and no other transaction holds a marker.  *)
(***************************************************************************)
LEMMA CommitInv ==
  ASSUME DInv, NEW s \in Slots, handler[s].at = "commit", StoreEffect(handler[s].event),
         \/ /\ applied' = [applied EXCEPT ![handler[s].event] = @ + 1]
            /\ HandlerStep(s, "ack")
         \/ HandlerStep(s, "failed") /\ UNCHANGED applied
  PROVE  DInv'
<1> DEFINE e == handler[s].event
<1>1. PICK label \in {"ack", "failed"} : HandlerStep(s, label)
  OBVIOUS
<1>2. /\ handler'[s].at = label /\ handler'[s].event = e
      /\ \A t \in Slots : t # s => handler'[t] = handler[t]
  BY <1>1, StepOfOne
<1>3. e \in Events
  BY DEF DInv, ConsumerInv, SlotsHoldEvents, Busy
<1>4. /\ processed' = processed \cup {e} /\ effects' = effects \cup {e}
      /\ processed \subseteq Events /\ effects \subseteq Events
  BY DEF StoreEffect, DInv, TypeInv, ConsumerTypes
<1>5. e \notin processed /\ \A t \in Slots : Holds(t) /\ t # s => handler[t].event # e
  BY DEF DInv, ConsumerInv, OneMarkerHolder, Holds
<1>6. applied' \in [Events -> Nat] /\ AppliedAtMostOnce'
  <2>1. /\ applied \in [Events -> Nat] /\ processed = effects
        /\ \A d \in Events : applied[d] <= 1 /\ (applied[d] = 1 => d \in effects)
    BY DEF DInv, TypeInv, ConsumerTypes, ConsumerInv, AppliedAtMostOnce
  <2>2. applied[e] = 0
    BY <1>3, <1>5, <2>1
  <2>3. \A d \in Events : applied'[d] = applied[d] \/ (d = e /\ applied'[d] = 1)
    BY <2>1, <2>2
  <2>4. applied' \in [Events -> Nat]
    BY <1>3, <2>1
  <2>5. AppliedAtMostOnce'
    BY <1>4, <2>1, <2>3 DEF AppliedAtMostOnce
  <2> QED
    BY <2>4, <2>5
<1>7. ConsumerInv'
  <2>1. SlotsHoldEvents' /\ EndedIsProcessed'
    BY <1>2, <1>3, <1>4 DEF DInv, ConsumerInv, SlotsHoldEvents, EndedIsProcessed, Busy
  <2>2. OneMarkerHolder'
    BY <1>2, <1>4, <1>5 DEF DInv, ConsumerInv, OneMarkerHolder, Holds
  <2> QED
    BY <1>6, <2>1, <2>2 DEF ConsumerInv
<1>8. processed' \subseteq Events /\ effects' \subseteq Events /\ effects \subseteq effects'
  BY <1>3, <1>4
<1> QED
  BY <1>1, <1>6, <1>7, <1>8, CallbackGoesOn

-----------------------------------------------------------------------------
(***************************************************************************)
(* The end of a process, and the loss of its channel: its copies go back   *)
(* to the queue.                                                           *)
(***************************************************************************)
LEMMA KillInv ==
  ASSUME DInv, NEW c \in Consumers, Kill(c)
  PROVE  DInv'
<1>1. /\ handler' = [s \in Slots |-> IF s[1] = c THEN Free ELSE handler[s]]
      /\ asserted' = [asserted EXCEPT ![c] = 0] /\ Requeue(c)
      /\ UNCHANGED <<outbox, relay, topology, dead, unrouted, processed, effects, applied>>
  BY DEF Kill
<1>2. BrokerTypes' /\ \A e \in Events : AccountedFor(e) => AccountedFor(e)'
  BY <1>1, RequeueKeeps DEF DInv, TypeInv
<1>3. handler' \in [Slots -> Callbacks]
  <2>1. Free \in Callbacks
    BY DEF Free, Callbacks
  <2> QED
    BY <1>1, <2>1 DEF DInv, TypeInv, ConsumerTypes
<1>4. ConsumerTypes'
  BY <1>1, <1>3 DEF DInv, TypeInv, ConsumerTypes
<1>5. ConsumerInv'
  <2>1. \A s \in Slots : handler'[s] = Free \/ (Busy(s) /\ handler'[s] = handler[s])
    BY <1>1 DEF DInv, ConsumerInv, SlotsHoldEvents
  <2> QED
    BY <1>1, <1>3, <2>1, CallbacksEnd DEF DInv
<1>6. TopologyInOrder'
  <2>1. \A s \in Slots : handler'[s].live => handler[s].live
    BY <1>1 DEF Free
  <2>2. \A d \in Consumers : 1..asserted'[d] \subseteq 1..asserted[d]
    BY <1>1 DEF DInv, TypeInv, ConsumerTypes
  <2> QED
    BY <1>1, <2>1, <2>2 DEF DInv, TopologyInOrder
<1> QED
  BY <1>1, <1>2, <1>4, <1>5, <1>6, ConsumerSide

(***************************************************************************)
(* A connection that the broker closes: the handlers go on without it.     *)
(***************************************************************************)
LEMMA CutConnectionInv ==
  ASSUME DInv, NEW c \in Consumers, CutConnection(c)
  PROVE  DInv'
<1>1. /\ handler' = [s \in Slots |->
                       IF s[1] = c THEN [handler[s] EXCEPT !.live = FALSE] ELSE handler[s]]
      /\ Requeue(c)
      /\ UNCHANGED <<outbox, relay, topology, dead, unrouted, asserted, processed, effects, applied>>
  BY DEF CutConnection
<1>2. BrokerTypes' /\ \A e \in Events : AccountedFor(e) => AccountedFor(e)'
  BY <1>1, RequeueKeeps DEF DInv, TypeInv
<1>3. handler' \in [Slots -> Callbacks]
  BY <1>1 DEF DInv, TypeInv, ConsumerTypes, Callbacks
<1>4. ConsumerTypes'
  BY <1>1, <1>3 DEF DInv, TypeInv, ConsumerTypes
<1>5. \A s \in Slots : /\ handler'[s].at = handler[s].at
                       /\ handler'[s].event = handler[s].event
                       /\ handler'[s].live => handler[s].live
                       /\ handler[s] = Free => handler'[s] = Free
  <2> SUFFICES ASSUME NEW s \in Slots
               PROVE  /\ handler'[s].at = handler[s].at
                      /\ handler'[s].event = handler[s].event
                      /\ handler'[s].live => handler[s].live
                      /\ handler[s] = Free => handler'[s] = Free
    OBVIOUS
  <2> DEFINE cut == [handler[s] EXCEPT !.live = FALSE]
  <2>1. handler[s] \in Callbacks /\ Free \in Callbacks
    BY DEF DInv, TypeInv, ConsumerTypes, Free, Callbacks
  <2>2. cut \in Callbacks
    BY <2>1 DEF Callbacks
  <2>3. cut.at = handler[s].at /\ cut.event = handler[s].event /\ cut.live = FALSE
    BY <2>1 DEF Callbacks
  <2>4. handler'[s] = handler[s] \/ handler'[s] = cut
    BY <1>1
  <2> HIDE DEF cut
  <2>5. handler[s] = Free => cut = Free
    BY <2>2, <2>3 DEF Free, Callbacks
  <2> QED
    BY <2>3, <2>4, <2>5
<1>6. ConsumerInv'
  <2>1. \A s \in Slots : Busy(s) \/ handler[s] = Free
    BY DEF DInv, ConsumerInv, SlotsHoldEvents
  <2> QED
    BY <1>1, <1>3, <1>5, <2>1, CallbacksEnd DEF DInv
<1>7. TopologyInOrder'
  BY <1>1, <1>5 DEF DInv, TopologyInOrder
<1> QED
  BY <1>1, <1>2, <1>4, <1>6, <1>7, ConsumerSide

(***************************************************************************)
(* An ack is for an event whose effect is stored. A nack sends the copy to *)
(* the dead-letter queue, which there is. On a closed channel the process  *)
(* ends.                                                                   *)
(***************************************************************************)
LEMMA SettleInv ==
  ASSUME DInv, NEW s \in Slots, Busy(s), NEW deadLetters, Settle(s, deadLetters),
         \/ deadLetters = dead /\ handler[s].event \in effects
         \/ deadLetters = DeadLetter(handler[s].event)
  PROVE  DInv'
<1> DEFINE e == handler[s].event
<1>1. CASE handler[s].live
  <2>1. /\ handler' = [handler EXCEPT ![s] = Free] /\ dead' = deadLetters
        /\ UNCHANGED <<outbox, relay, topology, queue, unrouted, asserted, processed, effects, applied>>
    BY <1>1 DEF Settle
  <2>2. e \in Events
    BY DEF DInv, ConsumerInv, SlotsHoldEvents
  <2>3. "dlq" \in topology
    BY <1>1 DEF DInv, TopologyInOrder
  <2>4. (dead' = dead /\ e \in effects) \/ dead' = dead \cup {e}
    BY <2>1, <2>3 DEF DeadLetter
  <2>5. BrokerTypes'
    BY <2>1, <2>2, <2>4 DEF DInv, TypeInv, BrokerTypes
  <2>6. handler' \in [Slots -> Callbacks]
    <3>1. Free \in Callbacks
      BY DEF Free, Callbacks
    <3> QED
      BY <2>1, <3>1 DEF DInv, TypeInv, ConsumerTypes
  <2>7. ConsumerTypes'
    BY <2>1, <2>6 DEF DInv, TypeInv, ConsumerTypes
  <2>8. \A t \in Slots : handler'[t] = IF t = s THEN Free ELSE handler[t]
    BY <2>1 DEF DInv, TypeInv, ConsumerTypes
  <2>9. ConsumerInv'
    <3>1. \A t \in Slots : handler'[t] = Free \/ (Busy(t) /\ handler'[t] = handler[t])
      BY <2>8 DEF DInv, ConsumerInv, SlotsHoldEvents
    <3> QED
      BY <2>1, <2>6, <3>1, CallbacksEnd DEF DInv
  <2>10. TopologyInOrder'
    BY <2>1, <2>8 DEF DInv, TopologyInOrder, Free
  <2>11. ASSUME NEW d \in Events, AccountedFor(d) PROVE AccountedFor(d)'
    <3>1. CASE d = e
      BY <2>1, <2>4, <3>1 DEF AccountedFor
    <3>2. CASE d # e
      <4>1. Unacked(d) \subseteq Unacked(d)'
        BY <2>8, <3>2 DEF Unacked
      <4> QED
        BY <2>1, <2>4, <2>11, <4>1 DEF AccountedFor, OnItsWay
    <3> QED
      BY <3>1, <3>2
  <2> QED
    BY <2>1, <2>5, <2>7, <2>9, <2>10, <2>11, ConsumerSide
<1>2. CASE ~handler[s].live
  <2>1. Kill(s[1]) /\ s[1] \in Consumers
    BY <1>2 DEF Settle, Slots
  <2> QED
    BY <2>1, KillInv
<1> QED
  BY <1>1, <1>2

(***************************************************************************)
(* What is acknowledged has its effect.                                    *)
(***************************************************************************)
LEMMA AckInv ==
  ASSUME DInv, NEW s \in Slots, Ack(s)
  PROVE  DInv'
<1>1. handler[s].at = "ack" /\ Settle(s, dead)
  BY DEF Ack
<1>2. handler[s].event \in effects
  BY <1>1 DEF DInv, ConsumerInv, EndedIsProcessed, AppliedAtMostOnce
<1> QED
  BY <1>1, <1>2, SettleInv DEF Busy

(***************************************************************************)
(* What is refused goes to the dead-letter queue.                          *)
(***************************************************************************)
LEMMA NackInv ==
  ASSUME DInv, NEW s \in Slots, Busy(s), Nack(s)
  PROVE  DInv'
BY SettleInv DEF Nack

-----------------------------------------------------------------------------
(***************************************************************************)
(* Every step keeps the invariant.                                         *)
(***************************************************************************)
LEMMA NextInv == DInv /\ [Next]_vars => DInv'
<1> SUFFICES ASSUME DInv, [Next]_vars PROVE DInv'
  OBVIOUS
<1>1. CASE UNCHANGED vars
  <2>1. UNCHANGED <<outbox, relay, brokerVars, consumerVars, topology>>
    BY <1>1 DEF vars, brokerVars
  <2>2. BrokerTypes' /\ ConsumerTypes' /\ ConsumerInv'
    BY <2>1, ConsumersUntouched DEF DInv, TypeInv, BrokerTypes, brokerVars
  <2>3. TopologyInOrder'
    BY <2>1 DEF DInv, TopologyInOrder, consumerVars
  <2> QED
    BY <2>1, <2>2, <2>3, ConsumerSide, StillAccountedFor
<1>2. CASE \E e \in Events : CommitOrder(e)
  BY <1>2, CommitOrderInv
<1>3. CASE \E r \in Relays : SelectRows(r) \/ RelayStep(r)
  BY <1>3, SelectRowsInv, PublishInv, MarkPublishedInv, CommitBatchInv DEF RelayStep
<1>4. CASE \E c \in Consumers : StartConsumer(c) \/ ConsumerStep(c)
  <2>1. \A c \in Consumers : SlotsOf(c) \subseteq Slots
    BY DEF SlotsOf, Slots
  <2> QED
    BY <1>4, <2>1, StartConsumerInv, AssertTopologyInv, DeliverInv DEF ConsumerStep
<1>5. CASE \E s \in Slots : Handle(s) \/ NackFailed(s)
  <2> SUFFICES ASSUME NEW s \in Slots, Handle(s) \/ NackFailed(s) PROVE DInv'
    BY <1>5
  <2>1. CASE CommitEffect(s)
    BY <2>1, CommitInv DEF CommitEffect
  <2>2. CASE NackFailed(s)
    BY <2>2, NackInv DEF NackFailed, Busy
  <2> QED
    BY <2>1, <2>2, InsertMarkerInv, InsertEffectInv, AckInv DEF Handle
<1>6. CASE Fault
  <2>1. ASSUME NEW s \in Slots, HandlerFails(s) PROVE DInv'
    BY <2>1, NackInv DEF HandlerFails, Busy
  <2>2. ASSUME NEW s \in Slots, CommitUnacknowledged(s) PROVE DInv'
    BY <2>2, CommitInv DEF CommitUnacknowledged
  <2> QED
    BY <1>6, <2>1, <2>2, RelayFailsInv, CutConnectionInv, KillInv DEF Fault, CrashConsumer
<1> QED
  BY <1>1, <1>2, <1>3, <1>4, <1>5, <1>6 DEF Next

(***************************************************************************)
(* Relays and consumers keep the invariant, however they interleave and    *)
(* fail.                                                                   *)
(***************************************************************************)
THEOREM DeliveryInvariant == Spec => []DInv
BY InitInv, NextInv, PTL DEF Spec

(***************************************************************************)
(* No event is reported as applied twice, and markers and effects commit   *)
(* together (handleDelivery in order-event-consumer.ts).                   *)
(***************************************************************************)
THEOREM AppliedOnce == Spec => []AppliedAtMostOnce
<1>1. DInv => AppliedAtMostOnce
  BY DEF DInv, ConsumerInv
<1> QED
  BY <1>1, DeliveryInvariant, PTL

(***************************************************************************)
(* A published event is never lost once a queue is bound: it has its       *)
(* effect, or a copy is in a queue or at a consumer (relayOutboxBatch).    *)
(***************************************************************************)
THEOREM PublishedIsAccountedFor == Spec => []PublishedAccountedFor
<1>1. DInv => PublishedAccountedFor
  <2> SUFFICES ASSUME DInv, NEW e \in Events, outbox[e] = "published"
               PROVE  e \in effects \cup dead \cup unrouted \/ Copies(e) > 0
    BY DEF PublishedAccountedFor
  <2>1. AccountedFor(e)
    BY DEF DInv, RowsAccountedFor
  <2>2. Copies(e) > 0 <=> OnItsWay(e)
    BY CopiesCount DEF DInv
  <2> QED
    BY <2>1, <2>2 DEF AccountedFor
<1> QED
  BY <1>1, DeliveryInvariant, PTL

=============================================================================
