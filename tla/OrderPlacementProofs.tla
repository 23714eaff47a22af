------------------------ MODULE OrderPlacementProofs ------------------------
EXTENDS OrderPlacement, FiniteSetTheorems, SequenceTheorems, WellFoundedInduction, TLAPS

(***************************************************************************)
(* At this await, with these locals, a transaction has inserted its key    *)
(* and has not ended.                                                      *)
(***************************************************************************)
Reserving(label, t) ==
  \/ label \in {"buyer", "pricing", "insert", "lines", "outbox", "link"}
  \/ label = "commit" /\ t.seen = NoAnswer

(***************************************************************************)
(* A request past the first checks has a key; one that reserved it holds   *)
(* it, with no committed row; one that did not insert found a row.         *)
(***************************************************************************)
KeyHeld ==
  \A r \in Requests :
    /\ pc[r] # "idle" /\ pc[r] # "done" => KeyOf(r) \in Keys
    /\ Reserving(pc[r], tx[r]) => keyLock[KeyOf(r)] = r /\ keyRow[KeyOf(r)] = NoRow
    /\ pc[r] = "locate" => keyRow[KeyOf(r)] # NoRow

(***************************************************************************)
(* The writes a transaction has made follow from the await it is at.       *)
(***************************************************************************)
StagedAt(label, t) ==
  /\ "order" \in t.staged <=>
       label \in {"lines", "outbox", "link"} \/ (label = "commit" /\ t.seen = NoAnswer)
  /\ "outbox" \in t.staged <=> label = "link" \/ (label = "commit" /\ t.seen = NoAnswer)
  /\ "link" \in t.staged <=> label = "commit" /\ t.seen = NoAnswer
  /\ label # "commit" => t.seen = NoAnswer

StagedByStep == \A r \in Requests : StagedAt(pc[r], tx[r])

(***************************************************************************)
(* The index of both loops stays inside input.items, and the first loop    *)
(* leaves only items behind it that it has checked.                        *)
(***************************************************************************)
LoopAt(label, t, items) ==
  /\ label \notin {"idle", "done"} => t.line \in 1..Len(items)
  /\ label \notin {"pricing", "lines"} => t.line = 1
  /\ label = "pricing" => \A i \in 1..(t.line - 1) : Orderable(items[i])
  /\ label \in {"insert", "lines"} => \A i \in 1..Len(items) : Orderable(items[i])

LoopsInRange == \A r \in Requests : LoopAt(pc[r], tx[r], request[r].items)

(***************************************************************************)
(* Ids come from the sequence: those of uncommitted orders differ from     *)
(* each other and from the committed ones.                                 *)
(***************************************************************************)
HasOrder(r) == "order" \in tx[r].staged

FreshIds ==
  /\ \A o \in DOMAIN orders : o < nextId
  /\ \A r \in Requests : HasOrder(r) =>
       tx[r].id \in Ids /\ tx[r].id < nextId /\ tx[r].id \notin DOMAIN orders
  /\ \A r, s \in Requests :
       r # s /\ HasOrder(r) /\ HasOrder(s) => tx[r].id # tx[s].id

(***************************************************************************)
(* The request that created an order has ended, so its key is settled.     *)
(***************************************************************************)
CreatorsDone ==
  \A o \in DOMAIN orders :
    pc[orders[o].by] = "done" /\ KeyOf(orders[o].by) \in Keys

EventPerOrder == {e.order : e \in outbox} = DOMAIN orders

(***************************************************************************)
(* The inductive invariant.                                                *)
(***************************************************************************)
IInv ==
  /\ TypeOK
  /\ KeyHeld
  /\ StagedByStep
  /\ LoopsInRange
  /\ FreshIds
  /\ CreatorsDone
  /\ KeyNamesItsOrder
  /\ EventPerOrder

-----------------------------------------------------------------------------
Labels == InTransaction \cup {"idle", "connecting", "done"}

Answers == Response \cup {NoAnswer, BadRequest, Failed}

(***************************************************************************)
(* Totals are sums of prices times quantities.                             *)
(***************************************************************************)
LEMMA PricesAreIntegers == \A x \in Prices : x \in Int
BY PlacementAssumption

(***************************************************************************)
(* The locals of a request that has no transaction.                        *)
(***************************************************************************)
LEMMA NoTransactionType == NoTransaction \in Transaction
BY DEF NoTransaction, Transaction

(***************************************************************************)
(* The variables that Finish assigns keep their types.                     *)
(***************************************************************************)
LEMMA FinishType ==
  ASSUME TypeOK, NEW r \in Requests, NEW a \in Answers, Finish(r, a)
  PROVE  /\ pc' \in [Requests -> Labels]
         /\ answer' \in [Requests -> Answers]
         /\ tx' \in [Requests -> Transaction]
         /\ pool' \subseteq Requests
         /\ Cardinality(pool') <= PoolSize
         /\ keyLock' \in [Keys -> Requests \cup {NoRequest}]
         /\ request' = request
         /\ nextId' = nextId
<1>1. IsFiniteSet(pool)
  BY PlacementAssumption, FS_Subset DEF TypeOK
<1>2. /\ IsFiniteSet(pool \ {r})
      /\ Cardinality(pool \ {r}) <= Cardinality(pool)
      /\ Cardinality(pool \ {r}) \in Nat
      /\ Cardinality(pool) \in Nat
  BY <1>1, FS_Subset, FS_CardinalityType
<1>3. pool' = pool \ {r}
  BY DEF Finish, PoolWithout
<1>4. Cardinality(pool') <= PoolSize
  BY <1>2, <1>3, PlacementAssumption DEF TypeOK
<1>5. pool' \subseteq Requests
  BY <1>3 DEF TypeOK
<1>6. QED
  BY <1>4, <1>5, NoTransactionType DEF TypeOK, Finish, Goto, Labels, Answers

(***************************************************************************)
(* The statements that only their own transaction sees keep the types.     *)
(***************************************************************************)
LEMMA ExecuteType ==
  ASSUME TypeOK, NEW r \in Requests, NEW label \in Labels, NEW t \in Transaction,
         Execute(r, label, t), nextId' \in Ids, UNCHANGED <<envVars, faults>>
  PROVE  TypeOK'
BY DEF TypeOK, Execute, Goto, Labels, dbVars, envVars

(***************************************************************************)
(* A rollback keeps the types.                                             *)
(***************************************************************************)
LEMMA AbortType ==
  ASSUME TypeOK, NEW r \in Requests, NEW a \in Answers, Abort(r, a),
         UNCHANGED envVars, faults' \in 0..MaxFaults
  PROVE  TypeOK'
BY FinishType DEF TypeOK, Abort, dbVars, envVars, Labels, Answers

(***************************************************************************)
(* What COMMIT writes has the types of the tables.                         *)
(***************************************************************************)
LEMMA ApplyWritesType ==
  ASSUME IInv, NEW r \in Requests, pc[r] = "commit", ApplyWrites(r)
  PROVE  /\ keyRow' \in [Keys -> Ids \cup {NoRow, Unlinked}]
         /\ DOMAIN orders' \subseteq Ids
         /\ \A o \in DOMAIN orders' : orders'[o] \in Order
         /\ outbox' \subseteq [order : Ids, total : Int, items : Seq(Items)]
         /\ Reply(r) \in Answers
<1>1. tx[r] \in Transaction /\ request[r].items \in Seq(Items) /\ KeyOf(r) \in Keys
  BY DEF IInv, TypeOK, KeyHeld, KeyOf
<1>2. HasOrder(r) => tx[r].id \in Ids
  BY DEF IInv, FreshIds
<1>3. /\ Reserved(r) <=> HasOrder(r)
      /\ Reserved(r) <=> "outbox" \in tx[r].staged
      /\ Reserved(r) <=> "link" \in tx[r].staged
  BY DEF IInv, StagedByStep, StagedAt, Reserved, HasOrder
<1>4. tx[r].id \in Nat /\ tx[r].total \in Int /\ tx[r].lines \in Seq(Lines)
      /\ tx[r].seen \in Response \cup {NoAnswer}
  BY <1>1 DEF Transaction
<1>5. keyRow' \in [Keys -> Ids \cup {NoRow, Unlinked}]
  BY <1>1, <1>2, <1>3 DEF ApplyWrites, IInv, TypeOK
<1>6. /\ DOMAIN orders' \subseteq Ids
      /\ \A o \in DOMAIN orders' : orders'[o] \in Order
  <2>1. NewOrder(r) \in Order
    BY <1>4, PlacementAssumption DEF NewOrder, Order
  <2>2. CASE "order" \in tx[r].staged
    <3>1. orders' = [o \in DOMAIN orders \cup {tx[r].id} |->
                       IF o = tx[r].id THEN NewOrder(r) ELSE orders[o]]
      BY <2>2 DEF ApplyWrites
    <3>2. QED
      BY <3>1, <2>1, <2>2, <1>2 DEF IInv, TypeOK, HasOrder
  <2>3. CASE "order" \notin tx[r].staged
    BY <2>3 DEF ApplyWrites, IInv, TypeOK
  <2>4. QED
    BY <2>2, <2>3
<1>7. outbox' \subseteq [order : Ids, total : Int, items : Seq(Items)]
  BY <1>1, <1>2, <1>3, <1>4 DEF ApplyWrites, NewEvent, IInv, TypeOK
<1>8. Reply(r) \in Answers
  BY <1>4, PlacementAssumption DEF Reply, Reserved, Answers, Response
<1>9. QED
  BY <1>5, <1>6, <1>7, <1>8

(***************************************************************************)
(* The item a loop is at is an item of the body, and the second loop's     *)
(* has been checked.                                                       *)
(***************************************************************************)
LEMMA CurrentItemType ==
  ASSUME IInv, NEW r \in Requests, pc[r] \in {"pricing", "lines"}
  PROVE  /\ CurrentItem(r) \in Items
         /\ tx[r].line \in 1..Len(request[r].items)
         /\ pc[r] = "lines" => Orderable(CurrentItem(r))
<1>1. request[r].items \in Seq(Items)
  BY DEF IInv, TypeOK
<1>2. tx[r].line \in 1..Len(request[r].items)
  BY DEF IInv, LoopsInRange, LoopAt
<1>3. pc[r] = "lines" => Orderable(request[r].items[tx[r].line])
  BY <1>2 DEF IInv, LoopsInRange, LoopAt
<1>4. QED
  BY <1>1, <1>2, <1>3 DEF CurrentItem

(***************************************************************************)
(* Every step keeps the types. The strengthening is needed where a         *)
(* transaction copies what it read (a key row, an id) into its own writes. *)
(***************************************************************************)
LEMMA TypeStep ==
  ASSUME IInv, [Next]_vars
  PROVE  TypeOK'
<1> USE PlacementAssumption
<1>a. TypeOK
  BY DEF IInv
<1>1. ASSUME NEW r \in Requests, NEW k \in Keys \cup {BlankKey}, NEW items \in Bodies,
             Submit(r, k, items)
      PROVE  TypeOK'
  <2>1. items \in Seq(Items)
    OBVIOUS
  <2>2. [key |-> k, items |-> items] \in [key : Keys \cup {BlankKey}, items : Seq(Items)]
    BY <2>1
  <2>3. /\ request' \in [Requests -> [key : Keys \cup {BlankKey}, items : Seq(Items)]]
        /\ answer' \in [Requests -> Response \cup {NoAnswer, BadRequest, Failed}]
    <3>1. CASE k = BlankKey \/ items = <<>>
      BY <3>1, <1>1, <1>a DEF TypeOK, Submit
    <3>2. CASE ~(k = BlankKey \/ items = <<>>)
      <4>1. request' = [request EXCEPT ![r] = [key |-> k, items |-> items]] /\ answer' = answer
        BY <3>2, <1>1 DEF Submit
      <4>2. QED
        BY <4>1, <2>2, <1>a DEF TypeOK
    <3>3. QED
      BY <3>1, <3>2
  <2>4. pc' \in [Requests -> InTransaction \cup {"idle", "connecting", "done"}]
    BY <1>1, <1>a DEF TypeOK, Submit, Goto
  <2>5. UNCHANGED <<tx, pool, keyLock, nextId, dbVars, envVars, faults>>
    BY <1>1 DEF Submit
  <2>6. QED
    BY <2>3, <2>4, <2>5, <1>a DEF TypeOK, dbVars, envVars
<1>2. ASSUME NEW r \in Requests, Handle(r)
      PROVE  TypeOK'
  <2> USE <1>2, <1>a
  <2>a. tx[r] \in Transaction /\ nextId \in Ids /\ UNCHANGED <<envVars, faults>>
        /\ faults' \in 0..MaxFaults /\ UNCHANGED envVars
    BY DEF TypeOK, Handle, envVars
  <2>b. {BadRequest, Failed} \subseteq Answers
    BY DEF Answers
  <2>1. CASE Connect(r)
    <3>1. IsFiniteSet(pool) /\ Cardinality(pool) \in Nat
      BY FS_Subset, FS_CardinalityType DEF TypeOK
    <3>2. Cardinality(pool \cup {r}) <= PoolSize
      <4>1. Cardinality(pool \cup {r}) = IF r \in pool THEN Cardinality(pool)
                                                      ELSE Cardinality(pool) + 1
        BY <3>1, FS_AddElement
      <4>2. QED
        BY <4>1, <3>1, <2>1 DEF Connect, PoolHasRoom, TypeOK
    <3>3. QED
      BY <3>2, <2>1, <2>a DEF TypeOK, Connect, Goto, InTransaction, dbVars, envVars
  <2>2. CASE ReserveKey(r)
    <3>1. /\ keyLock' \in [Keys -> Requests \cup {NoRequest}]
          /\ pc' \in [Requests -> InTransaction \cup {"idle", "connecting", "done"}]
          /\ UNCHANGED <<request, answer, tx, pool, nextId, dbVars>>
      <4>1. CASE /\ keyLock' = [keyLock EXCEPT ![KeyOf(r)] = r]
                 /\ Goto(r, "buyer")
        BY <4>1, <2>2 DEF TypeOK, ReserveKey, Goto, InTransaction
      <4>2. CASE Goto(r, "locate") /\ UNCHANGED keyLock
        BY <4>2, <2>2 DEF TypeOK, ReserveKey, Goto, InTransaction
      <4>3. QED
        BY <4>1, <4>2, <2>2 DEF ReserveKey
    <3>2. QED
      BY <3>1, <2>a DEF TypeOK, dbVars, envVars
  <2>3. CASE LockExistingKey(r)
    <3>1. CASE keyRow[KeyOf(r)] = Unlinked
      BY <3>1, <2>3, <2>a, <2>b, AbortType DEF LockExistingKey
    <3>2. CASE keyRow[KeyOf(r)] # Unlinked
      <4>1. KeyOf(r) \in Keys /\ keyRow[KeyOf(r)] # NoRow
        BY <2>3 DEF IInv, KeyHeld, LockExistingKey
      <4>2. keyRow[KeyOf(r)] \in Nat
        BY <4>1, <3>2 DEF TypeOK, Ids
      <4>3. [tx[r] EXCEPT !.id = keyRow[KeyOf(r)]] \in Transaction
        BY <2>a, <4>2 DEF Transaction
      <4>4. /\ tx' = [tx EXCEPT ![r] = [tx[r] EXCEPT !.id = keyRow[KeyOf(r)]]]
            /\ keyLock' = [keyLock EXCEPT ![KeyOf(r)] = r]
            /\ pc' = [pc EXCEPT ![r] = "reread"]
            /\ UNCHANGED <<request, answer, pool, nextId, dbVars>>
        BY <3>2, <2>3 DEF LockExistingKey, Goto
      <4>5. QED
        BY <4>3, <4>4, <2>a DEF TypeOK, InTransaction, dbVars, envVars
    <3>3. QED
      BY <3>1, <3>2
  <2>4. CASE ReadExistingOrder(r)
    <3>1. CASE tx[r].id \notin DOMAIN orders
      BY <3>1, <2>4, <2>a, <2>b, AbortType DEF ReadExistingOrder, ReplayedId
    <3>2. CASE tx[r].id \in DOMAIN orders
      <4> DEFINE t == [tx[r] EXCEPT !.seen = [id |-> tx[r].id, status |-> orders[tx[r].id].status,
                                              total |-> orders[tx[r].id].total]]
      <4>1. orders[tx[r].id] \in Order /\ tx[r].id \in Nat
        BY <3>2 DEF TypeOK, Ids
      <4>2. t.seen \in Response
        BY <4>1, <2>a DEF Response, Order, Transaction
      <4>3. t \in Transaction
        BY <4>2, <2>a DEF Transaction
      <4>4. Execute(r, "commit", t) /\ nextId' \in Ids
        BY <3>2, <2>4, <2>a DEF ReadExistingOrder, ReplayedId
      <4>5. "commit" \in Labels
        BY DEF Labels, InTransaction
      <4>6. QED
        BY <4>3, <4>4, <4>5, <2>a, ExecuteType
    <3>3. QED
      BY <3>1, <3>2
  <2>5. CASE ReadBuyer(r)
    BY <2>5, <2>a, <2>b, AbortType, ExecuteType DEF ReadBuyer, Labels, InTransaction
  <2>6. CASE PriceItem(r)
    <3>1. CASE ~Orderable(CurrentItem(r))
      BY <3>1, <2>6, <2>a, <2>b, AbortType DEF PriceItem
    <3>2. CASE Orderable(CurrentItem(r))
      <4> DEFINE t == [tx[r] EXCEPT !.total = TotalWith(r, CurrentItem(r)), !.line = NextLine(r)]
                 label == IF AtLastItem(r) THEN "insert" ELSE "pricing"
      <4>1. TotalWith(r, CurrentItem(r)) \in Int
        <5>1. price[CurrentItem(r).product] \in Int
          <6>1. price \in [Active -> Prices]
            BY DEF TypeOK
          <6>2. CurrentItem(r).product \in Active
            BY <3>2 DEF Orderable
          <6>3. price[CurrentItem(r).product] \in Prices
            BY <6>1, <6>2
          <6>4. QED
            BY <6>3, PricesAreIntegers
        <5>2. CurrentItem(r).quantity \in Int
          BY <2>6, CurrentItemType DEF PriceItem, Items
        <5>3. QED
          BY <5>1, <5>2, <2>a DEF TotalWith, Transaction
      <4>2. NextLine(r) \in Nat \ {0}
        BY <2>a DEF NextLine, Transaction
      <4>3. t \in Transaction
        BY <4>1, <4>2, <2>a DEF Transaction
      <4>4. Execute(r, label, t) /\ nextId' \in Ids
        BY <3>2, <2>6, <2>a DEF PriceItem
      <4>5. label \in Labels
        BY DEF Labels, InTransaction
      <4>6. QED
        BY <4>3, <4>4, <4>5, <2>a, ExecuteType
    <3>3. QED
      BY <3>1, <3>2
  <2>7. CASE InsertOrder(r)
    <3> DEFINE t == [tx[r] EXCEPT !.id = nextId, !.staged = @ \cup {"order"}]
    <3>1. t \in Transaction
      BY <2>a DEF Transaction, Ids
    <3>2. Execute(r, "lines", t) /\ nextId' \in Ids
      BY <2>7, <2>a DEF InsertOrder, Ids
    <3>3. QED
      BY <3>1, <3>2, <2>a, ExecuteType DEF Labels, InTransaction
  <2>8. CASE InsertLine(r)
    <3> DEFINE item == CurrentItem(r)
               row == [product |-> item.product, quantity |-> item.quantity,
                       unit_price |-> price[item.product]]
               t == [tx[r] EXCEPT !.lines = Append(@, row), !.line = NextLine(r)]
               label == IF AtLastItem(r) THEN "outbox" ELSE "lines"
    <3>1. item \in Items /\ item.product \in Active
      BY <2>8, CurrentItemType DEF InsertLine, Orderable
    <3>2. row \in Lines
      BY <3>1 DEF Lines, Items, TypeOK
    <3>3. NextLine(r) \in Nat \ {0}
      BY <2>a DEF NextLine, Transaction
    <3>4. t \in Transaction
      <4>1. Append(tx[r].lines, row) \in Seq(Lines)
        BY <3>2, <2>a DEF Transaction
      <4>2. QED
        BY <4>1, <3>3, <2>a DEF Transaction
    <3>5. Execute(r, label, t) /\ nextId' \in Ids
      BY <2>8, <2>a DEF InsertLine
    <3>6. QED
      BY <3>4, <3>5, <2>a, ExecuteType DEF Labels, InTransaction
  <2>9. CASE WriteOutbox(r)
    <3>1. [tx[r] EXCEPT !.staged = @ \cup {"outbox"}] \in Transaction
      BY <2>a DEF Transaction
    <3>2. QED
      BY <3>1, <2>9, <2>a, ExecuteType DEF WriteOutbox, Labels, InTransaction
  <2>10. CASE LinkKey(r)
    <3>1. [tx[r] EXCEPT !.staged = @ \cup {"link"}] \in Transaction
      BY <2>a DEF Transaction
    <3>2. QED
      BY <3>1, <2>10, <2>a, ExecuteType DEF LinkKey, Labels, InTransaction
  <2>11. CASE Commit(r)
    BY <2>11, <2>a, ApplyWritesType, FinishType
       DEF Commit, TypeOK, envVars, Labels, Answers
  <2>12. QED
    BY <2>1, <2>2, <2>3, <2>4, <2>5, <2>6, <2>7, <2>8, <2>9, <2>10, <2>11 DEF Handle
<1>3. ASSUME NEW r \in Requests, Fault(r)
      PROVE  TypeOK'
  <2>1. faults' \in 0..MaxFaults /\ UNCHANGED envVars /\ Failed \in Answers
    BY <1>3, <1>a DEF Fault, TypeOK, Answers
  <2>2. CASE CommitUnacknowledged(r)
    BY <2>2, <2>1, <1>a, ApplyWritesType, FinishType
       DEF CommitUnacknowledged, TypeOK, envVars, Labels, Answers
  <2>3. CASE Fail(r)
    BY <2>3, <2>1, <1>a, AbortType DEF Fail
  <2>4. QED
    BY <1>3, <2>2, <2>3 DEF Fault
<1>4. ASSUME NEW o \in DOMAIN orders, NEW st \in Statuses, UpdateStatus(o, st)
      PROVE  TypeOK'
  <2>1. orders' = [orders EXCEPT ![o].status = st]
    BY <1>4 DEF UpdateStatus
  <2>2. DOMAIN orders' = DOMAIN orders /\ \A x \in DOMAIN orders' : orders'[x] \in Order
    BY <2>1, <1>a DEF TypeOK, Order
  <2>3. QED
    BY <2>2, <1>4, <1>a DEF TypeOK, UpdateStatus, envVars
<1>5. ASSUME NEW p \in Active, NEW v \in Prices, ChangePrice(p, v)
      PROVE  TypeOK'
  BY <1>5, <1>a DEF TypeOK, ChangePrice, dbVars
<1>6. CASE UNCHANGED vars
  BY <1>6, <1>a DEF TypeOK, vars, dbVars, envVars
<1>7. QED
  BY <1>1, <1>2, <1>3, <1>4, <1>5, <1>6 DEF Next

-----------------------------------------------------------------------------
(***************************************************************************)
(* A statement only its transaction sees keeps the invariant, if the       *)
(* transaction's own await, writes and id fit together afterwards.         *)
(***************************************************************************)
LEMMA ExecuteStep ==
  ASSUME IInv, NEW r \in Requests, NEW label \in InTransaction \ {"locate"},
         NEW t \in Transaction, Execute(r, label, t),
         pc[r] \notin {"idle", "done"},
         nextId' \in Ids, nextId' >= nextId, UNCHANGED <<envVars, faults>>,
         Reserving(label, t) => Reserving(pc[r], tx[r]),
         StagedAt(label, t),
         LoopAt(label, t, request[r].items),
         "order" \in t.staged =>
           \/ HasOrder(r) /\ t.id = tx[r].id
           \/ t.id = nextId /\ nextId' = nextId + 1
  PROVE  IInv'
<1>a. TypeOK
  BY DEF IInv
<1>b. /\ pc' = [pc EXCEPT ![r] = label]
      /\ tx' = [tx EXCEPT ![r] = t]
      /\ UNCHANGED <<request, answer, pool, keyLock, keyRow, orders, outbox>>
  BY DEF Execute, Goto, dbVars
<1>c. /\ pc'[r] = label /\ tx'[r] = t
      /\ \A s \in Requests \ {r} : pc'[s] = pc[s] /\ tx'[s] = tx[s]
      /\ label \notin {"idle", "done", "connecting", "locate"}
  BY <1>a, <1>b DEF TypeOK, InTransaction
<1>1. TypeOK'
  BY <1>a, ExecuteType DEF Labels
<1>2. KeyHeld'
  BY <1>b, <1>c DEF IInv, KeyHeld, KeyOf
<1>3. StagedByStep'
  BY <1>c DEF IInv, StagedByStep
<1>4. LoopsInRange'
  BY <1>b, <1>c DEF IInv, LoopsInRange
<1>5. FreshIds'
  <2>1. \A o \in DOMAIN orders : o \in Ids /\ o < nextId
    BY <1>a DEF IInv, FreshIds, TypeOK
  <2>2. \A s \in Requests : HasOrder(s) => tx[s].id \in Ids /\ tx[s].id < nextId
    BY DEF IInv, FreshIds
  <2>3. \A s \in Requests \ {r} : HasOrder(s)' <=> HasOrder(s)
    BY <1>c DEF HasOrder
  <2>4. HasOrder(r)' => t.id \in Ids /\ t.id < nextId' /\ t.id \notin DOMAIN orders
    BY <1>a, <1>c, <2>1, <2>2 DEF HasOrder, IInv, FreshIds, TypeOK, Ids
  <2>5. \A s \in Requests \ {r} : HasOrder(r)' /\ HasOrder(s) => t.id # tx[s].id
    BY <1>c, <2>2 DEF HasOrder, IInv, FreshIds, Ids
  <2>6. \A o \in DOMAIN orders' : o < nextId'
    BY <1>a, <1>b, <2>1 DEF TypeOK, Ids
  <2>7. \A s \in Requests : HasOrder(s)' =>
          (tx[s].id \in Ids /\ tx[s].id < nextId /\ tx[s].id \notin DOMAIN orders)'
    <3> SUFFICES ASSUME NEW s \in Requests, HasOrder(s)'
                 PROVE  /\ tx'[s].id \in Ids
                        /\ tx'[s].id < nextId'
                        /\ tx'[s].id \notin DOMAIN orders'
      OBVIOUS
    <3>1. CASE s = r
      BY <3>1, <2>4, <1>b, <1>c
    <3>2. CASE s # r
      <4>1. tx'[s].id \in Ids /\ tx'[s].id < nextId /\ tx'[s].id \notin DOMAIN orders
        BY <3>2, <2>3, <1>c DEF IInv, FreshIds
      <4>2. QED
        BY <4>1, <1>a, <1>b DEF TypeOK, Ids
    <3>3. QED
      BY <3>1, <3>2
  <2>8. \A s1, s2 \in Requests :
          s1 # s2 /\ HasOrder(s1)' /\ HasOrder(s2)' => tx'[s1].id # tx'[s2].id
    BY <2>3, <2>5, <1>c DEF IInv, FreshIds
  <2>9. QED
    BY <2>6, <2>7, <2>8 DEF FreshIds
<1>6. CreatorsDone'
  BY <1>b, <1>c DEF IInv, CreatorsDone, KeyOf, TypeOK, Order
<1>7. KeyNamesItsOrder'
  BY <1>b DEF IInv, KeyNamesItsOrder, KeyOf
<1>8. EventPerOrder'
  BY <1>b DEF IInv, EventPerOrder
<1>9. QED
  BY <1>1, <1>2, <1>3, <1>4, <1>5, <1>6, <1>7, <1>8 DEF IInv

(***************************************************************************)
(* The end of a request, whatever it is answered, leaves the other         *)
(* requests' locks and locals alone.                                       *)
(***************************************************************************)
LEMMA FinishFrame ==
  ASSUME IInv, NEW r \in Requests, NEW a \in Answers, Finish(r, a)
  PROVE  /\ pc'[r] = "done" /\ tx'[r] = NoTransaction /\ answer'[r] = a
         /\ \A s \in Requests \ {r} :
              /\ pc'[s] = pc[s] /\ tx'[s] = tx[s] /\ answer'[s] = answer[s]
              /\ \A k \in Keys : keyLock[k] = s => keyLock'[k] = s
         /\ request' = request /\ nextId' = nextId
         /\ StagedByStep'
         /\ LoopsInRange'
<1>1. TypeOK
  BY DEF IInv
<1>2. /\ pc'[r] = "done" /\ tx'[r] = NoTransaction /\ answer'[r] = a
      /\ request' = request /\ nextId' = nextId
  BY <1>1 DEF TypeOK, Finish, Goto
<1>3. \A s \in Requests \ {r} :
        /\ pc'[s] = pc[s] /\ tx'[s] = tx[s] /\ answer'[s] = answer[s]
        /\ \A k \in Keys : keyLock[k] = s => keyLock'[k] = s
  BY <1>1 DEF TypeOK, Finish, Goto
<1>4. StagedAt("done", NoTransaction)
  BY DEF StagedAt, NoTransaction
<1>5. StagedByStep'
  BY <1>2, <1>3, <1>4 DEF IInv, StagedByStep
<1>6. LoopAt("done", NoTransaction, request[r].items)
  BY DEF LoopAt, NoTransaction
<1>7. LoopsInRange'
  BY <1>2, <1>3, <1>6 DEF IInv, LoopsInRange
<1>8. QED
  BY <1>2, <1>3, <1>5, <1>7

(***************************************************************************)
(* A rolled back request leaves no trace in the tables.                    *)
(***************************************************************************)
LEMMA AbortStep ==
  ASSUME IInv, NEW r \in Requests, NEW a \in Answers, Abort(r, a),
         pc[r] \notin {"idle", "done"},
         UNCHANGED envVars, faults' \in 0..MaxFaults
  PROVE  IInv'
<1>a. TypeOK /\ Finish(r, a) /\ UNCHANGED <<keyRow, orders, outbox>>
  BY DEF IInv, Abort, dbVars
<1>b. /\ pc'[r] = "done" /\ tx'[r] = NoTransaction
      /\ \A s \in Requests \ {r} :
           /\ pc'[s] = pc[s] /\ tx'[s] = tx[s] /\ answer'[s] = answer[s]
           /\ \A k \in Keys : keyLock[k] = s => keyLock'[k] = s
      /\ request' = request /\ nextId' = nextId
  BY <1>a, FinishFrame
<1>1. TypeOK'
  BY <1>a, AbortType
<1>2. KeyHeld'
  <2> SUFFICES ASSUME NEW s \in Requests, pc'[s] # "done"
               PROVE  /\ pc'[s] # "idle" => KeyOf(s)' \in Keys
                      /\ Reserving(pc'[s], tx'[s]) =>
                           keyLock'[KeyOf(s)'] = s /\ keyRow'[KeyOf(s)'] = NoRow
                      /\ pc'[s] = "locate" => keyRow'[KeyOf(s)'] # NoRow
    BY DEF KeyHeld, Reserving
  <2>1. s # r /\ KeyOf(s)' = KeyOf(s) /\ keyRow' = keyRow
    BY <1>a, <1>b DEF KeyOf
  <2>2. Reserving(pc[s], tx[s]) => pc[s] \notin {"idle", "done"}
    BY DEF Reserving
  <2>3. QED
    BY <2>1, <2>2, <1>b DEF IInv, KeyHeld
<1>3. StagedByStep' /\ LoopsInRange'
  BY <1>a, FinishFrame
<1>4. FreshIds'
  <2>1. ~HasOrder(r)' /\ \A s \in Requests \ {r} : HasOrder(s)' <=> HasOrder(s)
    BY <1>b DEF HasOrder, NoTransaction
  <2>2. QED
    BY <2>1, <1>a, <1>b DEF IInv, FreshIds
<1>5. CreatorsDone'
  BY <1>a, <1>b DEF IInv, CreatorsDone, KeyOf, TypeOK, Order
<1>6. KeyNamesItsOrder'
  <2>1. \A o \in DOMAIN orders : orders[o].by \in Requests \ {r}
    BY <1>a DEF IInv, CreatorsDone, TypeOK, Order
  <2>2. QED
    BY <2>1, <1>a, <1>b DEF IInv, KeyNamesItsOrder, KeyOf
<1>7. EventPerOrder'
  BY <1>a DEF IInv, EventPerOrder
<1>8. QED
  BY <1>1, <1>2, <1>3, <1>4, <1>5, <1>6, <1>7 DEF IInv

(***************************************************************************)
(* A commit, acknowledged or not: a replay changes no table, a transaction *)
(* that reserved its key adds its key row, order and event together.       *)
(***************************************************************************)
LEMMA CommitEffect ==
  ASSUME IInv, NEW r \in Requests, pc[r] = "commit", ApplyWrites(r)
  PROVE  \/ /\ ~Reserved(r)
            /\ UNCHANGED <<keyRow, orders, outbox>>
         \/ /\ Reserved(r) /\ HasOrder(r)
            /\ KeyOf(r) \in Keys /\ keyLock[KeyOf(r)] = r /\ keyRow[KeyOf(r)] = NoRow
            /\ tx[r].id \in Ids /\ tx[r].id < nextId /\ tx[r].id \notin DOMAIN orders
            /\ keyRow' = [keyRow EXCEPT ![KeyOf(r)] = tx[r].id]
            /\ orders' = [o \in DOMAIN orders \cup {tx[r].id} |->
                            IF o = tx[r].id THEN NewOrder(r) ELSE orders[o]]
            /\ outbox' = outbox \cup {NewEvent(r)}
<1>1. StagedAt("commit", tx[r])
  BY DEF IInv, StagedByStep
<1>2. CASE ~Reserved(r)
  BY <1>1, <1>2 DEF StagedAt, Reserved, ApplyWrites
<1>3. CASE Reserved(r)
  <2>1. {"order", "outbox", "link"} \subseteq tx[r].staged
    BY <1>1, <1>3 DEF StagedAt, Reserved
  <2>2. HasOrder(r)
    BY <2>1 DEF HasOrder
  <2>3. Reserving(pc[r], tx[r])
    BY <1>3 DEF Reserving, Reserved
  <2>4. /\ KeyOf(r) \in Keys /\ keyLock[KeyOf(r)] = r /\ keyRow[KeyOf(r)] = NoRow
        /\ tx[r].id \in Ids /\ tx[r].id < nextId /\ tx[r].id \notin DOMAIN orders
    BY <2>2, <2>3 DEF IInv, KeyHeld, FreshIds
  <2>5. /\ keyRow' = [keyRow EXCEPT ![KeyOf(r)] = tx[r].id]
        /\ orders' = [o \in DOMAIN orders \cup {tx[r].id} |->
                        IF o = tx[r].id THEN NewOrder(r) ELSE orders[o]]
        /\ outbox' = outbox \cup {NewEvent(r)}
    BY <1>3, <2>1 DEF ApplyWrites
  <2>6. QED
    BY <1>3, <2>2, <2>4, <2>5
<1>4. QED
  BY <1>2, <1>3

(***************************************************************************)
(* The tables after a COMMIT agree, and the request that ends has left no  *)
(* lock.                                                                   *)
(***************************************************************************)
LEMMA CommitStep ==
  ASSUME IInv, NEW r \in Requests, NEW a \in Answers, a # BadRequest,
         pc[r] = "commit", ApplyWrites(r), Finish(r, a),
         UNCHANGED envVars, faults' \in 0..MaxFaults
  PROVE  IInv'
<1>a. TypeOK
  BY DEF IInv
<1>b. /\ pc'[r] = "done" /\ tx'[r] = NoTransaction /\ answer'[r] = a
      /\ \A s \in Requests \ {r} :
           /\ pc'[s] = pc[s] /\ tx'[s] = tx[s] /\ answer'[s] = answer[s]
           /\ \A k \in Keys : keyLock[k] = s => keyLock'[k] = s
      /\ request' = request /\ nextId' = nextId
      /\ \A s \in Requests : KeyOf(s)' = KeyOf(s)
  BY FinishFrame DEF KeyOf
<1>1. TypeOK'
  BY <1>a, ApplyWritesType, FinishType DEF TypeOK, envVars, Labels, Answers
<1>2. StagedByStep' /\ LoopsInRange'
  BY FinishFrame
<1>c. ~HasOrder(r)' /\ \A s \in Requests \ {r} : HasOrder(s)' <=> HasOrder(s)
  BY <1>b DEF HasOrder, NoTransaction
<1>3. CASE ~Reserved(r) /\ UNCHANGED <<keyRow, orders, outbox>>
  <2>1. KeyHeld'
    <3>1. \A s \in Requests : Reserving(pc[s], tx[s]) => pc[s] \notin {"idle", "done"}
      BY DEF Reserving
    <3>2. ~Reserving(pc'[r], tx'[r])
      BY <1>b DEF Reserving
    <3>3. QED
      BY <3>1, <3>2, <1>3, <1>b DEF IInv, KeyHeld
  <2>2. FreshIds'
    BY <1>3, <1>b, <1>c DEF IInv, FreshIds
  <2>3. \A o \in DOMAIN orders : orders[o].by \in Requests \ {r}
    BY <1>a DEF IInv, CreatorsDone, TypeOK, Order
  <2>4. CreatorsDone' /\ KeyNamesItsOrder'
    BY <2>3, <1>3, <1>b DEF IInv, CreatorsDone, KeyNamesItsOrder
  <2>5. EventPerOrder'
    BY <1>3 DEF IInv, EventPerOrder
  <2>6. QED
    BY <2>1, <2>2, <2>4, <2>5, <1>1, <1>2 DEF IInv
<1>4. CASE /\ Reserved(r) /\ HasOrder(r)
           /\ KeyOf(r) \in Keys /\ keyLock[KeyOf(r)] = r /\ keyRow[KeyOf(r)] = NoRow
           /\ tx[r].id \in Ids /\ tx[r].id < nextId /\ tx[r].id \notin DOMAIN orders
           /\ keyRow' = [keyRow EXCEPT ![KeyOf(r)] = tx[r].id]
           /\ orders' = [o \in DOMAIN orders \cup {tx[r].id} |->
                           IF o = tx[r].id THEN NewOrder(r) ELSE orders[o]]
           /\ outbox' = outbox \cup {NewEvent(r)}
  <2> DEFINE n == tx[r].id
             key == KeyOf(r)
  <2>1. /\ keyRow'[key] = n /\ n # NoRow
        /\ \A k \in Keys \ {key} : keyRow'[k] = keyRow[k]
    BY <1>4, <1>a, PlacementAssumption DEF TypeOK, Ids
  <2>2. /\ DOMAIN orders' = DOMAIN orders \cup {n}
        /\ orders'[n].by = r
        /\ \A o \in DOMAIN orders : o # n /\ orders'[o] = orders[o]
    BY <1>4 DEF NewOrder
  <2>3. \A o \in DOMAIN orders : /\ orders[o].by \in Requests \ {r}
                                /\ KeyOf(orders[o].by) \in Keys \ {key}
    <3>1. \A o \in DOMAIN orders : /\ orders[o].by \in Requests
                                  /\ pc[orders[o].by] = "done"
                                  /\ KeyOf(orders[o].by) \in Keys
                                  /\ keyRow[KeyOf(orders[o].by)] = o
                                  /\ o # NoRow
      BY <1>a, PlacementAssumption DEF IInv, CreatorsDone, KeyNamesItsOrder, TypeOK, Order, Ids
    <3>2. QED
      BY <3>1, <1>4
  <2>4. KeyHeld'
    <3> SUFFICES ASSUME NEW s \in Requests, pc'[s] # "done"
                 PROVE  /\ pc'[s] # "idle" => KeyOf(s)' \in Keys
                        /\ Reserving(pc'[s], tx'[s]) =>
                             keyLock'[KeyOf(s)'] = s /\ keyRow'[KeyOf(s)'] = NoRow
                        /\ pc'[s] = "locate" => keyRow'[KeyOf(s)'] # NoRow
      BY DEF KeyHeld, Reserving
    <3>1. s # r /\ KeyOf(s)' = KeyOf(s) /\ pc'[s] = pc[s] /\ tx'[s] = tx[s]
      BY <1>b
    <3>2. pc[s] # "idle" => KeyOf(s) \in Keys
      BY <3>1 DEF IInv, KeyHeld
    <3>3. ASSUME Reserving(pc[s], tx[s])
          PROVE  keyLock'[KeyOf(s)] = s /\ keyRow'[KeyOf(s)] = NoRow
      <4>1. keyLock[KeyOf(s)] = s /\ keyRow[KeyOf(s)] = NoRow /\ pc[s] # "idle"
        BY <3>3 DEF IInv, KeyHeld, Reserving
      <4>2. KeyOf(s) \in Keys \ {key}
        BY <4>1, <3>1, <3>2, <1>4
      <4>3. QED
        BY <4>1, <4>2, <3>1, <2>1, <1>b
    <3>4. pc[s] = "locate" => keyRow'[KeyOf(s)] # NoRow
      BY <3>1, <3>2, <2>1 DEF IInv, KeyHeld
    <3>5. QED
      BY <3>1, <3>2, <3>3, <3>4
  <2>5. FreshIds'
    <3>1. \A o \in DOMAIN orders' : o < nextId'
      BY <2>2, <1>4, <1>b DEF IInv, FreshIds
    <3>2. \A s \in Requests \ {r} : HasOrder(s) => tx[s].id # n
      BY <1>4 DEF IInv, FreshIds
    <3>3. QED
      BY <3>1, <3>2, <2>2, <1>b, <1>c DEF IInv, FreshIds
  <2>6. CreatorsDone'
    BY <2>2, <2>3, <1>4, <1>b DEF IInv, CreatorsDone
  <2>7. KeyNamesItsOrder'
    <3>1. \A k \in Keys : keyRow'[k] # NoRow =>
            keyRow'[k] \in DOMAIN orders' /\ KeyOf(orders'[keyRow'[k]].by) = k
      BY <2>1, <2>2 DEF IInv, KeyNamesItsOrder
    <3>2. \A o \in DOMAIN orders' :
            /\ keyRow'[KeyOf(orders'[o].by)] = o
            /\ answer'[orders'[o].by] # BadRequest
      BY <2>1, <2>2, <2>3, <1>b DEF IInv, KeyNamesItsOrder
    <3>3. \A s \in Requests : KeyOf(s)' = KeyOf(s)
      BY <1>b
    <3>4. \A o \in DOMAIN orders' : orders'[o].by \in Requests
      BY <1>1 DEF TypeOK, Order
    <3>5. QED
      BY <3>1, <3>2, <3>3, <3>4, <1>b DEF KeyNamesItsOrder, KeyOf
  <2>8. EventPerOrder'
    <3>1. NewEvent(r).order = n
      BY DEF NewEvent
    <3>2. {e.order : e \in outbox'} = {e.order : e \in outbox} \cup {n}
      BY <3>1, <1>4
    <3>3. QED
      BY <3>2, <2>2 DEF IInv, EventPerOrder
  <2>9. QED
    BY <2>4, <2>5, <2>6, <2>7, <2>8, <1>1, <1>2 DEF IInv
<1>5. QED
  BY <1>3, <1>4, CommitEffect

-----------------------------------------------------------------------------
(***************************************************************************)
(* Before the first request the tables are empty.                          *)
(***************************************************************************)
LEMMA InvInit == Init => IInv
<1> SUFFICES ASSUME Init
             PROVE  IInv
  OBVIOUS
<1> USE DEF Init
<1>1. TypeOK
  <2>1. Cardinality({}) = 0
    BY FS_EmptySet
  <2>2. price \in [Active -> Prices]
    BY PlacementAssumption
  <2>3. DOMAIN orders = {}
    OBVIOUS
  <2>4. <<>> \in Seq(Items)
    OBVIOUS
  <2>5. MaxFaults \in Nat /\ MaxPriceChanges \in Nat /\ PoolSize \in Nat
    BY PlacementAssumption
  <2>6. QED
    BY <2>1, <2>2, <2>3, <2>4, <2>5, NoTransactionType DEF TypeOK, Ids
<1>2. KeyHeld
  BY DEF KeyHeld, Reserving
<1>3. StagedByStep
  BY DEF StagedByStep, StagedAt, NoTransaction
<1>4. LoopsInRange
  BY DEF LoopsInRange, LoopAt, NoTransaction
<1>5. FreshIds
  BY DEF FreshIds, HasOrder, NoTransaction
<1>6. CreatorsDone /\ KeyNamesItsOrder /\ EventPerOrder
  BY DEF CreatorsDone, KeyNamesItsOrder, EventPerOrder
<1>7. QED
  BY <1>1, <1>2, <1>3, <1>4, <1>5, <1>6 DEF IInv

(***************************************************************************)
(* The steps before a transaction's first write: they take a connection or *)
(* a key and change no table.                                              *)
(***************************************************************************)
LEMMA LockStep ==
  ASSUME IInv, TypeOK', NEW r \in Requests, NEW label \in InTransaction,
         pc[r] \in {"connecting", "reserve", "locate"}, pc' = [pc EXCEPT ![r] = label],
         \A s \in Requests \ {r} : tx'[s] = tx[s],
         tx'[r].staged = {}, tx'[r].seen = NoAnswer, tx'[r].line = tx[r].line,
         label \in {"reserve", "locate", "reread", "buyer"},
         UNCHANGED <<request, answer, nextId, keyRow, orders, outbox>>,
         \A s \in Requests \ {r}, k \in Keys : keyLock[k] = s => keyLock'[k] = s,
         label = "buyer" => keyLock'[KeyOf(r)] = r /\ keyRow[KeyOf(r)] = NoRow,
         label = "locate" => keyRow[KeyOf(r)] # NoRow
  PROVE  IInv'
<1>1. /\ pc'[r] = label
      /\ \A s \in Requests \ {r} : pc'[s] = pc[s]
      /\ \A s \in Requests : KeyOf(s)' = KeyOf(s)
  BY DEF IInv, TypeOK, KeyOf
<1>2. KeyHeld'
  <2> SUFFICES ASSUME NEW s \in Requests
               PROVE  /\ pc'[s] # "idle" /\ pc'[s] # "done" => KeyOf(s) \in Keys
                      /\ Reserving(pc'[s], tx'[s]) =>
                           keyLock'[KeyOf(s)] = s /\ keyRow[KeyOf(s)] = NoRow
                      /\ pc'[s] = "locate" => keyRow[KeyOf(s)] # NoRow
    BY <1>1 DEF KeyHeld
  <2>1. CASE s = r
    BY <2>1, <1>1 DEF IInv, KeyHeld, Reserving
  <2>2. CASE s # r
    BY <2>2, <1>1 DEF IInv, KeyHeld, Reserving
  <2>3. QED
    BY <2>1, <2>2
<1>3. StagedByStep'
  BY <1>1 DEF IInv, StagedByStep, StagedAt
<1>4. LoopsInRange'
  BY <1>1 DEF IInv, LoopsInRange, LoopAt
<1>5. FreshIds'
  <2>1. ~HasOrder(r)' /\ \A s \in Requests \ {r} : HasOrder(s)' <=> HasOrder(s)
    BY DEF HasOrder
  <2>2. QED
    BY <2>1 DEF IInv, FreshIds
<1>6. CreatorsDone' /\ KeyNamesItsOrder'
  BY <1>1 DEF IInv, CreatorsDone, KeyNamesItsOrder, TypeOK, Order
<1>7. EventPerOrder'
  BY DEF IInv, EventPerOrder
<1>8. QED
  BY <1>2, <1>3, <1>4, <1>5, <1>6, <1>7 DEF IInv

(***************************************************************************)
(* The handler's own steps.                                                *)
(***************************************************************************)
LEMMA HandleStep ==
  ASSUME IInv, NEW r \in Requests, Handle(r)
  PROVE  IInv'
<1>a. TypeOK /\ tx[r] \in Transaction /\ nextId \in Ids /\ UNCHANGED <<envVars, faults>>
      /\ UNCHANGED envVars /\ faults' \in 0..MaxFaults /\ nextId >= nextId
  BY DEF IInv, TypeOK, Handle, envVars, Ids
<1>b. {BadRequest, Failed} \subseteq Answers
  BY DEF Answers
<1>c. StagedAt(pc[r], tx[r]) /\ LoopAt(pc[r], tx[r], request[r].items)
  BY DEF IInv, StagedByStep, LoopsInRange
<1>d. TypeOK'
  BY TypeStep DEF Next
<1>e. tx[r].staged \subseteq {"order", "outbox", "link"}
  BY <1>a DEF Transaction
<1>f. pc[r] \in {"connecting", "reserve", "locate"} => tx[r].staged = {} /\ tx[r].seen = NoAnswer
  BY <1>c, <1>e DEF StagedAt
<1>1. CASE Connect(r)
  <2>1. /\ pc[r] = "connecting" /\ pc' = [pc EXCEPT ![r] = "reserve"]
        /\ UNCHANGED <<request, answer, tx, keyLock, nextId, keyRow, orders, outbox>>
    BY <1>1 DEF Connect, Goto, dbVars
  <2>2. QED
    BY <2>1, <1>d, <1>f, LockStep DEF InTransaction
<1>2. CASE ReserveKey(r)
  <2>1. /\ pc[r] = "reserve"
        /\ UNCHANGED <<request, answer, tx, nextId, keyRow, orders, outbox>>
    BY <1>2 DEF ReserveKey, dbVars
  <2>2. KeyOf(r) \in Keys
    BY <2>1 DEF IInv, KeyHeld
  <2>3. CASE /\ CanInsert(KeyOf(r))
             /\ keyLock' = [keyLock EXCEPT ![KeyOf(r)] = r]
             /\ pc' = [pc EXCEPT ![r] = "buyer"]
    <3>1. /\ keyLock'[KeyOf(r)] = r /\ keyRow[KeyOf(r)] = NoRow
          /\ \A s \in Requests \ {r}, k \in Keys : keyLock[k] = s => keyLock'[k] = s
      BY <2>2, <2>3, <1>a, PlacementAssumption DEF CanInsert, TypeOK
    <3>2. QED
      BY <2>1, <2>3, <3>1, <1>d, <1>f, LockStep DEF InTransaction
  <2>4. CASE /\ keyRow[KeyOf(r)] # NoRow
             /\ pc' = [pc EXCEPT ![r] = "locate"]
             /\ UNCHANGED keyLock
    BY <2>1, <2>4, <1>d, <1>f, LockStep DEF InTransaction
  <2>5. QED
    BY <1>2, <2>3, <2>4 DEF ReserveKey, Goto
<1>3. CASE LockExistingKey(r)
  <2>1. CASE keyRow[KeyOf(r)] = Unlinked
    BY <2>1, <1>3, <1>a, <1>b, AbortStep DEF LockExistingKey
  <2>2. CASE keyRow[KeyOf(r)] # Unlinked
    <3>1. /\ pc[r] = "locate" /\ pc' = [pc EXCEPT ![r] = "reread"]
          /\ tx' = [tx EXCEPT ![r].id = keyRow[KeyOf(r)]]
          /\ keyLock' = [keyLock EXCEPT ![KeyOf(r)] = r] /\ keyLock[KeyOf(r)] = NoRequest
          /\ UNCHANGED <<request, answer, nextId, keyRow, orders, outbox>>
      BY <2>2, <1>3 DEF LockExistingKey, Goto, dbVars
    <3>2. /\ tx'[r].staged = {} /\ tx'[r].seen = NoAnswer /\ tx'[r].line = tx[r].line
          /\ \A s \in Requests \ {r} : tx'[s] = tx[s]
      BY <3>1, <1>a, <1>f DEF TypeOK, Transaction
    <3>3. \A s \in Requests \ {r}, k \in Keys : keyLock[k] = s => keyLock'[k] = s
      BY <3>1, <1>a, PlacementAssumption DEF TypeOK
    <3>4. QED
      BY <3>1, <3>2, <3>3, <1>d, LockStep DEF InTransaction
  <2>3. QED
    BY <2>1, <2>2
<1>4. CASE ReadExistingOrder(r)
  <2>1. CASE tx[r].id \notin DOMAIN orders
    BY <2>1, <1>4, <1>a, <1>b, AbortStep DEF ReadExistingOrder, ReplayedId
  <2>2. CASE tx[r].id \in DOMAIN orders
    <3> DEFINE t == [tx[r] EXCEPT !.seen = [id |-> tx[r].id, status |-> orders[tx[r].id].status,
                                            total |-> orders[tx[r].id].total]]
    <3>1. pc[r] = "reread" /\ Execute(r, "commit", t) /\ nextId' = nextId
      BY <2>2, <1>4 DEF ReadExistingOrder, ReplayedId
    <3>2. orders[tx[r].id] \in Order /\ tx[r].id \in Nat
      BY <2>2, <1>a DEF TypeOK, Ids
    <3>3. t.seen \in Response /\ t.seen # NoAnswer
      BY <3>2, <1>a, PlacementAssumption DEF Response, Order, Transaction
    <3>4. t \in Transaction /\ t.staged = tx[r].staged /\ t.line = tx[r].line
      BY <3>3, <1>a DEF Transaction
    <3>5. StagedAt("commit", t)
      BY <3>1, <3>3, <3>4, <1>c DEF StagedAt
    <3>6. LoopAt("commit", t, request[r].items)
      BY <3>1, <3>4, <1>c DEF LoopAt
    <3>7. ~Reserving("commit", t) /\ "order" \notin t.staged
      BY <3>1, <3>3, <3>4, <1>c DEF Reserving, StagedAt
    <3>8. "commit" \in InTransaction \ {"locate"}
      BY DEF InTransaction
    <3>9. QED
      BY <3>1, <3>4, <3>5, <3>6, <3>7, <3>8, <1>a, ExecuteStep
  <2>3. QED
    BY <2>1, <2>2
<1>5. CASE ReadBuyer(r)
  <2>1. CASE ~hasBuyer
    BY <2>1, <1>5, <1>a, <1>b, AbortStep DEF ReadBuyer
  <2>2. CASE hasBuyer
    <3>1. pc[r] = "buyer" /\ Execute(r, "pricing", tx[r]) /\ nextId' = nextId
      BY <2>2, <1>5 DEF ReadBuyer
    <3>2. StagedAt("pricing", tx[r]) /\ LoopAt("pricing", tx[r], request[r].items)
      BY <3>1, <1>c DEF StagedAt, LoopAt
    <3>3. Reserving(pc[r], tx[r]) /\ "order" \notin tx[r].staged
      BY <3>1, <1>c DEF Reserving, StagedAt
    <3>4. QED
      BY <3>1, <3>2, <3>3, <1>a, ExecuteStep DEF InTransaction
  <2>3. QED
    BY <2>1, <2>2
<1>6. CASE PriceItem(r)
  <2>1. CASE ~Orderable(CurrentItem(r))
    BY <2>1, <1>6, <1>a, <1>b, AbortStep DEF PriceItem
  <2>2. CASE Orderable(CurrentItem(r))
    <3> DEFINE t == [tx[r] EXCEPT !.total = TotalWith(r, CurrentItem(r)), !.line = NextLine(r)]
               label == IF AtLastItem(r) THEN "insert" ELSE "pricing"
    <3>1. pc[r] = "pricing" /\ Execute(r, label, t) /\ nextId' = nextId
      BY <2>2, <1>6 DEF PriceItem
    <3>2. /\ t.staged = tx[r].staged /\ t.seen = tx[r].seen /\ t.line = NextLine(r)
          /\ tx'[r] = t
      BY <3>1, <1>a DEF Transaction, Execute, TypeOK
    <3>3. t \in Transaction
      BY <3>2, <1>d DEF TypeOK
    <3>4. StagedAt(label, t)
      BY <3>1, <3>2, <1>c DEF StagedAt
    <3>5. tx[r].line \in 1..Len(request[r].items) /\ Len(request[r].items) \in Nat
      BY <3>1, CurrentItemType DEF IInv, TypeOK
    <3>6. \A i \in 1..tx[r].line : Orderable(request[r].items[i])
      BY <3>1, <3>5, <2>2, <1>c DEF LoopAt, CurrentItem
    <3>7. LoopAt(label, t, request[r].items)
      BY <3>2, <3>5, <3>6 DEF LoopAt, NextLine, AtLastItem
    <3>8. Reserving(pc[r], tx[r]) /\ "order" \notin t.staged
      BY <3>1, <3>2, <1>c DEF Reserving, StagedAt
    <3>9. QED
      BY <3>1, <3>3, <3>4, <3>7, <3>8, <1>a, ExecuteStep DEF InTransaction
  <2>3. QED
    BY <2>1, <2>2
<1>7. CASE InsertOrder(r)
  <2> DEFINE t == [tx[r] EXCEPT !.id = nextId, !.staged = @ \cup {"order"}]
  <2>1. pc[r] = "insert" /\ Execute(r, "lines", t) /\ nextId' = nextId + 1
    BY <1>7 DEF InsertOrder
  <2>2. t.id = nextId /\ t.staged = tx[r].staged \cup {"order"} /\ t.seen = tx[r].seen
        /\ t.line = tx[r].line /\ tx'[r] = t
    BY <2>1, <1>a DEF Transaction, Execute, TypeOK
  <2>3. t \in Transaction
    BY <2>2, <1>d DEF TypeOK
  <2>4. StagedAt("lines", t) /\ LoopAt("lines", t, request[r].items)
    BY <2>1, <2>2, <1>c DEF StagedAt, LoopAt
  <2>5. Reserving(pc[r], tx[r])
    BY <2>1 DEF Reserving
  <2>6. nextId' \in Ids /\ nextId' >= nextId
    BY <2>1, <1>a DEF Ids
  <2>7. QED
    BY <2>1, <2>2, <2>3, <2>4, <2>5, <2>6, <1>a, ExecuteStep DEF InTransaction
<1>8. CASE InsertLine(r)
  <2> DEFINE item == CurrentItem(r)
             row == [product |-> item.product, quantity |-> item.quantity,
                     unit_price |-> price[item.product]]
             t == [tx[r] EXCEPT !.lines = Append(@, row), !.line = NextLine(r)]
             label == IF AtLastItem(r) THEN "outbox" ELSE "lines"
  <2>1. pc[r] = "lines" /\ Execute(r, label, t) /\ nextId' = nextId
    BY <1>8 DEF InsertLine
  <2>2. /\ t.staged = tx[r].staged /\ t.seen = tx[r].seen /\ t.line = NextLine(r)
        /\ t.id = tx[r].id /\ tx'[r] = t
    BY <2>1, <1>a DEF Transaction, Execute, TypeOK
  <2>3. t \in Transaction
    BY <2>2, <1>d DEF TypeOK
  <2>4. StagedAt(label, t)
    BY <2>1, <2>2, <1>c DEF StagedAt
  <2>5. tx[r].line \in 1..Len(request[r].items) /\ Len(request[r].items) \in Nat
    BY <2>1, CurrentItemType DEF IInv, TypeOK
  <2>6. LoopAt(label, t, request[r].items)
    BY <2>1, <2>2, <2>5, <1>c DEF LoopAt, NextLine, AtLastItem
  <2>7. Reserving(pc[r], tx[r]) /\ HasOrder(r)
    BY <2>1, <1>c DEF Reserving, StagedAt, HasOrder
  <2>8. QED
    BY <2>1, <2>2, <2>3, <2>4, <2>6, <2>7, <1>a, ExecuteStep DEF InTransaction
<1>9. CASE WriteOutbox(r)
  <2> DEFINE t == [tx[r] EXCEPT !.staged = @ \cup {"outbox"}]
  <2>1. pc[r] = "outbox" /\ Execute(r, "link", t) /\ nextId' = nextId
    BY <1>9 DEF WriteOutbox
  <2>2. t.id = tx[r].id /\ t.staged = tx[r].staged \cup {"outbox"} /\ t.seen = tx[r].seen
        /\ t.line = tx[r].line /\ tx'[r] = t
    BY <2>1, <1>a DEF Transaction, Execute, TypeOK
  <2>3. t \in Transaction
    BY <1>a DEF Transaction
  <2>4. StagedAt("link", t) /\ LoopAt("link", t, request[r].items)
    BY <2>1, <2>2, <1>c DEF StagedAt, LoopAt
  <2>5. Reserving(pc[r], tx[r]) /\ HasOrder(r)
    BY <2>1, <1>c DEF Reserving, StagedAt, HasOrder
  <2>6. QED
    BY <2>1, <2>2, <2>3, <2>4, <2>5, <1>a, ExecuteStep DEF InTransaction
<1>10. CASE LinkKey(r)
  <2> DEFINE t == [tx[r] EXCEPT !.staged = @ \cup {"link"}]
  <2>1. pc[r] = "link" /\ Execute(r, "commit", t) /\ nextId' = nextId
    BY <1>10 DEF LinkKey
  <2>2. t.id = tx[r].id /\ t.staged = tx[r].staged \cup {"link"} /\ t.seen = tx[r].seen
        /\ t.line = tx[r].line /\ tx'[r] = t
    BY <2>1, <1>a DEF Transaction, Execute, TypeOK
  <2>3. t \in Transaction
    BY <1>a DEF Transaction
  <2>4. StagedAt("commit", t) /\ LoopAt("commit", t, request[r].items)
    BY <2>1, <2>2, <1>c DEF StagedAt, LoopAt
  <2>5. Reserving(pc[r], tx[r]) /\ HasOrder(r)
    BY <2>1, <1>c DEF Reserving, StagedAt, HasOrder
  <2>6. QED
    BY <2>1, <2>2, <2>3, <2>4, <2>5, <1>a, ExecuteStep DEF InTransaction
<1>11. CASE Commit(r)
  <2>1. Reply(r) \in Answers
    BY <1>11, ApplyWritesType DEF Commit
  <2>2. Reply(r) # BadRequest
    <3>1. tx[r].id \in Nat /\ tx[r].total \in Int /\ tx[r].seen \in Response \cup {NoAnswer}
      BY <1>a DEF Transaction
    <3>2. Reply(r) \in Response
      BY <3>1, PlacementAssumption DEF Reply, Reserved, Response
    <3>3. QED
      BY <3>2, PlacementAssumption
  <2>3. QED
    BY <2>1, <2>2, <1>11, <1>a, CommitStep DEF Commit
<1>12. QED
  BY <1>1, <1>2, <1>3, <1>4, <1>5, <1>6, <1>7, <1>8, <1>9, <1>10, <1>11 DEF Handle

(***************************************************************************)
(* Every step keeps the inductive invariant.                               *)
(***************************************************************************)
LEMMA InvStep == IInv /\ [Next]_vars => IInv'
<1> SUFFICES ASSUME IInv, [Next]_vars
             PROVE  IInv'
  OBVIOUS
<1>a. TypeOK /\ TypeOK'
  BY TypeStep DEF IInv
<1>1. ASSUME NEW r \in Requests, NEW k \in Keys \cup {BlankKey}, NEW items \in Bodies,
             Submit(r, k, items)
      PROVE  IInv'
  <2>1. /\ pc[r] = "idle"
        /\ UNCHANGED <<tx, keyLock, nextId, keyRow, orders, outbox>>
    BY <1>1 DEF Submit, dbVars
  <2>2. /\ \A s \in Requests \ {r} : /\ pc'[s] = pc[s] /\ request'[s] = request[s]
                                     /\ answer'[s] = answer[s]
        /\ \/ pc'[r] = "done"
           \/ pc'[r] = "connecting" /\ request'[r].key \in Keys /\ request'[r].items = items
              /\ items # <<>>
    BY <1>1, <1>a DEF Submit, Goto, TypeOK
  <2>3. items \in Seq(Items)
    BY PlacementAssumption
  <2>4. StagedAt("idle", tx[r]) /\ LoopAt("idle", tx[r], request[r].items)
    BY <2>1 DEF IInv, StagedByStep, LoopsInRange
  <2>5. KeyHeld'
    BY <2>1, <2>2 DEF IInv, KeyHeld, KeyOf, Reserving
  <2>6. StagedByStep'
    BY <2>1, <2>2, <2>4 DEF IInv, StagedByStep, StagedAt
  <2>7. LoopAt(pc'[r], tx[r], request'[r].items)
    <3>1. CASE pc'[r] = "done"
      BY <3>1, <2>4 DEF LoopAt
    <3>2. CASE pc'[r] = "connecting" /\ request'[r].items = items /\ items # <<>>
      <4>1. Len(items) \in Nat /\ Len(items) >= 1
        BY <2>3, <3>2
      <4>2. tx[r].line = 1
        BY <2>4 DEF LoopAt
      <4>3. QED
        BY <3>2, <4>1, <4>2 DEF LoopAt
    <3>3. QED
      BY <3>1, <3>2, <2>2
  <2>8. LoopsInRange'
    BY <2>1, <2>2, <2>7 DEF IInv, LoopsInRange
  <2>9. FreshIds'
    BY <2>1 DEF IInv, FreshIds, HasOrder
  <2>10. \A o \in DOMAIN orders : orders[o].by \in Requests \ {r}
    BY <2>1, <1>a DEF IInv, CreatorsDone, TypeOK, Order
  <2>11. CreatorsDone' /\ KeyNamesItsOrder' /\ EventPerOrder'
    BY <2>1, <2>2, <2>10, <1>a
       DEF IInv, CreatorsDone, KeyNamesItsOrder, EventPerOrder, KeyOf, TypeOK, Ids
  <2>12. QED
    BY <2>5, <2>6, <2>8, <2>9, <2>11, <1>a DEF IInv
<1>2. ASSUME NEW r \in Requests, Handle(r)
      PROVE  IInv'
  BY <1>2, HandleStep
<1>3. ASSUME NEW r \in Requests, Fault(r)
      PROVE  IInv'
  <2>1. faults' \in 0..MaxFaults /\ UNCHANGED envVars /\ Failed \in Answers
        /\ Failed # BadRequest
    BY <1>3, <1>a, PlacementAssumption DEF Fault, TypeOK, Answers
  <2>2. CASE CommitUnacknowledged(r)
    BY <2>1, <2>2, CommitStep DEF CommitUnacknowledged
  <2>3. CASE Fail(r)
    BY <2>1, <2>3, AbortStep DEF Fail, InTransaction
  <2>4. QED
    BY <1>3, <2>2, <2>3 DEF Fault
<1>4. ASSUME NEW o \in DOMAIN orders, NEW st \in Statuses, UpdateStatus(o, st)
      PROVE  IInv'
  <2>1. /\ UNCHANGED <<pc, request, answer, tx, keyLock, nextId, keyRow, outbox>>
        /\ orders' = [orders EXCEPT ![o].status = st]
    BY <1>4 DEF UpdateStatus
  <2>2. DOMAIN orders' = DOMAIN orders /\ \A x \in DOMAIN orders : orders'[x].by = orders[x].by
    BY <2>1, <1>a DEF TypeOK, Order
  <2>3. KeyHeld' /\ StagedByStep' /\ LoopsInRange'
    BY <2>1 DEF IInv, KeyHeld, StagedByStep, LoopsInRange, KeyOf
  <2>4. FreshIds'
    BY <2>1, <2>2 DEF IInv, FreshIds, HasOrder
  <2>5. CreatorsDone' /\ KeyNamesItsOrder' /\ EventPerOrder'
    BY <2>1, <2>2 DEF IInv, CreatorsDone, KeyNamesItsOrder, EventPerOrder, KeyOf
  <2>6. QED
    BY <2>3, <2>4, <2>5, <1>a DEF IInv
<1>5. ASSUME UNCHANGED <<pc, request, answer, tx, keyLock, nextId, keyRow, orders, outbox>>
      PROVE  IInv'
  BY <1>5, <1>a DEF IInv, KeyHeld, StagedByStep, LoopsInRange, FreshIds, HasOrder,
                    CreatorsDone, KeyNamesItsOrder, EventPerOrder, KeyOf
<1>6. ASSUME NEW p \in Active, NEW v \in Prices, ChangePrice(p, v)
      PROVE  IInv'
  BY <1>5, <1>6 DEF ChangePrice, dbVars
<1>7. CASE UNCHANGED vars
  BY <1>5, <1>7 DEF vars, dbVars
<1>8. QED
  BY <1>1, <1>2, <1>3, <1>4, <1>6, <1>7 DEF Next

(***************************************************************************)
(* The inductive invariant holds in every behaviour of create and          *)
(* updateStatus.                                                           *)
(***************************************************************************)
THEOREM InvariantHolds == Spec => []IInv
BY InvInit, InvStep, PTL DEF Spec

(***************************************************************************)
(* Every variable of create keeps its type, and the pool its limit.        *)
(***************************************************************************)
THEOREM TypeCorrect == Spec => []TypeOK
<1>1. IInv => TypeOK
  BY DEF IInv
<1>2. QED
  BY <1>1, InvariantHolds, PTL

(***************************************************************************)
(* A committed key row always names the order its request created, so the  *)
(* replay branch of create cannot fail with "Idempotency key exists        *)
(* without completed order" or with a 404.                                 *)
(***************************************************************************)
THEOREM KeyRowsComplete == Spec => []KeyNamesItsOrder
<1>1. IInv => KeyNamesItsOrder
  BY DEF IInv
<1>2. QED
  BY <1>1, InvariantHolds, PTL

(***************************************************************************)
(* Whatever the number of concurrent and repeated requests, an             *)
(* Idempotency-Key creates at most one order.                              *)
(***************************************************************************)
THEOREM NoDuplicateOrders == Spec => []OneOrderPerKey
<1>1. KeyNamesItsOrder => OneOrderPerKey
  <2> SUFFICES ASSUME KeyNamesItsOrder, NEW o1 \in DOMAIN orders, NEW o2 \in DOMAIN orders,
                      KeyOf(orders[o1].by) = KeyOf(orders[o2].by)
               PROVE  o1 = o2
    BY DEF OneOrderPerKey
  <2>1. keyRow[KeyOf(orders[o1].by)] = o1 /\ keyRow[KeyOf(orders[o2].by)] = o2
    BY DEF KeyNamesItsOrder
  <2>2. QED
    BY <2>1
<1>2. QED
  BY <1>1, KeyRowsComplete, PTL

-----------------------------------------------------------------------------
(***************************************************************************)
(* Refinement: only a commit of a transaction that reserved its key is a   *)
(* step of IdempotentOrders; every other step leaves its variables alone.  *)
(***************************************************************************)
LEMMA CommitPlaces ==
  ASSUME IInv, NEW r \in Requests, pc[r] = "commit", ApplyWrites(r)
  PROVE  [Promise!Next]_(Promise!vars)
<1>1. CASE ~Reserved(r) /\ UNCHANGED <<keyRow, orders, outbox>>
  BY <1>1 DEF Promise!vars
<1>2. CASE /\ Reserved(r) /\ HasOrder(r)
           /\ KeyOf(r) \in Keys /\ keyLock[KeyOf(r)] = r /\ keyRow[KeyOf(r)] = NoRow
           /\ tx[r].id \in Ids /\ tx[r].id < nextId /\ tx[r].id \notin DOMAIN orders
           /\ keyRow' = [keyRow EXCEPT ![KeyOf(r)] = tx[r].id]
           /\ orders' = [o \in DOMAIN orders \cup {tx[r].id} |->
                           IF o = tx[r].id THEN NewOrder(r) ELSE orders[o]]
           /\ outbox' = outbox \cup {NewEvent(r)}
  <2>1. keyRow'[KeyOf(r)] = tx[r].id
    BY <1>2 DEF IInv, TypeOK
  <2>2. DOMAIN orders' = DOMAIN orders \cup {tx[r].id}
    BY <1>2
  <2>3. {e.order : e \in outbox'} = {e.order : e \in outbox} \cup {tx[r].id}
    <3>1. NewEvent(r).order = tx[r].id
      BY DEF NewEvent
    <3>2. outbox' = outbox \cup {NewEvent(r)}
      BY <1>2
    <3>3. QED
      BY <3>1, <3>2
  <2>4. PICK k \in Keys : k = KeyOf(r)
    BY <1>2
  <2>5. Promise!Place(k)
    BY <1>2, <2>1, <2>2, <2>3, <2>4 DEF Promise!Place
  <2>6. QED
    BY <2>5 DEF Promise!Next
<1>3. QED
  BY <1>1, <1>2, CommitEffect

(***************************************************************************)
(* Every step of create and updateStatus is a step of IdempotentOrders or  *)
(* changes nothing that it can see.                                        *)
(***************************************************************************)
LEMMA StepRefines ==
  ASSUME IInv, [Next]_vars
  PROVE  [Promise!Next]_(Promise!vars)
<1>1. ASSUME UNCHANGED dbVars
      PROVE  UNCHANGED Promise!vars
  BY <1>1 DEF dbVars, Promise!vars
<1>2. ASSUME NEW r \in Requests, Handle(r)
      PROVE  [Promise!Next]_(Promise!vars)
  <2>1. CASE Commit(r)
    BY <2>1, CommitPlaces DEF Commit
  <2>2. CASE ~Commit(r)
    <3>1. UNCHANGED dbVars
      BY <1>2, <2>2 DEF Handle, Connect, ReserveKey, LockExistingKey, ReadExistingOrder,
         ReadBuyer, PriceItem, InsertOrder, InsertLine, WriteOutbox, LinkKey, Execute, Abort
    <3>2. QED
      BY <1>1, <3>1
  <2>3. QED
    BY <2>1, <2>2
<1>3. ASSUME NEW r \in Requests, Fault(r)
      PROVE  [Promise!Next]_(Promise!vars)
  <2>1. CASE CommitUnacknowledged(r)
    BY <2>1, CommitPlaces DEF CommitUnacknowledged
  <2>2. CASE Fail(r)
    BY <2>2, <1>1 DEF Fail, Abort
  <2>3. QED
    BY <1>3, <2>1, <2>2 DEF Fault
<1>4. ASSUME NEW o \in DOMAIN orders, NEW st \in Statuses, UpdateStatus(o, st)
      PROVE  UNCHANGED Promise!vars
  BY <1>4 DEF UpdateStatus, Promise!vars
<1>5. CASE UNCHANGED vars
  BY <1>1, <1>5 DEF vars
<1>6. ASSUME NEW r \in Requests, NEW k \in Keys \cup {BlankKey}, NEW items \in Bodies,
             Submit(r, k, items)
      PROVE  UNCHANGED Promise!vars
  BY <1>1, <1>6 DEF Submit
<1>7. ASSUME NEW p \in Active, NEW v \in Prices, ChangePrice(p, v)
      PROVE  UNCHANGED Promise!vars
  BY <1>1, <1>7 DEF ChangePrice
<1>8. QED
  BY <1>2, <1>3, <1>4, <1>5, <1>6, <1>7 DEF Next

(***************************************************************************)
(* The transaction of create implements IdempotentOrders: the order, the   *)
(* key that names it and its outbox event appear in one step, at most once *)
(* for a key.                                                              *)
(***************************************************************************)
THEOREM Refinement == Spec => ImplementsIdempotentOrders
<1>1. Init => Promise!Init
  BY DEF Init, Promise!Init
<1>2. IInv /\ [Next]_vars => [Promise!Next]_(Promise!vars)
  BY StepRefines
<1>3. QED
  BY <1>1, <1>2, InvariantHolds, PTL DEF Spec, ImplementsIdempotentOrders, Promise!Spec

-----------------------------------------------------------------------------
(***************************************************************************)
(* Of these tables and requests: o is the order of the key of r, and the   *)
(* body a of a 201 says what is true of it.                                *)
(***************************************************************************)
OfKey(o, r, table, requests) ==
  o \in DOMAIN table /\ requests[table[o].by].key = requests[r].key

TrueOf(a, r, table, requests) ==
  OfKey(a.id, r, table, requests) /\ table[a.id].total = a.total

(***************************************************************************)
(* An answer names the order of its key, and so does what a replay has     *)
(* locked and read before it is answered.                                  *)
(***************************************************************************)
AnswersTrue ==
  \A r \in Requests :
    /\ Answered(r) => pc[r] = "done" /\ TrueOf(answer[r], r, orders, request)
    /\ tx[r].seen # NoAnswer => TrueOf(tx[r].seen, r, orders, request)
    /\ pc[r] = "reread" => OfKey(tx[r].id, r, orders, request)

(***************************************************************************)
(* No step takes an order away, or changes who placed it for how much, or  *)
(* the key of a request that has been submitted.                           *)
(***************************************************************************)
OrdersStay ==
  /\ DOMAIN orders \subseteq DOMAIN orders'
  /\ \A o \in DOMAIN orders :
       orders'[o].by = orders[o].by /\ orders'[o].total = orders[o].total
  /\ \A s \in Requests : pc[s] # "idle" => request'[s].key = request[s].key

(***************************************************************************)
(* So what was said of a request remains true: the creator of the order    *)
(* has ended, and keeps its key.                                           *)
(***************************************************************************)
LEMMA TruthStays ==
  ASSUME IInv, OrdersStay, NEW r \in Requests, pc[r] # "idle"
  PROVE  /\ \A o : OfKey(o, r, orders, request) => OfKey(o, r, orders', request')
         /\ \A a : TrueOf(a, r, orders, request) => TrueOf(a, r, orders', request')
<1>1. \A o \in DOMAIN orders : orders[o].by \in Requests /\ pc[orders[o].by] = "done"
  BY DEF IInv, CreatorsDone, TypeOK, Order
<1>2. ASSUME NEW o, OfKey(o, r, orders, request)
      PROVE  OfKey(o, r, orders', request') /\ orders'[o].total = orders[o].total
  <2>1. orders[o].by \in Requests /\ pc[orders[o].by] # "idle" /\ o \in DOMAIN orders
    BY <1>1, <1>2 DEF OfKey
  <2> QED
    BY <1>2, <2>1 DEF OfKey, OrdersStay
<1> QED
  BY <1>2 DEF TrueOf

(***************************************************************************)
(* A request that makes no step keeps what is true of it.                  *)
(***************************************************************************)
LEMMA OthersStay ==
  ASSUME IInv, AnswersTrue, OrdersStay, NEW s \in Requests,
         pc'[s] = pc[s], tx'[s] = tx[s], answer'[s] = answer[s]
  PROVE  /\ Answered(s)' => pc'[s] = "done" /\ TrueOf(answer'[s], s, orders', request')
         /\ tx'[s].seen # NoAnswer => TrueOf(tx'[s].seen, s, orders', request')
         /\ pc'[s] = "reread" => OfKey(tx'[s].id, s, orders', request')
<1>1. Answered(s)' <=> Answered(s)
  BY DEF Answered
<1>2. tx[s].seen # NoAnswer => pc[s] # "idle"
  BY DEF IInv, StagedByStep, StagedAt
<1>3. CASE pc[s] = "idle"
  BY <1>1, <1>2, <1>3 DEF AnswersTrue
<1>4. CASE pc[s] # "idle"
  BY <1>1, <1>4, TruthStays DEF AnswersTrue
<1> QED
  BY <1>3, <1>4

(***************************************************************************)
(* A step of one request, of which the answer and what it has read are     *)
(* true afterwards.                                                        *)
(***************************************************************************)
LEMMA OneRequestSteps ==
  ASSUME IInv, AnswersTrue, OrdersStay, NEW r \in Requests,
         \A s \in Requests \ {r} : pc'[s] = pc[s] /\ tx'[s] = tx[s] /\ answer'[s] = answer[s],
         Answered(r)' => pc'[r] = "done" /\ TrueOf(answer'[r], r, orders', request'),
         tx'[r].seen # NoAnswer => TrueOf(tx'[r].seen, r, orders', request'),
         pc'[r] = "reread" => OfKey(tx'[r].id, r, orders', request')
  PROVE  AnswersTrue'
<1>1. ASSUME NEW s \in Requests
      PROVE  /\ Answered(s)' => pc'[s] = "done" /\ TrueOf(answer'[s], s, orders', request')
             /\ tx'[s].seen # NoAnswer => TrueOf(tx'[s].seen, s, orders', request')
             /\ pc'[s] = "reread" => OfKey(tx'[s].id, s, orders', request')
  <2>1. CASE s = r
    BY <2>1
  <2>2. CASE s # r
    BY <2>2, OthersStay
  <2> QED
    BY <2>1, <2>2
<1> QED
  BY <1>1 DEF AnswersTrue, TrueOf, OfKey

(***************************************************************************)
(* The tables and the price list change, and no request does.              *)
(***************************************************************************)
LEMMA NoRequestSteps ==
  ASSUME IInv, AnswersTrue, OrdersStay, UNCHANGED <<pc, answer, tx>>
  PROVE  AnswersTrue'
<1>1. ASSUME NEW s \in Requests
      PROVE  /\ Answered(s)' => pc'[s] = "done" /\ TrueOf(answer'[s], s, orders', request')
             /\ tx'[s].seen # NoAnswer => TrueOf(tx'[s].seen, s, orders', request')
             /\ pc'[s] = "reread" => OfKey(tx'[s].id, s, orders', request')
  BY OthersStay
<1> QED
  BY <1>1 DEF AnswersTrue, TrueOf, OfKey

(***************************************************************************)
(* A request that has not been answered, and is not by this step.          *)
(***************************************************************************)
LEMMA GoesOn ==
  ASSUME IInv, AnswersTrue, NEW r \in Requests, pc[r] # "done",
         \A s \in Requests \ {r} : pc'[s] = pc[s] /\ tx'[s] = tx[s],
         UNCHANGED <<request, answer, orders>>,
         tx'[r].seen # NoAnswer => TrueOf(tx'[r].seen, r, orders, request),
         pc'[r] = "reread" => OfKey(tx'[r].id, r, orders, request)
  PROVE  AnswersTrue'
<1>1. OrdersStay
  BY DEF OrdersStay
<1>2. ~Answered(r)'
  BY DEF AnswersTrue, Answered
<1> QED
  BY <1>1, <1>2, OneRequestSteps DEF TrueOf, OfKey

(***************************************************************************)
(* A request that ends without an order in its answer.                     *)
(***************************************************************************)
LEMMA EndsWithout ==
  ASSUME IInv, AnswersTrue, OrdersStay, NEW r \in Requests, NEW a \in {BadRequest, Failed},
         Finish(r, a)
  PROVE  AnswersTrue'
<1>1. /\ pc'[r] = "done" /\ tx'[r].seen = NoAnswer /\ answer'[r] = a
      /\ \A s \in Requests \ {r} : pc'[s] = pc[s] /\ tx'[s] = tx[s] /\ answer'[s] = answer[s]
  BY FinishFrame DEF NoTransaction, Answers
<1>2. ~Answered(r)'
  BY <1>1 DEF Answered
<1> QED
  BY <1>1, <1>2, OneRequestSteps

(***************************************************************************)
(* A rollback.                                                             *)
(***************************************************************************)
LEMMA AbortAnswers ==
  ASSUME IInv, AnswersTrue, NEW r \in Requests, NEW a \in {BadRequest, Failed}, Abort(r, a)
  PROVE  AnswersTrue'
<1>1. Finish(r, a) /\ OrdersStay
  BY DEF Abort, Finish, dbVars, OrdersStay
<1> QED
  BY <1>1, EndsWithout

(***************************************************************************)
(* A COMMIT only adds an order, that of the key of its request.            *)
(***************************************************************************)
LEMMA CommitAnswers ==
  ASSUME IInv, AnswersTrue, NEW r \in Requests, pc[r] = "commit", ApplyWrites(r),
         request' = request
  PROVE  /\ OrdersStay
         /\ TrueOf(Reply(r), r, orders', request')
<1>1. CASE ~Reserved(r) /\ UNCHANGED <<keyRow, orders, outbox>>
  <2>1. OrdersStay
    BY <1>1 DEF OrdersStay
  <2>2. Reply(r) = tx[r].seen /\ TrueOf(tx[r].seen, r, orders, request)
    BY <1>1 DEF Reply, Reserved, AnswersTrue
  <2> QED
    BY <1>1, <2>1, <2>2
<1>2. CASE /\ Reserved(r) /\ HasOrder(r)
           /\ tx[r].id \notin DOMAIN orders
           /\ orders' = [o \in DOMAIN orders \cup {tx[r].id} |->
                           IF o = tx[r].id THEN NewOrder(r) ELSE orders[o]]
  <2>1. /\ DOMAIN orders' = DOMAIN orders \cup {tx[r].id} /\ orders'[tx[r].id] = NewOrder(r)
        /\ \A o \in DOMAIN orders : orders'[o] = orders[o]
    BY <1>2
  <2>2. Reply(r).id = tx[r].id /\ Reply(r).total = tx[r].total
    BY <1>2 DEF Reply
  <2>3. NewOrder(r).by = r /\ NewOrder(r).total = tx[r].total
    BY DEF NewOrder
  <2> QED
    BY <2>1, <2>2, <2>3 DEF OrdersStay, TrueOf, OfKey
<1> QED
  BY <1>1, <1>2, CommitEffect

(***************************************************************************)
(* Every await of create keeps what answers say true.                      *)
(***************************************************************************)
LEMMA HandleAnswers ==
  ASSUME IInv, AnswersTrue, NEW r \in Requests, Handle(r)
  PROVE  AnswersTrue'
<1>a. TypeOK /\ tx[r] \in Transaction
  BY DEF IInv, TypeOK
<1>b. pc[r] # "commit" => tx[r].seen = NoAnswer
  BY DEF IInv, StagedByStep, StagedAt
<1>1. ASSUME Connect(r) \/ ReserveKey(r) PROVE AnswersTrue'
  <2>1. /\ pc[r] \in {"connecting", "reserve"} /\ pc'[r] # "reread"
        /\ \A s \in Requests \ {r} : pc'[s] = pc[s]
        /\ UNCHANGED <<request, answer, tx, orders>>
    BY <1>1, <1>a DEF Connect, ReserveKey, Goto, dbVars, TypeOK
  <2> QED
    BY <1>b, <2>1, GoesOn
<1>2. CASE LockExistingKey(r)
  <2> DEFINE k == KeyOf(r)
  <2>1. CASE keyRow[k] = Unlinked
    BY <1>2, <2>1, AbortAnswers DEF LockExistingKey
  <2>2. CASE keyRow[k] # Unlinked
    <3>1. /\ pc[r] = "locate" /\ pc' = [pc EXCEPT ![r] = "reread"]
          /\ tx' = [tx EXCEPT ![r].id = keyRow[k]] /\ UNCHANGED <<request, answer, orders>>
      BY <1>2, <2>2 DEF LockExistingKey, Goto, dbVars
    <3>2. k \in Keys /\ keyRow[k] # NoRow
      BY <3>1 DEF IInv, KeyHeld
    <3>3. OfKey(keyRow[k], r, orders, request)
      BY <3>2 DEF IInv, KeyNamesItsOrder, OfKey, KeyOf
    <3>4. /\ tx'[r].id = keyRow[k] /\ tx'[r].seen = tx[r].seen
          /\ \A s \in Requests \ {r} : pc'[s] = pc[s] /\ tx'[s] = tx[s]
      BY <1>a, <3>1 DEF TypeOK, Transaction
    <3> QED
      BY <1>b, <3>1, <3>3, <3>4, GoesOn
  <2> QED
    BY <2>1, <2>2
<1>3. CASE ReadExistingOrder(r)
  <2>1. pc[r] = "reread" /\ OfKey(tx[r].id, r, orders, request)
    BY <1>3 DEF ReadExistingOrder, AnswersTrue
  <2> DEFINE o == tx[r].id
             read == [id |-> o, status |-> orders[o].status, total |-> orders[o].total]
  <2>2. Execute(r, "commit", [tx[r] EXCEPT !.seen = read])
    BY <1>3, <2>1 DEF ReadExistingOrder, ReplayedId, OfKey
  <2>3. read.id = o /\ read.total = orders[o].total
    OBVIOUS
  <2> HIDE DEF read
  <2>4. /\ pc'[r] = "commit" /\ tx'[r].seen = read
        /\ \A s \in Requests \ {r} : pc'[s] = pc[s] /\ tx'[s] = tx[s]
        /\ UNCHANGED <<request, answer, orders>>
    BY <1>a, <2>2 DEF Execute, Goto, dbVars, TypeOK, Transaction
  <2>5. TrueOf(read, r, orders, request)
    BY <2>1, <2>3 DEF TrueOf
  <2> QED
    BY <2>1, <2>4, <2>5, GoesOn
<1>4. ASSUME ReadBuyer(r) \/ PriceItem(r) \/ InsertOrder(r) \/ InsertLine(r) \/ WriteOutbox(r)
               \/ LinkKey(r)
      PROVE  AnswersTrue'
  <2>1. ASSUME Abort(r, BadRequest) PROVE AnswersTrue'
    BY <2>1, AbortAnswers
  <2>2. ASSUME NEW label \in Labels \ {"reread"}, NEW t, Execute(r, label, t),
               t.seen = tx[r].seen, pc[r] \notin {"done", "commit"}
        PROVE  AnswersTrue'
    <3>1. /\ pc'[r] = label /\ tx'[r] = t
          /\ \A s \in Requests \ {r} : pc'[s] = pc[s] /\ tx'[s] = tx[s]
          /\ UNCHANGED <<request, answer, orders>>
      BY <1>a, <2>2 DEF Execute, Goto, dbVars, TypeOK
    <3> QED
      BY <1>b, <2>2, <3>1, GoesOn
  <2>3. {"pricing", "insert", "lines", "outbox", "link", "commit"} \subseteq Labels \ {"reread"}
    BY DEF Labels, InTransaction
  <2>4. CASE ReadBuyer(r)
    BY <2>1, <2>2, <2>3, <2>4 DEF ReadBuyer
  <2>5. CASE PriceItem(r)
    <3>1. ASSUME ~Abort(r, BadRequest)
          PROVE  /\ pc[r] = "pricing"
                 /\ \E label \in {"insert", "pricing"} :
                      Execute(r, label, [tx[r] EXCEPT !.total = TotalWith(r, CurrentItem(r)),
                                                      !.line = NextLine(r)])
      BY <2>5, <3>1 DEF PriceItem
    <3>2. [tx[r] EXCEPT !.total = TotalWith(r, CurrentItem(r)), !.line = NextLine(r)].seen
            = tx[r].seen
      BY <1>a DEF Transaction
    <3> QED
      BY <2>1, <2>2, <2>3, <3>1, <3>2
  <2>6. CASE InsertOrder(r)
    <3>1. /\ pc[r] = "insert"
          /\ Execute(r, "lines", [tx[r] EXCEPT !.id = nextId, !.staged = @ \cup {"order"}])
      BY <2>6 DEF InsertOrder
    <3>2. [tx[r] EXCEPT !.id = nextId, !.staged = @ \cup {"order"}].seen = tx[r].seen
      BY <1>a DEF Transaction
    <3> QED
      BY <2>2, <2>3, <3>1, <3>2
  <2>7. CASE InsertLine(r)
    <3>1. /\ pc[r] = "lines"
          /\ \E label \in {"outbox", "lines"} : \E ls :
               Execute(r, label, [tx[r] EXCEPT !.lines = ls, !.line = NextLine(r)])
      BY <2>7 DEF InsertLine
    <3>2. ASSUME NEW ls PROVE [tx[r] EXCEPT !.lines = ls, !.line = NextLine(r)].seen = tx[r].seen
      BY <1>a DEF Transaction
    <3> QED
      BY <2>2, <2>3, <3>1, <3>2
  <2>8. CASE WriteOutbox(r)
    <3>1. [tx[r] EXCEPT !.staged = @ \cup {"outbox"}].seen = tx[r].seen
      BY <1>a DEF Transaction
    <3> QED
      BY <2>2, <2>3, <2>8, <3>1 DEF WriteOutbox
  <2>9. CASE LinkKey(r)
    <3>1. [tx[r] EXCEPT !.staged = @ \cup {"link"}].seen = tx[r].seen
      BY <1>a DEF Transaction
    <3> QED
      BY <2>2, <2>3, <2>9, <3>1 DEF LinkKey
  <2> QED
    BY <1>4, <2>4, <2>5, <2>6, <2>7, <2>8, <2>9
<1>5. CASE Commit(r)
  <2>1. pc[r] = "commit" /\ ApplyWrites(r) /\ Finish(r, Reply(r)) /\ request' = request
    BY <1>5 DEF Commit, Finish
  <2>2. OrdersStay /\ TrueOf(Reply(r), r, orders', request')
    BY <2>1, CommitAnswers
  <2>3. /\ pc'[r] = "done" /\ tx'[r].seen = NoAnswer /\ answer'[r] = Reply(r)
        /\ \A s \in Requests \ {r} : pc'[s] = pc[s] /\ tx'[s] = tx[s] /\ answer'[s] = answer[s]
    <3>1. Reply(r) \in Answers
      BY <2>1, ApplyWritesType
    <3> QED
      BY <2>1, <3>1, FinishFrame DEF NoTransaction
  <2> QED
    BY <2>2, <2>3, OneRequestSteps
<1> QED
  BY <1>1, <1>2, <1>3, <1>4, <1>5 DEF Handle

(***************************************************************************)
(* And so does every other step.                                           *)
(***************************************************************************)
LEMMA AnswersStep == IInv /\ AnswersTrue /\ [Next]_vars => AnswersTrue'
<1> SUFFICES ASSUME IInv, AnswersTrue, [Next]_vars PROVE AnswersTrue'
  OBVIOUS
<1>a. TypeOK
  BY DEF IInv
<1>1. ASSUME NEW r \in Requests, NEW k \in Keys \cup {BlankKey}, NEW items \in Bodies,
             Submit(r, k, items)
      PROVE  AnswersTrue'
  <2>1. /\ pc[r] = "idle" /\ UNCHANGED <<tx, orders>>
        /\ \A s \in Requests \ {r} :
             pc'[s] = pc[s] /\ answer'[s] = answer[s] /\ request'[s] = request[s]
        /\ pc'[r] \in {"done", "connecting"} /\ answer'[r] \in {BadRequest, answer[r]}
    BY <1>1, <1>a DEF Submit, Goto, dbVars, TypeOK
  <2>2. OrdersStay
    BY <2>1 DEF OrdersStay
  <2>3. ~Answered(r)' /\ tx[r].seen = NoAnswer
    BY <2>1 DEF AnswersTrue, Answered, IInv, StagedByStep, StagedAt
  <2> QED
    BY <2>1, <2>2, <2>3, OneRequestSteps
<1>2. ASSUME NEW r \in Requests, Handle(r) PROVE AnswersTrue'
  BY <1>2, HandleAnswers
<1>3. ASSUME NEW r \in Requests, Fault(r) PROVE AnswersTrue'
  <2>1. CASE CommitUnacknowledged(r)
    <3>1. pc[r] = "commit" /\ ApplyWrites(r) /\ Finish(r, Failed) /\ request' = request
      BY <2>1 DEF CommitUnacknowledged, Finish
    <3> QED
      BY <3>1, CommitAnswers, EndsWithout
  <2>2. CASE Fail(r)
    BY <2>2, AbortAnswers DEF Fail
  <2> QED
    BY <1>3, <2>1, <2>2 DEF Fault
<1>4. ASSUME NEW o \in DOMAIN orders, NEW st \in Statuses, UpdateStatus(o, st) PROVE AnswersTrue'
  <2>1. UNCHANGED <<pc, request, answer, tx>> /\ orders' = [orders EXCEPT ![o].status = st]
    BY <1>4 DEF UpdateStatus
  <2>2. OrdersStay
    BY <1>a, <2>1 DEF OrdersStay, TypeOK, Order
  <2> QED
    BY <2>1, <2>2, NoRequestSteps
<1>5. ASSUME UNCHANGED <<pc, request, answer, tx, orders>> PROVE AnswersTrue'
  <2>1. OrdersStay
    BY <1>5 DEF OrdersStay
  <2> QED
    BY <1>5, <2>1, NoRequestSteps
<1>6. ASSUME NEW p \in Active, NEW v \in Prices, ChangePrice(p, v) PROVE AnswersTrue'
  BY <1>5, <1>6 DEF ChangePrice, dbVars
<1>7. CASE UNCHANGED vars
  BY <1>5, <1>7 DEF vars, dbVars
<1> QED
  BY <1>1, <1>2, <1>3, <1>4, <1>6, <1>7 DEF Next

(***************************************************************************)
(* Whoever is answered with a 201, for a first request or a repeated one,  *)
(* is told the one order of the key with the total it has in the table.    *)
(***************************************************************************)
THEOREM RepliesAgree == Spec => []SameKeySameOrder
<1>1. Init => AnswersTrue
  BY DEF Init, AnswersTrue, Answered, NoTransaction
<1>2. IInv /\ AnswersTrue /\ [Next]_vars => AnswersTrue'
  BY AnswersStep
<1>3. IInv /\ AnswersTrue => SameKeySameOrder
  <2> SUFFICES ASSUME IInv, AnswersTrue, NEW r1 \in Requests, Answered(r1)
               PROVE  /\ answer[r1].id \in DOMAIN orders
                      /\ orders[answer[r1].id].total = answer[r1].total
                      /\ \A r2 \in Requests :
                           Answered(r2) /\ KeyOf(r1) = KeyOf(r2) => answer[r1].id = answer[r2].id
    BY DEF SameKeySameOrder
  <2>1. \A r \in Requests : Answered(r) =>
          /\ answer[r].id \in DOMAIN orders /\ orders[answer[r].id].total = answer[r].total
          /\ keyRow[KeyOf(r)] = answer[r].id
    BY DEF IInv, AnswersTrue, TrueOf, OfKey, KeyNamesItsOrder, KeyOf
  <2> QED
    BY <2>1
<1> QED
  BY <1>1, <1>2, <1>3, InvariantHolds, PTL DEF Spec

-----------------------------------------------------------------------------
(***************************************************************************)
(* A set of naturals has a least element.                                  *)
(***************************************************************************)
LEMMA LeastNatural ==
  ASSUME NEW S \in SUBSET Nat, S # {}
  PROVE  \E x \in S : \A y \in S : x <= y
<1>1. PICK x \in S : \A y \in S : ~ (<<y, x>> \in OpToRel(<, Nat))
  BY NatLessThanWellFounded, WFMin
<1>2. ASSUME NEW y \in S PROVE x <= y
  <2>1. <<y, x>> \in Nat \X Nat /\ <<y, x>>[1] = y /\ <<y, x>>[2] = x
    OBVIOUS
  <2>2. y < x => <<y, x>> \in OpToRel(<, Nat)
    BY <2>1 DEF OpToRel
  <2>3. ~ (y < x)
    BY <1>1, <2>2, Zenon
  <2> QED
    BY <2>3
<1> QED
  BY <1>2

(***************************************************************************)
(* A set with 0 and the successor of each member has every natural.        *)
(***************************************************************************)
LEMMA Inductive ==
  ASSUME NEW S \in SUBSET Nat, 0 \in S, \A n \in S : n + 1 \in S
  PROVE  S = Nat
<1> SUFFICES ASSUME Nat \ S # {} PROVE FALSE
  OBVIOUS
<1>1. PICK x \in Nat \ S : \A y \in Nat \ S : x <= y
  BY LeastNatural
<1>2. x # 0 /\ x - 1 \in Nat
  BY <1>1
<1>3. x - 1 \in S
  BY <1>1, <1>2
<1> QED
  BY <1>1, <1>2, <1>3

(***************************************************************************)
(* The greatest of some of the first k positions.                          *)
(***************************************************************************)
LEMMA GreatestPosition ==
  ASSUME NEW k \in Nat, NEW s \in SUBSET (1..k), s # {}
  PROVE  Max(s) \in s /\ \A i \in s : i <= Max(s)
<1> DEFINE D == {n \in Nat : \A i \in s : i <= n}
<1>1. D \in SUBSET Nat /\ k \in D
  OBVIOUS
<1>2. PICK m \in D : \A n \in D : m <= n
  BY <1>1, LeastNatural
<1>3. m \in s
  <2> SUFFICES ASSUME m \notin s PROVE FALSE
    OBVIOUS
  <2>1. \A i \in s : i \in Nat /\ 1 <= i /\ i <= m /\ i # m
    BY <1>2
  <2>2. m # 0 /\ m - 1 \in Nat
    <3>1. PICK i \in s : TRUE
      OBVIOUS
    <3>2. i \in Nat /\ 1 <= i /\ i <= m /\ m \in Nat
      BY <2>1
    <3> QED
      BY <3>2
  <2>3. m - 1 \in D
    BY <1>2, <2>1, <2>2
  <2> QED
    BY <1>2, <2>3
<1>4. \E x \in s : \A y \in s : x >= y
  BY <1>2, <1>3
<1>5. Max(s) \in s /\ \A y \in s : Max(s) >= y
  BY <1>4 DEF Max
<1> QED
  BY <1>5

-----------------------------------------------------------------------------
(***************************************************************************)
(* g is the function by which FoldLeft adds up the costs c of the first k  *)
(* positions: what has been added over the positions of a set.             *)
(***************************************************************************)
AddsUp(g, c, k) ==
  g = [s \in SUBSET (1..k) |-> IF s = {} THEN 0 ELSE g[s \ {Max(s)}] + c[Max(s)]]

(***************************************************************************)
(* One more position: what it costs is added last.                         *)
(***************************************************************************)
LEMMA Extended ==
  ASSUME NEW k \in Nat, NEW c, NEW g, AddsUp(g, c, k)
  PROVE  \E h : AddsUp(h, c, k + 1)
<1> DEFINE n == k + 1
           h == [s \in SUBSET (1..n) |-> IF n \in s THEN g[s \ {n}] + c[n] ELSE g[s]]
<1>0. \A s \in SUBSET (1..n) : n \notin s => s \in SUBSET (1..k)
  OBVIOUS
<1>1. ASSUME NEW s \in SUBSET (1..n)
      PROVE  h[s] = IF s = {} THEN 0 ELSE h[s \ {Max(s)}] + c[Max(s)]
  <2>1. CASE n \in s
    <3>1. Max(s) = n
      <4>1. Max(s) \in s /\ n <= Max(s)
        BY <2>1, GreatestPosition
      <4>2. \A x \in 1..n : n <= x => x = n
        OBVIOUS
      <4> QED
        BY <4>1, <4>2
    <3>2. s \ {n} \in SUBSET (1..n) /\ n \notin s \ {n}
      OBVIOUS
    <3>3. h[s \ {n}] = g[s \ {n}]
      BY <3>2
    <3>4. h[s] = g[s \ {n}] + c[n]
      BY <2>1
    <3> QED
      BY <2>1, <3>1, <3>3, <3>4
  <2>2. CASE n \notin s
    <3>1. s \in SUBSET (1..k) /\ h[s] = g[s]
      BY <2>2, <1>0
    <3>2. g[s] = IF s = {} THEN 0 ELSE g[s \ {Max(s)}] + c[Max(s)]
      BY <3>1 DEF AddsUp
    <3>3. s # {} => h[s \ {Max(s)}] = g[s \ {Max(s)}]
      BY <2>2
    <3> QED
      BY <3>1, <3>2, <3>3
  <2> QED
    BY <2>1, <2>2
<1>2. h = [s \in SUBSET (1..n) |-> IF s = {} THEN 0 ELSE h[s \ {Max(s)}] + c[Max(s)]]
  <2> DEFINE f == [s \in SUBSET (1..n) |-> IF s = {} THEN 0 ELSE h[s \ {Max(s)}] + c[Max(s)]]
  <2>1. \A s \in SUBSET (1..n) : h[s] = f[s]
    BY <1>1
  <2>2. DOMAIN h = SUBSET (1..n) /\ DOMAIN f = SUBSET (1..n)
    OBVIOUS
  <2>3. h = [s \in SUBSET (1..n) |-> h[s]] /\ f = [s \in SUBSET (1..n) |-> f[s]]
    OBVIOUS
  <2> HIDE DEF h, f
  <2>4. h = f
    BY <2>1, <2>3
  <2> QED
    BY <2>4 DEF f
<1> QED
  BY <1>2 DEF AddsUp

(***************************************************************************)
(* So there is such a function, however many positions there are.          *)
(***************************************************************************)
LEMMA AdderExists ==
  ASSUME NEW c, NEW k \in Nat
  PROVE  \E g : AddsUp(g, c, k)
<1> DEFINE S == {n \in Nat : \E g : AddsUp(g, c, n)}
<1>1. 0 \in S
  <2> DEFINE g == [s \in SUBSET (1..0) |-> 0]
  <2>1. \A s : s \in SUBSET (1..0) <=> s = {}
    OBVIOUS
  <2>2. g = [s \in SUBSET (1..0) |-> IF s = {} THEN 0 ELSE g[s \ {Max(s)}] + c[Max(s)]]
    BY <2>1
  <2> QED
    BY <2>2 DEF AddsUp
<1>2. \A n \in S : n + 1 \in S
  BY Extended
<1>3. S = Nat
  BY <1>1, <1>2, Inductive
<1> QED
  BY <1>3

(***************************************************************************)
(* It adds up the positions in their order.                                *)
(***************************************************************************)
LEMMA Unfolded ==
  ASSUME NEW k \in Nat, NEW c, NEW g, AddsUp(g, c, k)
  PROVE  /\ g[1..0] = 0
         /\ \A j \in 1..k : g[1..j] = g[1..(j - 1)] + c[j]
<1>1. g[1..0] = 0
  <2>1. 1..0 = {} /\ {} \in SUBSET (1..k)
    OBVIOUS
  <2> QED
    BY <2>1 DEF AddsUp
<1>2. ASSUME NEW j \in 1..k PROVE g[1..j] = g[1..(j - 1)] + c[j]
  <2>1. 1..j \in SUBSET (1..k) /\ 1..j # {} /\ (1..j) \ {j} = 1..(j - 1)
    OBVIOUS
  <2>2. Max(1..j) = j
    <3>1. 1..j \in SUBSET (1..k) /\ j \in 1..j
      OBVIOUS
    <3>2. Max(1..j) \in 1..j /\ j <= Max(1..j)
      BY <3>1, GreatestPosition
    <3> QED
      BY <3>2
  <2> QED
    BY <2>1, <2>2 DEF AddsUp
<1> QED
  BY <1>1, <1>2

(***************************************************************************)
(* Lists that agree on the first n positions have the same sum of these.   *)
(***************************************************************************)
LEMMA SameSum ==
  ASSUME NEW n \in Nat, NEW c, NEW g, AddsUp(g, c, n),
         NEW m \in Nat, NEW d, NEW h, AddsUp(h, d, m),
         n <= m, \A i \in 1..n : c[i] = d[i]
  PROVE  g[1..n] = h[1..n]
<1> DEFINE S == {j \in Nat : j <= n => g[1..j] = h[1..j]}
<1>1. 0 \in S
  BY Unfolded
<1>2. ASSUME NEW j \in S PROVE j + 1 \in S
  <2> SUFFICES ASSUME j + 1 <= n PROVE g[1..(j + 1)] = h[1..(j + 1)]
    OBVIOUS
  <2>1. j + 1 \in 1..n /\ j + 1 \in 1..m /\ (j + 1) - 1 = j
    OBVIOUS
  <2>2. g[1..(j + 1)] = g[1..j] + c[j + 1]
    BY <2>1, Unfolded
  <2>3. h[1..(j + 1)] = h[1..j] + d[j + 1]
    BY <2>1, Unfolded
  <2> QED
    BY <2>1, <2>2, <2>3
<1>3. S = Nat
  BY <1>1, <1>2, Inductive
<1> QED
  BY <1>3

(***************************************************************************)
(* What each line costs.                                                   *)
(***************************************************************************)
Costs(ls) == [i \in DOMAIN ls |-> ls[i].unit_price * ls[i].quantity]

(***************************************************************************)
(* SumOfLines is what this function says of all positions.                 *)
(***************************************************************************)
LEMMA SumIsAFold ==
  ASSUME NEW R, NEW ls \in Seq(R)
  PROVE  \E g : AddsUp(g, Costs(ls), Len(ls)) /\ SumOfLines(ls) = g[1..Len(ls)]
<1> DEFINE IsIter(g) ==
      g = [s \in SUBSET (DOMAIN ls) |->
             IF s = {} THEN 0
             ELSE g[s \ {Max(s)}] + ls[Max(s)].unit_price * ls[Max(s)].quantity]
<1>1. SumOfLines(ls) = (CHOOSE g : IsIter(g))[DOMAIN ls]
  BY DEF SumOfLines, FoldLeft, MapThenFoldSet
<1>2. DOMAIN ls = 1..Len(ls) /\ Len(ls) \in Nat
  OBVIOUS
<1>3. ASSUME NEW g PROVE IsIter(g) <=> AddsUp(g, Costs(ls), Len(ls))
  <2>1. \A s \in SUBSET (1..Len(ls)) : s # {} =>
          Costs(ls)[Max(s)] = ls[Max(s)].unit_price * ls[Max(s)].quantity
    <3> SUFFICES ASSUME NEW s \in SUBSET (1..Len(ls)), s # {}
                 PROVE  Costs(ls)[Max(s)] = ls[Max(s)].unit_price * ls[Max(s)].quantity
      OBVIOUS
    <3>1. Max(s) \in DOMAIN ls
      BY <1>2, GreatestPosition
    <3> QED
      BY <3>1 DEF Costs
  <2> DEFINE F == [s \in SUBSET (1..Len(ls)) |->
                     IF s = {} THEN 0
                     ELSE g[s \ {Max(s)}] + ls[Max(s)].unit_price * ls[Max(s)].quantity]
             G == [s \in SUBSET (1..Len(ls)) |->
                     IF s = {} THEN 0 ELSE g[s \ {Max(s)}] + Costs(ls)[Max(s)]]
  <2>2. F = G
    BY <2>1
  <2>3. IsIter(g) <=> g = F
    BY <1>2
  <2>4. AddsUp(g, Costs(ls), Len(ls)) <=> g = G
    BY DEF AddsUp
  <2> QED
    BY <2>2, <2>3, <2>4
<1>4. PICK g : AddsUp(g, Costs(ls), Len(ls))
  BY <1>2, AdderExists
<1>5. IsIter(g)
  BY <1>3, <1>4
<1>6. IsIter(CHOOSE f : IsIter(f))
  BY <1>5
<1>7. AddsUp(CHOOSE f : IsIter(f), Costs(ls), Len(ls))
  BY <1>3, <1>6
<1> QED
  BY <1>1, <1>2, <1>7

(***************************************************************************)
(* The sum of no lines.                                                    *)
(***************************************************************************)
LEMMA SumOfNoLines == SumOfLines(<<>>) = 0
<1>1. <<>> \in Seq({}) /\ Len(<<>>) = 0
  OBVIOUS
<1>2. PICK g : AddsUp(g, Costs(<<>>), 0) /\ SumOfLines(<<>>) = g[1..0]
  BY <1>1, SumIsAFold
<1> QED
  BY <1>2, Unfolded

(***************************************************************************)
(* An order_items row adds its price times its quantity.                   *)
(***************************************************************************)
LEMMA SumOfAppended ==
  ASSUME NEW R, NEW ls \in Seq(R), NEW l \in R
  PROVE  SumOfLines(Append(ls, l)) = SumOfLines(ls) + l.unit_price * l.quantity
<1> DEFINE n == Len(ls)
           longer == Append(ls, l)
<1>1. /\ n \in Nat /\ longer \in Seq(R) /\ Len(longer) = n + 1
      /\ \A i \in 1..n : longer[i] = ls[i] 
      /\ longer[n + 1] = l
  BY AppendProperties, LenProperties
<1>2. DOMAIN ls = 1..n /\ DOMAIN longer = 1..(n + 1)
  BY <1>1, LenProperties
<1> HIDE DEF longer, n
<1>3. PICK g : AddsUp(g, Costs(ls), n) /\ SumOfLines(ls) = g[1..n]
  BY SumIsAFold DEF n
<1>4. PICK h : AddsUp(h, Costs(longer), n + 1) /\ SumOfLines(longer) = h[1..(n + 1)]
  BY <1>1, SumIsAFold
<1>5. /\ \A i \in 1..n : Costs(ls)[i] = Costs(longer)[i]
      /\ Costs(longer)[n + 1] = l.unit_price * l.quantity
  BY <1>1, <1>2 DEF Costs
<1>6. g[1..n] = h[1..n]
  BY <1>1, <1>3, <1>4, <1>5, SameSum
<1>7. h[1..(n + 1)] = h[1..n] + Costs(longer)[n + 1]
  <2>1. n + 1 \in 1..(n + 1) /\ (n + 1) - 1 = n
    BY <1>1
  <2> QED
    BY <1>1, <1>4, <2>1, Unfolded
<1> QED
  BY <1>3, <1>4, <1>5, <1>6, <1>7 DEF longer

-----------------------------------------------------------------------------
(***************************************************************************)
(* The order_items rows of the first n items, at these prices.             *)
(***************************************************************************)
AsLine(item, prices) ==
  [product |-> item.product, quantity |-> item.quantity, unit_price |-> prices[item.product]]

AsLines(items, n, prices) == [i \in 1..n |-> AsLine(items[i], prices)]

(***************************************************************************)
(* What both loops have done at this await: the first has added up the     *)
(* lines that the second writes.                                           *)
(***************************************************************************)
TotalAt(label, t, items, prices) ==
  /\ label \notin {"pricing", "insert", "lines", "outbox", "link", "commit"} => t.total = 0
  /\ label \notin {"lines", "outbox", "link", "commit"} => t.lines = <<>>
  /\ label = "pricing" => t.total = SumOfLines(AsLines(items, t.line - 1, prices))
  /\ label \in {"insert", "lines"} => t.total = SumOfLines(AsLines(items, Len(items), prices))
  /\ label = "lines" => t.lines = AsLines(items, t.line - 1, prices)
  /\ label \in {"outbox", "link", "commit"} => t.total = SumOfLines(t.lines)

TotalsByStep ==
  \A r \in Requests : r \in repriced \/ TotalAt(pc[r], tx[r], request[r].items, price)

(***************************************************************************)
(* The next item adds one line, and its cost to the sum.                   *)
(***************************************************************************)
LEMMA OneMoreLine ==
  ASSUME NEW items \in Seq(Items), NEW n \in 1..Len(items),
         \A i \in 1..n : Orderable(items[i]), NEW prices \in [Active -> Prices]
  PROVE  LET before == AsLines(items, n - 1, prices)
             line   == AsLine(items[n], prices)
         IN  /\ AsLines(items, n, prices) = Append(before, line)
             /\ SumOfLines(AsLines(items, n, prices))
                  = SumOfLines(before) + prices[items[n].product] * items[n].quantity
<1> DEFINE before == AsLines(items, n - 1, prices)
           line == AsLine(items[n], prices)
           after == AsLines(items, n, prices)
<1>1. n - 1 \in Nat /\ n \in Nat /\ Len(items) \in Nat
  BY LenProperties
<1>2. \A i \in 1..n : AsLine(items[i], prices) \in Lines
  <2> SUFFICES ASSUME NEW i \in 1..n PROVE AsLine(items[i], prices) \in Lines
    OBVIOUS
  <2>1. items[i] \in Items
    BY <1>1, ElementOfSeq
  <2>2. items[i].product \in Active /\ items[i].quantity \in Int
    BY <2>1 DEF Orderable, Items
  <2> QED
    BY <2>2 DEF AsLine, Lines
<1>3. /\ before \in Seq(Lines) /\ Len(before) = n - 1
      /\ \A i \in 1..(n - 1) : before[i] = AsLine(items[i], prices)
  BY <1>1, <1>2 DEF AsLines
<1>4. /\ after \in Seq(Lines) /\ Len(after) = n
      /\ \A i \in 1..n : after[i] = AsLine(items[i], prices)
  BY <1>1, <1>2 DEF AsLines
<1>5. line \in Lines
  BY <1>1, <1>2
<1>6. line.unit_price = prices[items[n].product] /\ line.quantity = items[n].quantity
  BY DEF AsLine
<1> HIDE DEF before, line, after
<1>7. after = Append(before, line)
  <2>1. /\ Append(before, line) \in Seq(Lines) /\ Len(Append(before, line)) = n
        /\ \A i \in 1..(n - 1) : Append(before, line)[i] = before[i]
        /\ Append(before, line)[n] = line
    BY <1>1, <1>3, <1>5, AppendProperties
  <2>2. \A i \in 1..n : after[i] = Append(before, line)[i]
    BY <1>1, <1>3, <1>4, <2>1 DEF line
  <2> QED
    BY <1>4, <2>1, <2>2, SeqEqual
<1>8. SumOfLines(Append(before, line)) = SumOfLines(before) + line.unit_price * line.quantity
  BY <1>3, <1>5, SumOfAppended
<1> QED
  BY <1>6, <1>7, <1>8 DEF before, line, after

(***************************************************************************)
(* A step of one request, at the end of which its total is right.          *)
(***************************************************************************)
LEMMA OneRequestAdds ==
  ASSUME TotalsByStep, NEW r \in Requests,
         \A s \in Requests \ {r} :
           pc'[s] = pc[s] /\ tx'[s] = tx[s] /\ request'[s] = request[s],
         UNCHANGED <<price, repriced>>,
         r \notin repriced => TotalAt(pc'[r], tx'[r], request'[r].items, price)
  PROVE  TotalsByStep'
BY DEF TotalsByStep, TotalAt

(***************************************************************************)
(* The end of a request: its locals are gone.                              *)
(***************************************************************************)
LEMMA FinishAdds ==
  ASSUME IInv, TotalsByStep, NEW r \in Requests, NEW a \in Answers, Finish(r, a),
         UNCHANGED <<price, repriced>>
  PROVE  TotalsByStep'
<1>1. /\ pc'[r] = "done" /\ tx'[r] = NoTransaction /\ request' = request
      /\ \A s \in Requests \ {r} : pc'[s] = pc[s] /\ tx'[s] = tx[s]
  BY FinishFrame
<1>2. TotalAt("done", NoTransaction, request[r].items, price)
  BY DEF TotalAt, NoTransaction
<1> QED
  BY <1>1, <1>2, OneRequestAdds

(***************************************************************************)
(* The loops and the statements around them.                               *)
(***************************************************************************)
LEMMA HandleAdds ==
  ASSUME IInv, TotalsByStep, NEW r \in Requests, Handle(r)
  PROVE  TotalsByStep'
<1> DEFINE items == request[r].items
<1>a. /\ TypeOK /\ tx[r] \in Transaction /\ items \in Seq(Items)
      /\ price \in [Active -> Prices] /\ UNCHANGED <<price, repriced>>
  BY DEF IInv, TypeOK, Handle, envVars
<1>b. {BadRequest, Failed} \subseteq Answers
  BY DEF Answers
<1>c. LoopAt(pc[r], tx[r], items) /\ StagedAt(pc[r], tx[r])
  BY DEF IInv, LoopsInRange, StagedByStep
<1>d. r \notin repriced => TotalAt(pc[r], tx[r], items, price)
  BY DEF TotalsByStep
<1>e. Len(items) \in Nat /\ \A p : AsLines(items, 0, p) = <<>>
  BY <1>a, LenProperties DEF AsLines
<1>f. ASSUME NEW a \in {BadRequest, Failed}, Abort(r, a) PROVE TotalsByStep'
  BY <1>a, <1>b, <1>f, FinishAdds DEF Abort
<1>g. ASSUME NEW label, NEW t, pc' = [pc EXCEPT ![r] = label], tx' = [tx EXCEPT ![r] = t],
             request' = request,
             r \notin repriced => TotalAt(label, t, items, price)
      PROVE  TotalsByStep'
  <2>1. /\ pc'[r] = label /\ tx'[r] = t
        /\ \A s \in Requests \ {r} : pc'[s] = pc[s] /\ tx'[s] = tx[s]
    BY <1>a, <1>g DEF TypeOK
  <2> QED
    BY <1>a, <1>g, <2>1, OneRequestAdds
<1>1. CASE Connect(r) \/ ReserveKey(r)
  <2>1. PICK label \in {"reserve", "buyer", "locate"} :
          /\ pc[r] \in {"connecting", "reserve"} /\ pc' = [pc EXCEPT ![r] = label]
          /\ UNCHANGED <<request, tx>>
    BY <1>1 DEF Connect, ReserveKey, Goto
  <2>2. tx' = [tx EXCEPT ![r] = tx[r]]
    BY <1>a, <2>1 DEF TypeOK
  <2>3. r \notin repriced => TotalAt(label, tx[r], items, price)
    BY <1>d, <2>1 DEF TotalAt
  <2> QED
    BY <1>g, <2>1, <2>2, <2>3
<1>2. CASE LockExistingKey(r)
  <2>1. CASE Abort(r, Failed)
    BY <1>f, <2>1
  <2>2. CASE ~Abort(r, Failed)
    <3> DEFINE t == [tx[r] EXCEPT !.id = keyRow[KeyOf(r)]]
    <3>1. /\ pc[r] = "locate" /\ pc' = [pc EXCEPT ![r] = "reread"]
          /\ tx' = [tx EXCEPT ![r] = t] /\ request' = request
      BY <1>2, <2>2 DEF LockExistingKey, Goto
    <3>2. t.total = tx[r].total /\ t.lines = tx[r].lines
      BY <1>a DEF Transaction
    <3> HIDE DEF t
    <3>3. r \notin repriced => TotalAt("reread", t, items, price)
      BY <1>d, <3>1, <3>2 DEF TotalAt
    <3> QED
      BY <1>g, <3>1, <3>3
  <2> QED
    BY <2>1, <2>2
<1>3. CASE ReadExistingOrder(r)
  <2>1. CASE Abort(r, Failed)
    BY <1>f, <2>1
  <2>2. CASE ~Abort(r, Failed)
    <3>1. PICK seen : /\ pc[r] = "reread"
                      /\ Execute(r, "commit", [tx[r] EXCEPT !.seen = seen])
      BY <1>3, <2>2 DEF ReadExistingOrder
    <3> DEFINE t == [tx[r] EXCEPT !.seen = seen]
    <3>2. t.total = tx[r].total /\ t.lines = tx[r].lines
      BY <1>a DEF Transaction
    <3> HIDE DEF t
    <3>3. r \notin repriced => TotalAt("commit", t, items, price)
      BY <1>d, <3>1, <3>2, SumOfNoLines DEF TotalAt
    <3> QED
      BY <1>g, <3>1, <3>3 DEF Execute, Goto, t
  <2> QED
    BY <2>1, <2>2
<1>4. CASE ReadBuyer(r)
  <2>1. CASE Abort(r, BadRequest)
    BY <1>f, <2>1
  <2>2. CASE ~Abort(r, BadRequest)
    <3>1. pc[r] = "buyer" /\ Execute(r, "pricing", tx[r])
      BY <1>4, <2>2 DEF ReadBuyer
    <3>2. tx[r].line - 1 = 0
      BY <1>c, <3>1 DEF LoopAt
    <3>3. r \notin repriced => TotalAt("pricing", tx[r], items, price)
      BY <1>d, <1>e, <3>1, <3>2, SumOfNoLines DEF TotalAt
    <3> QED
      BY <1>g, <3>1, <3>3 DEF Execute, Goto
  <2> QED
    BY <2>1, <2>2
<1>5. CASE PriceItem(r)
  <2> DEFINE item == CurrentItem(r)
             n == tx[r].line
  <2>1. CASE ~Orderable(item)
    BY <1>5, <1>f, <2>1 DEF PriceItem
  <2>2. CASE Orderable(item)
    <3> DEFINE t == [tx[r] EXCEPT !.total = TotalWith(r, item), !.line = NextLine(r)]
               label == IF AtLastItem(r) THEN "insert" ELSE "pricing"
    <3>1. pc[r] = "pricing" /\ Execute(r, label, t)
      BY <1>5, <2>2 DEF PriceItem
    <3>2. /\ t.total = tx[r].total + price[item.product] * item.quantity
          /\ t.lines = tx[r].lines /\ t.line = NextLine(r)
      BY <1>a DEF Transaction, TotalWith
    <3>3. n \in 1..Len(items) /\ item = items[n]
          /\ \A i \in 1..n : Orderable(items[i])
      BY <1>c, <1>e, <2>2, <3>1 DEF LoopAt, CurrentItem
    <3>4. SumOfLines(AsLines(items, n, price))
            = SumOfLines(AsLines(items, n - 1, price)) + price[item.product] * item.quantity
      BY <1>a, <3>3, OneMoreLine
    <3>5. AtLastItem(r) <=> n = Len(items)
      BY DEF AtLastItem
    <3>6. ~AtLastItem(r) => t.line - 1 = n
      BY <3>2, <3>3 DEF NextLine
    <3> HIDE DEF t, item
    <3>7. r \notin repriced => TotalAt(label, t, items, price)
      BY <1>d, <3>1, <3>2, <3>4, <3>5, <3>6 DEF TotalAt
    <3> QED
      BY <1>g, <3>1, <3>7 DEF Execute, Goto
  <2> QED
    BY <2>1, <2>2
<1>6. CASE InsertOrder(r)
  <2> DEFINE t == [tx[r] EXCEPT !.id = nextId, !.staged = @ \cup {"order"}]
  <2>1. pc[r] = "insert" /\ Execute(r, "lines", t)
    BY <1>6 DEF InsertOrder
  <2>2. t.total = tx[r].total /\ t.lines = tx[r].lines /\ t.line = tx[r].line
    BY <1>a DEF Transaction
  <2>3. tx[r].line - 1 = 0
    BY <1>c, <2>1 DEF LoopAt
  <2> HIDE DEF t
  <2>4. r \notin repriced => TotalAt("lines", t, items, price)
    BY <1>d, <1>e, <2>1, <2>2, <2>3 DEF TotalAt
  <2> QED
    BY <1>g, <2>1, <2>4 DEF Execute, Goto
<1>7. CASE InsertLine(r)
  <2> DEFINE item == CurrentItem(r)
             n == tx[r].line
             row == AsLine(item, price)
             t == [tx[r] EXCEPT !.lines = Append(@, row), !.line = NextLine(r)]
             label == IF AtLastItem(r) THEN "outbox" ELSE "lines"
  <2>1. pc[r] = "lines" /\ Execute(r, label, t)
    BY <1>7 DEF InsertLine, AsLine
  <2>2. t.total = tx[r].total /\ t.lines = Append(tx[r].lines, row) /\ t.line = NextLine(r)
    BY <1>a DEF Transaction
  <2>3. n \in 1..Len(items) /\ item = items[n]
        /\ \A i \in 1..n : Orderable(items[i])
    BY <1>c, <1>e, <2>1 DEF LoopAt, CurrentItem
  <2>4. AsLines(items, n, price) = Append(AsLines(items, n - 1, price), row)
    BY <1>a, <2>3, OneMoreLine
  <2>5. AtLastItem(r) <=> n = Len(items)
    BY DEF AtLastItem
  <2>6. ~AtLastItem(r) => t.line - 1 = n
    BY <2>2, <2>3 DEF NextLine
  <2> HIDE DEF t, item, row
  <2>7. r \notin repriced => TotalAt(label, t, items, price)
    BY <1>d, <2>1, <2>2, <2>4, <2>5, <2>6 DEF TotalAt
  <2> QED
    BY <1>g, <2>1, <2>7 DEF Execute, Goto
<1>8. CASE WriteOutbox(r) \/ LinkKey(r)
  <2>1. PICK label \in {"link", "commit"}, what \in {"outbox", "link"} :
          /\ pc[r] \in {"outbox", "link"}
          /\ Execute(r, label, [tx[r] EXCEPT !.staged = @ \cup {what}])
    BY <1>8 DEF WriteOutbox, LinkKey
  <2> DEFINE t == [tx[r] EXCEPT !.staged = @ \cup {what}]
  <2>2. t.total = tx[r].total /\ t.lines = tx[r].lines
    BY <1>a DEF Transaction
  <2> HIDE DEF t
  <2>3. r \notin repriced => TotalAt(label, t, items, price)
    BY <1>d, <2>1, <2>2 DEF TotalAt
  <2> QED
    BY <1>g, <2>1, <2>3 DEF Execute, Goto, t
<1>9. CASE Commit(r)
  <2>1. Reply(r) \in Answers
    BY <1>9, ApplyWritesType DEF Commit
  <2> QED
    BY <1>9, <1>a, <2>1, FinishAdds DEF Commit
<1> QED
  BY <1>1, <1>2, <1>3, <1>4, <1>5, <1>6, <1>7, <1>8, <1>9 DEF Handle

(***************************************************************************)
(* Every other step: a price that changes between the loops is why its     *)
(* request is excepted.                                                    *)
(***************************************************************************)
LEMMA TotalsStep == IInv /\ TotalsByStep /\ [Next]_vars => TotalsByStep'
<1> SUFFICES ASSUME IInv, TotalsByStep, [Next]_vars PROVE TotalsByStep'
  OBVIOUS
<1>a. TypeOK
  BY DEF IInv
<1>1. ASSUME NEW r \in Requests, NEW k \in Keys \cup {BlankKey}, NEW items \in Bodies,
             Submit(r, k, items)
      PROVE  TotalsByStep'
  <2>1. /\ pc[r] = "idle" /\ tx' = tx /\ pc'[r] \in {"done", "connecting"}
        /\ \A s \in Requests \ {r} : pc'[s] = pc[s] /\ request'[s] = request[s]
        /\ UNCHANGED <<price, repriced>>
    BY <1>1, <1>a DEF Submit, Goto, envVars, TypeOK
  <2>2. r \notin repriced => TotalAt(pc'[r], tx[r], request'[r].items, price)
    BY <2>1 DEF TotalsByStep, TotalAt
  <2> QED
    BY <2>1, <2>2, OneRequestAdds
<1>2. ASSUME NEW r \in Requests, Handle(r) PROVE TotalsByStep'
  BY <1>2, HandleAdds
<1>3. ASSUME NEW r \in Requests, Fault(r) PROVE TotalsByStep'
  <2>1. Finish(r, Failed) /\ UNCHANGED <<price, repriced>> /\ Failed \in Answers
    BY <1>3 DEF Fault, CommitUnacknowledged, Fail, Abort, envVars, Answers
  <2> QED
    BY <2>1, FinishAdds
<1>4. ASSUME NEW o \in DOMAIN orders, NEW st \in Statuses, UpdateStatus(o, st) PROVE TotalsByStep'
  BY <1>4 DEF UpdateStatus, envVars, TotalsByStep, TotalAt
<1>5. ASSUME NEW p \in Active, NEW v \in Prices, ChangePrice(p, v) PROVE TotalsByStep'
  <2>1. /\ UNCHANGED <<pc, tx, request>>
        /\ \A r \in Requests \ repriced' :
             r \notin repriced /\ pc[r] \notin {"pricing", "insert", "lines"}
    BY <1>5 DEF ChangePrice
  <2> QED
    BY <2>1 DEF TotalsByStep, TotalAt
<1>6. CASE UNCHANGED vars
  BY <1>6 DEF vars, envVars, TotalsByStep, TotalAt
<1> QED
  BY <1>1, <1>2, <1>3, <1>4, <1>5, <1>6 DEF Next

(***************************************************************************)
(* A commit adds the order with the total and the lines of its             *)
(* transaction, and an event with this total.                              *)
(***************************************************************************)
LEMMA CommitAdds ==
  ASSUME IInv, TotalsByStep, TotalMatchesLinesUnlessRepriced, NEW r \in Requests,
         pc[r] = "commit", ApplyWrites(r), repriced' = repriced
  PROVE  TotalMatchesLinesUnlessRepriced'
<1>1. CASE UNCHANGED <<keyRow, orders, outbox>>
  BY <1>1 DEF TotalMatchesLinesUnlessRepriced
<1>2. CASE /\ tx[r].id \notin DOMAIN orders
           /\ orders' = [o \in DOMAIN orders \cup {tx[r].id} |->
                           IF o = tx[r].id THEN NewOrder(r) ELSE orders[o]]
           /\ outbox' = outbox \cup {NewEvent(r)}
  <2>1. /\ DOMAIN orders' = DOMAIN orders \cup {tx[r].id} /\ orders'[tx[r].id] = NewOrder(r)
        /\ \A o \in DOMAIN orders : orders'[o] = orders[o]
    BY <1>2
  <2>2. /\ NewOrder(r).by = r /\ NewOrder(r).total = tx[r].total /\ NewOrder(r).lines = tx[r].lines
        /\ NewEvent(r).order = tx[r].id /\ NewEvent(r).total = tx[r].total
    BY DEF NewOrder, NewEvent
  <2>3. r \in repriced \/ tx[r].total = SumOfLines(tx[r].lines)
    BY DEF TotalsByStep, TotalAt
  <2>4. \A o \in DOMAIN orders' :
          orders'[o].by \in repriced' \/ orders'[o].total = SumOfLines(orders'[o].lines)
    BY <2>1, <2>2, <2>3 DEF TotalMatchesLinesUnlessRepriced
  <2>5. \A e \in outbox : e.order \in DOMAIN orders
    BY DEF IInv, EventPerOrder
  <2>6. \A e \in outbox' : e.total = orders'[e.order].total
    BY <1>2, <2>1, <2>2, <2>5 DEF TotalMatchesLinesUnlessRepriced
  <2> QED
    BY <2>4, <2>6 DEF TotalMatchesLinesUnlessRepriced
<1> QED
  BY <1>1, <1>2, CommitEffect

(***************************************************************************)
(* A total once committed stays the sum of its lines: updateStatus touches *)
(* neither.                                                                *)
(***************************************************************************)
LEMMA TableTotalsStep ==
  IInv /\ TotalsByStep /\ TotalMatchesLinesUnlessRepriced /\ [Next]_vars
    => TotalMatchesLinesUnlessRepriced'
<1> SUFFICES ASSUME IInv, TotalsByStep, TotalMatchesLinesUnlessRepriced, [Next]_vars
             PROVE  TotalMatchesLinesUnlessRepriced'
  OBVIOUS
<1>1. ASSUME UNCHANGED <<orders, outbox>>, repriced \subseteq repriced'
      PROVE  TotalMatchesLinesUnlessRepriced'
  BY <1>1 DEF TotalMatchesLinesUnlessRepriced
<1>2. ASSUME NEW r \in Requests, NEW k \in Keys \cup {BlankKey}, NEW items \in Bodies,
             Submit(r, k, items)
      PROVE  TotalMatchesLinesUnlessRepriced'
  BY <1>1, <1>2 DEF Submit, dbVars, envVars
<1>3. ASSUME NEW r \in Requests, Handle(r) PROVE TotalMatchesLinesUnlessRepriced'
  <2>1. repriced' = repriced
    BY <1>3 DEF Handle, envVars
  <2>2. CASE Commit(r)
    BY <2>1, <2>2, CommitAdds DEF Commit
  <2>3. CASE ~Commit(r)
    <3>1. UNCHANGED <<orders, outbox>>
      BY <1>3, <2>3 DEF Handle, Connect, ReserveKey, LockExistingKey, ReadExistingOrder, ReadBuyer,
                        PriceItem, InsertOrder, InsertLine, WriteOutbox, LinkKey, Execute, Abort,
                        dbVars
    <3> QED
      BY <1>1, <2>1, <3>1
  <2> QED
    BY <2>2, <2>3
<1>4. ASSUME NEW r \in Requests, Fault(r) PROVE TotalMatchesLinesUnlessRepriced'
  <2>1. repriced' = repriced
    BY <1>4 DEF Fault, envVars
  <2>2. CASE CommitUnacknowledged(r)
    BY <2>1, <2>2, CommitAdds DEF CommitUnacknowledged
  <2>3. CASE Fail(r)
    BY <1>1, <2>1, <2>3 DEF Fail, Abort, dbVars
  <2> QED
    BY <1>4, <2>2, <2>3 DEF Fault
<1>5. ASSUME NEW o \in DOMAIN orders, NEW st \in Statuses, UpdateStatus(o, st)
      PROVE  TotalMatchesLinesUnlessRepriced'
  <2>1. /\ DOMAIN orders' = DOMAIN orders /\ UNCHANGED <<outbox, repriced>>
        /\ \A x \in DOMAIN orders :
             /\ orders'[x].by = orders[x].by /\ orders'[x].total = orders[x].total
             /\ orders'[x].lines = orders[x].lines
    BY <1>5 DEF UpdateStatus, envVars, IInv, TypeOK, Order
  <2>2. \A e \in outbox : e.order \in DOMAIN orders
    BY DEF IInv, EventPerOrder
  <2> QED
    BY <2>1, <2>2 DEF TotalMatchesLinesUnlessRepriced
<1>6. ASSUME NEW p \in Active, NEW v \in Prices, ChangePrice(p, v)
      PROVE  TotalMatchesLinesUnlessRepriced'
  BY <1>1, <1>6 DEF ChangePrice, dbVars
<1>7. CASE UNCHANGED vars
  BY <1>1, <1>7 DEF vars, dbVars, envVars
<1> QED
  BY <1>2, <1>3, <1>4, <1>5, <1>6, <1>7 DEF Next

(***************************************************************************)
(* For every order of which no price changed between the two loops of      *)
(* create, total_amount is the sum of quantity times unit_price over its   *)
(* order_items, and its event carries the same total.                      *)
(***************************************************************************)
THEOREM TotalsMatch == Spec => []TotalMatchesLinesUnlessRepriced
<1>1. Init => TotalsByStep /\ TotalMatchesLinesUnlessRepriced
  BY DEF Init, TotalsByStep, TotalAt, NoTransaction, TotalMatchesLinesUnlessRepriced
<1>2. IInv /\ TotalsByStep /\ [Next]_vars => TotalsByStep'
  BY TotalsStep
<1>3. IInv /\ TotalsByStep /\ TotalMatchesLinesUnlessRepriced /\ [Next]_vars
        => TotalMatchesLinesUnlessRepriced'
  BY TableTotalsStep
<1> QED
  BY <1>1, <1>2, <1>3, InvariantHolds, PTL DEF Spec

=============================================================================
