--------------------------- MODULE OrderPlacement ---------------------------
(***************************************************************************)
(* OrdersService.create and OrdersService.updateStatus on PostgreSQL under *)
(* READ COMMITTED. A request is one POST /orders call; a retry, or the     *)
(* same call sent twice, is another request with the same Idempotency-Key. *)
(* A transaction's writes live in its local variables until it commits;    *)
(* an uncommitted idempotency_keys row makes a second insert of the same   *)
(* key wait, and a committed one makes it return no row.                   *)
(***************************************************************************)
EXTENDS Integers, Sequences, FiniteSets, SequencesExt

CONSTANTS
  Requests,         \* POST /orders calls
  Keys,             \* Idempotency-Key values that are not blank
  BlankKey,         \* a header that is empty once trimmed
  Bodies,           \* item lists a body may carry, the empty one included
  Products,         \* product ids a body may name
  Active,           \* those of a row of products with is_active = TRUE
  Prices,           \* values the price column may hold
  InitialPrices,    \* price columns the run may start from
  Statuses,         \* ORDER_STATUSES
  Created,          \* the status a new order gets
  PoolSize,         \* connections the pool hands out
  MaxPriceChanges,  \* bound: price updates by seed.ts
  MaxFaults,        \* bound: queries and commits that fail
  NoRequest, NoRow, Unlinked, NoAnswer, BadRequest, Failed

Items == [product : Products, quantity : Int]

Response == [id : Nat, status : Statuses, total : Int]

(***************************************************************************)
(* keyRow[k] is NoRow, Unlinked (a row whose order_id is NULL) or an order *)
(* id; answer[r] is NoAnswer, BadRequest (400), Failed (500 or a lost      *)
(* connection) or the order in the 201 body.                               *)
(***************************************************************************)
ASSUME PlacementAssumption ==
  /\ PoolSize \in Nat \ {0} /\ MaxPriceChanges \in Nat /\ MaxFaults \in Nat
  /\ IsFiniteSet(Requests) /\ NoRequest \notin Requests
  /\ BlankKey \notin Keys
  /\ Bodies \subseteq Seq(Items)
  /\ Active \subseteq Products
  /\ Prices \subseteq Nat /\ InitialPrices \subseteq [Active -> Prices]
  /\ Created \in Statuses
  /\ NoRow \notin Nat /\ Unlinked \notin Nat /\ NoRow # Unlinked
  /\ {NoAnswer, BadRequest, Failed} \cap Response = {}
  /\ NoAnswer # BadRequest /\ NoAnswer # Failed /\ BadRequest # Failed

VARIABLES
  pc,            \* pc[r]: the await request r is at
  request,       \* request[r]: the Idempotency-Key and the items of r
  answer,        \* answer[r]: what r was answered
  tx,            \* tx[r]: locals and uncommitted writes of r's transaction
  pool,          \* requests that hold a pooled connection
  keyLock,       \* keyLock[k]: the transaction that holds the row of key k
  nextId,        \* the sequence of orders.id, never rolled back
  keyRow,        \* committed idempotency_keys
  orders,        \* committed orders with their order_items
  outbox,        \* committed outbox_messages
  price,         \* price[p]: products.price
  hasBuyer,      \* the table users is not empty
  priceChanges,  \* price updates so far
  repriced,      \* history: requests that saw a price change between loops
  faults         \* faults so far

dbVars == <<keyRow, orders, outbox>>
envVars == <<price, hasBuyer, priceChanges, repriced>>
vars == <<pc, request, answer, tx, pool, keyLock, nextId, dbVars, envVars, faults>>

Ids == Nat \ {0}

Lines == [product : Active, quantity : Int, unit_price : Prices]

Order == [by : Requests, status : Statuses, total : Int, lines : Seq(Lines)]

(***************************************************************************)
(* line is the index the loop over input.items is at, total the            *)
(* totalAmount so far, id the order inserted or replayed, lines the        *)
(* order_items inserted, staged the other writes, seen what a replay read. *)
(***************************************************************************)
Transaction ==
  [line : Nat \ {0}, total : Int, id : Nat, lines : Seq(Lines),
   staged : SUBSET {"order", "outbox", "link"}, seen : Response \cup {NoAnswer}]

NoTransaction ==
  [line |-> 1, total |-> 0, id |-> 0, lines |-> <<>>, staged |-> {}, seen |-> NoAnswer]

InTransaction ==
  {"reserve", "locate", "reread", "buyer", "pricing", "insert", "lines",
   "outbox", "link", "commit"}

KeyOf(r) == request[r].key

CurrentItem(r) == request[r].items[tx[r].line]

AtLastItem(r) == tx[r].line = Len(request[r].items)

NextLine(r) == IF AtLastItem(r) THEN 1 ELSE tx[r].line + 1

(***************************************************************************)
(* The first loop's checks: positive integers, and a row of products with  *)
(* is_active = TRUE.                                                       *)
(***************************************************************************)
Orderable(item) == item.quantity > 0 /\ item.product \in Active

(***************************************************************************)
(* The answer carries an order: the body of a 201.                         *)
(***************************************************************************)
Answered(r) == answer[r] \notin {NoAnswer, BadRequest, Failed}

-----------------------------------------------------------------------------
Init ==
  /\ pc = [r \in Requests |-> "idle"]
  /\ request = [r \in Requests |-> [key |-> BlankKey, items |-> <<>>]]
  /\ answer = [r \in Requests |-> NoAnswer]
  /\ tx = [r \in Requests |-> NoTransaction]
  /\ pool = {}
  /\ keyLock = [k \in Keys |-> NoRequest]
  /\ nextId = 1
  /\ keyRow = [k \in Keys |-> NoRow]
  /\ orders = <<>>
  /\ outbox = {}
  /\ price \in InitialPrices
  /\ hasBuyer \in BOOLEAN
  /\ priceChanges = 0
  /\ repriced = {}
  /\ faults = 0

Goto(r, label) == pc' = [pc EXCEPT ![r] = label]

(***************************************************************************)
(* A statement that only this transaction can see.                         *)
(***************************************************************************)
Execute(r, label, t) ==
  /\ Goto(r, label)
  /\ tx' = [tx EXCEPT ![r] = t]
  /\ UNCHANGED <<request, answer, pool, keyLock, dbVars>>

\* Mutation of PoolWithout: client.release() is missing.
PoolUnchanged(r) == pool

PoolWithout(r) == pool \ {r}

(***************************************************************************)
(* The end of create: the finally block gives the connection back, and the *)
(* transaction's locks and local writes are gone.                          *)
(***************************************************************************)
Finish(r, a) ==
  /\ Goto(r, "done")
  /\ answer' = [answer EXCEPT ![r] = a]
  /\ pool' = PoolWithout(r)
  /\ keyLock' = [k \in Keys |-> IF keyLock[k] = r THEN NoRequest ELSE keyLock[k]]
  /\ tx' = [tx EXCEPT ![r] = NoTransaction]
  /\ UNCHANGED <<request, nextId>>

(***************************************************************************)
(* catch: ROLLBACK, rethrow.                                               *)
(***************************************************************************)
Abort(r, a) == Finish(r, a) /\ UNCHANGED dbVars

-----------------------------------------------------------------------------
(***************************************************************************)
(* The checks before the connection: a blank key or no items is a 400.     *)
(***************************************************************************)
Submit(r, k, items) ==
  /\ pc[r] = "idle"
  /\ IF k = BlankKey \/ items = <<>>
       THEN /\ Goto(r, "done")
            /\ answer' = [answer EXCEPT ![r] = BadRequest]
            /\ UNCHANGED request
       ELSE /\ Goto(r, "connecting")
            /\ request' = [request EXCEPT ![r] = [key |-> k, items |-> items]]
            /\ UNCHANGED answer
  /\ UNCHANGED <<tx, pool, keyLock, nextId, dbVars, envVars, faults>>

\* Mutation of PoolHasRoom: a connection of its own for every request.
PoolUnlimited == TRUE

PoolHasRoom == Cardinality(pool) < PoolSize

Connect(r) ==
  /\ pc[r] = "connecting"
  /\ PoolHasRoom
  /\ pool' = pool \cup {r}
  /\ Goto(r, "reserve")
  /\ UNCHANGED <<request, answer, tx, keyLock, nextId, dbVars>>

\* Mutation of CanInsert: a SELECT decides, and it does not see the row that
\* another transaction has not committed.
SeesNoRow(k) == keyRow[k] = NoRow

CanInsert(k) == keyRow[k] = NoRow /\ keyLock[k] = NoRequest

(***************************************************************************)
(* INSERT INTO idempotency_keys ... ON CONFLICT DO NOTHING: waits while    *)
(* another transaction's insert of the key is uncommitted, inserts if no   *)
(* row is committed, and returns no row otherwise.                         *)
(***************************************************************************)
ReserveKey(r) ==
  LET k == KeyOf(r) IN
  /\ pc[r] = "reserve"
  /\ \/ /\ CanInsert(k)
        /\ keyLock' = [keyLock EXCEPT ![k] = r]
        /\ Goto(r, "buyer")
     \/ /\ keyRow[k] # NoRow
        /\ Goto(r, "locate")
        /\ UNCHANGED keyLock
  /\ UNCHANGED <<request, answer, tx, pool, nextId, dbVars>>

(***************************************************************************)
(* SELECT order_id ... FOR UPDATE of the committed row, and the error for  *)
(* a row without an order.                                                 *)
(***************************************************************************)
LockExistingKey(r) ==
  LET k == KeyOf(r) IN
  /\ pc[r] = "locate"
  /\ keyLock[k] = NoRequest
  /\ IF keyRow[k] = Unlinked
       THEN Abort(r, Failed)
       ELSE /\ keyLock' = [keyLock EXCEPT ![k] = r]
            /\ tx' = [tx EXCEPT ![r].id = keyRow[k]]
            /\ Goto(r, "reread")
            /\ UNCHANGED <<request, answer, pool, nextId, dbVars>>

\* Mutation of ReplayedId: the newest order instead of the key's.
NewestId(r) == nextId - 1

ReplayedId(r) == tx[r].id

(***************************************************************************)
(* findByIdWithClient: the order as it is now, or a 404.                   *)
(***************************************************************************)
ReadExistingOrder(r) ==
  LET o == ReplayedId(r) IN
  /\ pc[r] = "reread"
  /\ IF o \notin DOMAIN orders
       THEN Abort(r, Failed)
       ELSE /\ Execute(r, "commit",
                 [tx[r] EXCEPT !.seen = [id |-> o, status |-> orders[o].status,
                                         total |-> orders[o].total]])
            /\ UNCHANGED nextId

ReadBuyer(r) ==
  /\ pc[r] = "buyer"
  /\ IF hasBuyer
       THEN Execute(r, "pricing", tx[r]) /\ UNCHANGED nextId
       ELSE Abort(r, BadRequest)

\* Mutation of TotalWith: the total is assigned, not added to.
TotalOnlyOf(r, item) == price[item.product] * item.quantity

TotalWith(r, item) == tx[r].total + price[item.product] * item.quantity

(***************************************************************************)
(* One turn of the first loop: checks the item, reads its price.           *)
(***************************************************************************)
PriceItem(r) ==
  LET item == CurrentItem(r) IN
  /\ pc[r] = "pricing"
  /\ IF ~Orderable(item)
       THEN Abort(r, BadRequest)
       ELSE /\ Execute(r, IF AtLastItem(r) THEN "insert" ELSE "pricing",
                 [tx[r] EXCEPT !.total = TotalWith(r, item), !.line = NextLine(r)])
            /\ UNCHANGED nextId

InsertOrder(r) ==
  /\ pc[r] = "insert"
  /\ Execute(r, "lines", [tx[r] EXCEPT !.id = nextId, !.staged = @ \cup {"order"}])
  /\ nextId' = nextId + 1

(***************************************************************************)
(* One turn of the second loop: reads the price again, whether or not the  *)
(* product is active, and inserts the order_items row with it.             *)
(***************************************************************************)
InsertLine(r) ==
  LET item == CurrentItem(r)
      row  == [product |-> item.product, quantity |-> item.quantity,
               unit_price |-> price[item.product]]
  IN
  /\ pc[r] = "lines"
  /\ Execute(r, IF AtLastItem(r) THEN "outbox" ELSE "lines",
       [tx[r] EXCEPT !.lines = Append(@, row), !.line = NextLine(r)])
  /\ UNCHANGED nextId

NewEvent(r) ==
  [order |-> tx[r].id, total |-> tx[r].total, items |-> request[r].items]

\* Mutation of WriteOutbox: the row is written on a connection of its own.
WriteOutboxOutsideTransaction(r) ==
  /\ pc[r] = "outbox"
  /\ outbox' = outbox \cup {NewEvent(r)}
  /\ Goto(r, "link")
  /\ UNCHANGED <<request, answer, tx, pool, keyLock, nextId, keyRow, orders>>

WriteOutbox(r) ==
  /\ pc[r] = "outbox"
  /\ Execute(r, "link", [tx[r] EXCEPT !.staged = @ \cup {"outbox"}])
  /\ UNCHANGED nextId

\* Mutation of LinkKey: the UPDATE of idempotency_keys is missing.
LinkKeyForgotten(r) ==
  /\ pc[r] = "link"
  /\ Execute(r, "commit", tx[r])
  /\ UNCHANGED nextId

LinkKey(r) ==
  /\ pc[r] = "link"
  /\ Execute(r, "commit", [tx[r] EXCEPT !.staged = @ \cup {"link"}])
  /\ UNCHANGED nextId

-----------------------------------------------------------------------------
NewOrder(r) ==
  [by |-> r, status |-> Created, total |-> tx[r].total, lines |-> tx[r].lines]

(***************************************************************************)
(* What COMMIT makes visible: the key row the transaction inserted, with   *)
(* the order it was linked to, the order and its lines, and the event. A   *)
(* replay has written nothing.                                             *)
(***************************************************************************)
Reserved(r) == tx[r].seen = NoAnswer

ApplyWrites(r) ==
  LET t == tx[r] IN
  /\ keyRow' = IF Reserved(r)
                 THEN [keyRow EXCEPT ![KeyOf(r)] = IF "link" \in t.staged THEN t.id ELSE Unlinked]
                 ELSE keyRow
  /\ orders' = IF "order" \in t.staged
                 THEN [o \in DOMAIN orders \cup {t.id} |->
                         IF o = t.id THEN NewOrder(r) ELSE orders[o]]
                 ELSE orders
  /\ outbox' = IF "outbox" \in t.staged THEN outbox \cup {NewEvent(r)} ELSE outbox

Reply(r) ==
  IF Reserved(r)
    THEN [id |-> tx[r].id, status |-> Created, total |-> tx[r].total]
    ELSE tx[r].seen

Commit(r) ==
  /\ pc[r] = "commit"
  /\ ApplyWrites(r)
  /\ Finish(r, Reply(r))

(***************************************************************************)
(* The commit happens, its acknowledgement does not arrive: the request    *)
(* fails although its order is there.                                      *)
(***************************************************************************)
CommitUnacknowledged(r) ==
  /\ pc[r] = "commit"
  /\ ApplyWrites(r)
  /\ Finish(r, Failed)

(***************************************************************************)
(* A query fails, the connection breaks or the process dies: PostgreSQL    *)
(* rolls the transaction back and the caller gets no order.                *)
(***************************************************************************)
Fail(r) ==
  /\ pc[r] \in InTransaction \cup {"connecting"}
  /\ Abort(r, Failed)

(***************************************************************************)
(* updateStatus: one UPDATE; any status may follow any other.              *)
(***************************************************************************)
UpdateStatus(o, s) ==
  /\ orders[o].status # s
  /\ orders' = [orders EXCEPT ![o].status = s]
  /\ UNCHANGED <<pc, request, answer, tx, pool, keyLock, nextId, keyRow, outbox, envVars, faults>>

(***************************************************************************)
(* seed.ts rewrites a product's price while the application runs.          *)
(***************************************************************************)
ChangePrice(p, v) ==
  /\ priceChanges < MaxPriceChanges
  /\ price[p] # v
  /\ price' = [price EXCEPT ![p] = v]
  /\ priceChanges' = priceChanges + 1
  /\ repriced' = repriced \cup {r \in Requests : pc[r] \in {"pricing", "insert", "lines"}}
  /\ UNCHANGED <<pc, request, answer, tx, pool, keyLock, nextId, dbVars, hasBuyer, faults>>

Handle(r) ==
  /\ \/ Connect(r) \/ ReserveKey(r) \/ LockExistingKey(r) \/ ReadExistingOrder(r)
     \/ ReadBuyer(r) \/ PriceItem(r) \/ InsertOrder(r) \/ InsertLine(r)
     \/ WriteOutbox(r) \/ LinkKey(r) \/ Commit(r)
  /\ UNCHANGED <<envVars, faults>>

Fault(r) ==
  /\ faults < MaxFaults
  /\ faults' = faults + 1
  /\ CommitUnacknowledged(r) \/ Fail(r)
  /\ UNCHANGED envVars

Next ==
  \/ \E r \in Requests, k \in Keys \cup {BlankKey}, items \in Bodies : Submit(r, k, items)
  \/ \E r \in Requests : Handle(r)
  \/ \E r \in Requests : Fault(r)
  \/ \E o \in DOMAIN orders, s \in Statuses : UpdateStatus(o, s)
  \/ \E p \in Active, v \in Prices : ChangePrice(p, v)

(***************************************************************************)
(* Node runs every ready continuation and PostgreSQL answers every query   *)
(* it can answer; nothing makes a client send a request.                   *)
(***************************************************************************)
Fairness == \A r \in Requests : WF_vars(Handle(r))

Spec == Init /\ [][Next]_vars /\ Fairness

-----------------------------------------------------------------------------
(***************************************************************************)
(* Types, and the pool never hands out more connections than it has.       *)
(***************************************************************************)
TypeOK ==
  /\ pc \in [Requests -> InTransaction \cup {"idle", "connecting", "done"}]
  /\ request \in [Requests -> [key : Keys \cup {BlankKey}, items : Seq(Items)]]
  /\ answer \in [Requests -> Response \cup {NoAnswer, BadRequest, Failed}]
  /\ tx \in [Requests -> Transaction]
  /\ pool \subseteq Requests
  /\ Cardinality(pool) <= PoolSize
  /\ keyRow \in [Keys -> Ids \cup {NoRow, Unlinked}]
  /\ keyLock \in [Keys -> Requests \cup {NoRequest}]
  /\ DOMAIN orders \subseteq Ids
  /\ \A o \in DOMAIN orders : orders[o] \in Order
  /\ outbox \subseteq [order : Ids, total : Int, items : Seq(Items)]
  /\ nextId \in Ids
  /\ price \in [Active -> Prices]
  /\ hasBuyer \in BOOLEAN
  /\ priceChanges \in 0..MaxPriceChanges
  /\ repriced \subseteq Requests
  /\ faults \in 0..MaxFaults

(***************************************************************************)
(* Requests that carry one Idempotency-Key create one order between them,  *)
(* however they interleave, fail after the commit or are sent again.       *)
(***************************************************************************)
OneOrderPerKey ==
  \A o1, o2 \in DOMAIN orders :
    KeyOf(orders[o1].by) = KeyOf(orders[o2].by) => o1 = o2

(***************************************************************************)
(* A committed key row names the committed order its request created, and  *)
(* every order has its key row: the error "Idempotency key exists without  *)
(* completed order" and the 404 of the replay cannot be reached, and no    *)
(* 400 leaves an order or a key behind.                                    *)
(***************************************************************************)
KeyNamesItsOrder ==
  /\ \A k \in Keys : keyRow[k] # NoRow =>
       keyRow[k] \in DOMAIN orders /\ KeyOf(orders[keyRow[k]].by) = k
  /\ \A o \in DOMAIN orders :
       /\ keyRow[KeyOf(orders[o].by)] = o
       /\ answer[orders[o].by] # BadRequest

(***************************************************************************)
(* Two 201 answers to one Idempotency-Key name the same order with the     *)
(* same total, and that order is committed.                                *)
(***************************************************************************)
SameKeySameOrder ==
  \A r1 \in Requests : Answered(r1) =>
    /\ answer[r1].id \in DOMAIN orders
    /\ orders[answer[r1].id].total = answer[r1].total
    /\ \A r2 \in Requests :
         Answered(r2) /\ KeyOf(r1) = KeyOf(r2) => answer[r1].id = answer[r2].id

SumOfLines(ls) == FoldLeft(LAMBDA sum, l : sum + l.unit_price * l.quantity, 0, ls)

(***************************************************************************)
(* total_amount, and the total its event carries, is the sum of the        *)
(* order's lines, except for an order whose transaction saw a price change *)
(* between its two price reads.                                            *)
(***************************************************************************)
TotalMatchesLinesUnlessRepriced ==
  /\ \A o \in DOMAIN orders :
       orders[o].by \in repriced \/ orders[o].total = SumOfLines(orders[o].lines)
  /\ \A e \in outbox : e.total = orders[e.order].total

(***************************************************************************)
(* Order, key and event appear in one step: the implementation of          *)
(* IdempotentOrders by the transaction of create.                          *)
(***************************************************************************)
Promise ==
  INSTANCE IdempotentOrders WITH
    OrderIds <- Ids, NoOrder <- NoRow,
    placed <- keyRow, existing <- DOMAIN orders,
    announced <- {e.order : e \in outbox}

ImplementsIdempotentOrders == Promise!Spec

(***************************************************************************)
(* Every request that is sent is answered: nobody waits for ever for a key *)
(* or for a connection.                                                    *)
(***************************************************************************)
EveryRequestAnswered ==
  \A r \in Requests : pc[r] # "idle" ~> pc[r] = "done"

(***************************************************************************)
(* openapi.yaml:115: repeating a request with the same key and the same    *)
(* body returns the same response. The replay reads the order as it is now.*)
(***************************************************************************)
ReplayReturnsOriginalResponse ==
  \A r1, r2 \in Requests :
    Answered(r1) /\ Answered(r2) /\ request[r1] = request[r2]
      => answer[r1] = answer[r2]

=============================================================================
