------------------------------ MODULE Checkout ------------------------------
(***************************************************************************)
(* checkout: one transaction under READ COMMITTED takes the stock, the     *)
(* money, and inserts the order, its line and its post-processing task;    *)
(* after the commit, and outside of any transaction, the event goes to     *)
(* RabbitMQ. An UPDATE waits for a row that another transaction has        *)
(* written, and then looks at the committed row again.                     *)
(***************************************************************************)
EXTENDS Integers, FiniteSets

CONSTANTS
  Checkouts,    \* calls of checkout
  Users,
  Products,
  Requests,     \* Requests[c]: what call c may ask for, a user, a product, a quantity
  Price,        \* Price[p]: products.price
  InitStock,    \* InitStock[p]: products.stock_quantity
  InitBalance,  \* InitBalance[u]: users.balance
  MaxFaults     \* bound: failures

ASSUME CheckoutAssumption ==
  /\ IsFiniteSet(Checkouts)
  /\ \A c \in Checkouts :
       Requests[c] \subseteq [user : Users, product : Products, quantity : Int]
  /\ Price \in [Products -> Nat \ {0}]
  /\ InitStock \in [Products -> Nat] /\ InitBalance \in [Users -> Nat]
  /\ MaxFaults \in Nat

VARIABLES
  pc,         \* pc[c]: the await checkout c is at
  input,      \* input[c]: its user, product and quantity
  stock,      \* products.stock_quantity
  balance,    \* users.balance
  order,      \* order[c]: the committed order of c and its line, or <<>>
  task,       \* task[c]: the post-processing task of that order
  published,  \* checkouts whose event RabbitMQ has confirmed
  faults      \* faults so far

tableVars == <<stock, balance, order, task>>
checkoutVars == <<pc, input, tableVars, published, faults>>

NoInput == [user |-> <<>>, product |-> <<>>, quantity |-> 0]

Total(c) == Price[input[c].product] * input[c].quantity

Init ==
  /\ pc = [c \in Checkouts |-> "idle"]
  /\ input = [c \in Checkouts |-> NoInput]
  /\ stock = InitStock
  /\ balance = InitBalance
  /\ order = [c \in Checkouts |-> <<>>]
  /\ task = [c \in Checkouts |-> "none"]
  /\ published = {}
  /\ faults = 0

Goto(c, label) == pc' = [pc EXCEPT ![c] = label]

-----------------------------------------------------------------------------
Submit(c, r) ==
  /\ pc[c] = "idle"
  /\ IF r.quantity > 0
       THEN /\ Goto(c, "stock")
            /\ input' = [input EXCEPT ![c] = r]
       ELSE Goto(c, "failed") /\ UNCHANGED input
  /\ UNCHANGED <<tableVars, published, faults>>

\* Mutation of ProductRowFree: the stock is read, and written at the commit.
ProductRowUnlocked(c) == TRUE

(***************************************************************************)
(* The rows a transaction has updated are locked until it ends.            *)
(***************************************************************************)
ProductRowFree(c) ==
  \A d \in Checkouts \ {c} :
    pc[d] \in {"balance", "commit"} => input[d].product # input[c].product

UserRowFree(c) ==
  \A d \in Checkouts \ {c} : pc[d] = "commit" => input[d].user # input[c].user

TakeStock(c) ==
  /\ pc[c] = "stock"
  /\ ProductRowFree(c)
  /\ Goto(c, IF stock[input[c].product] >= input[c].quantity THEN "balance" ELSE "failed")
  /\ UNCHANGED <<input, tableVars, published>>

TakeMoney(c) ==
  /\ pc[c] = "balance"
  /\ UserRowFree(c)
  /\ Goto(c, IF balance[input[c].user] >= Total(c) THEN "commit" ELSE "failed")
  /\ UNCHANGED <<input, tableVars, published>>

NewOrder(c) == [user |-> input[c].user, product |-> input[c].product,
                quantity |-> input[c].quantity, total |-> Total(c)]

(***************************************************************************)
(* The INSERTs, which no one else can see or be in the way of, and the     *)
(* COMMIT of them and of the two UPDATEs.                                  *)
(***************************************************************************)
ApplyWrites(c) ==
  /\ stock' = [stock EXCEPT ![input[c].product] = @ - input[c].quantity]
  /\ balance' = [balance EXCEPT ![input[c].user] = @ - Total(c)]
  /\ order' = [order EXCEPT ![c] = NewOrder(c)]
  /\ task' = [task EXCEPT ![c] = "pending"]

Commit(c) ==
  /\ pc[c] = "commit"
  /\ ApplyWrites(c)
  /\ Goto(c, "publish")
  /\ UNCHANGED <<input, published>>

\* Mutation of Publish: nobody waits for the confirm.
ReturnUnpublished(c) ==
  /\ pc[c] = "publish"
  /\ Goto(c, "ok")
  /\ UNCHANGED <<input, tableVars, published>>

(***************************************************************************)
(* publishOrderPlaced, then checkout returns its result.                   *)
(***************************************************************************)
Publish(c) ==
  /\ pc[c] = "publish"
  /\ published' = published \cup {c}
  /\ Goto(c, "ok")
  /\ UNCHANGED <<input, tableVars>>

(***************************************************************************)
(* A query fails, or the process ends: PostgreSQL rolls back. After the    *)
(* commit it is the publish that fails, and the order is there.            *)
(***************************************************************************)
Fail(c) ==
  /\ pc[c] \in {"stock", "balance", "commit", "publish"}
  /\ Goto(c, "failed")
  /\ published' \in IF pc[c] = "publish" THEN {published, published \cup {c}} ELSE {published}
  /\ UNCHANGED <<input, tableVars>>

CommitUnacknowledged(c) ==
  /\ pc[c] = "commit"
  /\ ApplyWrites(c)
  /\ Goto(c, "failed")
  /\ UNCHANGED <<input, published>>

CheckoutStep(c) ==
  /\ TakeStock(c) \/ TakeMoney(c) \/ Commit(c) \/ Publish(c)
  /\ UNCHANGED faults

CheckoutFault(c) ==
  /\ faults < MaxFaults
  /\ faults' = faults + 1
  /\ Fail(c) \/ CommitUnacknowledged(c)

CheckoutNext ==
  \E c \in Checkouts :
    \/ \E r \in Requests[c] : Submit(c, r)
    \/ CheckoutStep(c)
    \/ CheckoutFault(c)

-----------------------------------------------------------------------------
Ordered == {c \in Checkouts : order[c] # <<>>}

(***************************************************************************)
(* A checkout that returns has a committed order, one task for it, and a   *)
(* confirmed event; no event is published before its order is committed.   *)
(***************************************************************************)
ReturnedIsComplete ==
  /\ \A c \in Checkouts : pc[c] = "ok" => c \in Ordered \cap published
  /\ \A c \in published : c \in Ordered
  /\ \A c \in Checkouts : (task[c] # "none") = (c \in Ordered)

(***************************************************************************)
(* Each checkout takes stock and money in one step, so that nothing is     *)
(* oversold and no money is lost: AtomicPurchase.                          *)
(***************************************************************************)
Purchase ==
  INSTANCE AtomicPurchase WITH
    Purchases <- Checkouts, bought <- order

ImplementsAtomicPurchase == [][Purchase!Next]_(Purchase!vars)

=============================================================================
