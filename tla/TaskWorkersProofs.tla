------------------------- MODULE TaskWorkersProofs -------------------------
(***************************************************************************)
(* Proofs about Checkout and TaskWorkers, for any number of checkouts,     *)
(* users, products and workers, and whatever they ask for and fail at.     *)
(***************************************************************************)
EXTENDS TaskWorkers, TLAPS

Inputs ==
  [user : Users \cup {<<>>}, product : Products \cup {<<>>}, quantity : Int]

CheckoutTypes ==
  /\ pc \in [Checkouts -> {"idle", "stock", "balance", "commit", "publish", "ok", "failed"}]
  /\ input \in [Checkouts -> Inputs]
  /\ stock \in [Products -> Nat]
  /\ balance \in [Users -> Nat]
  /\ DOMAIN order = Checkouts
  /\ task \in [Checkouts -> {"none", "pending", "done"}]
  /\ published \subseteq Checkouts

WorkerTypes ==
  /\ worker \in [Workers -> {"claim", "look", "work", "stopped", "failed"}]
  /\ claim \in [Workers -> Checkouts \cup {NoTask}]
  /\ processed \in [Checkouts -> Nat]

(***************************************************************************)
(* What a checkout in progress buys, and the rows it has updated.          *)
(***************************************************************************)
Running(c) == pc[c] \in {"stock", "balance", "commit", "publish"}

HasProduct(c) == pc[c] \in {"balance", "commit"}

HasUser(c) == pc[c] = "commit"

ValidInputs ==
  \A c \in Checkouts : Running(c) =>
    input[c].user \in Users /\ input[c].product \in Products /\ input[c].quantity > 0

RowsHaveOneWriter ==
  \A c, d \in Checkouts :
    /\ HasProduct(c) /\ HasProduct(d) /\ input[c].product = input[d].product => c = d
    /\ HasUser(c) /\ HasUser(d) /\ input[c].user = input[d].user => c = d

(***************************************************************************)
(* What the WHERE of an UPDATE has found holds until the commit.           *)
(***************************************************************************)
FoundStillHolds ==
  \A c \in Checkouts :
    /\ HasProduct(c) => input[c].quantity <= stock[input[c].product]
    /\ HasUser(c) => Total(c) <= balance[input[c].user]

OrdersInStep ==
  \A c \in Checkouts :
    /\ pc[c] \in {"idle", "stock", "balance", "commit"} => order[c] = <<>>
    /\ pc[c] \in {"publish", "ok"} => order[c] # <<>>
    /\ pc[c] = "ok" => c \in published
    /\ c \in published => order[c] # <<>>
    /\ task[c] # "none" <=> order[c] # <<>>

CheckoutInv ==
  CheckoutTypes /\ ValidInputs /\ RowsHaveOneWriter /\ FoundStillHolds /\ OrdersInStep

(***************************************************************************)
(* A task in work is pending, and in the hands of one worker.              *)
(***************************************************************************)
ClaimsAreExclusive ==
  /\ \A w \in Workers :
       IF worker[w] = "work" THEN claim[w] \in Checkouts /\ task[claim[w]] = "pending"
                             ELSE claim[w] = NoTask
  /\ \A v, w \in Workers : claim[v] = claim[w] /\ claim[v] # NoTask => v = w

WorkerInv == WorkerTypes /\ ClaimsAreExclusive /\ ProcessedOnce

TInv == CheckoutInv /\ WorkerInv

-----------------------------------------------------------------------------
(***************************************************************************)
(* A committed order is a row, not the absence of one.                     *)
(***************************************************************************)
LEMMA OrderIsARow ==
  ASSUME NEW c \in Checkouts
  PROVE  NewOrder(c) # <<>>
<1>1. "user" \in DOMAIN NewOrder(c)
  BY DEF NewOrder
<1>2. "user" \notin DOMAIN <<>>
  OBVIOUS
<1> QED
  BY <1>1, <1>2

(***************************************************************************)
(* A checkout in progress asks for something and pays for it.              *)
(***************************************************************************)
LEMMA TotalIsPositive ==
  ASSUME CheckoutTypes, ValidInputs, NEW c \in Checkouts, Running(c)
  PROVE  /\ input[c].user \in Users /\ input[c].product \in Products
         /\ input[c].quantity \in Nat \ {0} /\ Total(c) \in Nat \ {0}
<1>1. /\ input[c].user \in Users /\ input[c].product \in Products
      /\ input[c].quantity \in Nat \ {0}
  BY DEF CheckoutTypes, ValidInputs, Inputs
<1>2. Price[input[c].product] \in Nat \ {0}
  BY <1>1, CheckoutAssumption
<1>3. \A m, n \in Nat \ {0} : m * n \in Nat \ {0}
  OBVIOUS
<1> QED
  BY <1>1, <1>2, <1>3 DEF Total

(***************************************************************************)
(* Nothing has been asked for, bought or claimed yet.                      *)
(***************************************************************************)
LEMMA InitInv == WInit => TInv
<1> SUFFICES ASSUME WInit PROVE TInv
  OBVIOUS
<1>1. CheckoutTypes
  BY CheckoutAssumption DEF WInit, Init, CheckoutTypes, Inputs, NoInput
<1>2. WorkerTypes
  BY DEF WInit, WorkerTypes
<1>3. ValidInputs /\ RowsHaveOneWriter /\ FoundStillHolds /\ OrdersInStep
  BY DEF WInit, Init, ValidInputs, RowsHaveOneWriter, FoundStillHolds, OrdersInStep,
         Running, HasProduct, HasUser
<1>4. ClaimsAreExclusive /\ ProcessedOnce
  BY DEF WInit, Init, ClaimsAreExclusive, ProcessedOnce
<1> QED
  BY <1>1, <1>2, <1>3, <1>4 DEF TInv, CheckoutInv, WorkerInv

-----------------------------------------------------------------------------
(***************************************************************************)
(* A step that writes no row of another checkout.                          *)
(***************************************************************************)
LEMMA SubmitInv ==
  ASSUME CheckoutInv, NEW c \in Checkouts, NEW r \in Requests[c], Submit(c, r)
  PROVE  CheckoutInv'
<1>1. /\ pc[c] = "idle" /\ UNCHANGED <<stock, balance, order, task, published>>
  BY DEF Submit, tableVars
<1>2. r.user \in Users /\ r.product \in Products /\ r.quantity \in Int /\ r \in Inputs
  BY CheckoutAssumption DEF Inputs
<1>3. \/ /\ r.quantity > 0 /\ pc' = [pc EXCEPT ![c] = "stock"]
         /\ input' = [input EXCEPT ![c] = r]
      \/ pc' = [pc EXCEPT ![c] = "failed"] /\ UNCHANGED input
  BY DEF Submit, Goto
<1>4. CheckoutTypes'
  BY <1>1, <1>2, <1>3 DEF CheckoutInv, CheckoutTypes
<1>5. /\ \A d \in Checkouts : d # c => pc'[d] = pc[d] /\ input'[d] = input[d]
      /\ \/ pc'[c] = "stock" /\ input'[c] = r /\ r.quantity > 0
         \/ pc'[c] = "failed" /\ input'[c] = input[c]
  BY <1>3 DEF CheckoutInv, CheckoutTypes
<1>6. ValidInputs'
  BY <1>2, <1>5 DEF CheckoutInv, ValidInputs, Running
<1>7. RowsHaveOneWriter'
  BY <1>5 DEF CheckoutInv, RowsHaveOneWriter, HasProduct, HasUser
<1>8. FoundStillHolds'
  BY <1>1, <1>5 DEF CheckoutInv, FoundStillHolds, HasProduct, HasUser, Total
<1>9. OrdersInStep'
  BY <1>1, <1>5 DEF CheckoutInv, OrdersInStep
<1> QED
  BY <1>4, <1>6, <1>7, <1>8, <1>9 DEF CheckoutInv

(***************************************************************************)
(* A step of c that leaves all tables alone.                               *)
(***************************************************************************)
LEMMA GoesOn ==
  ASSUME CheckoutInv, NEW c \in Checkouts, Running(c),
         NEW label \in {"balance", "commit", "ok", "failed"}, Goto(c, label),
         UNCHANGED <<input, tableVars>>,
         published' \in {published, published \cup {c}},
         label = "balance" => /\ pc[c] = "stock" /\ ProductRowFree(c)
                              /\ stock[input[c].product] >= input[c].quantity,
         label = "commit" => /\ pc[c] = "balance" /\ UserRowFree(c)
                             /\ balance[input[c].user] >= Total(c),
         label = "ok" => pc[c] = "publish" /\ published' = published \cup {c},
         published' # published => pc[c] = "publish"
  PROVE  CheckoutInv'
<1>1. UNCHANGED <<stock, balance, order, task, input>>
  BY DEF tableVars
<1>2. CheckoutTypes'
  BY <1>1 DEF CheckoutInv, CheckoutTypes, Goto
<1>3. pc'[c] = label /\ \A d \in Checkouts : d # c => pc'[d] = pc[d]
  BY DEF CheckoutInv, CheckoutTypes, Goto
<1>4. ValidInputs'
  BY <1>1, <1>3 DEF CheckoutInv, ValidInputs, Running
<1>5. RowsHaveOneWriter'
  BY <1>1, <1>3 DEF CheckoutInv, RowsHaveOneWriter, HasProduct, HasUser, ProductRowFree, UserRowFree
<1>6. FoundStillHolds'
  <2> SUFFICES ASSUME NEW d \in Checkouts
               PROVE  /\ HasProduct(d)' => input[d].quantity <= stock[input[d].product]
                      /\ HasUser(d)' => Total(d) <= balance[input[d].user]
    BY <1>1 DEF FoundStillHolds, Total
  <2>1. CASE d # c
    BY <1>3, <2>1 DEF CheckoutInv, FoundStillHolds, HasProduct, HasUser
  <2>2. CASE d = c
    <3>1. /\ input[c].quantity \in Nat /\ stock[input[c].product] \in Nat
          /\ Total(c) \in Nat /\ balance[input[c].user] \in Nat
      BY TotalIsPositive DEF CheckoutInv, CheckoutTypes
    <3> QED
      BY <1>3, <2>2, <3>1 DEF CheckoutInv, FoundStillHolds, HasProduct, HasUser
  <2> QED
    BY <2>1, <2>2
<1>7. OrdersInStep'
  BY <1>1, <1>3 DEF CheckoutInv, OrdersInStep, Running
<1> QED
  BY <1>2, <1>4, <1>5, <1>6, <1>7 DEF CheckoutInv

(***************************************************************************)
(* The commit takes what the rows it holds have, and leaves the rows that  *)
(* others hold alone.                                                      *)
(***************************************************************************)
LEMMA CommitInv ==
  ASSUME CheckoutInv, NEW c \in Checkouts, pc[c] = "commit", ApplyWrites(c),
         NEW label \in {"publish", "failed"}, Goto(c, label), UNCHANGED <<input, published>>
  PROVE  CheckoutInv'
<1> DEFINE p == input[c].product
           u == input[c].user
           q == input[c].quantity
           t == Total(c)
<1>1. u \in Users /\ p \in Products /\ q \in Nat \ {0} /\ t \in Nat \ {0}
  BY TotalIsPositive DEF CheckoutInv, Running
<1>2. q <= stock[p] /\ t <= balance[u]
  BY DEF CheckoutInv, FoundStillHolds, HasProduct, HasUser
<1>3. /\ stock' = [stock EXCEPT ![p] = @ - q] /\ balance' = [balance EXCEPT ![u] = @ - t]
      /\ order' = [order EXCEPT ![c] = NewOrder(c)] /\ task' = [task EXCEPT ![c] = "pending"]
      /\ pc' = [pc EXCEPT ![c] = label] /\ UNCHANGED <<input, published>>
  BY DEF ApplyWrites, Goto
<1> HIDE DEF p, u, q, t
<1>4. CheckoutTypes'
  <2>1. stock' \in [Products -> Nat] /\ balance' \in [Users -> Nat]
    BY <1>1, <1>2, <1>3 DEF CheckoutInv, CheckoutTypes
  <2> QED
    BY <1>3, <2>1 DEF CheckoutInv, CheckoutTypes
<1>5. /\ pc'[c] = label /\ order'[c] # <<>> /\ task'[c] = "pending"
      /\ \A d \in Checkouts : d # c => /\ pc'[d] = pc[d] /\ order'[d] = order[d]
                                       /\ task'[d] = task[d]
  BY <1>3, OrderIsARow DEF CheckoutInv, CheckoutTypes
<1>6. ValidInputs'
  BY <1>3, <1>5 DEF CheckoutInv, ValidInputs, Running
<1>7. RowsHaveOneWriter'
  BY <1>3, <1>5 DEF CheckoutInv, RowsHaveOneWriter, HasProduct, HasUser
<1>8. FoundStillHolds'
  <2> SUFFICES ASSUME NEW d \in Checkouts
               PROVE  /\ HasProduct(d)' => input[d].quantity <= stock'[input[d].product]
                      /\ HasUser(d)' => Total(d) <= balance'[input[d].user]
    BY <1>3 DEF FoundStillHolds, Total
  <2>1. CASE d = c
    BY <1>5, <2>1 DEF HasProduct, HasUser
  <2>2. ASSUME d # c, HasProduct(d)' PROVE input[d].quantity <= stock'[input[d].product]
    <3>1. HasProduct(d) /\ input[d].product # p
      BY <1>5, <2>2 DEF CheckoutInv, RowsHaveOneWriter, HasProduct, p
    <3>2. input[d].product \in Products
      BY <3>1 DEF CheckoutInv, ValidInputs, HasProduct, Running
    <3>3. stock'[input[d].product] = stock[input[d].product]
      BY <1>3, <3>1, <3>2 DEF CheckoutInv, CheckoutTypes
    <3> QED
      BY <3>1, <3>3 DEF CheckoutInv, FoundStillHolds
  <2>3. ASSUME d # c, HasUser(d)' PROVE Total(d) <= balance'[input[d].user]
    <3>1. HasUser(d) /\ input[d].user # u
      BY <1>5, <2>3 DEF CheckoutInv, RowsHaveOneWriter, HasUser, u
    <3>2. input[d].user \in Users
      BY <3>1 DEF CheckoutInv, ValidInputs, HasUser, Running
    <3>3. balance'[input[d].user] = balance[input[d].user]
      BY <1>3, <3>1, <3>2 DEF CheckoutInv, CheckoutTypes
    <3> QED
      BY <3>1, <3>3 DEF CheckoutInv, FoundStillHolds
  <2> QED
    BY <2>1, <2>2, <2>3
<1>9. OrdersInStep'
  BY <1>3, <1>5 DEF CheckoutInv, OrdersInStep
<1> QED
  BY <1>4, <1>6, <1>7, <1>8, <1>9 DEF CheckoutInv

(***************************************************************************)
(* The steps of one checkout, and what each does to the tables.            *)
(***************************************************************************)
LEMMA CheckoutStepInv ==
  ASSUME CheckoutInv, NEW c \in Checkouts, CheckoutStep(c) \/ CheckoutFault(c)
  PROVE  CheckoutInv'
<1>1. CASE TakeStock(c)
  <2>1. stock[input[c].product] \in Nat /\ input[c].quantity \in Nat
    BY <1>1, TotalIsPositive DEF TakeStock, Running, CheckoutInv, CheckoutTypes
  <2>2. CASE stock[input[c].product] >= input[c].quantity
    BY <1>1, <2>2, GoesOn DEF TakeStock, Running
  <2>3. CASE ~(stock[input[c].product] >= input[c].quantity)
    BY <1>1, <2>3, GoesOn DEF TakeStock, Running
  <2> QED
    BY <2>2, <2>3
<1>2. CASE TakeMoney(c)
  <2>1. CASE balance[input[c].user] >= Total(c)
    BY <1>2, <2>1, GoesOn DEF TakeMoney, Running
  <2>2. CASE ~(balance[input[c].user] >= Total(c))
    BY <1>2, <2>2, GoesOn DEF TakeMoney, Running
  <2> QED
    BY <2>1, <2>2
<1>3. CASE Commit(c)
  BY <1>3, CommitInv DEF Commit
<1>4. CASE Publish(c)
  <2>1. UNCHANGED <<input, tableVars>>
    BY <1>4 DEF Publish
  <2> QED
    BY <1>4, <2>1, GoesOn DEF Publish, Running
<1>5. CASE Fail(c)
  <2>1. pc[c] # "publish" => published' = published
    BY <1>5 DEF Fail
  <2>2. published' \in {published, published \cup {c}}
    BY <1>5 DEF Fail
  <2> QED
    BY <1>5, <2>1, <2>2, GoesOn DEF Fail, Running
<1>6. CASE CommitUnacknowledged(c)
  BY <1>6, CommitInv DEF CommitUnacknowledged
<1> QED
  BY <1>1, <1>2, <1>3, <1>4, <1>5, <1>6 DEF CheckoutStep, CheckoutFault

-----------------------------------------------------------------------------
(***************************************************************************)
(* Checkouts add tasks and never touch one that is there.                  *)
(***************************************************************************)
LEMMA CheckoutsLeaveTasks ==
  ASSUME CheckoutInv, CheckoutNext
  PROVE  \A c \in Checkouts :
           task'[c] = task[c] \/ (task[c] = "none" /\ task'[c] = "pending")
<1>1. PICK c \in Checkouts : UNCHANGED task \/ (pc[c] = "commit" /\ ApplyWrites(c))
  BY DEF CheckoutNext, CheckoutStep, CheckoutFault, Submit, TakeStock, TakeMoney, Commit, Publish,
         Fail, CommitUnacknowledged, tableVars
<1>2. pc[c] = "commit" => task[c] = "none"
  BY DEF CheckoutInv, OrdersInStep
<1> QED
  BY <1>1, <1>2 DEF ApplyWrites, CheckoutInv, CheckoutTypes

(***************************************************************************)
(* What checkouts do while workers do nothing.                               *)
(***************************************************************************)
LEMMA CheckoutNextInv ==
  ASSUME TInv, CheckoutNext, UNCHANGED workerVars
  PROVE  TInv'
<1>1. CheckoutInv'
  BY SubmitInv, CheckoutStepInv DEF CheckoutNext, TInv
<1>2. WorkerTypes'
  BY DEF TInv, WorkerInv, WorkerTypes, workerVars
<1>3. \A c \in Checkouts : task'[c] = task[c] \/ (task[c] = "none" /\ task'[c] = "pending")
  BY CheckoutsLeaveTasks DEF TInv
<1>4. ClaimsAreExclusive'
  BY <1>3 DEF TInv, WorkerInv, ClaimsAreExclusive, workerVars
<1>5. ProcessedOnce'
  BY <1>3 DEF TInv, WorkerInv, ProcessedOnce, workerVars
<1> QED
  BY <1>1, <1>2, <1>4, <1>5 DEF TInv, WorkerInv

(***************************************************************************)
(* Workers change nothing of a checkout but whether its task is done.      *)
(***************************************************************************)
LEMMA WorkersLeaveCheckouts ==
  ASSUME CheckoutInv, UNCHANGED <<pc, input, stock, balance, order, published>>,
         task' \in [Checkouts -> {"none", "pending", "done"}],
         \A c \in Checkouts : task'[c] = "none" <=> task[c] = "none"
  PROVE  CheckoutInv'
<1>1. CheckoutTypes' /\ ValidInputs' /\ RowsHaveOneWriter'
  BY DEF CheckoutInv, CheckoutTypes, ValidInputs, Running, RowsHaveOneWriter, HasProduct, HasUser
<1>2. FoundStillHolds'
  BY DEF CheckoutInv, FoundStillHolds, HasProduct, HasUser, Total
<1>3. OrdersInStep'
  BY DEF CheckoutInv, OrdersInStep
<1> QED
  BY <1>1, <1>2, <1>3 DEF CheckoutInv

(***************************************************************************)
(* A worker claims a task that no other has in hand, or none.                *)
(***************************************************************************)
LEMMA ClaimTaskInv ==
  ASSUME TInv, NEW w \in Workers, ClaimTask(w)
  PROVE  TInv'
<1>1. /\ worker[w] = "claim" /\ claim[w] = NoTask /\ UNCHANGED <<checkoutVars, processed>>
      /\ task \in [Checkouts -> {"none", "pending", "done"}]
  BY DEF ClaimTask, TInv, WorkerInv, ClaimsAreExclusive, CheckoutInv, CheckoutTypes
<1>2. CheckoutInv'
  BY <1>1, WorkersLeaveCheckouts DEF TInv, checkoutVars, tableVars
<1>3. ProcessedOnce' /\ task' = task
  BY <1>1 DEF TInv, WorkerInv, ProcessedOnce, checkoutVars, tableVars
<1>4. CASE Claimable = {}
  <2>1. worker' = [worker EXCEPT ![w] = "look"] /\ UNCHANGED claim
    BY <1>4 DEF ClaimTask, At
  <2>2. WorkerTypes'
    BY <1>1, <2>1 DEF TInv, WorkerInv, WorkerTypes
  <2>3. ClaimsAreExclusive'
    BY <1>1, <1>3, <2>1 DEF TInv, WorkerInv, WorkerTypes, ClaimsAreExclusive
  <2> QED
    BY <1>2, <1>3, <2>2, <2>3 DEF TInv, WorkerInv
<1>5. CASE Claimable # {}
  <2>1. PICK c \in Claimable : claim' = [claim EXCEPT ![w] = c]
    BY <1>5 DEF ClaimTask
  <2>2. worker' = [worker EXCEPT ![w] = "work"]
    BY <1>5 DEF ClaimTask, At
  <2>3. c \in Checkouts /\ task[c] = "pending" /\ \A v \in Workers : claim[v] # c
    BY DEF Claimable, Pending
  <2>4. WorkerTypes'
    BY <1>1, <2>1, <2>2, <2>3 DEF TInv, WorkerInv, WorkerTypes
  <2>5. ClaimsAreExclusive'
    BY <1>3, <2>1, <2>2, <2>3 DEF TInv, WorkerInv, WorkerTypes, ClaimsAreExclusive
  <2> QED
    BY <1>2, <1>3, <2>4, <2>5 DEF TInv, WorkerInv
<1> QED
  BY <1>4, <1>5

(***************************************************************************)
(* The task a worker has in hand is pending, and is done after its commit.   *)
(***************************************************************************)
LEMMA FinishTaskInv ==
  ASSUME TInv, NEW w \in Workers, FinishTask(w)
  PROVE  TInv'
<1> DEFINE c == claim[w]
<1>1. /\ worker[w] = "work" /\ task' = [task EXCEPT ![c] = "done"]
      /\ processed' = [processed EXCEPT ![c] = @ + 1] /\ claim' = [claim EXCEPT ![w] = NoTask]
      /\ worker' = [worker EXCEPT ![w] = "claim"]
      /\ UNCHANGED <<pc, input, stock, balance, order, published>>
  BY DEF FinishTask, At
<1>2. c \in Checkouts /\ task[c] = "pending" /\ c # NoTask
  BY <1>1, WorkersAssumption DEF TInv, WorkerInv, ClaimsAreExclusive
<1>3. processed[c] = 0
  BY <1>2 DEF TInv, WorkerInv, ProcessedOnce
<1> HIDE DEF c
<1>4. /\ task' \in [Checkouts -> {"none", "pending", "done"}] /\ task'[c] = "done"
      /\ \A d \in Checkouts : d # c => task'[d] = task[d]
  BY <1>1, <1>2 DEF TInv, CheckoutInv, CheckoutTypes
<1>5. CheckoutInv'
  BY <1>1, <1>2, <1>4, WorkersLeaveCheckouts DEF TInv
<1>6. WorkerTypes'
  BY <1>1, <1>2, <1>3 DEF TInv, WorkerInv, WorkerTypes
<1>7. /\ claim'[w] = NoTask /\ worker'[w] = "claim"
      /\ \A v \in Workers : v # w => claim'[v] = claim[v] /\ worker'[v] = worker[v] /\ claim[v] # c
  BY <1>1, <1>2 DEF TInv, WorkerInv, WorkerTypes, ClaimsAreExclusive, c
<1>8. ClaimsAreExclusive'
  BY <1>4, <1>7 DEF TInv, WorkerInv, ClaimsAreExclusive
<1>9. ProcessedOnce'
  BY <1>1, <1>2, <1>3, <1>4 DEF TInv, WorkerInv, WorkerTypes, ProcessedOnce
<1> QED
  BY <1>5, <1>6, <1>8, <1>9 DEF TInv, WorkerInv

(***************************************************************************)
(* A worker that looks again, or that fails and leaves its task pending.   *)
(***************************************************************************)
LEMMA OtherWorkerStepsInv ==
  ASSUME TInv, NEW w \in Workers, LookAgain(w) \/ WorkerFails(w)
  PROVE  TInv'
<1>1. /\ UNCHANGED <<pc, input, stock, balance, order, task, published, processed>>
      /\ task \in [Checkouts -> {"none", "pending", "done"}]
  BY DEF LookAgain, WorkerFails, checkoutVars, tableVars, TInv, CheckoutInv, CheckoutTypes
<1>2. CheckoutInv' /\ ProcessedOnce'
  BY <1>1, WorkersLeaveCheckouts DEF TInv, WorkerInv, ProcessedOnce
<1>3. PICK label \in {"claim", "stopped", "failed"} :
        /\ worker' = [worker EXCEPT ![w] = label]
        /\ claim' = [claim EXCEPT ![w] = NoTask]
  BY DEF LookAgain, WorkerFails, At, TInv, WorkerInv, WorkerTypes, ClaimsAreExclusive
<1>4. WorkerTypes'
  BY <1>1, <1>3 DEF TInv, WorkerInv, WorkerTypes
<1>5. ClaimsAreExclusive'
  BY <1>1, <1>3 DEF TInv, WorkerInv, WorkerTypes, ClaimsAreExclusive
<1> QED
  BY <1>2, <1>4, <1>5 DEF TInv, WorkerInv

(***************************************************************************)
(* Every step keeps the invariant.                                           *)
(***************************************************************************)
LEMMA NextInv == TInv /\ [Next]_vars => TInv'
<1> SUFFICES ASSUME TInv, [Next]_vars PROVE TInv'
  OBVIOUS
<1>1. CASE UNCHANGED vars
  <2>1. UNCHANGED <<pc, input, stock, balance, order, task, published, worker, claim, processed>>
    BY <1>1 DEF vars, checkoutVars, tableVars, workerVars
  <2>2. CheckoutInv'
    BY <2>1, WorkersLeaveCheckouts DEF TInv, CheckoutInv, CheckoutTypes
  <2>3. WorkerInv'
    BY <2>1 DEF TInv, WorkerInv, WorkerTypes, ClaimsAreExclusive, ProcessedOnce
  <2> QED
    BY <2>2, <2>3 DEF TInv
<1> QED
  BY <1>1, CheckoutNextInv, ClaimTaskInv, FinishTaskInv, OtherWorkerStepsInv DEF Next, WorkerStep

-----------------------------------------------------------------------------
(***************************************************************************)
(* Checkouts and workers keep the invariant.                               *)
(***************************************************************************)
THEOREM CheckoutInvariant == Spec => []TInv
BY InitInv, NextInv, PTL DEF Spec

(***************************************************************************)
(* checkout returns only what is complete.                                 *)
(***************************************************************************)
THEOREM ReturnedCheckoutIsComplete == Spec => []ReturnedIsComplete
<1>1. TInv => ReturnedIsComplete
  BY DEF TInv, CheckoutInv, CheckoutTypes, OrdersInStep, ReturnedIsComplete, Ordered
<1> QED
  BY <1>1, CheckoutInvariant, PTL

(***************************************************************************)
(* FOR UPDATE SKIP LOCKED hands a task to one worker at a time, and a task *)
(* that is done is pending no more: it is processed once.                  *)
(***************************************************************************)
THEOREM TaskProcessedOnce == Spec => []ProcessedOnce
<1>1. TInv => ProcessedOnce
  BY DEF TInv, WorkerInv
<1> QED
  BY <1>1, CheckoutInvariant, PTL

(***************************************************************************)
(* What a commit takes is there, and it takes all of it or nothing.        *)
(***************************************************************************)
LEMMA CommitIsAPurchase ==
  ASSUME CheckoutInv, NEW c \in Checkouts, pc[c] = "commit", ApplyWrites(c)
  PROVE  Purchase!Next
<1> DEFINE p == input[c].product
           u == input[c].user
           q == input[c].quantity
           t == Total(c)
<1>1. u \in Users /\ p \in Products /\ q \in Nat \ {0} /\ t \in Nat \ {0}
  BY TotalIsPositive DEF CheckoutInv, Running
<1>2. q <= stock[p] /\ t <= balance[u] /\ order[c] = <<>>
  BY DEF CheckoutInv, FoundStillHolds, OrdersInStep, HasProduct, HasUser
<1>3. /\ stock' = [stock EXCEPT ![p] = @ - q] /\ balance' = [balance EXCEPT ![u] = @ - t]
      /\ order' = [order EXCEPT ![c] = [user |-> u, product |-> p, quantity |-> q, total |-> t]]
  BY DEF ApplyWrites, NewOrder
<1> HIDE DEF p, u, q, t
<1>4. /\ stock[p] \in Nat /\ balance[u] \in Nat
      /\ stock[p] - stock'[p] = q /\ balance[u] - balance'[u] = t
  BY <1>1, <1>3 DEF CheckoutInv, CheckoutTypes
<1>5. q \in 1..stock[p] /\ t \in 1..balance[u]
  BY <1>1, <1>2, <1>4
<1>6. Purchase!Buy(c, u, p)
  BY <1>2, <1>3, <1>4, <1>5 DEF Purchase!Buy
<1> QED
  BY <1>1, <1>6 DEF Purchase!Next

(***************************************************************************)
(* Every other step leaves stock, balances and orders as they are.         *)
(***************************************************************************)
THEOREM CheckoutIsAtomicPurchase == Spec => ImplementsAtomicPurchase
<1>1. TInv /\ [Next]_vars => [Purchase!Next]_(Purchase!vars)
  <2> SUFFICES ASSUME TInv, [Next]_vars PROVE Purchase!Next \/ UNCHANGED <<stock, balance, order>>
    BY DEF Purchase!vars
  <2>1. CASE UNCHANGED vars
    BY <2>1 DEF vars, checkoutVars, tableVars
  <2>2. CASE CheckoutNext
    <3>1. PICK c \in Checkouts :
            UNCHANGED <<stock, balance, order>> \/ (pc[c] = "commit" /\ ApplyWrites(c))
      BY <2>2 DEF CheckoutNext, CheckoutStep, CheckoutFault, Submit, TakeStock, TakeMoney, Commit,
                  Publish, Fail, CommitUnacknowledged, tableVars
    <3> QED
      BY <3>1, CommitIsAPurchase DEF TInv
  <2>3. CASE \E w \in Workers : WorkerStep(w) \/ WorkerFails(w)
    BY <2>3 DEF WorkerStep, WorkerFails, ClaimTask, FinishTask, LookAgain, checkoutVars, tableVars
  <2> QED
    BY <2>1, <2>2, <2>3 DEF Next
<1> QED
  BY <1>1, CheckoutInvariant, PTL DEF Spec, ImplementsAtomicPurchase

=============================================================================
