---------------------------- MODULE TaskWorkers ----------------------------
(***************************************************************************)
(* The workers of demo-workers.ts next to the checkouts that create their  *)
(* tasks. A worker claims the oldest pending task nobody has locked, works *)
(* on it in the transaction that marks it done, and stops when it finds    *)
(* nothing to claim and then nothing pending. resetTasks runs before the   *)
(* workers start and is not modelled.                                      *)
(***************************************************************************)
EXTENDS Checkout

CONSTANTS Workers, NoTask

ASSUME WorkersAssumption == IsFiniteSet(Workers) /\ NoTask \notin Checkouts

VARIABLES
  worker,     \* worker[w]: the await of w
  claim,      \* claim[w]: the task whose row w has locked
  processed   \* processed[c]: post_processing_tasks.processed

workerVars == <<worker, claim, processed>>
vars == <<checkoutVars, workerVars>>

WInit ==
  /\ Init
  /\ worker = [w \in Workers |-> "claim"]
  /\ claim = [w \in Workers |-> NoTask]
  /\ processed = [c \in Checkouts |-> 0]

At(w, label) == worker' = [worker EXCEPT ![w] = label]

Pending == {c \in Checkouts : task[c] = "pending"}

\* Mutation of Claimable: the SELECT reads rows without locking them.
ClaimableLocked == Pending

Claimable == {c \in Pending : \A w \in Workers : claim[w] # c}

(***************************************************************************)
(* The ids of the tasks follow the commits in any order, so the task that  *)
(* is the oldest may be any.                                               *)
(***************************************************************************)
ClaimTask(w) ==
  /\ worker[w] = "claim"
  /\ IF Claimable = {}
       THEN At(w, "look") /\ UNCHANGED claim
       ELSE At(w, "work") /\ \E c \in Claimable : claim' = [claim EXCEPT ![w] = c]
  /\ UNCHANGED <<checkoutVars, processed>>

FinishTask(w) ==
  LET c == claim[w] IN
  /\ worker[w] = "work"
  /\ task' = [task EXCEPT ![c] = "done"]
  /\ processed' = [processed EXCEPT ![c] = @ + 1]
  /\ claim' = [claim EXCEPT ![w] = NoTask]
  /\ At(w, "claim")
  /\ UNCHANGED <<pc, input, stock, balance, order, published, faults>>

\* Mutation of LookAgain: no task to claim is taken for no task at all.
StopAtOnce(w) ==
  /\ worker[w] = "look"
  /\ At(w, "stopped")
  /\ UNCHANGED <<checkoutVars, claim, processed>>

(***************************************************************************)
(* hasPendingTasks sees the tasks that others are at work on, too.         *)
(***************************************************************************)
LookAgain(w) ==
  /\ worker[w] = "look"
  /\ At(w, IF Pending = {} THEN "stopped" ELSE "claim")
  /\ UNCHANGED <<checkoutVars, claim, processed>>

(***************************************************************************)
(* An error ends the worker, and its transaction with it.                  *)
(***************************************************************************)
WorkerFails(w) ==
  /\ faults < MaxFaults
  /\ faults' = faults + 1
  /\ worker[w] \in {"claim", "look", "work"}
  /\ At(w, "failed")
  /\ claim' = [claim EXCEPT ![w] = NoTask]
  /\ UNCHANGED <<pc, input, tableVars, published, processed>>

WorkerStep(w) == ClaimTask(w) \/ FinishTask(w) \/ LookAgain(w)

Next ==
  \/ CheckoutNext /\ UNCHANGED workerVars
  \/ \E w \in Workers : WorkerStep(w) \/ WorkerFails(w)

Fairness ==
  /\ \A c \in Checkouts : WF_vars(CheckoutStep(c) /\ UNCHANGED workerVars)
  /\ \A w \in Workers : WF_vars(WorkerStep(w))

Spec == WInit /\ [][Next]_vars /\ Fairness

-----------------------------------------------------------------------------
(***************************************************************************)
(* A task is processed once however many workers there are, and is done    *)
(* exactly when it has been.                                               *)
(***************************************************************************)
ProcessedOnce ==
  \A c \in Checkouts : processed[c] = IF task[c] = "done" THEN 1 ELSE 0

(***************************************************************************)
(* Every checkout ends. A task is done in the end if any worker that is    *)
(* running while it is pending does not fail: no worker stops because the  *)
(* task is in the hands of another, which may fail and leave it.           *)
(***************************************************************************)
EverythingEnds ==
  /\ \A c \in Checkouts : pc[c] = "stock" ~> pc[c] \in {"ok", "failed"}
  /\ \A c \in Checkouts, w \in Workers :
       (task[c] = "pending" /\ worker[w] \notin {"stopped", "failed"})
         ~> (task[c] = "done" \/ worker[w] = "failed")

=============================================================================
