----------------------------- MODULE MCAttempts -----------------------------
(***************************************************************************)
(* The two callers that try a limited number of times: a read of the cache *)
(* that waits for the stampede lock, and incrementBalance, which retries.  *)
(* They share nothing, and a behaviour has one of them.                    *)
(***************************************************************************)
EXTENDS ProductCache, SerializableRetry

(***************************************************************************)
(* Reads are interchangeable: each begins after the one before it.         *)
(***************************************************************************)
InTurn == \A r \in Reads \ {1} : pc[r] # "idle" => pc[r - 1] # "idle"

(***************************************************************************)
(* A behaviour of the one has not begun the other.                         *)
(***************************************************************************)
NoCalls == \A c \in Calls : at[c] = "start" /\ attempt[c] = 0

NoReads == product = 0 /\ \A r \in Reads : pc[r] = "idle"

OfTheCache(A) == A /\ InTurn' /\ UNCHANGED retryVars /\ NoCalls

OfTheCalls(A) == A /\ UNCHANGED vars /\ NoReads

MCInit == Init /\ RetryInit

MCSpec ==
  /\ MCInit
  /\ [][OfTheCache(Next) \/ OfTheCalls(RetryNext)]_<<vars, retryVars>>
  /\ Fairness
  /\ \A c \in Calls : WF_retryVars(OfTheCalls(CallStep(c)))

=============================================================================
