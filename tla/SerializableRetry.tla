------------------------- MODULE SerializableRetry -------------------------
(***************************************************************************)
(* demo-retry.ts: calls of incrementBalance read the balance of one user   *)
(* and write it back in SERIALIZABLE transactions, and run again when the  *)
(* database says 40001 or 40P01, up to MAX_RETRIES times.                  *)
(***************************************************************************)
EXTENDS Integers, FiniteSets

CONSTANTS
  Calls,           \* of incrementBalance
  InitialBalance,  \* INITIAL_BALANCE
  Increment,       \* INCREMENT
  MaxRetries,      \* MAX_RETRIES
  NoCall

ASSUME RetryAssumption ==
  /\ IsFiniteSet(Calls) /\ NoCall \notin Calls
  /\ InitialBalance \in Int /\ Increment \in Int /\ MaxRetries \in Nat

VARIABLES
  balance,   \* users.balance, as committed
  writer,    \* the call whose transaction has written the row
  at,        \* at[c]: the await of c
  attempt,   \* attempt[c]: retryable errors c has caught
  snapshot,  \* snapshot[c]: what the transaction of c has read, and the commits it sees
  counted    \* history: calls whose transaction has committed

retryVars == <<balance, writer, at, attempt, snapshot, counted>>

NotRead == [commits |-> 0, balance |-> 0]

Commits == Cardinality(counted)

(***************************************************************************)
(* resetState, before the calls.                                           *)
(***************************************************************************)
RetryInit ==
  /\ balance = InitialBalance
  /\ writer = NoCall
  /\ at = [c \in Calls |-> "start"]
  /\ attempt = [c \in Calls |-> 0]
  /\ snapshot = [c \in Calls |-> NotRead]
  /\ counted = {}

-----------------------------------------------------------------------------
(***************************************************************************)
(* startTransaction and the SELECT, which takes the snapshot.              *)
(***************************************************************************)
Read(c) ==
  /\ at[c] = "start"
  /\ at' = [at EXCEPT ![c] = "update"]
  /\ snapshot' = [snapshot EXCEPT ![c] = [commits |-> Commits, balance |-> balance]]
  /\ UNCHANGED <<balance, writer, attempt, counted>>

Outdated(c) == snapshot[c].commits # Commits

\* Mutation of Update: READ COMMITTED, the default, has no such conflict.
UpdateUnchecked(c) ==
  /\ at[c] = "update"
  /\ writer = NoCall
  /\ writer' = c
  /\ at' = [at EXCEPT ![c] = "commit"]
  /\ UNCHANGED <<balance, attempt, snapshot, counted>>

(***************************************************************************)
(* The UPDATE waits for a transaction that has written the row; the first  *)
(* to write it wins. (A transaction that has written the row has read no   *)
(* other, so its commit meets no conflict.)                                *)
(***************************************************************************)
Update(c) ==
  /\ at[c] = "update"
  /\ writer = NoCall /\ ~Outdated(c)
  /\ writer' = c
  /\ at' = [at EXCEPT ![c] = "commit"]
  /\ UNCHANGED <<balance, attempt, snapshot, counted>>

\* Mutation of Again: the statement is repeated, not the transaction.
AgainInTransaction == "update"

\* Mutation of Again: one retry only.
GiveUp == "exhausted"

Again == "start"

(***************************************************************************)
(* 40001: rollback, and again after a while, or the error goes on.         *)
(***************************************************************************)
Conflict(c) ==
  /\ at[c] = "update"
  /\ writer = NoCall /\ Outdated(c)
  /\ attempt' = [attempt EXCEPT ![c] = @ + 1]
  /\ at' = [at EXCEPT ![c] = IF attempt[c] + 1 > MaxRetries THEN "exhausted" ELSE Again]
  /\ UNCHANGED <<balance, writer, snapshot, counted>>

Write(c) ==
  /\ at[c] = "commit"
  /\ balance' = snapshot[c].balance + Increment
  /\ writer' = NoCall
  /\ counted' = counted \cup {c}
  /\ UNCHANGED <<attempt, snapshot>>

Commit(c) == Write(c) /\ at' = [at EXCEPT ![c] = "done"]

(***************************************************************************)
(* The connection is lost: no error that is retried. The transaction is    *)
(* rolled back, or has just been committed.                                *)
(***************************************************************************)
LoseConnection(c) ==
  /\ at' = [at EXCEPT ![c] = "failed"]
  /\ \/ Write(c)
     \/ /\ at[c] \in {"start", "update", "commit"}
        /\ writer' = IF writer = c THEN NoCall ELSE writer
        /\ UNCHANGED <<balance, attempt, snapshot, counted>>

CallStep(c) == Read(c) \/ Update(c) \/ Conflict(c) \/ Commit(c)

RetryNext == \E c \in Calls : CallStep(c) \/ LoseConnection(c)

(***************************************************************************)
(* The database answers, the process lives, and every sleep ends.          *)
(***************************************************************************)
RetrySpec == RetryInit /\ [][RetryNext]_retryVars /\ \A c \in Calls : WF_retryVars(CallStep(c))

-----------------------------------------------------------------------------
(***************************************************************************)
(* The balance has every committed increment exactly once, those whose     *)
(* answer was lost included, and that of every call that returned.         *)
(***************************************************************************)
EveryIncrementCounted ==
  /\ balance = InitialBalance + Increment * Commits
  /\ \A c \in Calls : at[c] = "done" => c \in counted

(***************************************************************************)
(* Every conflict of a call is paid by the commit of another: with no more *)
(* than MaxRetries others nobody runs out of retries.                      *)
(***************************************************************************)
NobodyExhausted ==
  Cardinality(Calls) <= MaxRetries + 1 => \A c \in Calls : at[c] # "exhausted"

(***************************************************************************)
(* Every call that has begun returns, or fails because it lost its         *)
(* connection.                                                             *)
(***************************************************************************)
EveryCallEnds == \A c \in Calls : at[c] = "update" ~> at[c] \in {"done", "failed"}

=============================================================================
