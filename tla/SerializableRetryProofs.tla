---------------------- MODULE SerializableRetryProofs ----------------------
(***************************************************************************)
(* Proofs about SerializableRetry, for any number of calls and retries.    *)
(***************************************************************************)
EXTENDS SerializableRetry, FiniteSetTheorems, TLAPS

Awaits == {"start", "update", "commit", "done", "failed", "exhausted"}

Types ==
  /\ balance \in Int
  /\ writer \in Calls \cup {NoCall}
  /\ at \in [Calls -> Awaits]
  /\ attempt \in [Calls -> Nat]
  /\ snapshot \in [Calls -> [commits : Nat, balance : Int]]
  /\ counted \subseteq Calls

(***************************************************************************)
(* A call that goes on has not been counted, and one that has been counted *)
(* does not write again.                                                   *)
(***************************************************************************)
CountedOnce ==
  \A c \in Calls : at[c] \in {"start", "update", "commit", "exhausted"} => c \notin counted

(***************************************************************************)
(* Only the writer is about to commit, and nothing has been committed      *)
(* since it read; what is read is the balance after the commits seen.      *)
(***************************************************************************)
SnapshotsTrue ==
  /\ \A c \in Calls : at[c] = "commit" <=> writer = c
  /\ \A c \in Calls : at[c] = "commit" => snapshot[c].commits = Commits
  /\ \A c \in Calls : at[c] \in {"update", "commit"} =>
       /\ snapshot[c].commits <= Commits
       /\ snapshot[c].balance = InitialBalance + Increment * snapshot[c].commits

(***************************************************************************)
(* Commits pay for conflicts: those before the snapshot for the conflicts  *)
(* so far.                                                                 *)
(***************************************************************************)
ConflictsPaid ==
  \A c \in Calls :
    /\ at[c] = "start" => attempt[c] <= Commits
    /\ at[c] = "update" => attempt[c] <= snapshot[c].commits
    /\ at[c] = "exhausted" => MaxRetries + 1 <= Commits

Inv == Types /\ CountedOnce /\ SnapshotsTrue /\ ConflictsPaid /\ EveryIncrementCounted

-----------------------------------------------------------------------------
(***************************************************************************)
(* The number of commits is a number, and the commit of a call that has    *)
(* not been counted adds one.                                              *)
(***************************************************************************)
LEMMA CommitsCount ==
  ASSUME counted \subseteq Calls
  PROVE  /\ Commits \in Nat
         /\ \A c \in Calls \ counted : Cardinality(counted \cup {c}) = Commits + 1
<1>1. IsFiniteSet(counted)
  BY RetryAssumption, FS_Subset
<1> QED
  BY <1>1, FS_CardinalityType, FS_AddElement DEF Commits

(***************************************************************************)
(* Before the first call the balance has no increments.                    *)
(***************************************************************************)
LEMMA InitInv == RetryInit => Inv
<1> SUFFICES ASSUME RetryInit PROVE Inv
  OBVIOUS
<1> USE RetryAssumption DEF RetryInit
<1>1. Commits = 0
  BY FS_EmptySet DEF Commits
<1>2. Types
  BY DEF Types, NotRead, Awaits
<1>3. CountedOnce /\ SnapshotsTrue
  BY DEF CountedOnce, SnapshotsTrue
<1>4. ConflictsPaid
  BY <1>1 DEF ConflictsPaid
<1>5. EveryIncrementCounted
  BY <1>1 DEF EveryIncrementCounted
<1> QED
  BY <1>2, <1>3, <1>4, <1>5 DEF Inv

(***************************************************************************)
(* What the write of a call, whether or not its answer arrives, does to    *)
(* the balance and to the number of commits.                               *)
(***************************************************************************)
LEMMA WriteCounts ==
  ASSUME Inv, NEW c \in Calls, Write(c)
  PROVE  /\ Commits' = Commits + 1
         /\ balance' = InitialBalance + Increment * (Commits + 1)
         /\ counted' \subseteq Calls
<1> USE RetryAssumption DEF Inv, Write
<1>1. c \notin counted
  BY DEF CountedOnce
<1>2. Commits \in Nat /\ Commits' = Commits + 1
  BY <1>1, CommitsCount DEF Types, Commits
<1>3. snapshot[c].balance = InitialBalance + Increment * Commits
  BY DEF SnapshotsTrue
<1>4. balance' = InitialBalance + Increment * Commits + Increment
  BY <1>3
<1>5. Increment * Commits + Increment = Increment * (Commits + 1)
  BY <1>2
<1> QED
  BY <1>2, <1>4, <1>5 DEF Types

(***************************************************************************)
(* A step that commits keeps the invariant, whatever its call is told.     *)
(***************************************************************************)
LEMMA WriteKeepsInv ==
  ASSUME Inv, NEW c \in Calls, Write(c), NEW label \in {"done", "failed"},
         at' = [at EXCEPT ![c] = label]
  PROVE  Inv'
<1> USE RetryAssumption DEF Inv
<1>0. Commits \in Nat
  BY CommitsCount DEF Types
<1>1. Commits' = Commits + 1 /\ balance' = InitialBalance + Increment * (Commits + 1)
  BY WriteCounts
<1>2. Types'
  BY <1>0, <1>1, WriteCounts DEF Types, Awaits, Write
<1>3. \A d \in Calls \ {c} : at[d] # "commit"
  BY DEF SnapshotsTrue, Write, Types
<1>4. CountedOnce'
  BY DEF CountedOnce, Types, Write
<1>5. SnapshotsTrue'
  BY <1>0, <1>1, <1>3 DEF SnapshotsTrue, Types, Write
<1>6. ConflictsPaid'
  BY <1>0, <1>1 DEF ConflictsPaid, Types, Write
<1>7. EveryIncrementCounted'
  BY <1>1 DEF EveryIncrementCounted, Types, Write
<1> QED
  BY <1>2, <1>4, <1>5, <1>6, <1>7

(***************************************************************************)
(* Every step of a call keeps the invariant.                               *)
(***************************************************************************)
LEMMA NextInv == Inv /\ [RetryNext]_retryVars => Inv'
<1> SUFFICES ASSUME Inv, [RetryNext]_retryVars PROVE Inv'
  OBVIOUS
<1> USE RetryAssumption DEF Inv
<1>0. Commits \in Nat
  BY CommitsCount DEF Types
<1>1. ASSUME NEW c \in Calls, Read(c) PROVE Inv'
  <2> USE <1>1 DEF Read
  <2>1. Commits' = Commits
    BY DEF Commits
  <2>2. Types'
    BY <1>0 DEF Types, Awaits
  <2>3. CountedOnce'
    BY DEF CountedOnce, Types
  <2>4. SnapshotsTrue'
    BY <1>0, <2>1 DEF SnapshotsTrue, Types, EveryIncrementCounted
  <2>5. ConflictsPaid' /\ EveryIncrementCounted'
    BY <1>0, <2>1 DEF ConflictsPaid, EveryIncrementCounted, Types
  <2> QED
    BY <2>2, <2>3, <2>4, <2>5
<1>2. ASSUME NEW c \in Calls, Update(c) PROVE Inv'
  <2> USE <1>2 DEF Update
  <2>1. Commits' = Commits
    BY DEF Commits
  <2>2. Types'
    BY DEF Types, Awaits
  <2>3. CountedOnce'
    BY DEF CountedOnce, Types
  <2>4. SnapshotsTrue'
    BY <2>1 DEF SnapshotsTrue, Types, Outdated
  <2>5. ConflictsPaid' /\ EveryIncrementCounted'
    BY <2>1 DEF ConflictsPaid, EveryIncrementCounted, Types
  <2> QED
    BY <2>2, <2>3, <2>4, <2>5
<1>3. ASSUME NEW c \in Calls, Conflict(c) PROVE Inv'
  <2> USE <1>3 DEF Conflict, Again
  <2>1. Commits' = Commits
    BY DEF Commits
  <2>2. Types'
    BY DEF Types, Awaits
  <2>3. CountedOnce'
    BY DEF CountedOnce, Types
  <2>4. SnapshotsTrue'
    BY <2>1 DEF SnapshotsTrue, Types
  <2>5. attempt[c] + 1 <= Commits
    BY <1>0 DEF SnapshotsTrue, ConflictsPaid, Types, Outdated
  <2>6. ConflictsPaid'
    BY <1>0, <2>1, <2>5 DEF ConflictsPaid, Types
  <2>7. EveryIncrementCounted'
    BY <2>1 DEF EveryIncrementCounted, Types
  <2> QED
    BY <2>2, <2>3, <2>4, <2>6, <2>7
<1>4. ASSUME NEW c \in Calls, Commit(c) PROVE Inv'
  BY <1>4, WriteKeepsInv DEF Commit
<1>5. ASSUME NEW c \in Calls, LoseConnection(c) PROVE Inv'
  <2>1. CASE Write(c)
    BY <1>5, <2>1, WriteKeepsInv DEF LoseConnection
  <2>2. CASE ~Write(c)
    <3> USE <1>5, <2>2 DEF LoseConnection
    <3>1. Commits' = Commits
      BY DEF Commits
    <3>2. Types'
      BY DEF Types, Awaits
    <3>3. CountedOnce'
      BY DEF CountedOnce, Types
    <3>4. SnapshotsTrue'
      BY <3>1 DEF SnapshotsTrue, Types
    <3>5. ConflictsPaid' /\ EveryIncrementCounted'
      BY <3>1 DEF ConflictsPaid, EveryIncrementCounted, Types
    <3> QED
      BY <3>2, <3>3, <3>4, <3>5
  <2> QED
    BY <2>1, <2>2
<1>6. CASE UNCHANGED retryVars
  BY <1>6 DEF retryVars, Types, CountedOnce, SnapshotsTrue, ConflictsPaid, EveryIncrementCounted, Commits
<1> QED
  BY <1>1, <1>2, <1>3, <1>4, <1>5, <1>6 DEF RetryNext, CallStep

(***************************************************************************)
(* The inductive invariant of incrementBalance and runWithRetry.           *)
(***************************************************************************)
THEOREM InvariantHolds == RetrySpec => []Inv
BY InitInv, NextInv, PTL DEF RetrySpec

(***************************************************************************)
(* No increment is lost or counted twice, however many transactions        *)
(* conflict, are retried or lose their connection.                         *)
(***************************************************************************)
THEOREM IncrementsCounted == RetrySpec => []EveryIncrementCounted
<1>1. Inv => EveryIncrementCounted
  BY DEF Inv
<1> QED
  BY <1>1, InvariantHolds, PTL

(***************************************************************************)
(* MAX_RETRIES retries are enough for MAX_RETRIES + 1 calls.               *)
(***************************************************************************)
THEOREM RetriesSuffice == RetrySpec => []NobodyExhausted
<1>1. Inv => NobodyExhausted
  <2> SUFFICES ASSUME Inv, Cardinality(Calls) <= MaxRetries + 1,
                      NEW c \in Calls, at[c] = "exhausted"
               PROVE  FALSE
    BY DEF NobodyExhausted
  <2>1. MaxRetries + 1 <= Commits
    BY DEF Inv, ConflictsPaid
  <2>2. counted \subseteq Calls \ {c}
    BY DEF Inv, CountedOnce, Types
  <2>3. /\ IsFiniteSet(Calls \ {c})
        /\ Cardinality(Calls \ {c}) = Cardinality(Calls) - 1
        /\ Cardinality(Calls) \in Nat
    BY RetryAssumption, FS_RemoveElement, FS_CardinalityType
  <2>4. Commits <= Cardinality(Calls \ {c})
    BY <2>2, <2>3, FS_Subset DEF Commits
  <2>5. Commits \in Nat
    BY CommitsCount DEF Inv, Types
  <2> QED
    BY <2>1, <2>3, <2>4, <2>5, RetryAssumption
<1> QED
  BY <1>1, InvariantHolds, PTL

=============================================================================
