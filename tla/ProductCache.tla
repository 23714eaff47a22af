---------------------------- MODULE ProductCache ----------------------------
(***************************************************************************)
(* getOrLoadCached for one key: reads of one product, in any processes,    *)
(* that miss the cache take a lock in Redis to load it from the database;  *)
(* who does not get the lock waits for the value, and in the end loads it  *)
(* all the same. The entry and the lock have a TTL, and Redis may evict    *)
(* either. Nothing removes the entry when the product changes.             *)
(*                                                                         *)
(* A value is the version of the product it was loaded from.               *)
(***************************************************************************)
EXTENDS Integers

CONSTANTS
  Reads,      \* calls of getProductSummaryCached
  MaxWaits,   \* LOCK_WAIT_ATTEMPTS
  MaxWrites,  \* bound: changes of the product
  MaxFaults,  \* bound: failures
  NoRead, Nothing, Failed

ASSUME CacheAssumption ==
  /\ NoRead \notin Reads
  /\ MaxWaits \in Nat \ {0} /\ MaxWrites \in Nat /\ MaxFaults \in Nat
  /\ Nothing \notin Nat \cup [version : Nat, expires : BOOLEAN]
  /\ Failed \notin Nat /\ Nothing # Failed

VARIABLES
  product,   \* the version in the database
  entry,     \* the entry, Nothing or a version with or without a TTL
  lock,      \* the read whose token the lock has
  pc,        \* pc[r]: the await r is at
  value,     \* value[r]: what r will return
  waits,     \* waits[r]: attempts of the waiting loop
  lostTo,    \* lostTo[r]: who had the lock when r did not get it
  lapsed,    \* history: reads whose lock Redis removed before they did
  loads,     \* history: calls of the loader
  vanished,  \* history: how often the entry was removed
  missed,    \* history: the entry was removed while one held the lock or waited
  faults     \* faults so far

readVars == <<pc, value, waits, lostTo>>
vars == <<product, entry, lock, readVars, lapsed, loads, vanished, missed, faults>>

Init ==
  /\ product = 0
  /\ entry = Nothing
  /\ lock = NoRead
  /\ pc = [r \in Reads |-> "idle"]
  /\ value = [r \in Reads |-> Nothing]
  /\ waits = [r \in Reads |-> 0]
  /\ lostTo = [r \in Reads |-> NoRead]
  /\ lapsed = {}
  /\ loads = 0
  /\ vanished = 0
  /\ missed = FALSE
  /\ faults = 0

-----------------------------------------------------------------------------
Goto(r, label) == pc' = [pc EXCEPT ![r] = label]

Keep(r, v) == value' = [value EXCEPT ![r] = v]

Return(r, v) == Goto(r, "done") /\ Keep(r, v)

(***************************************************************************)
(* getCachedJson: what is there ends the call, or it goes on.              *)
(***************************************************************************)
ReadEntry(r, hit, miss) ==
  IF entry # Nothing
    THEN Goto(r, hit) /\ Keep(r, entry.version)
    ELSE Goto(r, miss) /\ UNCHANGED value

Begin(r) ==
  /\ pc[r] = "idle"
  /\ Goto(r, "get")
  /\ UNCHANGED <<product, entry, lock, value, waits, lostTo, lapsed, loads, vanished, missed, faults>>

Get(r) ==
  /\ pc[r] = "get"
  /\ ReadEntry(r, "done", "lock")
  /\ UNCHANGED <<entry, lock, waits, lostTo, loads>>

(***************************************************************************)
(* SET lock token PX NX.                                                   *)
(***************************************************************************)
TakeLock(r) ==
  /\ pc[r] = "lock"
  /\ IF lock = NoRead
       THEN /\ lock' = r
            /\ Goto(r, "recheck")
            /\ UNCHANGED lostTo
       ELSE /\ lostTo' = [lostTo EXCEPT ![r] = lock]
            /\ Goto(r, "wait")
            /\ UNCHANGED lock
  /\ UNCHANGED <<entry, value, waits, loads>>

\* Mutation of Recheck: the holder of the lock does not look again.
LoadUnchecked(r) ==
  /\ pc[r] = "recheck"
  /\ Goto(r, "load")
  /\ UNCHANGED <<entry, lock, value, waits, lostTo, loads>>

Recheck(r) ==
  /\ pc[r] = "recheck"
  /\ ReadEntry(r, "release", "load")
  /\ UNCHANGED <<entry, lock, waits, lostTo, loads>>

(***************************************************************************)
(* The loader's SELECT, with the lock or after the waiting loop.           *)
(***************************************************************************)
Load(r) ==
  /\ pc[r] \in {"load", "fallbackLoad"}
  /\ Keep(r, product)
  /\ loads' = loads + 1
  /\ Goto(r, IF pc[r] = "load" THEN "store" ELSE "fallbackStore")
  /\ UNCHANGED <<entry, lock, waits, lostTo>>

AfterStore(r) == IF pc[r] = "store" THEN "release" ELSE "done"

\* Mutation of NewEntry: SET without EX.
EverlastingEntry(r) == [version |-> value[r], expires |-> FALSE]

NewEntry(r) == [version |-> value[r], expires |-> TRUE]

Store(r) ==
  /\ pc[r] \in {"store", "fallbackStore"}
  /\ entry' = NewEntry(r)
  /\ Goto(r, AfterStore(r))
  /\ UNCHANGED <<lock, value, waits, lostTo, loads>>

\* Mutation of LockAfter: DEL, whoever has the lock.
Unlocked(r) == NoRead

(***************************************************************************)
(* The script deletes the lock if it still has the token of r.             *)
(***************************************************************************)
LockAfter(r) == IF lock = r THEN NoRead ELSE lock

Release(r) ==
  /\ pc[r] = "release"
  /\ lock' = LockAfter(r)
  /\ Goto(r, "done")
  /\ UNCHANGED <<entry, value, waits, lostTo, loads>>

\* Mutation of AttemptsLeft: the loop waits until there is a value.
WaitForEver(r) == TRUE

AttemptsLeft(r) == waits[r] < MaxWaits

(***************************************************************************)
(* A turn of the waiting loop. All turns together take as long as a lock   *)
(* lasts, 200 * 25 ms = LOCK_TTL_MS: after the last, the lock that r did   *)
(* not get is no longer there.                                             *)
(***************************************************************************)
Wait(r) ==
  /\ pc[r] = "wait"
  /\ IF AttemptsLeft(r)
       THEN /\ waits' = [waits EXCEPT ![r] = IF @ < MaxWaits THEN @ + 1 ELSE @]
            /\ waits[r] + 1 < MaxWaits \/ lock # lostTo[r]
            /\ ReadEntry(r, "done", "wait")
       ELSE Goto(r, "fallbackLoad") /\ UNCHANGED <<value, waits>>
  /\ UNCHANGED <<entry, lock, lostTo, loads>>

Step(r) ==
  /\ Get(r) \/ TakeLock(r) \/ Recheck(r) \/ Load(r) \/ Store(r) \/ Release(r) \/ Wait(r)
  /\ UNCHANGED <<product, lapsed, vanished, missed, faults>>

-----------------------------------------------------------------------------
InProgress(r) == pc[r] \notin {"idle", "done"}

(***************************************************************************)
(* The process ends, or Redis or the database fails where nothing catches  *)
(* it: the caller gets an error, and the lock stays.                       *)
(***************************************************************************)
Die(r) ==
  /\ InProgress(r)
  /\ Return(r, Failed)
  /\ UNCHANGED <<entry, lock>>

(***************************************************************************)
(* The lock is taken and the answer is lost.                               *)
(***************************************************************************)
TakeLockUnacknowledged(r) ==
  /\ pc[r] = "lock" /\ lock = NoRead
  /\ lock' = r
  /\ Return(r, Failed)
  /\ UNCHANGED entry

(***************************************************************************)
(* An error of the second check or of the loader goes through finally; one *)
(* of SET is swallowed.                                                    *)
(***************************************************************************)
Throw(r) ==
  /\ pc[r] \in {"recheck", "load"}
  /\ Goto(r, "release") /\ Keep(r, Failed)
  /\ UNCHANGED <<entry, lock>>

StoreFails(r) ==
  /\ pc[r] \in {"store", "fallbackStore"}
  /\ Goto(r, AfterStore(r))
  /\ UNCHANGED <<entry, lock, value>>

Fault(r) ==
  /\ faults < MaxFaults
  /\ faults' = faults + 1
  /\ Die(r) \/ TakeLockUnacknowledged(r) \/ Throw(r) \/ StoreFails(r)
  /\ UNCHANGED <<product, waits, lostTo, lapsed, loads, vanished, missed>>

(***************************************************************************)
(* Redis removes the lock: its TTL has passed, or memory is short.         *)
(***************************************************************************)
LoseLock ==
  /\ lock # NoRead
  /\ lock' = NoRead
  /\ lapsed' = lapsed \cup {lock}
  /\ UNCHANGED <<product, entry, readVars, loads, vanished, missed, faults>>

LoseEntry ==
  /\ entry # Nothing /\ entry.expires
  /\ entry' = Nothing
  /\ vanished' = vanished + 1
  /\ missed' = (missed \/ lock # NoRead \/ \E r \in Reads : pc[r] = "wait")
  /\ UNCHANGED <<product, lock, readVars, lapsed, loads, faults>>

(***************************************************************************)
(* A checkout or seed.ts changes the row.                                  *)
(***************************************************************************)
ChangeProduct ==
  /\ product < MaxWrites
  /\ product' = product + 1
  /\ UNCHANGED <<entry, lock, readVars, lapsed, loads, vanished, missed, faults>>

Next ==
  \/ \E r \in Reads : Begin(r) \/ Step(r) \/ Fault(r)
  \/ LoseLock
  \/ LoseEntry
  \/ ChangeProduct

(***************************************************************************)
(* A read that has begun goes on, and a TTL passes.                        *)
(***************************************************************************)
Fairness ==
  /\ \A r \in Reads : WF_vars(Step(r))
  /\ WF_vars(LoseLock)
  /\ WF_vars(LoseEntry)

Spec == Init /\ [][Next]_vars /\ Fairness

-----------------------------------------------------------------------------
(***************************************************************************)
(* While a read works under the lock, nobody but Redis takes the lock from *)
(* it: the script compares the token before it deletes.                    *)
(***************************************************************************)
LockKeptByItsOwner ==
  \A r \in Reads \ lapsed :
    pc[r] \in {"recheck", "load", "store", "release"} => lock = r

(***************************************************************************)
(* README.md:251: reads of a cold key cause one load, however many they    *)
(* are; and one more each time the entry goes. That is so unless a lock is *)
(* gone too early, something fails, or the entry goes while a read has the *)
(* lock or waits.                                                          *)
(***************************************************************************)
OneLoadUnlessDisturbed ==
  lapsed = {} /\ faults = 0 /\ ~missed => loads <= vanished + 1

(***************************************************************************)
(* A value that is not the product's does not stay, although no change of  *)
(* a product removes it, and a slow loader may bring an old one late.      *)
(***************************************************************************)
StaleValueGoes ==
  []<>(entry = Nothing \/ entry.version = product)

(***************************************************************************)
(* Every read ends with a value or an error, also when the process that    *)
(* has the lock is gone.                                                   *)
(***************************************************************************)
EveryReadEnds ==
  \A r \in Reads : pc[r] = "get" ~> pc[r] = "done" /\ value[r] # Nothing

=============================================================================
