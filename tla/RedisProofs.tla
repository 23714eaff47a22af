---------------------------- MODULE RedisProofs ----------------------------
(***************************************************************************)
(* Proofs about ProductCache, RateLimiter and Sessions, which keep their   *)
(* state in Redis, for any number of reads, checks and sessions, and       *)
(* whatever the clocks, the TTLs and the bounds are.                       *)
(***************************************************************************)
EXTENDS ProductCache, RateLimiter, Sessions, FiniteSetTheorems, WellFoundedInduction, TLAPS

Entries == [version : Nat, expires : BOOLEAN]

Awaits ==
  {"idle", "get", "lock", "recheck", "load", "store", "release", "wait",
   "fallbackLoad", "fallbackStore", "done"}

UnderLock == {"recheck", "load", "store", "release"}

CacheTypes ==
  /\ product \in Nat
  /\ entry \in Entries \cup {Nothing}
  /\ lock \in Reads \cup {NoRead}
  /\ pc \in [Reads -> Awaits]
  /\ value \in [Reads -> Nat \cup {Nothing, Failed}]
  /\ \A r \in Reads : pc[r] \in {"store", "fallbackStore"} => value[r] \in Nat
  /\ waits \in [Reads -> Nat]
  /\ lostTo \in [Reads -> Reads \cup {NoRead}]
  /\ lapsed \subseteq Reads
  /\ loads \in Nat /\ vanished \in Nat /\ faults \in Nat
  /\ missed \in BOOLEAN

(***************************************************************************)
(* Nothing has happened yet that OneLoadUnlessDisturbed excepts.           *)
(***************************************************************************)
Undisturbed == lapsed = {} /\ faults = 0 /\ ~missed

(***************************************************************************)
(* Then the lock belongs to a read that works under it; who waits either   *)
(* waits for that read or finds the entry, and gives up in no case.        *)
(***************************************************************************)
WaitersAreServed ==
  /\ lock # NoRead => pc[lock] \in UnderLock
  /\ \A r \in Reads :
       /\ pc[r] \notin {"fallbackLoad", "fallbackStore"}
       /\ pc[r] \in {"idle", "get", "lock"} => waits[r] = 0
       /\ pc[r] = "wait" =>
            /\ waits[r] < MaxWaits /\ lostTo[r] # NoRead
            /\ lock = lostTo[r] \/ entry # Nothing

(***************************************************************************)
(* And a load is under way only while there is no entry; a load that has   *)
(* not brought an entry yet, or whose entry has gone, is accounted for.    *)
(***************************************************************************)
LoadsCounted ==
  /\ \A r \in Reads : /\ pc[r] = "load" => entry = Nothing
                      /\ pc[r] = "release" => entry # Nothing
  /\ loads <= vanished + 1
  /\ entry = Nothing /\ (\A r \in Reads : pc[r] # "store") => loads <= vanished

CacheInv ==
  /\ CacheTypes
  /\ LockKeptByItsOwner
  /\ Undisturbed => WaitersAreServed /\ LoadsCounted

-----------------------------------------------------------------------------
(***************************************************************************)
(* No read has begun: nothing is cached, locked or loaded.                 *)
(***************************************************************************)
LEMMA CacheInit == Init => CacheInv
<1> SUFFICES ASSUME Init PROVE CacheInv
  OBVIOUS
<1>1. CacheTypes
  BY DEF Init, CacheTypes, Awaits
<1>2. LockKeptByItsOwner
  BY DEF Init, LockKeptByItsOwner
<1>3. WaitersAreServed
  BY DEF Init, WaitersAreServed
<1>4. LoadsCounted
  BY DEF Init, LoadsCounted
<1> QED
  BY <1>1, <1>2, <1>3, <1>4 DEF CacheInv

(***************************************************************************)
(* The entries that are stored are not the absence of one.                 *)
(***************************************************************************)
LEMMA NewEntryIsOne ==
  ASSUME NEW r \in Reads, value[r] \in Nat
  PROVE  NewEntry(r) \in Entries /\ NewEntry(r) # Nothing
<1>1. NewEntry(r) \in Entries
  BY DEF NewEntry, Entries
<1> QED
  BY <1>1, CacheAssumption DEF Entries

(***************************************************************************)
(* Two reads that nothing has lost the lock of do not both work under it.  *)
(***************************************************************************)
LEMMA OneUnderLock ==
  ASSUME CacheInv, Undisturbed, NEW r \in Reads, NEW s \in Reads,
         pc[r] \in UnderLock, pc[s] \in UnderLock
  PROVE  r = s
BY DEF CacheInv, Undisturbed, LockKeptByItsOwner, UnderLock

(***************************************************************************)
(* A step of one read moves the label of that read only.                   *)
(***************************************************************************)
LEMMA GotoOne ==
  ASSUME CacheTypes, NEW r \in Reads, NEW label \in Awaits, Goto(r, label)
  PROVE  /\ pc' \in [Reads -> Awaits] /\ pc'[r] = label
         /\ \A s \in Reads \ {r} : pc'[s] = pc[s]
BY DEF CacheTypes, Goto

(***************************************************************************)
(* getCachedJson, which three steps do: with an entry the read has its     *)
(* value and goes on to one label, without to another.                     *)
(***************************************************************************)
LEMMA ReadEntryMoves ==
  ASSUME CacheTypes, NEW r \in Reads, NEW hit \in Awaits, NEW miss \in Awaits, ReadEntry(r, hit, miss)
  PROVE  /\ pc' \in [Reads -> Awaits] /\ pc'[r] = IF entry # Nothing THEN hit ELSE miss
         /\ \A s \in Reads \ {r} : pc'[s] = pc[s] /\ value'[s] = value[s]
         /\ value' \in [Reads -> Nat \cup {Nothing, Failed}]
<1>1. CASE entry # Nothing
  <2>1. entry \in Entries /\ entry.version \in Nat
    BY <1>1 DEF CacheTypes, Entries
  <2>2. Goto(r, hit) /\ value' = [value EXCEPT ![r] = entry.version]
    BY <1>1 DEF ReadEntry, Keep
  <2>3. pc' \in [Reads -> Awaits] /\ pc'[r] = hit /\ \A s \in Reads \ {r} : pc'[s] = pc[s]
    BY <2>2, GotoOne
  <2>4. /\ value' \in [Reads -> Nat \cup {Nothing, Failed}]
        /\ \A s \in Reads \ {r} : value'[s] = value[s]
    BY <2>1, <2>2 DEF CacheTypes
  <2> QED
    BY <1>1, <2>3, <2>4
<1>2. CASE entry = Nothing
  <2>1. Goto(r, miss) /\ UNCHANGED value
    BY <1>2 DEF ReadEntry
  <2>2. pc' \in [Reads -> Awaits] /\ pc'[r] = miss /\ \A s \in Reads \ {r} : pc'[s] = pc[s]
    BY <2>1, GotoOne
  <2> QED
    BY <1>2, <2>1, <2>2 DEF CacheTypes
<1> QED
  BY <1>1, <1>2

(***************************************************************************)
(* A call, and its first look at the cache.                                *)
(***************************************************************************)
LEMMA BeginInv == ASSUME CacheInv, NEW r \in Reads, Begin(r) PROVE CacheInv'
<1>1. /\ pc[r] = "idle" /\ Goto(r, "get")
      /\ UNCHANGED <<product, entry, lock, value, waits, lostTo, lapsed, loads, vanished, missed, faults>>
  BY DEF Begin
<1>2. pc' \in [Reads -> Awaits] /\ pc'[r] = "get" /\ \A s \in Reads \ {r} : pc'[s] = pc[s]
  BY <1>1, GotoOne DEF CacheInv, Awaits
<1>3. CacheTypes'
  BY <1>1, <1>2 DEF CacheInv, CacheTypes
<1>4. LockKeptByItsOwner'
  BY <1>1, <1>2 DEF CacheInv, LockKeptByItsOwner
<1>5. Undisturbed' => WaitersAreServed'
  BY <1>1, <1>2 DEF CacheInv, Undisturbed, WaitersAreServed, UnderLock, CacheTypes
<1>6. Undisturbed' => LoadsCounted'
  BY <1>1, <1>2 DEF CacheInv, Undisturbed, LoadsCounted
<1> QED
  BY <1>3, <1>4, <1>5, <1>6 DEF CacheInv

\* What Step leaves alone.
Frame == UNCHANGED <<product, lapsed, vanished, missed, faults>>

(***************************************************************************)
(* The first look of a call: a hit ends it.                                *)
(***************************************************************************)
LEMMA GetInv == ASSUME CacheInv, NEW r \in Reads, Get(r), Frame PROVE CacheInv'
<1>1. /\ pc[r] = "get" /\ ReadEntry(r, "done", "lock")
      /\ UNCHANGED <<entry, lock, waits, lostTo, loads, product, lapsed, vanished, missed, faults>>
  BY DEF Get, Frame
<1>2. /\ pc' \in [Reads -> Awaits] /\ pc'[r] \in {"done", "lock"}
      /\ \A s \in Reads \ {r} : pc'[s] = pc[s] /\ value'[s] = value[s]
      /\ value' \in [Reads -> Nat \cup {Nothing, Failed}]
  BY <1>1, ReadEntryMoves DEF CacheInv, Awaits
<1>3. CacheTypes'
  BY <1>1, <1>2 DEF CacheInv, CacheTypes
<1>4. LockKeptByItsOwner'
  BY <1>1, <1>2 DEF CacheInv, LockKeptByItsOwner
<1>5. Undisturbed' => WaitersAreServed'
  BY <1>1, <1>2 DEF CacheInv, Undisturbed, WaitersAreServed, UnderLock, CacheTypes
<1>6. Undisturbed' => LoadsCounted'
  BY <1>1, <1>2 DEF CacheInv, Undisturbed, LoadsCounted
<1> QED
  BY <1>3, <1>4, <1>5, <1>6 DEF CacheInv

(***************************************************************************)
(* SET NX: the lock is free, or its holder is the one to wait for.         *)
(***************************************************************************)
LEMMA TakeLockInv == ASSUME CacheInv, NEW r \in Reads, TakeLock(r), Frame PROVE CacheInv'
<1>1. /\ pc[r] = "lock"
      /\ UNCHANGED <<entry, value, waits, loads, product, lapsed, vanished, missed, faults>>
  BY DEF TakeLock, Frame
<1>2. CASE lock = NoRead
  <2>1. lock' = r /\ Goto(r, "recheck") /\ UNCHANGED lostTo
    BY <1>2 DEF TakeLock
  <2>2. pc' \in [Reads -> Awaits] /\ pc'[r] = "recheck" /\ \A s \in Reads \ {r} : pc'[s] = pc[s]
    BY <2>1, GotoOne DEF CacheInv, Awaits
  <2>3. CacheTypes'
    BY <1>1, <2>1, <2>2 DEF CacheInv, CacheTypes
  <2>4. LockKeptByItsOwner'
    BY <1>1, <1>2, <2>1, <2>2, CacheAssumption DEF CacheInv, LockKeptByItsOwner
  <2>5. Undisturbed' => WaitersAreServed'
    BY <1>1, <1>2, <2>1, <2>2 DEF CacheInv, Undisturbed, WaitersAreServed, UnderLock, CacheTypes
  <2>6. Undisturbed' => LoadsCounted'
    BY <1>1, <2>1, <2>2 DEF CacheInv, Undisturbed, LoadsCounted
  <2> QED
    BY <2>3, <2>4, <2>5, <2>6 DEF CacheInv
<1>3. CASE lock # NoRead
  <2>1. lostTo' = [lostTo EXCEPT ![r] = lock] /\ Goto(r, "wait") /\ UNCHANGED lock
    BY <1>3 DEF TakeLock
  <2>2. pc' \in [Reads -> Awaits] /\ pc'[r] = "wait" /\ \A s \in Reads \ {r} : pc'[s] = pc[s]
    BY <2>1, GotoOne DEF CacheInv, Awaits
  <2>3. /\ lostTo' \in [Reads -> Reads \cup {NoRead}] /\ lostTo'[r] = lock
        /\ \A s \in Reads \ {r} : lostTo'[s] = lostTo[s]
    BY <2>1 DEF CacheInv, CacheTypes
  <2>4. CacheTypes'
    BY <1>1, <2>1, <2>2, <2>3 DEF CacheInv, CacheTypes
  <2>5. LockKeptByItsOwner'
    BY <1>1, <2>1, <2>2 DEF CacheInv, LockKeptByItsOwner
  <2>6. Undisturbed' => WaitersAreServed'
    <3> SUFFICES ASSUME Undisturbed, WaitersAreServed PROVE WaitersAreServed'
      BY <1>1 DEF Undisturbed, CacheInv
    <3>1. lock' # NoRead => pc'[lock'] \in UnderLock
      BY <1>1, <2>1, <2>2 DEF WaitersAreServed, UnderLock, CacheInv, CacheTypes
    <3>2. waits[r] = 0 /\ MaxWaits > 0 /\ MaxWaits \in Nat
      BY <1>1, CacheAssumption DEF WaitersAreServed
    <3> QED
      BY <1>1, <1>3, <2>1, <2>2, <2>3, <3>1, <3>2 DEF WaitersAreServed
  <2>7. Undisturbed' => LoadsCounted'
    BY <1>1, <2>1, <2>2 DEF CacheInv, Undisturbed, LoadsCounted
  <2> QED
    BY <2>4, <2>5, <2>6, <2>7 DEF CacheInv
<1> QED
  BY <1>2, <1>3

(***************************************************************************)
(* The look under the lock: only without an entry there is a load.         *)
(***************************************************************************)
LEMMA RecheckInv == ASSUME CacheInv, NEW r \in Reads, Recheck(r), Frame PROVE CacheInv'
<1>1. /\ pc[r] = "recheck" /\ ReadEntry(r, "release", "load")
      /\ UNCHANGED <<entry, lock, waits, lostTo, loads, product, lapsed, vanished, missed, faults>>
  BY DEF Recheck, Frame
<1>2. /\ pc' \in [Reads -> Awaits] /\ pc'[r] = IF entry # Nothing THEN "release" ELSE "load"
      /\ \A s \in Reads \ {r} : pc'[s] = pc[s] /\ value'[s] = value[s]
      /\ value' \in [Reads -> Nat \cup {Nothing, Failed}]
  BY <1>1, ReadEntryMoves DEF CacheInv, Awaits
<1>3. CacheTypes'
  BY <1>1, <1>2 DEF CacheInv, CacheTypes
<1>4. LockKeptByItsOwner'
  BY <1>1, <1>2 DEF CacheInv, LockKeptByItsOwner
<1>5. Undisturbed' => WaitersAreServed'
  BY <1>1, <1>2 DEF CacheInv, Undisturbed, WaitersAreServed, UnderLock, CacheTypes
<1>6. Undisturbed' => LoadsCounted'
  BY <1>1, <1>2 DEF CacheInv, Undisturbed, LoadsCounted
<1> QED
  BY <1>3, <1>4, <1>5, <1>6 DEF CacheInv

(***************************************************************************)
(* The SELECT: under the lock nobody else has a value under way, so it is  *)
(* the one load the entry's absence allows.                                *)
(***************************************************************************)
LEMMA LoadInv == ASSUME CacheInv, NEW r \in Reads, Load(r), Frame PROVE CacheInv'
<1>1. /\ pc[r] \in {"load", "fallbackLoad"} /\ value' = [value EXCEPT ![r] = product]
      /\ loads' = loads + 1
      /\ UNCHANGED <<entry, lock, waits, lostTo, product, lapsed, vanished, missed, faults>>
  BY DEF Load, Frame, Keep
<1>2. /\ pc' \in [Reads -> Awaits] /\ pc'[r] = IF pc[r] = "load" THEN "store" ELSE "fallbackStore"
      /\ \A s \in Reads \ {r} : pc'[s] = pc[s]
  BY GotoOne DEF Load, CacheInv, Awaits
<1>3. /\ value' \in [Reads -> Nat \cup {Nothing, Failed}] /\ value'[r] \in Nat
      /\ \A s \in Reads \ {r} : value'[s] = value[s]
  BY <1>1 DEF CacheInv, CacheTypes
<1>4. CacheTypes'
  BY <1>1, <1>2, <1>3 DEF CacheInv, CacheTypes
<1>5. LockKeptByItsOwner'
  BY <1>1, <1>2 DEF CacheInv, LockKeptByItsOwner
<1>6. ASSUME Undisturbed' PROVE WaitersAreServed' /\ LoadsCounted'
  <2>1. Undisturbed /\ WaitersAreServed /\ LoadsCounted
    BY <1>1, <1>6 DEF Undisturbed, CacheInv
  <2>2. pc[r] = "load" /\ pc'[r] = "store" /\ entry = Nothing
    BY <1>1, <1>2, <2>1 DEF WaitersAreServed, LoadsCounted
  <2>3. \A s \in Reads : pc[s] # "store"
    BY <2>1, <2>2, OneUnderLock DEF UnderLock
  <2>4. loads \in Nat /\ vanished \in Nat /\ loads <= vanished
    BY <2>1, <2>2, <2>3 DEF LoadsCounted, CacheInv, CacheTypes
  <2>5. WaitersAreServed'
    BY <1>1, <1>2, <2>1, <2>2 DEF WaitersAreServed, UnderLock, CacheInv, CacheTypes
  <2>6. LoadsCounted'
    BY <1>1, <1>2, <2>1, <2>2, <2>4 DEF LoadsCounted
  <2> QED
    BY <2>5, <2>6
<1> QED
  BY <1>4, <1>5, <1>6 DEF CacheInv

(***************************************************************************)
(* SET EX: from here on there is an entry.                                 *)
(***************************************************************************)
LEMMA StoreInv == ASSUME CacheInv, NEW r \in Reads, Store(r), Frame PROVE CacheInv'
<1>1. /\ pc[r] \in {"store", "fallbackStore"} /\ entry' = NewEntry(r)
      /\ UNCHANGED <<lock, value, waits, lostTo, loads, product, lapsed, vanished, missed, faults>>
  BY DEF Store, Frame
<1>2. /\ pc' \in [Reads -> Awaits] /\ pc'[r] = AfterStore(r)
      /\ \A s \in Reads \ {r} : pc'[s] = pc[s]
  BY GotoOne DEF Store, CacheInv, Awaits, AfterStore
<1>3. entry' \in Entries /\ entry' # Nothing
  BY <1>1, NewEntryIsOne DEF CacheInv, CacheTypes
<1>4. CacheTypes'
  BY <1>1, <1>2, <1>3 DEF CacheInv, CacheTypes, AfterStore
<1>5. LockKeptByItsOwner'
  BY <1>1, <1>2 DEF CacheInv, LockKeptByItsOwner, AfterStore
<1>6. ASSUME Undisturbed' PROVE WaitersAreServed' /\ LoadsCounted'
  <2>1. Undisturbed /\ WaitersAreServed /\ LoadsCounted
    BY <1>1, <1>6 DEF Undisturbed, CacheInv
  <2>2. pc[r] = "store" /\ pc'[r] = "release"
    BY <1>1, <1>2, <2>1 DEF WaitersAreServed, AfterStore
  <2>3. \A s \in Reads : pc[s] # "load"
    BY <2>1, <2>2, OneUnderLock DEF UnderLock
  <2>4. WaitersAreServed'
    BY <1>1, <1>2, <1>3, <2>1, <2>2 DEF WaitersAreServed, UnderLock, CacheInv, CacheTypes
  <2>5. LoadsCounted'
    BY <1>1, <1>2, <1>3, <2>1, <2>2, <2>3 DEF LoadsCounted
  <2> QED
    BY <2>4, <2>5
<1> QED
  BY <1>4, <1>5, <1>6 DEF CacheInv

(***************************************************************************)
(* The script that releases the lock takes it from nobody else, and leaves *)
(* an entry for those who wait.                                            *)
(***************************************************************************)
LEMMA ReleaseInv == ASSUME CacheInv, NEW r \in Reads, Release(r), Frame PROVE CacheInv'
<1>1. /\ pc[r] = "release" /\ lock' = IF lock = r THEN NoRead ELSE lock
      /\ UNCHANGED <<entry, value, waits, lostTo, loads, product, lapsed, vanished, missed, faults>>
  BY DEF Release, Frame, LockAfter
<1>2. pc' \in [Reads -> Awaits] /\ pc'[r] = "done" /\ \A s \in Reads \ {r} : pc'[s] = pc[s]
  BY GotoOne DEF Release, CacheInv, Awaits
<1>3. CacheTypes'
  BY <1>1, <1>2 DEF CacheInv, CacheTypes
<1>4. LockKeptByItsOwner'
  BY <1>1, <1>2 DEF CacheInv, LockKeptByItsOwner
<1>5. ASSUME Undisturbed' PROVE WaitersAreServed' /\ LoadsCounted'
  <2>1. Undisturbed /\ WaitersAreServed /\ LoadsCounted
    BY <1>1, <1>5 DEF Undisturbed, CacheInv
  <2>2. entry # Nothing /\ lock = r /\ lock' = NoRead
    BY <1>1, <2>1 DEF LoadsCounted, CacheInv, LockKeptByItsOwner, Undisturbed
  <2>3. WaitersAreServed'
    BY <1>1, <1>2, <2>1, <2>2 DEF WaitersAreServed
  <2>4. LoadsCounted'
    BY <1>1, <1>2, <2>1, <2>2 DEF LoadsCounted
  <2> QED
    BY <2>3, <2>4
<1> QED
  BY <1>3, <1>4, <1>5 DEF CacheInv

(***************************************************************************)
(* A turn of the waiting loop: the last one finds the lock not there any   *)
(* more, and therefore an entry.                                           *)
(***************************************************************************)
LEMMA WaitInv == ASSUME CacheInv, NEW r \in Reads, Wait(r), Frame PROVE CacheInv'
<1>1. /\ pc[r] = "wait"
      /\ UNCHANGED <<entry, lock, lostTo, loads, product, lapsed, vanished, missed, faults>>
  BY DEF Wait, Frame
<1>2. waits[r] \in Nat /\ MaxWaits \in Nat
  BY CacheAssumption DEF CacheInv, CacheTypes
<1>3. CASE AttemptsLeft(r)
  <2>1. /\ waits[r] < MaxWaits /\ ReadEntry(r, "done", "wait")
        /\ waits[r] + 1 < MaxWaits \/ lock # lostTo[r]
        /\ waits' = [waits EXCEPT ![r] = IF @ < MaxWaits THEN @ + 1 ELSE @]
    BY <1>3 DEF Wait, AttemptsLeft
  <2>2. /\ waits' \in [Reads -> Nat] /\ waits'[r] = waits[r] + 1
        /\ \A s \in Reads \ {r} : waits'[s] = waits[s]
    BY <1>2, <2>1 DEF CacheInv, CacheTypes
  <2>3. /\ pc' \in [Reads -> Awaits] /\ pc'[r] = IF entry # Nothing THEN "done" ELSE "wait"
        /\ \A s \in Reads \ {r} : pc'[s] = pc[s] /\ value'[s] = value[s]
        /\ value' \in [Reads -> Nat \cup {Nothing, Failed}]
    BY <2>1, ReadEntryMoves DEF CacheInv, Awaits
  <2>4. CacheTypes'
    BY <1>1, <2>2, <2>3 DEF CacheInv, CacheTypes
  <2>5. LockKeptByItsOwner'
    BY <1>1, <2>3 DEF CacheInv, LockKeptByItsOwner
  <2>6. Undisturbed' => WaitersAreServed'
    <3> SUFFICES ASSUME Undisturbed, WaitersAreServed PROVE WaitersAreServed'
      BY <1>1 DEF Undisturbed, CacheInv
    <3>1. lock' # NoRead => pc'[lock'] \in UnderLock
      BY <1>1, <2>3 DEF WaitersAreServed, UnderLock, CacheInv, CacheTypes
    <3>2. ASSUME NEW s \in Reads
          PROVE  /\ pc'[s] \notin {"fallbackLoad", "fallbackStore"}
                 /\ pc'[s] \in {"idle", "get", "lock"} => waits'[s] = 0
                 /\ pc'[s] = "wait" => /\ waits'[s] < MaxWaits /\ lostTo'[s] # NoRead
                                       /\ lock' = lostTo'[s] \/ entry' # Nothing
      <4>1. CASE s = r
        BY <1>1, <1>2, <2>1, <2>2, <2>3, <4>1 DEF WaitersAreServed
      <4>2. CASE s # r
        BY <1>1, <2>2, <2>3, <4>2 DEF WaitersAreServed
      <4> QED
        BY <4>1, <4>2
    <3> QED
      BY <3>1, <3>2 DEF WaitersAreServed
  <2>7. Undisturbed' => LoadsCounted'
    BY <1>1, <2>3 DEF CacheInv, Undisturbed, LoadsCounted
  <2> QED
    BY <2>4, <2>5, <2>6, <2>7 DEF CacheInv
<1>4. CASE ~AttemptsLeft(r)
  <2>1. Goto(r, "fallbackLoad") /\ UNCHANGED <<value, waits>> /\ ~(waits[r] < MaxWaits)
    BY <1>4 DEF Wait, AttemptsLeft
  <2>2. pc' \in [Reads -> Awaits] /\ pc'[r] = "fallbackLoad" /\ \A s \in Reads \ {r} : pc'[s] = pc[s]
    BY <2>1, GotoOne DEF CacheInv, Awaits
  <2>3. CacheTypes'
    BY <1>1, <2>1, <2>2 DEF CacheInv, CacheTypes
  <2>4. LockKeptByItsOwner'
    BY <1>1, <2>2 DEF CacheInv, LockKeptByItsOwner
  <2>5. ~Undisturbed'
    BY <1>1, <2>1 DEF Undisturbed, CacheInv, WaitersAreServed
  <2> QED
    BY <2>3, <2>4, <2>5 DEF CacheInv
<1> QED
  BY <1>3, <1>4

(***************************************************************************)
(* A fault is a disturbance for good; for the lock it changes little.      *)
(***************************************************************************)
LEMMA FaultInv == ASSUME CacheInv, NEW r \in Reads, Fault(r) PROVE CacheInv'
<1>1. /\ faults' = faults + 1
      /\ UNCHANGED <<product, waits, lostTo, lapsed, loads, vanished, missed>>
  BY DEF Fault
<1>2. faults' \in Nat /\ ~Undisturbed'
  BY <1>1 DEF Undisturbed, CacheInv, CacheTypes
<1>3. CASE Die(r) \/ Throw(r) \/ StoreFails(r)
  <2>1. UNCHANGED <<entry, lock>>
    BY <1>3 DEF Die, Throw, StoreFails
  <2>2. /\ pc' \in [Reads -> Awaits] /\ \A s \in Reads \ {r} : pc'[s] = pc[s]
        /\ pc'[r] = "done" \/ (pc[r] \in UnderLock /\ pc'[r] = "release")
    <3>1. CASE Die(r)
      BY <3>1, GotoOne DEF Die, Return, CacheInv, Awaits
    <3>2. CASE Throw(r)
      BY <3>2, GotoOne DEF Throw, CacheInv, Awaits, UnderLock
    <3>3. CASE StoreFails(r)
      BY <3>3, GotoOne DEF StoreFails, AfterStore, CacheInv, Awaits, UnderLock
    <3> QED
      BY <1>3, <3>1, <3>2, <3>3
  <2>3. /\ value' \in [Reads -> Nat \cup {Nothing, Failed}]
        /\ \A s \in Reads \ {r} : value'[s] = value[s]
    BY <1>3 DEF Die, Return, Throw, StoreFails, Keep, CacheInv, CacheTypes
  <2>4. CacheTypes'
    BY <1>1, <1>2, <2>1, <2>2, <2>3 DEF CacheInv, CacheTypes
  <2>5. LockKeptByItsOwner'
    BY <1>1, <2>1, <2>2 DEF CacheInv, LockKeptByItsOwner, UnderLock
  <2> QED
    BY <1>2, <2>4, <2>5 DEF CacheInv
<1>4. CASE TakeLockUnacknowledged(r)
  <2>1. lock = NoRead /\ lock' = r /\ UNCHANGED entry /\ Goto(r, "done") /\ Keep(r, Failed)
    BY <1>4 DEF TakeLockUnacknowledged, Return
  <2>2. pc' \in [Reads -> Awaits] /\ pc'[r] = "done" /\ \A s \in Reads \ {r} : pc'[s] = pc[s]
    BY <2>1, GotoOne DEF CacheInv, Awaits
  <2>3. /\ value' \in [Reads -> Nat \cup {Nothing, Failed}]
        /\ \A s \in Reads \ {r} : value'[s] = value[s]
    BY <2>1 DEF Keep, CacheInv, CacheTypes
  <2>4. CacheTypes'
    BY <1>1, <1>2, <2>1, <2>2, <2>3 DEF CacheInv, CacheTypes
  <2>5. LockKeptByItsOwner'
    BY <1>1, <2>1, <2>2, CacheAssumption DEF CacheInv, LockKeptByItsOwner
  <2> QED
    BY <1>2, <2>4, <2>5 DEF CacheInv
<1> QED
  BY <1>3, <1>4 DEF Fault

(***************************************************************************)
(* What Redis and the database do.                                         *)
(***************************************************************************)
LEMMA EnvironmentInv == ASSUME CacheInv, LoseLock \/ LoseEntry \/ ChangeProduct PROVE CacheInv'
<1>1. CASE LoseLock
  <2>1. CacheTypes' /\ lapsed' # {}
    BY <1>1 DEF LoseLock, readVars, CacheInv, CacheTypes
  <2>2. LockKeptByItsOwner'
    BY <1>1 DEF LoseLock, readVars, CacheInv, LockKeptByItsOwner
  <2> QED
    BY <2>1, <2>2 DEF CacheInv, Undisturbed
<1>2. CASE LoseEntry
  <2>1. /\ entry # Nothing /\ entry' = Nothing /\ vanished' = vanished + 1
        /\ missed' = (missed \/ lock # NoRead \/ \E r \in Reads : pc[r] = "wait")
        /\ UNCHANGED <<product, lock, pc, value, waits, lostTo, lapsed, loads, faults>>
    BY <1>2 DEF LoseEntry, readVars
  <2>2. CacheTypes'
    BY <2>1 DEF CacheInv, CacheTypes
  <2>3. LockKeptByItsOwner'
    BY <2>1 DEF CacheInv, LockKeptByItsOwner
  <2>4. ASSUME Undisturbed' PROVE WaitersAreServed' /\ LoadsCounted'
    <3>1. /\ Undisturbed /\ WaitersAreServed /\ LoadsCounted
          /\ lock = NoRead /\ \A r \in Reads : pc[r] # "wait"
      BY <2>1, <2>4 DEF Undisturbed, CacheInv
    <3>2. \A r \in Reads : pc[r] \notin UnderLock
      BY <3>1, CacheAssumption DEF CacheInv, LockKeptByItsOwner, Undisturbed, UnderLock
    <3>3. loads \in Nat /\ vanished \in Nat
      BY DEF CacheInv, CacheTypes
    <3> QED
      BY <2>1, <3>1, <3>2, <3>3 DEF WaitersAreServed, LoadsCounted, UnderLock
  <2> QED
    BY <2>2, <2>3, <2>4 DEF CacheInv
<1>3. CASE ChangeProduct
  <2>1. product' = product + 1
        /\ UNCHANGED <<entry, lock, pc, value, waits, lostTo, lapsed, loads, vanished, missed, faults>>
    BY <1>3 DEF ChangeProduct, readVars
  <2> QED
    BY <2>1 DEF CacheInv, CacheTypes, LockKeptByItsOwner, Undisturbed, WaitersAreServed, LoadsCounted
<1> QED
  BY <1>1, <1>2, <1>3

(***************************************************************************)
(* The invariant of the cache, for any number of reads and processes.      *)
(***************************************************************************)
THEOREM CacheInvariant == Spec => []CacheInv
<1>1. CacheInv /\ [Next]_vars => CacheInv'
  <2> SUFFICES ASSUME CacheInv, [Next]_vars PROVE CacheInv'
    OBVIOUS
  <2>1. CASE UNCHANGED vars
    BY <2>1 DEF vars, readVars, CacheInv, CacheTypes, LockKeptByItsOwner, Undisturbed,
                WaitersAreServed, LoadsCounted
  <2>2. ASSUME NEW r \in Reads, Step(r) PROVE CacheInv'
    BY <2>2, GetInv, TakeLockInv, RecheckInv, LoadInv, StoreInv, ReleaseInv, WaitInv DEF Step, Frame
  <2> QED
    BY <2>1, <2>2, BeginInv, FaultInv, EnvironmentInv DEF Next
<1> QED
  BY <1>1, CacheInit, PTL DEF Spec

(***************************************************************************)
(* The lock is taken from a read that works under it by Redis alone.       *)
(***************************************************************************)
THEOREM LockIsItsOwners == Spec => []LockKeptByItsOwner
<1>1. CacheInv => LockKeptByItsOwner
  BY DEF CacheInv
<1> QED
  BY <1>1, CacheInvariant, PTL

(***************************************************************************)
(* However many reads miss a cold key, one of them loads it, and one more  *)
(* each time the entry goes, unless something on the way has failed.       *)
(***************************************************************************)
THEOREM ColdKeyIsLoadedOnce == Spec => []OneLoadUnlessDisturbed
<1>1. CacheInv => OneLoadUnlessDisturbed
  BY DEF CacheInv, OneLoadUnlessDisturbed, Undisturbed, LoadsCounted
<1> QED
  BY <1>1, CacheInvariant, PTL

-----------------------------------------------------------------------------
(***************************************************************************)
(* A session that is not there any more has ended, and one that has ended  *)
(* has been created.                                                       *)
(***************************************************************************)
SessionsInv ==
  /\ time \in Nat /\ time > 0
  /\ session \in [Ids -> Nat]
  /\ reader \in [Readers -> Ids \cup {NoSession}]
  /\ ended \subseteq created /\ created \subseteq Ids
  /\ \A s \in Ids \ created : session[s] = NoKey
  /\ EndedStaysEnded

(***************************************************************************)
(* EXPIRE, the second command of getSession, revives nothing.              *)
(***************************************************************************)
LEMMA ExpireInv == ASSUME SessionsInv, NEW r \in Readers, Expire(r), UNCHANGED time PROVE SessionsInv'
<1>1. PICK s \in Ids : s = reader[r]
  BY DEF Expire, SessionsInv
<1>2. /\ session' = [session EXCEPT ![s] = Renewed(s)]
      /\ reader' = [reader EXCEPT ![r] = NoSession] /\ UNCHANGED <<created, ended>>
  BY <1>1 DEF Expire
<1>3. Renewed(s) \in Nat /\ (s \in ended \/ s \notin created => Renewed(s) = session[s])
  BY SessionAssumption DEF SessionsInv, Alive, NoKey, EndedStaysEnded, Renewed
<1> QED
  BY <1>2, <1>3 DEF SessionsInv, EndedStaysEnded, Alive

(***************************************************************************)
(* Every other step: no id is created again, and time only goes on.        *)
(***************************************************************************)
LEMMA SessionsStep ==
  SessionsInv /\ [\/ SessionsNext /\ UNCHANGED time
                  \/ Tick /\ ExpireAt(time')]_<<time, sessionVars>> => SessionsInv'
<1> SUFFICES ASSUME SessionsInv,
                    [\/ SessionsNext /\ UNCHANGED time
                     \/ Tick /\ ExpireAt(time')]_<<time, sessionVars>>
             PROVE  SessionsInv'
  OBVIOUS
<1>1. ASSUME NEW s \in Ids, Create(s), UNCHANGED time PROVE SessionsInv'
  BY <1>1, SessionAssumption DEF Create, SessionsInv, EndedStaysEnded, Alive
<1>2. ASSUME NEW s \in Ids, Delete(s), UNCHANGED time PROVE SessionsInv'
  BY <1>2 DEF Delete, NoKey, SessionsInv, EndedStaysEnded, Alive
<1>3. ASSUME NEW r \in Readers, NEW s \in Ids, GetValue(r, s), UNCHANGED time PROVE SessionsInv'
  BY <1>3 DEF GetValue, SessionsInv, EndedStaysEnded, Alive
<1>4. ASSUME NEW r \in Readers, Lose(r), UNCHANGED time PROVE SessionsInv'
  BY <1>4 DEF Lose, SessionsInv, EndedStaysEnded, Alive
<1>5. CASE Tick /\ ExpireAt(time')
  BY <1>5 DEF Tick, ExpireAt, SessionsInv, EndedStaysEnded, Alive
<1>6. CASE UNCHANGED <<time, sessionVars>>
  BY <1>6 DEF sessionVars, SessionsInv, EndedStaysEnded, Alive
<1> QED
  BY <1>1, <1>2, <1>3, <1>4, <1>5, <1>6, ExpireInv DEF SessionsNext

(***************************************************************************)
(* A session that has been deleted or has expired is not returned by any   *)
(* getSession that begins later, whoever renews it late.                   *)
(***************************************************************************)
THEOREM SessionsStayEnded == SessionsSpec => []EndedStaysEnded
<1>1. time = 1 /\ SessionsInit => SessionsInv
  BY DEF SessionsInit, NoKey, SessionsInv, EndedStaysEnded
<1>2. SessionsInv => EndedStaysEnded
  BY DEF SessionsInv
<1> QED
  BY <1>1, <1>2, SessionsStep, PTL DEF SessionsSpec

-----------------------------------------------------------------------------
(***************************************************************************)
(* A set of natural numbers that is not empty has a least element.         *)
(***************************************************************************)
LEMMA LeastOfNaturals ==
  ASSUME NEW S \in SUBSET Nat, S # {}
  PROVE  Min(S) \in S /\ \A y \in S : Min(S) <= y
<1>1. PICK x \in S : \A y \in S : ~ (<<y, x>> \in OpToRel(<, Nat))
  BY NatLessThanWellFounded, WFMin
<1>2. ASSUME NEW y \in S PROVE x <= y
  <2>1. <<y, x>> \in Nat \X Nat /\ <<y, x>>[1] = y /\ <<y, x>>[2] = x
    OBVIOUS
  <2>2. y < x => <<y, x>> \in OpToRel(<, Nat)
    BY <2>1 DEF OpToRel
  <2>3. ~ (y < x)
    BY <1>1, <2>2, Zenon
  <2> QED
    BY <2>3
<1> QED
  BY <1>2 DEF Min

(***************************************************************************)
(* The larger of one and another number.                                   *)
(***************************************************************************)
LEMMA AtLeastOne ==
  ASSUME NEW n \in Int
  PROVE  Max({1, n}) \in Int /\ Max({1, n}) >= 1 /\ Max({1, n}) >= n
<1>1. \E x \in {1, n} : \A y \in {1, n} : x >= y
  BY SMT
<1>2. Max({1, n}) \in {1, n} /\ \A y \in {1, n} : Max({1, n}) >= y
  BY <1>1 DEF Max
<1> QED
  BY <1>2

(***************************************************************************)
(* math.ceil: so many seconds are no shorter than the ticks.               *)
(***************************************************************************)
LEMMA SecondsRoundUp ==
  ASSUME NEW ticks \in Int, NEW n \in Int, n >= Seconds(ticks)
  PROVE  Seconds(ticks) \in Int /\ Second * n \in Int /\ Second * n >= ticks
<1>1. Second \in Int /\ Second > 0
  BY LimiterAssumption
<1>2. PICK s \in Int : s = Seconds(ticks)
  BY <1>1 DEF Seconds
<1>3. Second * s >= ticks
  BY <1>1, <1>2 DEF Seconds
<1>4. Second * n >= Second * s
  BY <1>1, <1>2
<1> QED
  BY <1>1, <1>2, <1>3, <1>4

-----------------------------------------------------------------------------
Checks == [check : Nat, now : Nat, at : Nat]

Scripts ==
  [check : Nat, now : Nat, time : Nat, allowed : BOOLEAN, retryAfter : Int, answered : BOOLEAN]

Scores == [check : Nat, score : Nat]

LimiterTypes ==
  /\ time \in Nat
  /\ members \subseteq Scores /\ IsFiniteSet(members)
  /\ deadline \in Nat /\ begun \in Nat
  /\ sent \subseteq Checks
  /\ log \in Seq(Scripts)
  /\ since \in 0..Len(log)

(***************************************************************************)
(* How far the time a check brings is from that at which its script runs.  *)
(***************************************************************************)
ClocksApart ==
  /\ \A c \in sent :
       c.at <= c.now /\ c.now <= c.at + MaxSkew /\ c.at <= time /\ time <= c.at + MaxDelay
  /\ \A n \in DOMAIN log :
       /\ log[n].now <= log[n].time + MaxSkew /\ log[n].time <= log[n].now + MaxDelay
       /\ log[n].time <= time
  /\ \A m, n \in DOMAIN log : m <= n => log[m].time <= log[n].time

(***************************************************************************)
(* A script that runs again brings the time it brought before, and runs    *)
(* no more when it has been answered.                                      *)
(***************************************************************************)
ChecksHaveOneTime ==
  /\ \A c \in sent : c.check <= begun /\ \A d \in sent : c.check = d.check => c = d
  /\ \A n \in DOMAIN log :
       /\ log[n].check <= begun
       /\ \A c \in sent : log[n].check = c.check => log[n].now = c.now /\ ~log[n].answered
  /\ \A m, n \in DOMAIN log : log[m].check = log[n].check =>
       log[m].now = log[n].now /\ (m # n => ~log[m].answered \/ ~log[n].answered)

MemberOf(n) == [check |-> log[n].check, score |-> log[n].now]

MembersWereAllowed ==
  /\ Cardinality(members) <= Limit
  /\ \A x \in members : \E n \in DOMAIN log : Allowed(n) /\ MemberOf(n) = x

(***************************************************************************)
(* An allowed check is a member until a window has passed, less the        *)
(* spread; the key does not go before that either.                         *)
(***************************************************************************)
AllowedStay ==
  \A n \in DOMAIN log : Allowed(n) =>
    /\ deadline >= log[n].time + Window
    /\ MemberOf(n) \in Members \/ time - log[n].time >= Window - Spread

LaterThan(t) == {x \in members : x.score > t}

(***************************************************************************)
(* As long as nobody is allowed after a refusal, the members that will be  *)
(* left when the refused check comes back leave room for it.               *)
(***************************************************************************)
RoomAfterWait ==
  \A m \in DOMAIN log :
    since < m /\ (\A k \in m..Len(log) : ~log[k].allowed) =>
      Cardinality(LaterThan(log[m].now + Second * log[m].retryAfter - Window)) < Limit

HistoryInv == LimiterTypes /\ ClocksApart /\ ChecksHaveOneTime

LimiterInv ==
  /\ HistoryInv
  /\ MembersWereAllowed /\ AllowedStay /\ RoomAfterWait
  /\ WindowRespected /\ RefusedOnlyWhenFull /\ RetryAfterSuffices

-----------------------------------------------------------------------------
(***************************************************************************)
(* No check has been sent, and the set is empty.                           *)
(***************************************************************************)
LEMMA LimiterStart == time = 1 /\ LimiterInit => LimiterInv
<1> SUFFICES ASSUME time = 1, LimiterInit PROVE LimiterInv
  OBVIOUS
<1>1. /\ members = {} /\ deadline = 0 /\ begun = 0 /\ sent = {} /\ log = <<>> /\ since = 0
      /\ DOMAIN log = {} /\ Len(log) = 0 /\ log \in Seq(Scripts)
  BY DEF LimiterInit, NoKey
<1>2. IsFiniteSet(members) /\ Cardinality(members) = 0 /\ Limit > 0 /\ Limit \in Nat
  BY <1>1, FS_EmptySet, LimiterAssumption
<1>3. HistoryInv
  BY <1>1, <1>2 DEF HistoryInv, LimiterTypes, ClocksApart, ChecksHaveOneTime
<1>4. MembersWereAllowed /\ AllowedStay /\ RoomAfterWait
  BY <1>1, <1>2 DEF MembersWereAllowed, AllowedStay, RoomAfterWait
<1>5. WindowRespected /\ RefusedOnlyWhenFull /\ RetryAfterSuffices
  BY <1>1 DEF WindowRespected, RefusedOnlyWhenFull, RetryAfterSuffices
<1> QED
  BY <1>3, <1>4, <1>5 DEF LimiterInv

(***************************************************************************)
(* What is in the log.                                                     *)
(***************************************************************************)
LEMMA LogTypes ==
  ASSUME LimiterTypes
  PROVE  /\ log \in Seq(Scripts) /\ Len(log) \in Nat /\ DOMAIN log = 1..Len(log)
         /\ \A n \in DOMAIN log :
              /\ log[n].check \in Nat /\ log[n].now \in Nat /\ log[n].time \in Nat
              /\ log[n].allowed \in BOOLEAN /\ log[n].answered \in BOOLEAN
              /\ log[n].retryAfter \in Int
<1>1. log \in Seq(Scripts) /\ Len(log) \in Nat /\ DOMAIN log = 1..Len(log)
  BY DEF LimiterTypes
<1>2. \A n \in 1..Len(log) : log[n] \in Scripts
  BY <1>1
<1> QED
  BY <1>1, <1>2 DEF Scripts

(***************************************************************************)
(* The members in the window are some of the members there are.            *)
(***************************************************************************)
LEMMA InWindowFinite ==
  ASSUME LimiterTypes, NEW c \in sent
  PROVE  /\ InWindow(c) \subseteq Members /\ InWindow(c) \subseteq members
         /\ IsFiniteSet(InWindow(c)) /\ Cardinality(InWindow(c)) \in Nat
         /\ Cardinality(InWindow(c)) <= Cardinality(members)
<1>1. InWindow(c) \subseteq Members /\ Members \subseteq members
  BY DEF InWindow, Members
<1> QED
  BY <1>1, FS_Subset, FS_CardinalityType DEF LimiterTypes

(***************************************************************************)
(* Nothing of the history matters but the log since the last reset.        *)
(***************************************************************************)
LEMMA LogKept ==
  ASSUME LimiterInv, UNCHANGED <<members, deadline, log, since>>,
         HistoryInv', AllowedStay'
  PROVE  LimiterInv'
<1>1. MembersWereAllowed' /\ RoomAfterWait'
  BY DEF LimiterInv, MembersWereAllowed, RoomAfterWait, Allowed, MemberOf, LaterThan
<1>2. WindowRespected' /\ RefusedOnlyWhenFull' /\ RetryAfterSuffices'
  BY DEF LimiterInv, WindowRespected, RefusedOnlyWhenFull, RetryAfterSuffices, Allowed
<1> QED
  BY <1>1, <1>2 DEF LimiterInv

(***************************************************************************)
(* Date.now() by the clock of an instance, and a check no one else has.    *)
(***************************************************************************)
LEMMA SendCheckInv ==
  ASSUME LimiterInv, NEW i \in Instances, SendCheck(i), UNCHANGED time
  PROVE  LimiterInv'
<1>1. Skew[i] \in 0..MaxSkew /\ MaxSkew \in Nat /\ MaxDelay \in Nat
  BY LimiterAssumption
<1> DEFINE c == [check |-> begun + 1, now |-> time + Skew[i], at |-> time]
<1>2. /\ begun' = begun + 1 /\ sent' = sent \cup {c}
      /\ UNCHANGED <<members, deadline, log, since>>
  BY DEF SendCheck
<1>3. /\ time \in Nat /\ begun \in Nat /\ begun' \in Nat /\ c \in Checks
      /\ c.check = begun + 1 /\ c.now = time + Skew[i] /\ c.at = time
  BY <1>1, <1>2 DEF LimiterInv, HistoryInv, LimiterTypes, Checks
<1> HIDE DEF c
<1>4. LimiterTypes'
  BY <1>2, <1>3 DEF LimiterInv, HistoryInv, LimiterTypes
<1>5. ClocksApart'
  BY <1>1, <1>2, <1>3 DEF LimiterInv, HistoryInv, ClocksApart
<1>6. \A d \in sent : d.check \in Nat
  BY DEF LimiterInv, HistoryInv, LimiterTypes, Checks
<1>7. \A n \in DOMAIN log : log[n].check \in Nat
  BY LogTypes DEF LimiterInv, HistoryInv
<1>8. ChecksHaveOneTime'
  BY <1>2, <1>3, <1>6, <1>7 DEF LimiterInv, HistoryInv, ChecksHaveOneTime
<1>9. AllowedStay'
  BY <1>2 DEF LimiterInv, AllowedStay, Allowed, MemberOf, Members, Alive
<1> QED
  BY <1>2, <1>4, <1>5, <1>8, <1>9, LogKept DEF HistoryInv

(***************************************************************************)
(* A check that throws without its script.                                 *)
(***************************************************************************)
LEMMA LoseCheckInv ==
  ASSUME LimiterInv, NEW c \in sent, LoseCheck(c), UNCHANGED time
  PROVE  LimiterInv'
<1>1. sent' \subseteq sent /\ UNCHANGED <<members, deadline, begun, log, since>>
  BY DEF LoseCheck
<1>2. HistoryInv'
  BY <1>1 DEF LimiterInv, HistoryInv, LimiterTypes, ClocksApart, ChecksHaveOneTime
<1>3. AllowedStay'
  BY <1>1 DEF LimiterInv, AllowedStay, Allowed, MemberOf, Members, Alive
<1> QED
  BY <1>1, <1>2, <1>3, LogKept

(***************************************************************************)
(* Time passes; a key whose deadline it reaches has been there for a       *)
(* window since each check that was allowed.                               *)
(***************************************************************************)
LEMMA TickInv ==
  ASSUME LimiterInv, Tick, InTime, UNCHANGED limiterVars
  PROVE  LimiterInv'
<1>1. /\ time' = time + 1 /\ UNCHANGED <<members, deadline, begun, sent, log, since>>
      /\ \A c \in sent : time < c.at + MaxDelay
  BY DEF Tick, InTime, limiterVars
<1>2. time \in Nat /\ MaxDelay \in Nat /\ MaxSkew \in Nat /\ Window \in Nat
  BY LimiterAssumption DEF LimiterInv, HistoryInv, LimiterTypes
<1>3. /\ \A c \in sent : c.at \in Nat /\ c.now \in Nat
      /\ \A n \in DOMAIN log : log[n].time \in Nat
  BY LogTypes DEF LimiterInv, HistoryInv, LimiterTypes, Checks
<1>4. HistoryInv'
  BY <1>1, <1>2, <1>3 DEF LimiterInv, HistoryInv, LimiterTypes, ClocksApart, ChecksHaveOneTime
<1>5. AllowedStay'
  <2> SUFFICES ASSUME NEW n \in DOMAIN log, Allowed(n)
               PROVE  /\ deadline >= log[n].time + Window
                      /\ MemberOf(n) \in Members' \/ time' - log[n].time >= Window - Spread
    BY <1>1 DEF AllowedStay, Allowed, MemberOf
  <2>1. deadline >= log[n].time + Window
    BY DEF LimiterInv, AllowedStay
  <2>2. CASE MemberOf(n) \in Members /\ deadline > time + 1
    BY <1>1, <1>2, <2>1, <2>2 DEF Members, Alive
  <2>3. CASE ~(deadline > time + 1)
    BY <1>1, <1>2, <1>3, <2>1, <2>3 DEF Spread, LimiterInv, HistoryInv, LimiterTypes
  <2>4. CASE time - log[n].time >= Window - Spread
    BY <1>1, <1>2, <1>3, <2>1, <2>4 DEF Spread
  <2> QED
    BY <2>2, <2>3, <2>4 DEF LimiterInv, AllowedStay
<1> QED
  BY <1>1, <1>4, <1>5, LogKept

(***************************************************************************)
(* DEL: what was before it does not count any more.                        *)
(***************************************************************************)
LEMMA ResetInv ==
  ASSUME LimiterInv, Reset, UNCHANGED time
  PROVE  LimiterInv'
<1>1. /\ members' = {} /\ deadline' = 0 /\ since' = Len(log) /\ UNCHANGED <<begun, sent, log>>
  BY DEF Reset, NoKey
<1>2. log \in Seq(Scripts) /\ Len(log) \in Nat /\ DOMAIN log = 1..Len(log)
  BY DEF LimiterInv, HistoryInv, LimiterTypes
<1>3. IsFiniteSet(members') /\ Cardinality(members') = 0 /\ Limit \in Nat
  BY <1>1, FS_EmptySet, LimiterAssumption
<1>4. HistoryInv'
  BY <1>1, <1>2, <1>3 DEF LimiterInv, HistoryInv, LimiterTypes, ClocksApart, ChecksHaveOneTime
<1>5. \A n \in DOMAIN log : ~(n > since')
  BY <1>1, <1>2
<1>6. MembersWereAllowed' /\ AllowedStay' /\ RoomAfterWait'
  BY <1>1, <1>2, <1>3, <1>5 DEF MembersWereAllowed, AllowedStay, RoomAfterWait, Allowed
<1>7. WindowRespected' /\ RefusedOnlyWhenFull' /\ RetryAfterSuffices'
  BY <1>1, <1>2, <1>5 DEF WindowRespected, RefusedOnlyWhenFull, RetryAfterSuffices, Allowed
<1> QED
  BY <1>4, <1>6, <1>7 DEF LimiterInv

-----------------------------------------------------------------------------
(***************************************************************************)
(* An execution of the script goes to the end of the log; the check that   *)
(* brought it comes again only if it was not answered.                     *)
(***************************************************************************)
LEMMA ScriptLogged ==
  ASSUME LimiterInv, NEW c \in sent, NEW allowed \in BOOLEAN, NEW retryAfter \in Int,
         Answer(c, allowed, retryAfter), UNCHANGED time,
         members' \subseteq Scores, IsFiniteSet(members'), deadline' \in Nat
  PROVE  /\ HistoryInv' /\ since' = since /\ since \in 0..Len(log) /\ Len(log) \in Nat
         /\ Len(log') = Len(log) + 1 /\ DOMAIN log' = 1..(Len(log) + 1) /\ DOMAIN log = 1..Len(log)
         /\ \A k \in DOMAIN log : log'[k] = log[k]
         /\ log'[Len(log) + 1].check = c.check /\ log'[Len(log) + 1].now = c.now
         /\ log'[Len(log) + 1].time = time /\ log'[Len(log) + 1].allowed = allowed
         /\ log'[Len(log) + 1].retryAfter = retryAfter
<1>1. PICK answered \in BOOLEAN :
        /\ sent' = IF answered THEN sent \ {c} ELSE sent
        /\ log' = Append(log, [check |-> c.check, now |-> c.now, time |-> time, allowed |-> allowed,
                               retryAfter |-> retryAfter, answered |-> answered])
        /\ UNCHANGED <<begun, since>>
  BY DEF Answer
<1> DEFINE e == [check |-> c.check, now |-> c.now, time |-> time, allowed |-> allowed,
                 retryAfter |-> retryAfter, answered |-> answered]
<1>2. HistoryInv /\ LimiterTypes /\ ClocksApart /\ ChecksHaveOneTime
  BY DEF LimiterInv, HistoryInv
<1>3. /\ c.check \in Nat /\ c.now \in Nat /\ c.at \in Nat /\ time \in Nat
      /\ since \in 0..Len(log) /\ begun \in Nat /\ MaxSkew \in Nat /\ MaxDelay \in Nat
  BY <1>2, LimiterAssumption DEF LimiterTypes, Checks
<1>4. /\ e \in Scripts /\ e.check = c.check /\ e.now = c.now /\ e.time = time
      /\ e.allowed = allowed /\ e.retryAfter = retryAfter /\ e.answered = answered
  BY <1>3 DEF Scripts
<1>5. log' = Append(log, e)
  BY <1>1
<1> HIDE DEF e
<1>6. log \in Seq(Scripts) /\ Len(log) \in Nat /\ DOMAIN log = 1..Len(log)
  BY <1>2, LogTypes
<1>7. /\ log' \in Seq(Scripts) /\ Len(log') = Len(log) + 1 /\ DOMAIN log' = 1..(Len(log) + 1)
      /\ \A k \in DOMAIN log : log'[k] = log[k]
      /\ log'[Len(log) + 1] = e
  BY <1>4, <1>5, <1>6
<1>8. PICK n \in Nat : n = Len(log) + 1
  BY <1>6
<1>9. /\ DOMAIN log' = DOMAIN log \cup {n} /\ log'[n] = e /\ n \notin DOMAIN log
      /\ \A k \in DOMAIN log : k < n
  BY <1>6, <1>7, <1>8
<1>10. /\ sent' \subseteq sent /\ UNCHANGED <<begun, since>>
       /\ \A d \in sent' : d = c => ~answered
  BY <1>1
<1>11. LimiterTypes'
  BY <1>2, <1>3, <1>6, <1>7, <1>10 DEF LimiterTypes
<1>12. \A k \in DOMAIN log : log[k].time <= time /\ log[k].time \in Nat
  BY <1>2, LogTypes DEF ClocksApart
<1>13. e.now <= time + MaxSkew /\ time <= e.now + MaxDelay
  BY <1>2, <1>3, <1>4 DEF ClocksApart
<1>14. ClocksApart'
  <2>1. \A d \in sent' : /\ d.at <= d.now /\ d.now <= d.at + MaxSkew
                         /\ d.at <= time' /\ time' <= d.at + MaxDelay
    BY <1>2, <1>10 DEF ClocksApart
  <2>2. \A k \in DOMAIN log' :
          /\ log'[k].now <= log'[k].time + MaxSkew /\ log'[k].time <= log'[k].now + MaxDelay
          /\ log'[k].time <= time'
    <3>1. ASSUME NEW k \in DOMAIN log
          PROVE  /\ log'[k].now <= log'[k].time + MaxSkew /\ log'[k].time <= log'[k].now + MaxDelay
                 /\ log'[k].time <= time'
      BY <1>2, <1>7 DEF ClocksApart
    <3>2. /\ log'[n].now <= log'[n].time + MaxSkew /\ log'[n].time <= log'[n].now + MaxDelay
          /\ log'[n].time <= time'
      BY <1>3, <1>4, <1>9, <1>13
    <3> QED
      BY <1>9, <3>1, <3>2
  <2>3. ASSUME NEW j \in DOMAIN log', NEW k \in DOMAIN log', j <= k
        PROVE  log'[j].time <= log'[k].time
    <3>1. CASE k = n
      BY <1>3, <1>4, <1>7, <1>9, <1>12, <3>1
    <3>2. CASE k # n
      <4>1. k \in DOMAIN log /\ j \in DOMAIN log
        BY <1>6, <1>8, <1>9, <2>3, <3>2
      <4> QED
        BY <1>2, <1>7, <2>3, <4>1 DEF ClocksApart
    <3> QED
      BY <3>1, <3>2
  <2> QED
    BY <2>1, <2>2, <2>3 DEF ClocksApart
<1>15. ChecksHaveOneTime'
  <2>1. \A k \in DOMAIN log : log[k].check = c.check => log[k].now = c.now /\ ~log[k].answered
    BY <1>2 DEF ChecksHaveOneTime
  <2>2. \A d \in sent' : d.check <= begun' /\ \A f \in sent' : d.check = f.check => d = f
    BY <1>2, <1>10 DEF ChecksHaveOneTime
  <2>3. \A k \in DOMAIN log' :
          /\ log'[k].check <= begun'
          /\ \A d \in sent' : log'[k].check = d.check => log'[k].now = d.now /\ ~log'[k].answered
    <3>1. ASSUME NEW k \in DOMAIN log
          PROVE  /\ log'[k].check <= begun'
                 /\ \A d \in sent' :
                      log'[k].check = d.check => log'[k].now = d.now /\ ~log'[k].answered
      BY <1>2, <1>7, <1>10 DEF ChecksHaveOneTime
    <3>2. /\ log'[n].check <= begun'
          /\ \A d \in sent' : log'[n].check = d.check => log'[n].now = d.now /\ ~log'[n].answered
      BY <1>2, <1>4, <1>9, <1>10 DEF ChecksHaveOneTime
    <3> QED
      BY <1>9, <3>1, <3>2
  <2>4. ASSUME NEW j \in DOMAIN log', NEW k \in DOMAIN log', log'[j].check = log'[k].check
        PROVE  log'[j].now = log'[k].now /\ (j # k => ~log'[j].answered \/ ~log'[k].answered)
    <3>1. CASE j = n /\ k = n
      BY <3>1
    <3>2. CASE j = n /\ k \in DOMAIN log
      BY <1>4, <1>7, <1>9, <2>1, <2>4, <3>2
    <3>3. CASE j \in DOMAIN log /\ k = n
      BY <1>4, <1>7, <1>9, <2>1, <2>4, <3>3
    <3>4. CASE j \in DOMAIN log /\ k \in DOMAIN log
      BY <1>2, <1>7, <2>4, <3>4 DEF ChecksHaveOneTime
    <3> QED
      BY <1>9, <3>1, <3>2, <3>3, <3>4
  <2> QED
    BY <2>2, <2>3, <2>4 DEF ChecksHaveOneTime
<1> QED
  BY <1>3, <1>4, <1>6, <1>7, <1>10, <1>11, <1>14, <1>15 DEF HistoryInv

(***************************************************************************)
(* ZREMRANGEBYSCORE removes no check that was allowed less than a window   *)
(* ago, less the spread.                                                   *)
(***************************************************************************)
LEMMA TooOldOrInWindow ==
  ASSUME LimiterInv, NEW c \in sent, NEW n \in DOMAIN log, Allowed(n),
         ~(time - log[n].time >= Window - Spread)
  PROVE  MemberOf(n) \in InWindow(c)
<1>1. MemberOf(n) \in Members
  BY DEF LimiterInv, AllowedStay
<1>2. /\ c.at \in Nat /\ c.now \in Nat /\ time \in Nat
      /\ c.now <= c.at + MaxSkew /\ c.at <= time
  BY DEF LimiterInv, HistoryInv, LimiterTypes, ClocksApart, Checks
<1>3. log[n].now \in Nat /\ log[n].time \in Nat /\ log[n].time <= log[n].now + MaxDelay
  BY LogTypes DEF LimiterInv, HistoryInv, ClocksApart
<1>4. MaxSkew \in Nat /\ MaxDelay \in Nat /\ Window \in Nat
  BY LimiterAssumption
<1>5. log[n].now > c.now - Window
  BY <1>2, <1>3, <1>4 DEF Spread
<1> QED
  BY <1>1, <1>5 DEF InWindow, MemberOf

(***************************************************************************)
(* Refused or not, what was allowed stays as long as it has to.            *)
(***************************************************************************)
LEMMA AllowedStayInWindow ==
  ASSUME LimiterInv, NEW c \in sent, NEW n \in DOMAIN log, Allowed(n), UNCHANGED time,
         InWindow(c) \subseteq members', deadline' \in Nat, deadline' >= log[n].time + Window
  PROVE  MemberOf(n) \in Members' \/ time' - log[n].time >= Window - Spread
<1>1. /\ time \in Nat /\ log[n].time \in Nat /\ Window \in Nat /\ Spread \in Nat
  BY LogTypes, LimiterAssumption DEF LimiterInv, HistoryInv, LimiterTypes, Spread
<1>2. CASE time - log[n].time >= Window - Spread
  BY <1>1, <1>2
<1>3. CASE ~(time - log[n].time >= Window - Spread)
  <2>1. MemberOf(n) \in members'
    BY <1>3, TooOldOrInWindow
  <2>2. deadline' > time'
    BY <1>1, <1>3
  <2> QED
    BY <1>1, <2>1, <2>2 DEF Members, Alive
<1> QED
  BY <1>2, <1>3

-----------------------------------------------------------------------------
GrantedChecks == {n \in DOMAIN log : Allowed(n) /\ log[n].answered}

CountedFor(n) ==
  {m \in 1..(n - 1) : Allowed(m) /\ log[m].time > log[n].time - Window - Spread}

ChecksOf(ns) == {log[n].check : n \in ns}

(***************************************************************************)
(* What the properties of the limiter say of an execution that is not the  *)
(* last one does not change when another is logged.                        *)
(***************************************************************************)
LEMMA EarlierAsBefore ==
  ASSUME LimiterInv, UNCHANGED since, Len(log') = Len(log) + 1, DOMAIN log' = 1..(Len(log) + 1),
         \A k \in DOMAIN log : log'[k] = log[k],
         NEW n \in DOMAIN log
  PROVE  /\ \A m \in DOMAIN log :
              m \in GrantedChecks /\ n \in GrantedChecks /\ m < n
                /\ Cardinality(GrantedChecks' \cap (m..n)) > Limit
                => log'[n].time - log'[m].time >= Window - Spread
         /\ n > since' /\ ~log'[n].allowed => Cardinality(ChecksOf(CountedFor(n))') >= Limit
         /\ \A m \in DOMAIN log :
              /\ since < m /\ m < n
              /\ ~log'[m].allowed
              /\ log'[n].now >= log'[m].now + Second * log'[m].retryAfter
              /\ \A k \in m..(n - 1) : ~log'[k].allowed
              => log'[n].allowed
<1>1. Len(log) \in Nat /\ DOMAIN log = 1..Len(log) /\ since \in Nat
  BY LogTypes DEF LimiterInv, HistoryInv, LimiterTypes
<1>2. ASSUME NEW m \in DOMAIN log PROVE GrantedChecks' \cap (m..n) = GrantedChecks \cap (m..n)
  <2>1. \A k \in m..n : k \in DOMAIN log /\ k \in DOMAIN log'
    BY <1>1
  <2> QED
    BY <2>1 DEF GrantedChecks, Allowed
<1>3. ChecksOf(CountedFor(n))' = ChecksOf(CountedFor(n))
  <2>1. \A k \in 1..(n - 1) : k \in DOMAIN log
    BY <1>1
  <2>2. CountedFor(n)' = CountedFor(n) /\ CountedFor(n) \subseteq DOMAIN log
    BY <2>1 DEF CountedFor, Allowed
  <2> QED
    BY <2>2 DEF ChecksOf
<1>4. \A m \in DOMAIN log : m \in GrantedChecks /\ n \in GrantedChecks /\ m < n
                /\ Cardinality(GrantedChecks' \cap (m..n)) > Limit
                => log'[n].time - log'[m].time >= Window - Spread
  BY <1>2 DEF LimiterInv, WindowRespected, GrantedChecks
<1>5. n > since' /\ ~log'[n].allowed => Cardinality(ChecksOf(CountedFor(n))') >= Limit
  BY <1>3 DEF LimiterInv, RefusedOnlyWhenFull, ChecksOf, CountedFor
<1>6. ASSUME NEW m \in DOMAIN log, since < m, m < n, ~log'[m].allowed,
             log'[n].now >= log'[m].now + Second * log'[m].retryAfter,
             \A k \in m..(n - 1) : ~log'[k].allowed
      PROVE  log'[n].allowed
  <2>1. \A k \in m..(n - 1) : ~log[k].allowed
    BY <1>1, <1>6
  <2> QED
    BY <1>6, <2>1 DEF LimiterInv, RetryAfterSuffices
<1> QED
  BY <1>4, <1>5, <1>6

(***************************************************************************)
(* The members in the window of a check are of checks that were allowed in *)
(* the window before it, but for the spread.                               *)
(***************************************************************************)
LEMMA InWindowIsCounted ==
  ASSUME LimiterInv, NEW c \in sent, NEW counted,
         counted = {m \in DOMAIN log : Allowed(m) /\ log[m].time > time - Window - Spread}
  PROVE  /\ Cardinality(InWindow(c)) <= Cardinality(ChecksOf(counted))
         /\ Cardinality(ChecksOf(counted)) \in Nat
<1>1. LimiterTypes /\ c.at \in Nat /\ c.now \in Nat /\ time \in Nat /\ c.at <= c.now /\ time <= c.at + MaxDelay
  BY DEF LimiterInv, HistoryInv, LimiterTypes, ClocksApart, Checks
<1>2. MaxSkew \in Nat /\ MaxDelay \in Nat /\ Window \in Nat
  BY LimiterAssumption
<1> DEFINE f == [x \in InWindow(c) |-> x.check]
<1>3. ASSUME NEW x \in InWindow(c)
      PROVE  \E m \in counted : MemberOf(m) = x
  <2>1. x \in members /\ x.score > c.now - Window
    BY <1>1, InWindowFinite DEF InWindow
  <2>2. PICK m \in DOMAIN log : Allowed(m) /\ MemberOf(m) = x
    BY <2>1 DEF LimiterInv, MembersWereAllowed
  <2>3. /\ log[m].now = x.score /\ log[m].now \in Nat /\ log[m].time \in Nat
        /\ log[m].now <= log[m].time + MaxSkew
    BY <2>2, LogTypes DEF MemberOf, LimiterInv, HistoryInv, ClocksApart
  <2>4. log[m].time > time - Window - Spread
    BY <1>1, <1>2, <2>1, <2>3 DEF Spread
  <2> QED
    BY <2>2, <2>4
<1>4. f \in [InWindow(c) -> ChecksOf(counted)]
  <2>1. \A x \in InWindow(c) : x.check \in ChecksOf(counted)
    BY <1>3 DEF ChecksOf, MemberOf
  <2> QED
    BY <2>1
<1>5. ASSUME NEW x \in InWindow(c), NEW y \in InWindow(c), f[x] = f[y] PROVE x = y
  <2>1. PICK m \in counted : MemberOf(m) = x
    BY <1>3
  <2>2. PICK n \in counted : MemberOf(n) = y
    BY <1>3
  <2>3. log[m].check = log[n].check
    BY <1>5, <2>1, <2>2 DEF MemberOf
  <2>4. log[m].now = log[n].now
    BY <2>3 DEF LimiterInv, HistoryInv, ChecksHaveOneTime
  <2> QED
    BY <2>1, <2>2, <2>3, <2>4 DEF MemberOf
<1>6. f \in Injection(InWindow(c), ChecksOf(counted))
  BY <1>4, <1>5 DEF Injection, IsInjective
<1>7. IsFiniteSet(ChecksOf(counted))
  <2>1. ChecksOf(counted) \subseteq 0..begun
    BY <1>1, LogTypes DEF ChecksOf, LimiterInv, HistoryInv, ChecksHaveOneTime, LimiterTypes
  <2>2. IsFiniteSet(0..begun)
    BY <1>1, FS_Interval DEF LimiterTypes
  <2> QED
    BY <2>1, <2>2, FS_Subset
<1> QED
  BY <1>6, <1>7, FS_Injection, FS_CardinalityType

(***************************************************************************)
(* Retry-After is long enough for the oldest member to leave the window.   *)
(***************************************************************************)
LEMMA RetryAfterIsEnough ==
  ASSUME LimiterInv, NEW c \in sent, Full(c)
  PROVE  /\ RetryAfter(c) \in Int
         /\ \E x \in InWindow(c) : ~(x.score > c.now + Second * RetryAfter(c) - Window)
<1>1. LimiterTypes /\ c.now \in Nat /\ Limit \in Nat /\ Limit > 0 /\ Window \in Nat /\ Second \in Nat
  BY LimiterAssumption DEF LimiterInv, HistoryInv, LimiterTypes, Checks
<1> DEFINE S == {m.score : m \in InWindow(c)}
<1>2. InWindow(c) # {} /\ InWindow(c) \subseteq Scores
  BY <1>1, InWindowFinite, FS_EmptySet DEF Full, LimiterTypes
<1>3. S \in SUBSET Nat /\ S # {}
  BY <1>2 DEF Scores
<1>4. Oldest(c) \in S /\ Oldest(c) = Min(S)
  BY <1>3, LeastOfNaturals DEF Oldest
<1>5. PICK x \in InWindow(c) : x.score = Oldest(c)
  BY <1>4
<1> DEFINE ticks == Window - (c.now - Oldest(c))
<1>6. ticks \in Int /\ Oldest(c) \in Nat
  BY <1>1, <1>3, <1>4
<1>7. Seconds(ticks) \in Int
  BY <1>1, <1>6, LimiterAssumption DEF Seconds
<1>8. RetryAfter(c) \in Int /\ RetryAfter(c) >= Seconds(ticks)
  BY <1>7, AtLeastOne DEF RetryAfter
<1>9. Second * RetryAfter(c) \in Int /\ Second * RetryAfter(c) >= ticks
  BY <1>6, <1>8, SecondsRoundUp
<1>10. ~(x.score > c.now + Second * RetryAfter(c) - Window)
  BY <1>1, <1>5, <1>6, <1>9
<1> QED
  BY <1>8, <1>10

(***************************************************************************)
(* The script refuses: the set is full with checks of the window, and when *)
(* the oldest has left it there is room.                                   *)
(***************************************************************************)
LEMMA RefuseInv ==
  ASSUME LimiterInv, NEW c \in sent, Refuse(c), UNCHANGED time
  PROVE  LimiterInv'
<1>1. /\ Full(c) /\ members' = InWindow(c) /\ deadline' = deadline
      /\ Answer(c, FALSE, RetryAfter(c))
  BY DEF Refuse
<1>2. LimiterTypes /\ Limit \in Nat /\ Window \in Nat /\ Second \in Nat /\ Spread \in Nat
  BY LimiterAssumption DEF LimiterInv, HistoryInv, Spread
<1>3. /\ InWindow(c) \subseteq members /\ InWindow(c) \subseteq Scores /\ IsFiniteSet(InWindow(c))
      /\ Cardinality(InWindow(c)) \in Nat /\ Cardinality(InWindow(c)) <= Cardinality(members)
      /\ deadline \in Nat /\ IsFiniteSet(members)
  BY <1>2, InWindowFinite DEF LimiterTypes
<1>4. PICK n \in Nat : n = Len(log) + 1
  BY <1>2, LogTypes
<1>5. /\ HistoryInv' /\ since' = since /\ since \in Nat /\ since < n
      /\ Len(log') = n /\ DOMAIN log' = 1..n /\ DOMAIN log = 1..(n - 1)
      /\ \A k \in DOMAIN log : log'[k] = log[k]
      /\ log'[n].check = c.check /\ log'[n].now = c.now /\ log'[n].time = time
      /\ ~log'[n].allowed /\ log'[n].retryAfter = RetryAfter(c)
  <2>1. RetryAfter(c) \in Int /\ FALSE \in BOOLEAN
    BY <1>1, RetryAfterIsEnough
  <2>2. members' \subseteq Scores /\ IsFiniteSet(members') /\ deadline' \in Nat
    BY <1>1, <1>3
  <2>3. /\ HistoryInv' /\ since' = since /\ since \in 0..Len(log) /\ Len(log) \in Nat
        /\ Len(log') = Len(log) + 1 /\ DOMAIN log' = 1..(Len(log) + 1) /\ DOMAIN log = 1..Len(log)
        /\ \A k \in DOMAIN log : log'[k] = log[k]
        /\ log'[Len(log) + 1].check = c.check /\ log'[Len(log) + 1].now = c.now
        /\ log'[Len(log) + 1].time = time /\ log'[Len(log) + 1].allowed = FALSE
        /\ log'[Len(log) + 1].retryAfter = RetryAfter(c)
    BY <1>1, <2>1, <2>2, ScriptLogged
  <2> QED
    BY <1>4, <2>3
<1>6. Len(log) = n - 1 /\ Len(log') = Len(log) + 1 /\ DOMAIN log' = 1..(Len(log) + 1)
  BY <1>4, <1>5, LogTypes, <1>2
<1>7. \A k \in DOMAIN log' : k \in DOMAIN log \/ k = n
  BY <1>5
<1>8. MembersWereAllowed'
  <2>1. Cardinality(members) <= Limit /\ Cardinality(members) \in Nat
    BY <1>3, FS_CardinalityType DEF LimiterInv, MembersWereAllowed
  <2>2. ASSUME NEW x \in members' PROVE \E k \in DOMAIN log' : Allowed(k)' /\ MemberOf(k)' = x
    <3>1. PICK k \in DOMAIN log : Allowed(k) /\ MemberOf(k) = x
      BY <1>1, <1>3 DEF LimiterInv, MembersWereAllowed
    <3>2. k \in DOMAIN log' /\ Allowed(k)' /\ MemberOf(k)' = x
      BY <1>5, <3>1 DEF Allowed, MemberOf
    <3> QED
      BY <3>2
  <2> QED
    BY <1>1, <1>2, <1>3, <2>1, <2>2 DEF MembersWereAllowed
<1>9. AllowedStay'
  <2> SUFFICES ASSUME NEW k \in DOMAIN log, Allowed(k)
               PROVE  /\ deadline' >= log[k].time + Window
                      /\ MemberOf(k) \in Members' \/ time' - log[k].time >= Window - Spread
    BY <1>5, <1>7 DEF AllowedStay, Allowed, MemberOf
  <2>1. deadline' >= log[k].time + Window
    BY <1>1 DEF LimiterInv, AllowedStay
  <2> QED
    BY <1>1, <1>3, <2>1, AllowedStayInWindow
<1>10. RoomAfterWait'
  <2> SUFFICES ASSUME NEW m \in DOMAIN log', since < m, \A k \in m..n : ~log'[k].allowed,
                      NEW t, t = log'[m].now + Second * log'[m].retryAfter - Window
               PROVE  Cardinality(LaterThan(t)') < Limit
    BY <1>5 DEF RoomAfterWait, LaterThan
  <2>1. LaterThan(t)' = {x \in InWindow(c) : x.score > t}
    BY <1>1 DEF LaterThan
  <2>2. CASE m = n
    <3>1. PICK x \in InWindow(c) : ~(x.score > t)
      BY <1>1, <1>5, <2>2, RetryAfterIsEnough
    <3>2. LaterThan(t)' \subseteq InWindow(c) \ {x}
      BY <2>1, <3>1
    <3>3. /\ IsFiniteSet(InWindow(c) \ {x})
          /\ Cardinality(InWindow(c) \ {x}) = Cardinality(InWindow(c)) - 1
      BY <1>3, FS_RemoveElement
    <3>4. Cardinality(LaterThan(t)') <= Cardinality(InWindow(c)) - 1 /\ Cardinality(LaterThan(t)') \in Nat
      BY <3>2, <3>3, FS_Subset, FS_CardinalityType
    <3>5. Cardinality(members) <= Limit /\ Cardinality(members) \in Nat
      BY <1>3, FS_CardinalityType DEF LimiterInv, MembersWereAllowed
    <3> QED
      BY <1>2, <1>3, <3>4, <3>5
  <2>3. CASE m # n
    <3>1. m \in DOMAIN log /\ log'[m] = log[m] /\ \A k \in m..Len(log) : ~log[k].allowed
      BY <1>5, <1>6, <1>7, <2>3
    <3>2. Cardinality(LaterThan(t)) < Limit
      BY <3>1 DEF LimiterInv, RoomAfterWait
    <3>3. LaterThan(t)' \subseteq LaterThan(t) /\ LaterThan(t) \subseteq members
      BY <1>3, <2>1 DEF LaterThan
    <3>4. IsFiniteSet(LaterThan(t))
      BY <1>3, <3>3, FS_Subset
    <3>5. /\ Cardinality(LaterThan(t)') <= Cardinality(LaterThan(t))
          /\ Cardinality(LaterThan(t)') \in Nat /\ Cardinality(LaterThan(t)) \in Nat
      BY <3>3, <3>4, FS_Subset, FS_CardinalityType
    <3> QED
      BY <1>2, <3>2, <3>5
  <2> QED
    BY <2>2, <2>3
<1>11. \A m, k \in DOMAIN log' :
         m \in GrantedChecks' /\ k \in GrantedChecks' => m \in GrantedChecks /\ k \in GrantedChecks
  BY <1>5, <1>7 DEF GrantedChecks, Allowed
<1>12. WindowRespected'
  <2> SUFFICES ASSUME NEW m \in GrantedChecks', NEW k \in GrantedChecks', m < k,
                      Cardinality(GrantedChecks' \cap (m..k)) > Limit
               PROVE  log'[k].time - log'[m].time >= Window - Spread
    BY DEF WindowRespected, GrantedChecks
  <2>1. m \in GrantedChecks /\ k \in GrantedChecks /\ m \in DOMAIN log /\ k \in DOMAIN log
    BY <1>11 DEF GrantedChecks
  <2> QED
    BY <1>5, <1>6, <2>1, EarlierAsBefore
<1>13. RefusedOnlyWhenFull'
  <2> SUFFICES ASSUME NEW k \in DOMAIN log', k > since', ~log'[k].allowed
               PROVE  Cardinality(ChecksOf(CountedFor(k))') >= Limit
    BY DEF RefusedOnlyWhenFull, ChecksOf, CountedFor
  <2>1. CASE k = n
    <3> DEFINE counted == {m \in DOMAIN log : Allowed(m) /\ log[m].time > time - Window - Spread}
    <3>1. CountedFor(k)' = counted
      BY <1>5, <2>1 DEF CountedFor, Allowed
    <3>2. ChecksOf(CountedFor(k))' = ChecksOf(counted)
      BY <1>5, <3>1 DEF ChecksOf
    <3>3. /\ Cardinality(InWindow(c)) <= Cardinality(ChecksOf(counted))
          /\ Cardinality(ChecksOf(counted)) \in Nat
      BY InWindowIsCounted
    <3> HIDE DEF counted
    <3> QED
      BY <1>1, <1>2, <1>3, <3>2, <3>3 DEF Full
  <2>2. CASE k # n
    BY <1>5, <1>6, <1>7, <2>2, EarlierAsBefore
  <2> QED
    BY <2>1, <2>2
<1>14. RetryAfterSuffices'
  <2> SUFFICES ASSUME NEW m \in DOMAIN log', NEW k \in DOMAIN log', since < m, m < k,
                      ~log'[m].allowed,
                      log'[k].now >= log'[m].now + Second * log'[m].retryAfter,
                      \A j \in m..(k - 1) : ~log'[j].allowed
               PROVE  log'[k].allowed
    BY <1>5 DEF RetryAfterSuffices
  <2>1. m \in DOMAIN log
    BY <1>5, <1>7
  <2>2. CASE k \in DOMAIN log
    BY <1>5, <1>6, <2>1, <2>2, EarlierAsBefore
  <2>3. CASE k = n
    <3>1. PICK t : t = log[m].now + Second * log[m].retryAfter - Window
      OBVIOUS
    <3>2. \A j \in m..Len(log) : ~log[j].allowed
      BY <1>5, <1>6, <2>1, <2>3
    <3>3. Cardinality(LaterThan(t)) < Limit
      BY <2>1, <3>1, <3>2 DEF LimiterInv, RoomAfterWait
    <3>4. /\ log[m].now \in Nat /\ Second * log[m].retryAfter \in Int /\ c.now \in Nat
          /\ c.now >= log[m].now + Second * log[m].retryAfter
      BY <1>2, <1>5, <2>1, <2>3, LogTypes DEF LimiterTypes, Checks
    <3>5. InWindow(c) \subseteq LaterThan(t) /\ LaterThan(t) \subseteq members
      <4>1. \A x \in InWindow(c) : x \in members /\ x.score \in Nat /\ x.score > c.now - Window
        BY <1>3 DEF InWindow, Scores
      <4>2. t \in Int /\ c.now - Window >= t
        BY <1>2, <3>1, <3>4
      <4> QED
        BY <1>2, <3>4, <4>1, <4>2 DEF LaterThan
    <3>6. Cardinality(InWindow(c)) <= Cardinality(LaterThan(t)) /\ Cardinality(LaterThan(t)) \in Nat
      BY <1>3, <3>5, FS_Subset, FS_CardinalityType
    <3> QED
      BY <1>1, <1>2, <1>3, <3>3, <3>6 DEF Full
  <2> QED
    BY <1>7, <2>2, <2>3
<1> QED
  BY <1>5, <1>8, <1>9, <1>10, <1>12, <1>13, <1>14 DEF LimiterInv

(***************************************************************************)
(* Of the checks granted since m, each is in the window of one that comes  *)
(* less than a window after m, less the spread: so they are too few for    *)
(* the limit, or the check is refused.                                     *)
(***************************************************************************)
LEMMA GrantedAreInWindow ==
  ASSUME LimiterInv, NEW c \in sent, ~Full(c), NEW m \in DOMAIN log,
         ~(time - log[m].time >= Window - Spread),
         NEW D, D = GrantedChecks \cap (m..Len(log))
  PROVE  IsFiniteSet(D) /\ Cardinality(D) \in Nat /\ Cardinality(D) < Limit
<1>1. LimiterTypes /\ Len(log) \in Nat /\ DOMAIN log = 1..Len(log)
  BY LogTypes DEF LimiterInv, HistoryInv
<1>2. \A k \in DOMAIN log : log[k].time \in Nat
  BY <1>1, LogTypes
<1>3. time \in Nat /\ Window \in Nat /\ Spread \in Nat /\ Limit \in Nat
  BY <1>1, LimiterAssumption DEF LimiterTypes, Spread
<1> DEFINE f == [k \in D |-> MemberOf(k)]
<1>4. ASSUME NEW k \in D PROVE k \in DOMAIN log /\ Allowed(k) /\ log[k].answered /\ MemberOf(k) \in InWindow(c)
  <2>1. k \in DOMAIN log /\ Allowed(k) /\ log[k].answered /\ m <= k
    BY <1>1 DEF GrantedChecks
  <2>2. log[m].time <= log[k].time
    BY <2>1 DEF LimiterInv, HistoryInv, ClocksApart
  <2>3. ~(time - log[k].time >= Window - Spread)
    BY <1>2, <1>3, <2>1, <2>2
  <2> QED
    BY <2>1, <2>3, TooOldOrInWindow
<1>5. f \in [D -> InWindow(c)]
  BY <1>4
<1>6. ASSUME NEW j \in D, NEW k \in D, f[j] = f[k] PROVE j = k
  <2>1. log[j].check = log[k].check
    BY <1>6 DEF MemberOf
  <2> QED
    BY <1>4, <2>1 DEF LimiterInv, HistoryInv, ChecksHaveOneTime
<1>7. f \in Injection(D, InWindow(c))
  BY <1>5, <1>6 DEF Injection, IsInjective
<1>8. IsFiniteSet(InWindow(c)) /\ Cardinality(InWindow(c)) \in Nat
  BY <1>1, InWindowFinite
<1>9. IsFiniteSet(D) /\ Cardinality(D) <= Cardinality(InWindow(c)) /\ Cardinality(D) \in Nat
  BY <1>7, <1>8, FS_Injection, FS_CardinalityType
<1> QED
  BY <1>3, <1>8, <1>9 DEF Full

(***************************************************************************)
(* The script allows: there was room in the window.                        *)
(***************************************************************************)
LEMMA AllowInv ==
  ASSUME LimiterInv, NEW c \in sent, Allow(c), UNCHANGED time
  PROVE  LimiterInv'
<1> DEFINE own == [check |-> c.check, score |-> c.now]
<1>1. /\ ~Full(c) /\ members' = InWindow(c) \cup {own} /\ deadline' = time + Window
      /\ Answer(c, TRUE, 0)
  BY DEF Allow
<1>2. /\ LimiterTypes /\ Limit \in Nat /\ Window \in Nat /\ Window > 0 /\ Spread \in Nat
      /\ time \in Nat /\ own \in Scores
  BY LimiterAssumption DEF LimiterInv, HistoryInv, Spread, LimiterTypes, Checks, Scores
<1> HIDE DEF own
<1>3. /\ InWindow(c) \subseteq members /\ InWindow(c) \subseteq Scores /\ IsFiniteSet(InWindow(c))
      /\ Cardinality(InWindow(c)) \in Nat
  BY <1>2, InWindowFinite DEF LimiterTypes
<1>4. /\ members' \subseteq Scores /\ IsFiniteSet(members') /\ deadline' \in Nat
      /\ Cardinality(members') <= Cardinality(InWindow(c)) + 1
  <2>1. IsFiniteSet(members')
    BY <1>1, <1>3, FS_AddElement
  <2>2. Cardinality(members')
          = IF own \in InWindow(c) THEN Cardinality(InWindow(c)) ELSE Cardinality(InWindow(c)) + 1
    BY <1>1, <1>3, FS_AddElement
  <2> QED
    BY <1>1, <1>2, <1>3, <2>1, <2>2
<1>5. PICK n \in Nat : n = Len(log) + 1
  BY <1>2, LogTypes
<1>6. /\ HistoryInv' /\ since' = since /\ since \in Nat /\ since < n
      /\ Len(log') = n /\ DOMAIN log' = 1..n /\ DOMAIN log = 1..(n - 1)
      /\ \A k \in DOMAIN log : log'[k] = log[k]
      /\ log'[n].check = c.check /\ log'[n].now = c.now /\ log'[n].time = time
      /\ log'[n].allowed
  <2>1. 0 \in Int /\ TRUE \in BOOLEAN
    OBVIOUS
  <2>2. /\ HistoryInv' /\ since' = since /\ since \in 0..Len(log) /\ Len(log) \in Nat
        /\ Len(log') = Len(log) + 1 /\ DOMAIN log' = 1..(Len(log) + 1) /\ DOMAIN log = 1..Len(log)
        /\ \A k \in DOMAIN log : log'[k] = log[k]
        /\ log'[Len(log) + 1].check = c.check /\ log'[Len(log) + 1].now = c.now
        /\ log'[Len(log) + 1].time = time /\ log'[Len(log) + 1].allowed = TRUE
    BY <1>1, <1>4, <2>1, ScriptLogged
  <2> QED
    BY <1>5, <2>2
<1>7. Len(log) = n - 1 /\ Len(log') = Len(log) + 1 /\ DOMAIN log' = 1..(Len(log) + 1)
  BY <1>2, <1>5, <1>6, LogTypes
<1>8. \A k \in DOMAIN log' : k \in DOMAIN log \/ k = n
  BY <1>6
<1>9. n \in DOMAIN log' /\ Allowed(n)' /\ MemberOf(n)' = own
  BY <1>6 DEF Allowed, MemberOf, own
<1>10. MembersWereAllowed'
  <2>1. Cardinality(members') <= Limit
    BY <1>1, <1>2, <1>3, <1>4, FS_CardinalityType DEF Full
  <2>2. ASSUME NEW x \in InWindow(c) PROVE \E k \in DOMAIN log' : Allowed(k)' /\ MemberOf(k)' = x
    <3>1. PICK k \in DOMAIN log : Allowed(k) /\ MemberOf(k) = x
      BY <1>3 DEF LimiterInv, MembersWereAllowed
    <3>2. k \in DOMAIN log' /\ Allowed(k)' /\ MemberOf(k)' = x
      BY <1>6, <3>1 DEF Allowed, MemberOf
    <3> QED
      BY <3>2
  <2> QED
    BY <1>1, <1>9, <2>1, <2>2 DEF MembersWereAllowed
<1>11. AllowedStay'
  <2>1. ASSUME NEW k \in DOMAIN log, Allowed(k)
        PROVE  /\ deadline' >= log[k].time + Window
               /\ MemberOf(k) \in Members' \/ time' - log[k].time >= Window - Spread
    <3>1. log[k].time \in Nat /\ log[k].time <= time
      BY <1>2, LogTypes DEF LimiterInv, HistoryInv, ClocksApart
    <3>2. deadline' >= log[k].time + Window
      BY <1>1, <1>2, <3>1
    <3>3. InWindow(c) \subseteq members'
      BY <1>1
    <3> QED
      BY <2>1, <1>4, <3>2, <3>3, AllowedStayInWindow
  <2>2. own \in Members' /\ deadline' >= log'[n].time + Window
    BY <1>1, <1>2, <1>6 DEF Members, Alive
  <2>3. ASSUME NEW k \in DOMAIN log', Allowed(k)'
        PROVE  /\ deadline' >= log'[k].time + Window
               /\ MemberOf(k)' \in Members' \/ time' - log'[k].time >= Window - Spread
    <3>1. CASE k = n
      BY <1>9, <2>2, <3>1
    <3>2. CASE k \in DOMAIN log
      BY <1>6, <2>1, <2>3, <3>2 DEF Allowed, MemberOf
    <3> QED
      BY <1>8, <3>1, <3>2
  <2> QED
    BY <2>3 DEF AllowedStay
<1>12. RoomAfterWait'
  BY <1>6 DEF RoomAfterWait
<1>13. WindowRespected'
  <2> SUFFICES ASSUME NEW m \in GrantedChecks', NEW k \in GrantedChecks', m < k,
                      Cardinality(GrantedChecks' \cap (m..k)) > Limit,
                      ~(log'[k].time - log'[m].time >= Window - Spread)
               PROVE  FALSE
    BY DEF WindowRespected, GrantedChecks
  <2>1. m \in DOMAIN log' /\ k \in DOMAIN log' /\ m \in DOMAIN log
    BY <1>6 DEF GrantedChecks
  <2>2. m \in GrantedChecks
    BY <1>6, <2>1 DEF GrantedChecks, Allowed
  <2>3. CASE k \in DOMAIN log
    <3>1. k \in GrantedChecks
      BY <1>6, <2>3 DEF GrantedChecks, Allowed
    <3> QED
      BY <1>6, <1>7, <2>1, <2>2, <2>3, <3>1, EarlierAsBefore
  <2>4. CASE k = n
    <3>1. PICK D : D = GrantedChecks \cap (m..Len(log))
      OBVIOUS
    <3>2. ~(time - log[m].time >= Window - Spread)
      BY <1>6, <2>1, <2>4
    <3>3. IsFiniteSet(D) /\ Cardinality(D) \in Nat /\ Cardinality(D) < Limit
      BY <1>1, <2>1, <3>1, <3>2, GrantedAreInWindow
    <3>4. GrantedChecks' \cap (m..k) \subseteq D \cup {n}
      BY <1>6, <1>7, <1>8, <2>1, <2>4, <3>1 DEF GrantedChecks, Allowed
    <3>5. /\ IsFiniteSet(D \cup {n}) /\ Cardinality(D \cup {n}) \in Nat
          /\ Cardinality(D \cup {n}) = IF n \in D THEN Cardinality(D) ELSE Cardinality(D) + 1
      BY <3>3, FS_AddElement, FS_CardinalityType
    <3>6. /\ Cardinality(GrantedChecks' \cap (m..k)) <= Cardinality(D \cup {n})
          /\ Cardinality(GrantedChecks' \cap (m..k)) \in Nat
      BY <3>4, <3>5, FS_Subset, FS_CardinalityType
    <3> QED
      BY <1>2, <3>3, <3>5, <3>6
  <2> QED
    BY <1>8, <2>1, <2>3, <2>4
<1>14. RefusedOnlyWhenFull'
  <2> SUFFICES ASSUME NEW k \in DOMAIN log', k > since', ~log'[k].allowed
               PROVE  Cardinality(ChecksOf(CountedFor(k))') >= Limit
    BY DEF RefusedOnlyWhenFull, ChecksOf, CountedFor
  <2> QED
    BY <1>6, <1>7, <1>8, EarlierAsBefore
<1>15. RetryAfterSuffices'
  <2> SUFFICES ASSUME NEW m \in DOMAIN log', NEW k \in DOMAIN log', since < m, m < k,
                      ~log'[m].allowed,
                      log'[k].now >= log'[m].now + Second * log'[m].retryAfter,
                      \A j \in m..(k - 1) : ~log'[j].allowed
               PROVE  log'[k].allowed
    BY <1>6 DEF RetryAfterSuffices
  <2>1. CASE k = n
    BY <1>6, <2>1
  <2>2. CASE k \in DOMAIN log
    <3>1. m \in DOMAIN log
      BY <1>6, <1>8, <2>2
    <3> QED
      BY <1>6, <1>7, <2>2, <3>1, EarlierAsBefore
  <2> QED
    BY <1>8, <2>1, <2>2
<1> QED
  BY <1>6, <1>10, <1>11, <1>12, <1>13, <1>14, <1>15 DEF LimiterInv

(***************************************************************************)
(* Every step of the clients, of the server and of the clocks.             *)
(***************************************************************************)
LEMMA LimiterStep ==
  LimiterInv /\ [\/ LimiterNext /\ UNCHANGED time
                 \/ Tick /\ InTime /\ UNCHANGED limiterVars]_<<time, limiterVars>>
    => LimiterInv'
<1> SUFFICES ASSUME LimiterInv,
                    [\/ LimiterNext /\ UNCHANGED time
                     \/ Tick /\ InTime /\ UNCHANGED limiterVars]_<<time, limiterVars>>
             PROVE  LimiterInv'
  OBVIOUS
<1>1. ASSUME NEW i \in Instances, SendCheck(i), UNCHANGED time PROVE LimiterInv'
  BY <1>1, SendCheckInv
<1>2. ASSUME NEW c \in sent, Refuse(c), UNCHANGED time PROVE LimiterInv'
  BY <1>2, RefuseInv
<1>3. ASSUME NEW c \in sent, Allow(c), UNCHANGED time PROVE LimiterInv'
  BY <1>3, AllowInv
<1>4. ASSUME NEW c \in sent, LoseCheck(c), UNCHANGED time PROVE LimiterInv'
  BY <1>4, LoseCheckInv
<1>5. CASE Reset /\ UNCHANGED time
  BY <1>5, ResetInv
<1>6. CASE Tick /\ InTime /\ UNCHANGED limiterVars
  BY <1>6, TickInv
<1>7. CASE UNCHANGED <<time, limiterVars>>
  <2>1. UNCHANGED <<time, members, deadline, begun, sent, log, since>>
    BY <1>7 DEF limiterVars
  <2>2. HistoryInv' /\ AllowedStay'
    BY <2>1 DEF LimiterInv, HistoryInv, LimiterTypes, ClocksApart, ChecksHaveOneTime,
                AllowedStay, Allowed, MemberOf, Members, Alive
  <2> QED
    BY <2>1, <2>2, LogKept
<1> QED
  BY <1>1, <1>2, <1>3, <1>4, <1>5, <1>6, <1>7 DEF LimiterNext

(***************************************************************************)
(* The log and the sorted set agree, whatever the clocks, the delays and   *)
(* the lost answers of RedisRateLimiter.check.                             *)
(***************************************************************************)
THEOREM LimiterInvariant == LimiterSpec => []LimiterInv
<1>1. time = 1 /\ LimiterInit => LimiterInv
  BY LimiterStart
<1>2. LimiterInv /\ [\/ LimiterNext /\ UNCHANGED time
                     \/ Tick /\ InTime /\ UNCHANGED limiterVars]_<<time, limiterVars>>
        => LimiterInv'
  BY LimiterStep
<1> QED
  BY <1>1, <1>2, PTL DEF LimiterSpec

(***************************************************************************)
(* RedisRateLimiter.check never allows more than the limit in less than a  *)
(* window, but for how far clocks and calls are apart.                     *)
(***************************************************************************)
THEOREM WindowIsRespected == LimiterSpec => []WindowRespected
<1>1. LimiterInv => WindowRespected
  BY DEF LimiterInv
<1> QED
  BY <1>1, LimiterInvariant, PTL

(***************************************************************************)
(* A check it refuses found the limit reached by checks of its window: the *)
(* script removed those that were too old.                                 *)
(***************************************************************************)
THEOREM RefusedOnlyIfFull == LimiterSpec => []RefusedOnlyWhenFull
<1>1. LimiterInv => RefusedOnlyWhenFull
  BY DEF LimiterInv
<1> QED
  BY <1>1, LimiterInvariant, PTL

(***************************************************************************)
(* The Retry-After it answers is long enough, whatever the fraction of a   *)
(* second that was left.                                                   *)
(***************************************************************************)
THEOREM RetryAfterIsLongEnough == LimiterSpec => []RetryAfterSuffices
<1>1. LimiterInv => RetryAfterSuffices
  BY DEF LimiterInv
<1> QED
  BY <1>1, LimiterInvariant, PTL

=============================================================================
