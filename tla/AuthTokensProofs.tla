-------------------------- MODULE AuthTokensProofs --------------------------
(***************************************************************************)
(* Proofs about AuthTokens, for any number of concurrent calls, token      *)
(* pairs, expiries and failures.                                           *)
(***************************************************************************)
EXTENDS AuthTokens, SequenceTheorems, FiniteSetTheorems, TLAPS

TokenRows ==
  [family : Nat, parent : Nat, used : BOOLEAN, revoked : BOOLEAN, age : 0..2]

AfterLock == {"user", "scan", "revoke", "deny", "commitRevocation", "rotate"}

Transactions ==
  [at : {"idle", "insert", "token"} \cup AfterLock,
   kind : {"none", "login", "refresh", "logout"},
   token : Nat, access : Nat, rows : SUBSET Nat, user : BOOLEAN, todo : SUBSET Nat, deny : BOOLEAN]

TypeInv ==
  /\ tokens \in Seq(TokenRows)
  /\ op \in [Calls -> Transactions]
  /\ denied \subseteq Ids /\ reused \subseteq Ids /\ loggedOut \subseteq Ids

(***************************************************************************)
(* Tokens form chains: a used token has one successor, of its family, and  *)
(* a family has one token that is not used.                                *)
(***************************************************************************)
Chains ==
  /\ \A i \in Ids : FamilyOf(i) \in 1..i
  /\ \A i, j \in Ids : tokens[i].parent = j => tokens[j].used
  /\ \A i, j, k \in Ids : tokens[i].parent = k /\ tokens[j].parent = k => i = j
  /\ \A i \in Ids : tokens[i].used => \E j \in Ids : tokens[j].parent = i
  /\ \A i \in Ids : tokens[i].parent \in 0..(i - 1)
  /\ \A i, j \in Ids : FamilyOf(i) = FamilyOf(j) /\ ~tokens[i].used /\ ~tokens[j].used => i = j

(***************************************************************************)
(* Who is at what, and with which token.                                   *)
(***************************************************************************)
Presented(c) == op[c].kind \in {"refresh", "logout"}

CallOk(c) ==
  /\ op[c].at = "idle" => op[c] = Idle
  /\ op[c].at = "insert" => op[c].kind = "login"
  /\ op[c].at \in AfterLock \cup {"token"} => Presented(c)
  /\ op[c].at \in {"user", "rotate"} => op[c].kind = "refresh"
  /\ op[c].at = "deny" => op[c].kind = "logout"
  /\ Presented(c) => op[c].token \in Ids
  /\ op[c].kind = "logout" => op[c].access \in Ids
  /\ op[c].deny => op[c].kind = "logout"

(***************************************************************************)
(* What a transaction has locked, found and has still to write.            *)
(***************************************************************************)
Family0(c) == FamilyRows(FamilyOf(op[c].token))

LocksOk(c) ==
  /\ op[c].at \notin AfterLock => op[c].rows = {} /\ ~op[c].user /\ op[c].todo = {}
  /\ op[c].at \in AfterLock =>
       /\ op[c].token \in op[c].rows
       /\ op[c].rows \subseteq Family0(c) /\ op[c].todo \subseteq Family0(c)
       /\ ~Mismatch(c)
       /\ op[c].kind = "refresh" /\ op[c].at # "user" => op[c].user
  /\ op[c].at \in {"deny", "commitRevocation"} => op[c].todo = {}
  /\ op[c].at = "rotate" => op[c].token \in Usable(FamilyOf(op[c].token))

LocksExclusive ==
  \A c, d \in Calls :
    /\ op[c].user /\ op[d].user => c = d
    /\ \A i \in Ids : HoldsRow(c, i) /\ HoldsRow(d, i) => c = d

(***************************************************************************)
(* A revocation that nobody overtakes works on the whole family: the lock  *)
(* on the row of users sees to it that nobody overtakes that of a reuse.   *)
(***************************************************************************)
WholeFamily(c) ==
  op[c].at \in {"revoke", "deny", "commitRevocation"}
    /\ (op[c].kind = "refresh" \/ FamilyOf(op[c].token) \notin overtaken)
  => Family0(c) \subseteq op[c].rows \cup op[c].todo

CallsInv == \A c \in Calls : CallOk(c) /\ LocksOk(c) /\ WholeFamily(c)

(***************************************************************************)
(* What has been answered.                                                 *)
(***************************************************************************)
Answered ==
  /\ ReuseRevokesFamily
  /\ \A f \in loggedOut \ overtaken : Usable(f) = {}
  /\ \A j \in denied : FamilyOf(j) \in loggedOut

RoomLeft == Len(tokens) + Cardinality(Issuing) <= MaxTokens

AInv == TypeInv /\ Chains /\ CallsInv /\ LocksExclusive /\ Answered /\ RoomLeft

-----------------------------------------------------------------------------
(***************************************************************************)
(* The table as a sequence.                                                *)
(***************************************************************************)
LEMMA TableIsASequence ==
  ASSUME TypeInv
  PROVE  /\ Len(tokens) \in Nat /\ Ids = 1..Len(tokens)
         /\ \A i \in Ids : tokens[i] \in TokenRows
BY DEF TypeInv, Ids

(***************************************************************************)
(* The calls that may add a pair can be counted.                           *)
(***************************************************************************)
LEMMA IssuingFinite == IsFiniteSet(Issuing)
BY AuthAssumption, FS_Subset DEF Issuing

(***************************************************************************)
(* What takes no call into the counted ones takes no room.                 *)
(***************************************************************************)
LEMMA RoomKept ==
  ASSUME TypeInv, RoomLeft, Len(tokens)' = Len(tokens), Issuing' \subseteq Issuing
  PROVE  RoomLeft'
<1>1. IsFiniteSet(Issuing)
  BY IssuingFinite
<1>2. Cardinality(Issuing') <= Cardinality(Issuing)
  BY <1>1, FS_Subset
<1>3. Cardinality(Issuing') \in Nat /\ Cardinality(Issuing) \in Nat
  BY <1>1, FS_Subset, FS_CardinalityType
<1> QED
  BY <1>2, <1>3, TableIsASequence, AuthAssumption DEF RoomLeft

(***************************************************************************)
(* No token has been issued.                                               *)
(***************************************************************************)
LEMMA InitInv == Init => AInv
<1> SUFFICES ASSUME Init PROVE AInv
  OBVIOUS
<1>1. tokens = <<>> /\ Ids = {} /\ Len(tokens) = 0
  BY DEF Init, Ids
<1>2. TypeInv
  BY <1>1 DEF Init, TypeInv, Transactions, Idle
<1>3. Chains /\ Answered
  BY <1>1 DEF Init, Chains, Answered, ReuseRevokesFamily
<1>4. CallsInv
  BY DEF Init, CallsInv, CallOk, LocksOk, WholeFamily, Idle, AfterLock, Presented
<1>5. LocksExclusive
  BY DEF Init, LocksExclusive, Idle, HoldsRow
<1>6. RoomLeft
  <2>1. Issuing = {}
    BY DEF Init, Issuing, Idle
  <2> QED
    BY <1>1, <2>1, FS_EmptySet, AuthAssumption DEF RoomLeft
<1> QED
  BY <1>2, <1>3, <1>4, <1>5, <1>6 DEF AInv

-----------------------------------------------------------------------------
(***************************************************************************)
(* A step of c that writes nothing: what is left to show of it.            *)
(***************************************************************************)
LEMMA NothingWritten ==
  ASSUME AInv, NEW c \in Calls, Unwritten,
         op' \in [Calls -> Transactions], \A d \in Calls \ {c} : op'[d] = op[d],
         CallOk(c)', LocksOk(c)', WholeFamily(c)',
         op'[c].user => op[c].user \/ UserFree(c),
         \A i \in Ids : i \in op'[c].rows => i \in op[c].rows \/ RowFree(c, i),
         RoomLeft'
  PROVE  AInv'
<1>1. UNCHANGED <<tokens, denied, reused, loggedOut, overtaken>> /\ Ids' = Ids
  BY DEF Unwritten, tableVars, historyVars, Ids
<1>2. TypeInv' /\ Chains'
  BY <1>1 DEF AInv, TypeInv, Chains, FamilyOf, Ids
<1>3. Answered'
  BY <1>1 DEF AInv, Answered, ReuseRevokesFamily, Usable, FamilyRows, FamilyOf, Ids
<1>4. ASSUME NEW d \in Calls \ {c} PROVE CallOk(d)' /\ LocksOk(d)' /\ WholeFamily(d)'
  <2>1. op'[d] = op[d] /\ CallOk(d) /\ LocksOk(d) /\ WholeFamily(d)
    BY DEF AInv, CallsInv
  <2>2. CallOk(d)'
    BY <1>1, <2>1 DEF CallOk, Presented, Ids
  <2>3. LocksOk(d)'
    BY <1>1, <2>1 DEF LocksOk, Family0, FamilyRows, FamilyOf, Mismatch, Usable, Ids
  <2>4. WholeFamily(d)'
    BY <1>1, <2>1 DEF WholeFamily, Family0, FamilyRows, FamilyOf, Ids
  <2> QED
    BY <2>2, <2>3, <2>4
<1>5. LocksExclusive'
  BY <1>1 DEF AInv, LocksExclusive, HoldsRow, UserFree, RowFree
<1> QED
  BY <1>2, <1>3, <1>4, <1>5 DEF AInv, CallsInv

(***************************************************************************)
(* The end of a transaction without a commit.                              *)
(***************************************************************************)
LEMMA RollbackInv ==
  ASSUME AInv, NEW c \in Calls, Finish(c), Unwritten
  PROVE  AInv'
<1>1. op' = [op EXCEPT ![c] = Idle] /\ Idle \in Transactions
  BY DEF Finish, Idle, Transactions
<1>2. /\ op' \in [Calls -> Transactions] /\ op'[c] = Idle
      /\ \A d \in Calls \ {c} : op'[d] = op[d]
  BY <1>1 DEF AInv, TypeInv
<1>3. CallOk(c)' /\ LocksOk(c)' /\ WholeFamily(c)'
  BY <1>2 DEF CallOk, LocksOk, WholeFamily, Idle, AfterLock, Presented
<1>4. RoomLeft'
  <2>1. UNCHANGED tokens
    BY DEF Unwritten, tableVars
  <2>2. Issuing' \subseteq Issuing
    BY <1>2, <2>1 DEF Issuing, Idle
  <2> QED
    BY <2>1, <2>2, RoomKept DEF AInv
<1> QED
  BY <1>2, <1>3, <1>4, NothingWritten DEF Idle

(***************************************************************************)
(* A call that begins and may issue a pair finds room for it.              *)
(***************************************************************************)
LEMMA BeginInv ==
  ASSUME AInv, NEW c \in Calls, NEW kind \in {"login", "refresh", "logout"},
         NEW i \in Ids \cup {0}, NEW j \in Ids \cup {0}, Begin(c, kind, i, j),
         kind \in {"refresh", "logout"} => i \in Ids, kind = "logout" => j \in Ids,
         RoomForAnother \/ kind = "logout" \/ (kind = "refresh" /\ tokens[i].used)
  PROVE  AInv'
<1>1. op[c] = Idle /\ Unwritten
  BY DEF Begin, Unwritten
<1>2. i \in Nat /\ j \in Nat
  BY TableIsASequence DEF AInv
<1>3. op' = [op EXCEPT ![c].at = IF kind = "login" THEN "insert" ELSE "token",
                       ![c].kind = kind, ![c].token = i, ![c].access = j]
  BY DEF Begin
<1>4. /\ op' \in [Calls -> Transactions]
      /\ \A d \in Calls \ {c} : op'[d] = op[d]
      /\ op'[c].at = IF kind = "login" THEN "insert" ELSE "token"
      /\ op'[c].kind = kind /\ op'[c].token = i /\ op'[c].access = j
      /\ op'[c].rows = {} /\ ~op'[c].user /\ ~op'[c].deny /\ op'[c].todo = {}
  BY <1>1, <1>2, <1>3 DEF AInv, TypeInv, Transactions, Idle
<1>5. UNCHANGED tokens /\ Ids' = Ids
  BY <1>1 DEF Unwritten, tableVars, Ids
<1>6. CallOk(c)'
  BY <1>4, <1>5 DEF CallOk, Presented, AfterLock
<1>7. LocksOk(c)' /\ WholeFamily(c)'
  BY <1>4 DEF LocksOk, WholeFamily, AfterLock
<1>8. RoomLeft'
  <2>1. IsFiniteSet(Issuing) /\ Cardinality(Issuing) \in Nat
    BY IssuingFinite, FS_CardinalityType
  <2>2. CASE kind = "logout" \/ (kind = "refresh" /\ tokens[i].used)
    <3>1. Issuing' \subseteq Issuing
      BY <1>4, <1>5, <2>2 DEF Issuing
    <3> QED
      BY <1>5, <3>1, RoomKept DEF AInv
  <2>3. CASE RoomForAnother
    <3>1. Issuing' \subseteq Issuing \cup {c}
      BY <1>4, <1>5 DEF Issuing
    <3>2. /\ IsFiniteSet(Issuing \cup {c})
          /\ Cardinality(Issuing \cup {c}) <= Cardinality(Issuing) + 1
          /\ Cardinality(Issuing \cup {c}) \in Nat
      <4> HIDE DEF Issuing
      <4>1. IsFiniteSet(Issuing \cup {c})
        BY <2>1, FS_AddElement, Zenon
      <4>2. /\ c \in Issuing => Cardinality(Issuing \cup {c}) = Cardinality(Issuing)
            /\ c \notin Issuing => Cardinality(Issuing \cup {c}) = Cardinality(Issuing) + 1
        <5>1. Cardinality(Issuing \cup {c})
                = IF c \in Issuing THEN Cardinality(Issuing) ELSE Cardinality(Issuing) + 1
          BY <2>1, FS_AddElement, Zenon
        <5> QED
          BY <5>1, Zenon
      <4> QED
        BY <2>1, <4>1, <4>2
    <3>3. Cardinality(Issuing') <= Cardinality(Issuing \cup {c}) /\ Cardinality(Issuing') \in Nat
      BY <3>1, <3>2, FS_Subset, FS_CardinalityType
    <3>4. Len(tokens) + Cardinality(Issuing) < MaxTokens
      BY <2>3 DEF RoomForAnother
    <3> QED
      BY <1>5, <2>1, <3>2, <3>3, <3>4, TableIsASequence, AuthAssumption DEF AInv, RoomLeft
  <2> QED
    BY <2>2, <2>3
<1> QED
  BY <1>1, <1>4, <1>6, <1>7, <1>8, NothingWritten

(***************************************************************************)
(* SELECT ... FOR UPDATE on the row of the token.                          *)
(***************************************************************************)
LEMMA LockTokenInv ==
  ASSUME AInv, NEW c \in Calls, LockToken(c)
  PROVE  AInv'
<1>1. CASE Finish(c)
  BY <1>1, RollbackInv DEF LockToken
<1>2. CASE ~Finish(c)
  <2> DEFINE label == IF op[c].kind = "refresh" THEN "user" ELSE "scan"
  <2>1. /\ op[c].at = "token" /\ RowFree(c, op[c].token) /\ ~Mismatch(c) /\ Unwritten
        /\ op' = [op EXCEPT ![c].at = label, ![c].rows = {op[c].token}]
    BY <1>2 DEF LockToken, Locked
  <2>2. /\ Presented(c) /\ op[c].token \in Ids /\ CallOk(c) /\ LocksOk(c) /\ op[c].token \in Nat
    BY <2>1, TableIsASequence DEF AInv, CallsInv, CallOk
  <2>3. label \in {"user", "scan"} /\ label = IF op[c].kind = "refresh" THEN "user" ELSE "scan"
    OBVIOUS
  <2> HIDE DEF label
  <2>4. op \in [Calls -> Transactions] /\ op[c] \in Transactions
    BY DEF AInv, TypeInv
  <2>5. /\ op' \in [Calls -> Transactions]
        /\ \A d \in Calls \ {c} : op'[d] = op[d]
        /\ op'[c].at = label /\ op'[c].rows = {op[c].token} /\ op'[c].kind = op[c].kind
        /\ op'[c].token = op[c].token /\ op'[c].access = op[c].access
        /\ op'[c].user = op[c].user /\ op'[c].deny = op[c].deny /\ op'[c].todo = op[c].todo
    <3> DEFINE row == {op[c].token}
    <3>1. row \in SUBSET Nat /\ row = {op[c].token}
      BY <2>2
    <3>2. op' = [op EXCEPT ![c].at = label, ![c].rows = row]
      BY <2>1
    <3> HIDE DEF row
    <3>3. /\ op' = [d \in Calls |-> op'[d]]
          /\ \A d \in Calls \ {c} : op'[d] = op[d]
      BY <2>4, <3>2
    <3>4. op'[c] = [at |-> label, kind |-> op[c].kind, token |-> op[c].token,
                    access |-> op[c].access, rows |-> row, user |-> op[c].user,
                    deny |-> op[c].deny, todo |-> op[c].todo]
      BY <2>4, <3>2 DEF Transactions
    <3>5. op'[c] \in Transactions
      <4>1. label \in {"idle", "insert", "token"} \cup AfterLock
        BY <2>3 DEF AfterLock
      <4>2. /\ op[c].kind \in {"none", "login", "refresh", "logout"}
            /\ op[c].token \in Nat /\ op[c].access \in Nat /\ op[c].user \in BOOLEAN
            /\ op[c].todo \in SUBSET Nat /\ op[c].deny \in BOOLEAN
        BY <2>4 DEF Transactions
      <4> QED
        BY <3>1, <3>4, <4>1, <4>2 DEF Transactions
    <3> QED
      BY <2>4, <3>1, <3>3, <3>4, <3>5
  <2>6. UNCHANGED tokens /\ Ids' = Ids
    BY <2>1 DEF Unwritten, tableVars, Ids
  <2>7. CallOk(c)'
    BY <2>1, <2>2, <2>3, <2>5, <2>6 DEF CallOk, Presented, AfterLock
  <2>8. LocksOk(c)'
    BY <2>1, <2>2, <2>3, <2>5, <2>6 DEF LocksOk, AfterLock, Family0, FamilyRows, FamilyOf, Mismatch, Presented
  <2>9. WholeFamily(c)'
    BY <2>3, <2>5 DEF WholeFamily
  <2>10. RoomLeft'
    <3>1. Issuing' \subseteq Issuing
      BY <2>5, <2>6 DEF Issuing
    <3> QED
      BY <2>6, <3>1, RoomKept DEF AInv
  <2> QED
    BY <2>1, <2>5, <2>7, <2>8, <2>9, <2>10, NothingWritten
<1> QED
  BY <1>1, <1>2

(***************************************************************************)
(* Then the row of users, which keeps every other refresh from rotating.   *)
(***************************************************************************)
LEMMA LockUserInv ==
  ASSUME AInv, NEW c \in Calls, LockUser(c)
  PROVE  AInv'
<1>1. CASE Finish(c)
  BY <1>1, RollbackInv DEF LockUser
<1>2. CASE ~Finish(c)
  <2>1. /\ op[c].at = "user" /\ UserFree(c) /\ ~Inactive(op[c].token) /\ Unwritten
        /\ op' = [op EXCEPT ![c].user = TRUE, ![c].at = Decision(c)]
    BY <1>2 DEF LockUser
  <2>2. /\ Presented(c) /\ op[c].kind = "refresh" /\ op[c].token \in Ids /\ CallOk(c) /\ LocksOk(c)
    BY <2>1 DEF AInv, CallsInv, CallOk, AfterLock
  <2>3. Decision(c) \in {"scan", "rotate"}
    BY DEF Decision
  <2>4. /\ op' \in [Calls -> Transactions]
        /\ \A d \in Calls \ {c} : op'[d] = op[d]
        /\ op'[c].at = Decision(c) /\ op'[c].rows = op[c].rows /\ op'[c].kind = "refresh"
        /\ op'[c].token = op[c].token /\ op'[c].access = op[c].access
        /\ op'[c].user = TRUE /\ op'[c].deny = op[c].deny /\ op'[c].todo = op[c].todo
    BY <2>1, <2>2, <2>3 DEF AInv, TypeInv, Transactions, AfterLock
  <2>5. UNCHANGED tokens /\ Ids' = Ids
    BY <2>1 DEF Unwritten, tableVars, Ids
  <2>6. CallOk(c)'
    BY <2>2, <2>3, <2>4, <2>5 DEF CallOk, Presented, AfterLock
  <2>7. Decision(c) = "rotate" => op[c].token \in Usable(FamilyOf(op[c].token))
    BY <2>1, <2>2 DEF Decision, Inactive, Usable, FamilyRows
  <2>8. LocksOk(c)'
    BY <2>1, <2>2, <2>3, <2>4, <2>5, <2>7
       DEF LocksOk, AfterLock, Family0, FamilyRows, FamilyOf, Mismatch, Usable
  <2>9. WholeFamily(c)'
    BY <2>3, <2>4 DEF WholeFamily
  <2>10. RoomLeft'
    <3>1. Issuing' \subseteq Issuing
      BY <2>2, <2>4, <2>5 DEF Issuing
    <3> QED
      BY <2>5, <3>1, RoomKept DEF AInv
  <2> QED
    BY <2>1, <2>4, <2>6, <2>8, <2>9, <2>10, NothingWritten
<1> QED
  BY <1>1, <1>2

(***************************************************************************)
(* The snapshot of the UPDATE is the whole family as it is committed.      *)
(***************************************************************************)
LEMMA ScanFamilyInv ==
  ASSUME AInv, NEW c \in Calls, ScanFamily(c)
  PROVE  AInv'
<1>1. /\ op[c].at = "scan" /\ Unwritten
      /\ op' = [op EXCEPT ![c].at = "revoke", ![c].todo = Family0(c)]
  BY DEF ScanFamily, FamilyToRevoke, Family0
<1>2. /\ Presented(c) /\ op[c].token \in Ids /\ CallOk(c) /\ LocksOk(c)
  BY <1>1 DEF AInv, CallsInv, CallOk, AfterLock
<1>3. Family0(c) \subseteq Ids /\ Ids \subseteq Nat
  BY TableIsASequence DEF Family0, FamilyRows, AInv
<1>4. /\ op' \in [Calls -> Transactions]
      /\ \A d \in Calls \ {c} : op'[d] = op[d]
      /\ op'[c].at = "revoke" /\ op'[c].rows = op[c].rows /\ op'[c].kind = op[c].kind
      /\ op'[c].token = op[c].token /\ op'[c].access = op[c].access
      /\ op'[c].user = op[c].user /\ op'[c].deny = op[c].deny /\ op'[c].todo = Family0(c)
  BY <1>1, <1>3 DEF AInv, TypeInv, Transactions, AfterLock
<1>5. UNCHANGED tokens /\ Ids' = Ids
  BY <1>1 DEF Unwritten, tableVars, Ids
<1>6. CallOk(c)'
  BY <1>1, <1>2, <1>4, <1>5 DEF CallOk, Presented, AfterLock
<1>7. Family0(c)' = Family0(c)
  BY <1>4, <1>5 DEF Family0, FamilyRows, FamilyOf
<1>8. LocksOk(c)'
  BY <1>1, <1>2, <1>4, <1>5, <1>7 DEF LocksOk, AfterLock, FamilyOf, Mismatch
<1>9. WholeFamily(c)'
  BY <1>4, <1>7 DEF WholeFamily
<1>10. RoomLeft'
  <2>1. Issuing' \subseteq Issuing
    BY <1>4, <1>5 DEF Issuing
  <2> QED
    BY <1>5, <2>1, RoomKept DEF AInv
<1> QED
  BY <1>1, <1>4, <1>6, <1>8, <1>9, <1>10, NothingWritten

(***************************************************************************)
(* A row of the snapshot is written once no other transaction has it.      *)
(***************************************************************************)
LEMMA RevokeRowInv ==
  ASSUME AInv, NEW c \in Calls, NEW i \in Ids, RevokeRow(c, i)
  PROVE  AInv'
<1> DEFINE label == IF op[c].todo = {i} THEN AfterRevoke(c) ELSE "revoke"
<1>1. /\ op[c].at = "revoke" /\ i \in op[c].todo /\ RowFree(c, i) /\ Unwritten
      /\ op' = [op EXCEPT ![c].rows = @ \cup {i}, ![c].todo = @ \ {i}, ![c].at = label]
  BY DEF RevokeRow
<1>2. /\ Presented(c) /\ op[c].token \in Ids /\ CallOk(c) /\ LocksOk(c) /\ WholeFamily(c)
  BY <1>1 DEF AInv, CallsInv, CallOk, AfterLock
<1>3. /\ label \in {"revoke", "deny", "commitRevocation"}
      /\ label = "deny" => op[c].kind = "logout"
      /\ label # "revoke" => op[c].todo = {i}
      /\ i \in Nat
  BY TableIsASequence DEF AfterRevoke, AInv
<1> HIDE DEF label
<1>4. /\ op' \in [Calls -> Transactions]
      /\ \A d \in Calls \ {c} : op'[d] = op[d]
      /\ op'[c].at = label /\ op'[c].rows = op[c].rows \cup {i} /\ op'[c].kind = op[c].kind
      /\ op'[c].token = op[c].token /\ op'[c].access = op[c].access
      /\ op'[c].user = op[c].user /\ op'[c].deny = op[c].deny /\ op'[c].todo = op[c].todo \ {i}
  BY <1>1, <1>3 DEF AInv, TypeInv, Transactions, AfterLock
<1>5. UNCHANGED <<tokens, overtaken>> /\ Ids' = Ids
  BY <1>1 DEF Unwritten, tableVars, historyVars, Ids
<1>6. CallOk(c)'
  BY <1>1, <1>2, <1>3, <1>4, <1>5 DEF CallOk, Presented, AfterLock
<1>7. Family0(c)' = Family0(c) /\ FamilyOf(op[c].token)' = FamilyOf(op[c].token)
  BY <1>4, <1>5 DEF Family0, FamilyRows, FamilyOf
<1>8. LocksOk(c)'
  BY <1>1, <1>2, <1>3, <1>4, <1>5, <1>7 DEF LocksOk, AfterLock, FamilyOf, Mismatch
<1>9. WholeFamily(c)'
  BY <1>1, <1>2, <1>3, <1>4, <1>5, <1>7 DEF WholeFamily, FamilyOf
<1>10. RoomLeft'
  <2>1. Issuing' \subseteq Issuing
    BY <1>4, <1>5 DEF Issuing
  <2> QED
    BY <1>5, <2>1, RoomKept DEF AInv
<1> QED
  BY <1>1, <1>4, <1>6, <1>8, <1>9, <1>10, NothingWritten

(***************************************************************************)
(* The denial of an access token is decided, and not yet committed.        *)
(***************************************************************************)
LEMMA DenyInv ==
  ASSUME AInv, NEW c \in Calls, Deny(c)
  PROVE  AInv'
<1>1. /\ op[c].at = "deny" /\ Unwritten
      /\ op' = [op EXCEPT ![c].at = "commitRevocation", ![c].deny = AccessValid(op[c].access)]
  BY DEF Deny
<1>2. /\ Presented(c) /\ op[c].kind = "logout" /\ CallOk(c) /\ LocksOk(c) /\ WholeFamily(c)
  BY <1>1 DEF AInv, CallsInv, CallOk, AfterLock
<1>3. AccessValid(op[c].access) \in BOOLEAN
  BY DEF AccessValid
<1>4. /\ op' \in [Calls -> Transactions]
      /\ \A d \in Calls \ {c} : op'[d] = op[d]
      /\ op'[c].at = "commitRevocation" /\ op'[c].rows = op[c].rows /\ op'[c].kind = "logout"
      /\ op'[c].token = op[c].token /\ op'[c].access = op[c].access
      /\ op'[c].user = op[c].user /\ op'[c].todo = op[c].todo
  BY <1>1, <1>2, <1>3 DEF AInv, TypeInv, Transactions, AfterLock
<1>5. UNCHANGED <<tokens, overtaken>> /\ Ids' = Ids
  BY <1>1 DEF Unwritten, tableVars, historyVars, Ids
<1>6. CallOk(c)'
  BY <1>1, <1>2, <1>4, <1>5 DEF CallOk, Presented, AfterLock
<1>7. Family0(c)' = Family0(c) /\ FamilyOf(op[c].token)' = FamilyOf(op[c].token)
  BY <1>4, <1>5 DEF Family0, FamilyRows, FamilyOf
<1>8. LocksOk(c)'
  BY <1>1, <1>2, <1>4, <1>5, <1>7 DEF LocksOk, AfterLock, FamilyOf, Mismatch
<1>9. WholeFamily(c)'
  BY <1>1, <1>2, <1>4, <1>5, <1>7 DEF WholeFamily, FamilyOf
<1>10. RoomLeft'
  <2>1. Issuing' \subseteq Issuing
    BY <1>2, <1>4, <1>5 DEF Issuing
  <2> QED
    BY <1>5, <2>1, RoomKept DEF AInv
<1> QED
  BY <1>1, <1>4, <1>6, <1>8, <1>9, <1>10, NothingWritten

-----------------------------------------------------------------------------
(***************************************************************************)
(* A step that leaves the rows of other calls as they were, for all that   *)
(* is said of those calls: c is at its end.                                *)
(***************************************************************************)
LEMMA OthersGoOn ==
  ASSUME AInv, NEW c \in Calls, Finish(c), Ids \subseteq Ids',
         \A i \in Ids : FamilyOf(i)' = FamilyOf(i),
         \A d \in Calls \ {c} : /\ op[d].at = "rotate" => op[d].token \in Usable(FamilyOf(op[d].token))'
                                /\ WholeFamily(d)'
  PROVE  op' \in [Calls -> Transactions] /\ CallsInv' /\ LocksExclusive'
<1>1. op' = [op EXCEPT ![c] = Idle] /\ Idle \in Transactions
  BY DEF Finish, Idle, Transactions
<1>2. /\ op' \in [Calls -> Transactions] /\ op'[c] = Idle
      /\ \A d \in Calls \ {c} : op'[d] = op[d]
  BY <1>1 DEF AInv, TypeInv
<1>3. CallOk(c)' /\ LocksOk(c)' /\ WholeFamily(c)'
  BY <1>2 DEF CallOk, LocksOk, WholeFamily, Idle, AfterLock, Presented
<1>4. ASSUME NEW d \in Calls \ {c} PROVE CallOk(d)' /\ LocksOk(d)' /\ WholeFamily(d)'
  <2>1. op'[d] = op[d] /\ CallOk(d) /\ LocksOk(d) /\ WholeFamily(d)'
    BY <1>2 DEF AInv, CallsInv
  <2>2. CallOk(d)'
    BY <2>1 DEF CallOk, Presented
  <2>3. op[d].at \in AfterLock => op[d].token \in Ids /\ (op[d].kind = "logout" => op[d].access \in Ids)
    BY <2>1 DEF CallOk, Presented, AfterLock
  <2>4. op[d].at \in AfterLock => Family0(d) \subseteq Family0(d)' /\ Mismatch(d)' = Mismatch(d)
    BY <2>1, <2>3 DEF Family0, FamilyRows, Mismatch, FamilyOf
  <2>5. op[d].at = "rotate" => (op[d].token \in Usable(FamilyOf(op[d].token)))'
    BY <2>1, <2>3 DEF FamilyOf, AfterLock
  <2>6. LocksOk(d)'
    BY <2>1, <2>4, <2>5 DEF LocksOk, AfterLock
  <2> QED
    BY <2>1, <2>2, <2>6
<1>5. LocksExclusive'
  <2>1. \A d \in Calls : op'[d].user => op[d].user
    BY <1>2 DEF Idle
  <2>2. \A d \in Calls : op'[d].rows \subseteq op[d].rows /\ op[d].rows \subseteq Ids
    BY <1>2 DEF Idle, AInv, CallsInv, LocksOk, Family0, FamilyRows
  <2> QED
    BY <2>1, <2>2 DEF AInv, LocksExclusive, HoldsRow
<1> QED
  BY <1>2, <1>3, <1>4, <1>5 DEF CallsInv

(***************************************************************************)
(* Rows that keep all that makes the chains.                               *)
(***************************************************************************)
LEMMA ChainsKept ==
  ASSUME Chains, Ids' = Ids,
         \A i \in Ids : /\ tokens'[i].family = tokens[i].family
                        /\ tokens'[i].parent = tokens[i].parent
                        /\ tokens'[i].used = tokens[i].used
  PROVE  Chains'
BY DEF Chains, FamilyOf

(***************************************************************************)
(* A commit of a revocation writes the rows that the call has locked.      *)
(***************************************************************************)
LEMMA RevocationWrites ==
  ASSUME AInv, NEW c \in Calls, CommitRevocation(c)
  PROVE  /\ tokens' \in Seq(TokenRows) /\ Ids' = Ids /\ Len(tokens') = Len(tokens)
         /\ \A i \in Ids : /\ tokens'[i].family = tokens[i].family
                           /\ tokens'[i].parent = tokens[i].parent
                           /\ tokens'[i].used = tokens[i].used
         /\ \A g : FamilyRows(g)' = FamilyRows(g) /\ Usable(g)' = Usable(g) \ op[c].rows
<1>1. tokens' = [i \in Ids |-> IF i \in op[c].rows THEN [tokens[i] EXCEPT !.revoked = TRUE]
                                                   ELSE tokens[i]]
  BY DEF CommitRevocation
<1>2. /\ Len(tokens) \in Nat /\ Ids = 1..Len(tokens) /\ \A i \in Ids : tokens[i] \in TokenRows
  BY TableIsASequence DEF AInv
<1>3. /\ tokens' \in Seq(TokenRows) /\ Ids' = Ids /\ Len(tokens') = Len(tokens)
  <2>1. \A i \in Ids : tokens'[i] \in TokenRows
    BY <1>1, <1>2 DEF TokenRows
  <2>2. tokens' \in [1..Len(tokens) -> TokenRows]
    BY <1>1, <1>2, <2>1
  <2> QED
    BY <1>2, <2>2 DEF Ids
<1>4. \A i \in Ids : /\ tokens'[i].family = tokens[i].family
                     /\ tokens'[i].parent = tokens[i].parent
                     /\ tokens'[i].used = tokens[i].used
                     /\ tokens'[i].revoked <=> (tokens[i].revoked \/ i \in op[c].rows)
  BY <1>1, <1>2 DEF TokenRows
<1>5. \A g : FamilyRows(g)' = FamilyRows(g) /\ Usable(g)' = Usable(g) \ op[c].rows
  BY <1>3, <1>4 DEF FamilyRows, FamilyOf, Usable
<1> QED
  BY <1>3, <1>4, <1>5

(***************************************************************************)
(* The commit of a reuse or of a logout: every row that the call has       *)
(* locked is revoked, which is the whole family unless it was overtaken.   *)
(***************************************************************************)
LEMMA CommitRevocationInv ==
  ASSUME AInv, NEW c \in Calls, CommitRevocation(c)
  PROVE  AInv'
<1>1. PICK f : f = FamilyOf(op[c].token)
  OBVIOUS
<1>2. /\ op[c].at = "commitRevocation" /\ Finish(c) /\ UNCHANGED overtaken
      /\ denied' = IF op[c].deny THEN denied \cup {op[c].access} ELSE denied
      /\ reused' = IF op[c].kind = "refresh" THEN reused \cup {f} ELSE reused
      /\ loggedOut' = IF op[c].kind = "logout" THEN loggedOut \cup {f} ELSE loggedOut
  BY <1>1 DEF CommitRevocation
<1>3. /\ Presented(c) /\ op[c].token \in Ids /\ CallOk(c) /\ LocksOk(c) /\ WholeFamily(c)
  BY <1>2 DEF AInv, CallsInv, CallOk, AfterLock
<1>4. /\ tokens' \in Seq(TokenRows) /\ Ids' = Ids /\ Len(tokens') = Len(tokens)
      /\ \A i \in Ids : /\ tokens'[i].family = tokens[i].family
                        /\ tokens'[i].parent = tokens[i].parent
                        /\ tokens'[i].used = tokens[i].used
      /\ \A g : FamilyRows(g)' = FamilyRows(g) /\ Usable(g)' = Usable(g) \ op[c].rows
  BY RevocationWrites
<1>5. \A i \in Ids : FamilyOf(i)' = FamilyOf(i)
  BY <1>4 DEF FamilyOf
<1>6. Chains'
  BY <1>4, ChainsKept DEF AInv
<1>7. op' \in [Calls -> Transactions] /\ CallsInv' /\ LocksExclusive'
  <2>1. ASSUME NEW d \in Calls \ {c}
        PROVE  /\ op[d].at = "rotate" => op[d].token \in Usable(FamilyOf(op[d].token))'
               /\ WholeFamily(d)'
    <3>1. op'[d] = op[d] /\ CallOk(d) /\ LocksOk(d) /\ WholeFamily(d)
      BY <1>2 DEF Finish, AInv, TypeInv, CallsInv
    <3>2. op[d].at \in AfterLock => op[d].token \in Ids /\ op[d].token \in op[d].rows
      BY <3>1 DEF CallOk, LocksOk, Presented
    <3>3. op[d].at \in AfterLock => op[d].token \notin op[c].rows
      BY <3>2 DEF AInv, LocksExclusive, HoldsRow
    <3>4. op[d].at = "rotate" => op[d].token \in Usable(FamilyOf(op[d].token))'
      BY <1>4, <1>5, <3>1, <3>2, <3>3 DEF LocksOk, AfterLock
    <3>5. op[d].at \in AfterLock => Family0(d)' = Family0(d) /\ FamilyOf(op[d].token)' = FamilyOf(op[d].token)
      BY <1>4, <1>5, <3>1, <3>2 DEF Family0
    <3>6. WholeFamily(d)'
      BY <1>2, <3>1, <3>5 DEF WholeFamily, AfterLock
    <3> QED
      BY <3>4, <3>6
  <2> QED
    BY <1>2, <1>4, <1>5, <2>1, OthersGoOn
<1>8. f \in Ids
  BY <1>1, <1>3, TableIsASequence DEF AInv, Chains
<1>9. TypeInv'
  <2>1. op[c].deny => op[c].access \in Ids
    BY <1>3 DEF CallOk
  <2> QED
    BY <1>2, <1>4, <1>7, <1>8, <2>1 DEF AInv, TypeInv
<1>10. Answered'
  <2>1. op[c].kind = "refresh" \/ f \notin overtaken => Usable(f)' = {}
    BY <1>1, <1>2, <1>3, <1>4 DEF WholeFamily, LocksOk, Family0, Usable
  <2>2. ReuseRevokesFamily'
    BY <1>2, <1>4, <2>1 DEF AInv, Answered, ReuseRevokesFamily
  <2>3. \A g \in loggedOut' \ overtaken' : Usable(g)' = {}
    BY <1>2, <1>4, <2>1 DEF AInv, Answered
  <2>4. \A j \in denied' : FamilyOf(j)' \in loggedOut'
    <3>1. op[c].deny => op[c].kind = "logout" /\ FamilyOf(op[c].access) = f /\ op[c].access \in Ids
      BY <1>1, <1>2, <1>3 DEF CallOk, LocksOk, Mismatch, AfterLock
    <3> QED
      BY <1>2, <1>5, <3>1 DEF AInv, TypeInv, Answered
  <2> QED
    BY <2>2, <2>3, <2>4 DEF Answered
<1>11. RoomLeft'
  <2>1. op'[c].kind = "none" /\ \A d \in Calls \ {c} : op'[d] = op[d]
    BY <1>2 DEF Finish, Idle, AInv, TypeInv
  <2>2. \A d \in Calls : op[d].kind = "refresh" => op[d].token \in Ids
    BY DEF AInv, CallsInv, CallOk, Presented
  <2>3. Issuing' \subseteq Issuing
    BY <1>4, <2>1, <2>2 DEF Issuing
  <2> QED
    BY <1>4, <2>3, RoomKept DEF AInv
<1> QED
  BY <1>6, <1>7, <1>9, <1>10, <1>11 DEF AInv

(***************************************************************************)
(* Time passes for a pair: nothing but its age changes.                    *)
(***************************************************************************)
LEMMA ExpireInv ==
  ASSUME AInv, NEW i \in Ids, Expire(i)
  PROVE  AInv'
<1>1. UNCHANGED <<denied, op, reused, loggedOut, overtaken>>
  BY DEF Expire, historyVars
<1>2. /\ Len(tokens) \in Nat /\ Ids = 1..Len(tokens) /\ \A k \in Ids : tokens[k] \in TokenRows
  BY TableIsASequence DEF AInv
<1>3. PICK age \in (tokens[i].age + 1)..2 : tokens' = [tokens EXCEPT ![i].age = age]
  BY DEF Expire
<1>4. age \in 0..2
  BY <1>2, <1>3 DEF TokenRows
<1>5. tokens' \in Seq(TokenRows) /\ Ids' = Ids /\ Len(tokens') = Len(tokens)
  <2>1. tokens \in [1..Len(tokens) -> TokenRows]
    BY <1>2 DEF AInv, TypeInv
  <2>2. tokens' \in [1..Len(tokens) -> TokenRows]
    BY <1>2, <1>3, <1>4, <2>1 DEF TokenRows
  <2> QED
    BY <1>2, <2>2 DEF Ids
<1>6. \A k \in Ids : /\ tokens'[k].family = tokens[k].family
                     /\ tokens'[k].parent = tokens[k].parent
                     /\ tokens'[k].used = tokens[k].used
                     /\ tokens'[k].revoked = tokens[k].revoked
  BY <1>2, <1>3 DEF TokenRows
<1>7. \A g : FamilyRows(g)' = FamilyRows(g) /\ Usable(g)' = Usable(g)
  BY <1>5, <1>6 DEF FamilyRows, FamilyOf, Usable
<1>8. \A k \in Ids : FamilyOf(k)' = FamilyOf(k)
  BY <1>6 DEF FamilyOf
<1>9. CallsInv'
  <2> SUFFICES ASSUME NEW c \in Calls PROVE CallOk(c)' /\ LocksOk(c)' /\ WholeFamily(c)'
    BY DEF CallsInv
  <2>1. CallOk(c) /\ LocksOk(c) /\ WholeFamily(c)
    BY DEF AInv, CallsInv
  <2>2. CallOk(c)'
    BY <1>1, <1>5, <2>1 DEF CallOk, Presented
  <2>3. op[c].at \in AfterLock => op[c].token \in Ids /\ (op[c].kind = "logout" => op[c].access \in Ids)
    BY <2>1 DEF CallOk, Presented
  <2>4. op[c].at \in AfterLock => /\ FamilyOf(op[c].token)' = FamilyOf(op[c].token)
                                  /\ Family0(c)' = Family0(c)
                                  /\ Mismatch(c)' = Mismatch(c)
    BY <1>1, <1>7, <1>8, <2>3 DEF Family0, Mismatch
  <2>5. op[c].at = "rotate" => (op[c].token \in Usable(FamilyOf(op[c].token)))'
    BY <1>1, <1>7, <2>1, <2>4 DEF LocksOk, AfterLock
  <2>6. LocksOk(c)'
    BY <1>1, <2>1, <2>4, <2>5 DEF LocksOk
  <2>7. WholeFamily(c)'
    BY <1>1, <2>1, <2>4 DEF WholeFamily, AfterLock
  <2> QED
    BY <2>2, <2>6, <2>7
<1>10. TypeInv' /\ LocksExclusive'
  BY <1>1, <1>5 DEF AInv, TypeInv, LocksExclusive, HoldsRow
<1>11. Answered'
  BY <1>1, <1>7, <1>8 DEF AInv, TypeInv, Answered, ReuseRevokesFamily
<1>12. RoomLeft'
  <2>1. \A c \in Calls : op[c].kind = "refresh" => op[c].token \in Ids
    BY DEF AInv, CallsInv, CallOk, Presented
  <2>2. Issuing' \subseteq Issuing
    BY <1>1, <1>6, <2>1 DEF Issuing
  <2> QED
    BY <1>5, <2>2, RoomKept DEF AInv
<1>13. Chains'
  BY <1>5, <1>6, ChainsKept DEF AInv
<1> QED
  BY <1>9, <1>10, <1>11, <1>12, <1>13 DEF AInv

-----------------------------------------------------------------------------
(***************************************************************************)
(* A row that is inserted is the last one.                                 *)
(***************************************************************************)
LEMMA InsertRow ==
  ASSUME TypeInv, NEW table \in Seq(TokenRows), Len(table) = Len(tokens), NEW row \in TokenRows,
         tokens' = Append(table, row)
  PROVE  /\ tokens' \in Seq(TokenRows)
         /\ Len(tokens') = Len(tokens) + 1
         /\ Ids' = Ids \cup {Len(tokens) + 1}
         /\ tokens'[Len(tokens) + 1] = row
         /\ \A i \in Ids : tokens'[i] = table[i]
BY TableIsASequence DEF Ids

(***************************************************************************)
(* What issues a pair was counted before it did.                           *)
(***************************************************************************)
LEMMA RoomUsed ==
  ASSUME TypeInv, RoomLeft, NEW c \in Issuing, Len(tokens') = Len(tokens) + 1,
         Issuing' \subseteq Issuing \ {c}
  PROVE  RoomLeft'
<1>1. IsFiniteSet(Issuing) /\ Cardinality(Issuing) \in Nat
  BY IssuingFinite, FS_CardinalityType
<1>2. IsFiniteSet(Issuing \ {c}) /\ Cardinality(Issuing \ {c}) = Cardinality(Issuing) - 1
  BY <1>1, FS_RemoveElement
<1>3. Cardinality(Issuing') <= Cardinality(Issuing \ {c}) /\ Cardinality(Issuing') \in Nat
  BY <1>2, FS_Subset, FS_CardinalityType
<1> QED
  BY <1>1, <1>2, <1>3, TableIsASequence, AuthAssumption DEF RoomLeft

(***************************************************************************)
(* A login opens a family of its own, with a number not seen before.       *)
(***************************************************************************)
LEMMA InsertFirstTokenInv ==
  ASSUME AInv, NEW c \in Calls, InsertFirstToken(c)
  PROVE  AInv'
<1>1. PICK n : n = Len(tokens) + 1
  OBVIOUS
<1>2. /\ op[c].at = "insert" /\ Finish(c) /\ tokens' = Append(tokens, NewToken(n, 0))
      /\ UNCHANGED <<denied, reused, loggedOut, overtaken>>
  BY <1>1 DEF InsertFirstToken, historyVars
<1>3. /\ Len(tokens) \in Nat /\ Ids = 1..Len(tokens) /\ \A k \in Ids : tokens[k] \in TokenRows
      /\ n \in Nat /\ n \notin Ids
  BY <1>1, TableIsASequence DEF AInv
<1>4. NewToken(n, 0) \in TokenRows
  BY <1>3 DEF NewToken, TokenRows
<1>5. /\ tokens' \in Seq(TokenRows) /\ Len(tokens') = n /\ Ids' = Ids \cup {n}
      /\ tokens'[n] = NewToken(n, 0) /\ \A k \in Ids : tokens'[k] = tokens[k]
  BY <1>1, <1>2, <1>4, InsertRow DEF AInv, TypeInv
<1>6. \A k \in Ids : FamilyOf(k) \in 1..k /\ FamilyOf(k)' = FamilyOf(k) /\ FamilyOf(k) \in Ids
  BY <1>3, <1>5 DEF AInv, Chains, FamilyOf
<1>7. \A g : g # n => FamilyRows(g)' = FamilyRows(g) /\ Usable(g)' = Usable(g)
  BY <1>5 DEF FamilyRows, FamilyOf, Usable, NewToken
<1>8. Chains'
  <2>1. tokens'[n].family = n /\ tokens'[n].parent = 0 /\ ~tokens'[n].used
    BY <1>5 DEF NewToken
  <2>2. 0 \notin Ids' /\ n > 0
    BY <1>1, <1>3, <1>5
  <2>3. \A k \in Ids' : k # n => k \in Ids /\ tokens'[k] = tokens[k]
    BY <1>5
  <2>4. /\ \A k \in Ids' : FamilyOf(k)' \in 1..k
        /\ \A k \in Ids' : tokens'[k].parent \in 0..(k - 1)
    BY <1>3, <2>2, <2>1, <2>3 DEF AInv, Chains, FamilyOf
  <2>5. \A k, j \in Ids' : tokens'[k].parent = j => k \in Ids /\ j \in Ids
    BY <1>1, <1>3, <2>2, <2>1, <2>3 DEF AInv, Chains
  <2>6. /\ \A k, j \in Ids' : tokens'[k].parent = j => tokens'[j].used
        /\ \A k, j, m \in Ids' : tokens'[k].parent = m /\ tokens'[j].parent = m => k = j
        /\ \A k \in Ids' : tokens'[k].used => \E j \in Ids' : tokens'[j].parent = k
    <3>1. \A k, j \in Ids' : tokens'[k].parent = j => tokens'[j].used
      BY <1>5, <2>5 DEF AInv, Chains
    <3>2. \A k, j, m \in Ids' : tokens'[k].parent = m /\ tokens'[j].parent = m => k = j
      <4> SUFFICES ASSUME NEW k \in Ids', NEW j \in Ids', NEW m \in Ids',
                          tokens'[k].parent = m, tokens'[j].parent = m
                   PROVE  k = j
        OBVIOUS
      <4>1. k \in Ids /\ j \in Ids /\ m \in Ids
        BY <2>5
      <4> QED
        BY <1>5, <4>1 DEF AInv, Chains
    <3>3. \A k \in Ids' : tokens'[k].used => \E j \in Ids' : tokens'[j].parent = k
      BY <1>5, <2>1, <2>3 DEF AInv, Chains
    <3> QED
      BY <3>1, <3>2, <3>3
  <2>7. \A k, j \in Ids' : FamilyOf(k)' = FamilyOf(j)' /\ ~tokens'[k].used /\ ~tokens'[j].used => k = j
    <3>1. \A k \in Ids : FamilyOf(k)' # n
      BY <1>3, <1>6
    <3> QED
      BY <2>1, <2>3, <3>1 DEF AInv, Chains, FamilyOf
  <2> QED
    BY <2>4, <2>6, <2>7 DEF Chains
<1>9. op' \in [Calls -> Transactions] /\ CallsInv' /\ LocksExclusive'
  <2>1. ASSUME NEW d \in Calls \ {c}
        PROVE  /\ op[d].at = "rotate" => op[d].token \in Usable(FamilyOf(op[d].token))'
               /\ WholeFamily(d)'
    <3>1. op'[d] = op[d] /\ CallOk(d) /\ LocksOk(d) /\ WholeFamily(d)
      BY <1>2 DEF Finish, AInv, TypeInv, CallsInv
    <3>2. op[d].at \in AfterLock => /\ op[d].token \in Ids
                                    /\ FamilyOf(op[d].token)' = FamilyOf(op[d].token)
                                    /\ FamilyOf(op[d].token) # n
      BY <1>3, <1>6, <3>1 DEF CallOk, Presented
    <3>3. op[d].at \in AfterLock => Family0(d)' = Family0(d)
      BY <1>7, <3>1, <3>2 DEF Family0
    <3>4. op[d].at = "rotate" => op[d].token \in Usable(FamilyOf(op[d].token))'
      BY <1>7, <3>1, <3>2 DEF LocksOk, AfterLock
    <3>5. WholeFamily(d)'
      BY <1>2, <3>1, <3>2, <3>3 DEF WholeFamily, AfterLock
    <3> QED
      BY <3>4, <3>5
  <2> QED
    BY <1>2, <1>5, <1>6, <2>1, OthersGoOn
<1>10. TypeInv'
  BY <1>2, <1>5, <1>9 DEF AInv, TypeInv
<1>11. Answered'
  BY <1>2, <1>3, <1>6, <1>7 DEF AInv, TypeInv, Answered, ReuseRevokesFamily
<1>12. RoomLeft'
  <2>1. op'[c].kind = "none" /\ \A d \in Calls \ {c} : op'[d] = op[d]
    BY <1>2 DEF Finish, Idle, AInv, TypeInv
  <2>2. \A d \in Calls : op[d].kind = "refresh" => op[d].token \in Ids
    BY DEF AInv, CallsInv, CallOk, Presented
  <2>3. c \in Issuing
    BY <1>2 DEF Issuing, AInv, CallsInv, CallOk
  <2>4. Issuing' \subseteq Issuing \ {c}
    BY <1>5, <2>1, <2>2 DEF Issuing
  <2> QED
    BY <1>1, <1>5, <2>3, <2>4, RoomUsed DEF AInv
<1> QED
  BY <1>8, <1>9, <1>10, <1>11, <1>12 DEF AInv

(***************************************************************************)
(* What a rotation does to the table: the usable token of its family is    *)
(* used, and a new one follows it.                                         *)
(***************************************************************************)
LEMMA RotateWrites ==
  ASSUME AInv, NEW c \in Calls, Rotate(c), NEW f, f = FamilyOf(op[c].token),
         NEW i, i = op[c].token, NEW n, n = Len(tokens) + 1
  PROVE  /\ i \in Ids /\ i \in Usable(f) /\ f \in 1..i /\ op[c].user /\ op[c].kind = "refresh"
         /\ tokens' \in Seq(TokenRows) /\ Len(tokens') = n /\ Ids' = Ids \cup {n} /\ n \notin Ids
         /\ tokens'[n] = NewToken(f, i)
         /\ \A k \in Ids : /\ tokens'[k].family = tokens[k].family
                           /\ tokens'[k].parent = tokens[k].parent
                           /\ tokens'[k].revoked = tokens[k].revoked
                           /\ tokens'[k].used <=> (tokens[k].used \/ k = i)
<1>1. op[c].at = "rotate" /\ tokens' = Append([tokens EXCEPT ![i].used = TRUE], NewToken(f, i))
  BY DEF Rotate, Rotated
<1>2. CallOk(c) /\ LocksOk(c)
  BY DEF AInv, CallsInv
<1>3. op[c].kind = "refresh" /\ i \in Ids /\ op[c].user /\ i \in Usable(f)
  BY <1>1, <1>2 DEF CallOk, LocksOk, AfterLock, Presented
<1>4. /\ Len(tokens) \in Nat /\ Ids = 1..Len(tokens) /\ \A k \in Ids : tokens[k] \in TokenRows
      /\ n \in Nat /\ n \notin Ids /\ tokens \in [1..Len(tokens) -> TokenRows]
  BY TableIsASequence DEF AInv, TypeInv
<1>5. f \in 1..i
  BY <1>3 DEF AInv, Chains
<1> DEFINE table == [tokens EXCEPT ![i].used = TRUE]
<1>6. table \in [1..Len(tokens) -> TokenRows]
  BY <1>3, <1>4 DEF TokenRows
<1>7. \A k \in Ids : /\ table[k].family = tokens[k].family
                     /\ table[k].parent = tokens[k].parent
                     /\ table[k].revoked = tokens[k].revoked
                     /\ table[k].used <=> (tokens[k].used \/ k = i)
  BY <1>3, <1>4 DEF TokenRows
<1>8. NewToken(f, i) \in TokenRows
  BY <1>3, <1>4, <1>5 DEF NewToken, TokenRows
<1>9. table \in Seq(TokenRows) /\ Len(table) = Len(tokens)
  BY <1>4, <1>6
<1> HIDE DEF table
<1>10. tokens' = Append(table, NewToken(f, i))
  BY <1>1 DEF table
<1>11. /\ tokens' \in Seq(TokenRows) /\ Len(tokens') = n /\ Ids' = Ids \cup {n}
       /\ tokens'[n] = NewToken(f, i) /\ \A k \in Ids : tokens'[k] = table[k]
  BY <1>8, <1>9, <1>10, InsertRow DEF AInv
<1> QED
  BY <1>3, <1>4, <1>5, <1>7, <1>11

(***************************************************************************)
(* A rotation moves its family on. Nobody else rotates at the same time,   *)
(* and a revocation at work on the family is that of a logout, which is    *)
(* overtaken.                                                              *)
(***************************************************************************)
LEMMA RotateInv ==
  ASSUME AInv, NEW c \in Calls, Rotate(c)
  PROVE  AInv'
<1>1. PICK f, i, n : f = FamilyOf(op[c].token) /\ i = op[c].token /\ n = Len(tokens) + 1
  OBVIOUS
<1>2. /\ op[c].at = "rotate" /\ Finish(c) /\ UNCHANGED <<denied, reused, loggedOut>>
      /\ overtaken' = IF \E d \in Calls : Revoking(d, f) THEN overtaken \cup {f} ELSE overtaken
  BY <1>1 DEF Rotate
<1>3. /\ i \in Ids /\ i \in Usable(f) /\ f \in 1..i /\ op[c].user /\ op[c].kind = "refresh"
      /\ tokens' \in Seq(TokenRows) /\ Len(tokens') = n /\ Ids' = Ids \cup {n} /\ n \notin Ids
      /\ tokens'[n] = NewToken(f, i)
      /\ \A k \in Ids : /\ tokens'[k].family = tokens[k].family
                        /\ tokens'[k].parent = tokens[k].parent
                        /\ tokens'[k].revoked = tokens[k].revoked
                        /\ tokens'[k].used <=> (tokens[k].used \/ k = i)
  BY <1>1, RotateWrites
<1>4. Ids = 1..Len(tokens) /\ Len(tokens) \in Nat
  BY TableIsASequence DEF AInv
<1>5. \A k \in Ids : FamilyOf(k)' = FamilyOf(k)
  BY <1>3 DEF FamilyOf
<1>6. tokens'[n].family = f /\ tokens'[n].parent = i /\ ~tokens'[n].used
  BY <1>3 DEF NewToken
<1>7. \A g : g # f => FamilyRows(g)' = FamilyRows(g) /\ Usable(g)' = Usable(g)
  BY <1>3, <1>6 DEF FamilyRows, FamilyOf, Usable
<1>8. Chains'
  <2>1. /\ \A k \in Ids' : FamilyOf(k)' \in 1..k
        /\ \A k \in Ids' : tokens'[k].parent \in 0..(k - 1)
    <3>1. f \in 1..n /\ i \in 0..(n - 1)
      BY <1>1, <1>3, <1>4
    <3>2. \A k \in Ids : tokens'[k].family \in 1..k /\ tokens'[k].parent \in 0..(k - 1)
      BY <1>3 DEF AInv, Chains, FamilyOf
    <3> QED
      BY <1>3, <1>6, <3>1, <3>2 DEF FamilyOf
  <2>2. \A k \in Ids, j \in Ids' : tokens'[k].parent = j => j \in Ids /\ tokens[j].used
    BY <1>1, <1>3, <1>4 DEF AInv, Chains
  <2>3. ~tokens[i].used /\ tokens[i].family = f
    BY <1>3 DEF Usable, FamilyRows, FamilyOf
  <2>4. \A k, j \in Ids' : tokens'[k].parent = j => tokens'[j].used
    BY <1>3, <1>6, <2>2
  <2>5. \A k, j, m \in Ids' : tokens'[k].parent = m /\ tokens'[j].parent = m => k = j
    <3> SUFFICES ASSUME NEW k \in Ids', NEW j \in Ids', NEW m \in Ids',
                        tokens'[k].parent = m, tokens'[j].parent = m
                 PROVE  k = j
      OBVIOUS
    <3>1. CASE k \in Ids /\ j \in Ids
      <4>1. m \in Ids /\ tokens[k].parent = m /\ tokens[j].parent = m
        BY <1>3, <2>2, <3>1
      <4>2. \A a, b, d \in Ids : tokens[a].parent = d /\ tokens[b].parent = d => a = b
        BY DEF AInv, Chains
      <4> QED
        BY <3>1, <4>1, <4>2
    <3>2. CASE k = n /\ j \in Ids
      BY <1>6, <2>2, <2>3, <3>2
    <3>3. CASE k \in Ids /\ j = n
      BY <1>6, <2>2, <2>3, <3>3
    <3> QED
      BY <1>3, <3>1, <3>2, <3>3
  <2>6. \A k \in Ids' : tokens'[k].used => \E j \in Ids' : tokens'[j].parent = k
    BY <1>3, <1>6 DEF AInv, Chains
  <2>7. \A k, j \in Ids' : FamilyOf(k)' = FamilyOf(j)' /\ ~tokens'[k].used /\ ~tokens'[j].used => k = j
    <3>1. \A k \in Ids : ~tokens'[k].used => FamilyOf(k)' # f /\ ~tokens[k].used
      BY <1>3, <1>5, <2>3 DEF AInv, Chains, FamilyOf
    <3> QED
      BY <1>3, <1>5, <1>6, <3>1 DEF AInv, Chains, FamilyOf
  <2> QED
    BY <2>1, <2>4, <2>5, <2>6, <2>7 DEF Chains
<1>9. op' \in [Calls -> Transactions] /\ CallsInv' /\ LocksExclusive'
  <2>1. ASSUME NEW d \in Calls \ {c}
        PROVE  /\ op[d].at = "rotate" => op[d].token \in Usable(FamilyOf(op[d].token))'
               /\ WholeFamily(d)'
    <3>1. op'[d] = op[d] /\ CallOk(d) /\ LocksOk(d) /\ WholeFamily(d) /\ ~op[d].user
      BY <1>2, <1>3 DEF Finish, AInv, TypeInv, CallsInv, LocksExclusive
    <3>2. op[d].at # "rotate"
      BY <3>1 DEF LocksOk, CallOk, AfterLock
    <3>3. op[d].at \in AfterLock => /\ op[d].token \in Ids
                                    /\ FamilyOf(op[d].token)' = FamilyOf(op[d].token)
      BY <1>5, <3>1 DEF CallOk, Presented
    <3>4. CASE FamilyOf(op[d].token) = f
      <4>1. op[d].at \in {"revoke", "deny", "commitRevocation"} => op[d].kind # "refresh" /\ f \in overtaken'
        BY <1>2, <3>1, <3>4 DEF LocksOk, AfterLock, Revoking
      <4> QED
        BY <3>1, <3>2, <3>3, <3>4, <4>1 DEF WholeFamily, AfterLock
    <3>5. CASE FamilyOf(op[d].token) # f
      <4>1. op[d].at \in AfterLock => Family0(d)' = Family0(d)
        BY <1>7, <3>1, <3>3, <3>5 DEF Family0
      <4> QED
        BY <1>2, <3>1, <3>2, <3>3, <4>1 DEF WholeFamily, AfterLock
    <3> QED
      BY <3>2, <3>4, <3>5
  <2> QED
    BY <1>2, <1>3, <1>5, <2>1, OthersGoOn
<1>10. TypeInv'
  BY <1>2, <1>3, <1>9 DEF AInv, TypeInv
<1>11. Answered'
  BY <1>2, <1>3, <1>5, <1>7 DEF AInv, TypeInv, Answered, ReuseRevokesFamily
<1>12. RoomLeft'
  <2>1. op'[c].kind = "none" /\ \A d \in Calls \ {c} : op'[d] = op[d]
    BY <1>2 DEF Finish, Idle, AInv, TypeInv
  <2>2. \A d \in Calls : op[d].kind = "refresh" => op[d].token \in Ids
    BY DEF AInv, CallsInv, CallOk, Presented
  <2>3. c \in Issuing
    BY <1>1, <1>3 DEF Issuing, Usable
  <2>4. Issuing' \subseteq Issuing \ {c}
    BY <1>3, <2>1, <2>2 DEF Issuing
  <2> QED
    BY <1>1, <1>3, <2>3, <2>4, RoomUsed DEF AInv
<1> QED
  BY <1>8, <1>9, <1>10, <1>11, <1>12 DEF AInv

-----------------------------------------------------------------------------
(***************************************************************************)
(* Every step keeps the invariant.                                         *)
(***************************************************************************)
LEMMA NextInv == AInv /\ [Next]_vars => AInv'
<1> SUFFICES ASSUME AInv, [Next]_vars PROVE AInv'
  OBVIOUS
<1>1. CASE UNCHANGED vars
  BY <1>1 DEF vars, tableVars, historyVars, AInv, TypeInv, Chains, CallsInv, CallOk, LocksOk,
              WholeFamily, LocksExclusive, Answered, RoomLeft, ReuseRevokesFamily, Ids, FamilyOf,
              FamilyRows, Family0, Usable, Mismatch, Presented, HoldsRow, Issuing
<1>2. ASSUME NEW c \in Calls, BeginLogin(c) PROVE AInv'
  BY <1>2, BeginInv DEF BeginLogin
<1>3. ASSUME NEW c \in Calls, NEW i \in Ids, BeginRefresh(c, i) PROVE AInv'
  BY <1>3, BeginInv DEF BeginRefresh
<1>4. ASSUME NEW c \in Calls, NEW i \in Ids, NEW j \in Ids, BeginLogout(c, i, j) PROVE AInv'
  BY <1>4, BeginInv DEF BeginLogout
<1>5. ASSUME NEW c \in Calls, Step(c) PROVE AInv'
  <2>1. CASE DeadlockVictim(c)
    BY <2>1, RollbackInv DEF DeadlockVictim
  <2> QED
    BY <1>5, <2>1, InsertFirstTokenInv, LockTokenInv, LockUserInv, ScanFamilyInv, RevokeRowInv,
       DenyInv, CommitRevocationInv, RotateInv DEF Step
<1>6. ASSUME NEW c \in Calls, Fail(c) PROVE AInv'
  BY <1>6, RollbackInv DEF Fail
<1> QED
  BY <1>1, <1>2, <1>3, <1>4, <1>5, <1>6, ExpireInv DEF Next

(***************************************************************************)
(* Logins, refreshes and logouts keep the invariant, however they          *)
(* interleave and fail.                                                    *)
(***************************************************************************)
THEOREM AuthInvariant == Spec => []AInv
BY InitInv, NextInv, PTL DEF Spec

(***************************************************************************)
(* A set of at most one number, and its cardinality.                       *)
(***************************************************************************)
LEMMA AtMostOne ==
  ASSUME NEW S, \A x, y \in S : x = y
  PROVE  Cardinality(S) \in {0, 1} /\ (Cardinality(S) = 1 <=> S # {})
<1>1. CASE S = {}
  BY <1>1, FS_EmptySet
<1>2. CASE S # {}
  <2>1. PICK x \in S : TRUE
    BY <1>2
  <2>2. S = {x}
    BY <2>1
  <2>3. Cardinality({x}) = 1
    BY FS_Singleton
  <2> QED
    BY <2>2, <2>3
<1> QED
  BY <1>1, <1>2

(***************************************************************************)
(* AuthService.refresh: a family is a chain with at most one usable end.   *)
(***************************************************************************)
THEOREM OneTokenIsUsable == Spec => []OneUsableToken
<1>1. AInv => OneUsableToken
  <2> SUFFICES ASSUME AInv PROVE OneUsableToken
    OBVIOUS
  <2>1. ASSUME NEW f \in Ids PROVE Cardinality(Usable(f)) <= 1
    <3>1. \A x, y \in Usable(f) : x = y
      BY DEF Usable, FamilyRows, AInv, Chains
    <3> QED
      BY <3>1, AtMostOne
  <2>2. ASSUME NEW i \in Ids
        PROVE  tokens[i].used = (Cardinality({j \in Ids : tokens[j].parent = i}) = 1)
    <3> DEFINE successors == {j \in Ids : tokens[j].parent = i}
    <3>1. \A x, y \in successors : x = y
      BY DEF AInv, Chains
    <3>2. tokens[i].used <=> successors # {}
      BY DEF AInv, Chains
    <3>3. tokens[i].used \in BOOLEAN
      BY TableIsASequence DEF AInv, TokenRows
    <3> HIDE DEF successors
    <3>4. tokens[i].used <=> Cardinality(successors) = 1
      BY <3>1, <3>2, AtMostOne
    <3> QED
      BY <3>3, <3>4 DEF successors
  <2> QED
    BY <2>1, <2>2 DEF OneUsableToken
<1> QED
  BY <1>1, AuthInvariant, PTL

(***************************************************************************)
(* The row of users is locked for as long as a reuse is at work: no        *)
(* refresh of the family slips past the revocation.                        *)
(***************************************************************************)
THEOREM ReuseRevokesTheFamily == Spec => []ReuseRevokesFamily
<1>1. AInv => ReuseRevokesFamily
  BY DEF AInv, Answered
<1> QED
  BY <1>1, AuthInvariant, PTL

(***************************************************************************)
(* A logout revokes the family and denies its access token together,       *)
(* unless a refresh commits a successor meanwhile.                         *)
(***************************************************************************)
THEOREM LogoutRevokesTheFamily == Spec => []LogoutRevokesFamilyUnlessOvertaken
<1>1. AInv => LogoutRevokesFamilyUnlessOvertaken
  BY DEF AInv, Answered, LogoutRevokesFamilyUnlessOvertaken
<1> QED
  BY <1>1, AuthInvariant, PTL

-----------------------------------------------------------------------------
(***************************************************************************)
(* The refinement of TokenFamily: a family's usable token, by its number.  *)
(***************************************************************************)
Current(f) ==
  IF f \notin Ids \/ FamilyRows(f) = {} THEN 0
  ELSE IF Usable(f) = {} THEN MaxTokens + 1
  ELSE CHOOSE i \in Usable(f) : TRUE

CurrentTokens == [f \in 1..MaxTokens |-> Current(f)]

(***************************************************************************)
(* The actions of TokenFamily in terms of the tables.                      *)
(***************************************************************************)
LEMMA FamilyActions ==
  ASSUME NEW f \in 1..MaxTokens
  PROVE  /\ Family!Issue(f) <=> /\ CurrentTokens'[f] \in (1..MaxTokens) \ Ids
                                /\ CurrentTokens' = [CurrentTokens EXCEPT ![f] = CurrentTokens'[f]]
                                /\ Ids' = Ids \cup {CurrentTokens'[f]}
         /\ Family!Open(f) <=> CurrentTokens[f] = 0 /\ Family!Issue(f)
         /\ Family!Rotate(f) <=> CurrentTokens[f] \in 1..MaxTokens /\ Family!Issue(f)
         /\ Family!Close(f) <=> /\ CurrentTokens[f] \in 1..MaxTokens
                                /\ CurrentTokens' = [CurrentTokens EXCEPT ![f] = MaxTokens + 1]
                                /\ UNCHANGED Ids
BY DEF Family!Issue, Family!Open, Family!Rotate, Family!Close, CurrentTokens, Current

(***************************************************************************)
(* Its steps and its initial state.                                        *)
(***************************************************************************)
LEMMA FamilyNext ==
  /\ Family!Next <=> \E f \in 1..MaxTokens : Family!Open(f) \/ Family!Rotate(f) \/ Family!Close(f)
  /\ UNCHANGED Family!vars <=> UNCHANGED <<CurrentTokens, Ids>>
  /\ Family!Init <=> CurrentTokens = [f \in 1..MaxTokens |-> 0] /\ Ids = {}
BY DEF Family!Next, Family!vars, Family!Init, CurrentTokens, Current

(***************************************************************************)
(* No row is out of the bound, and the usable token of a family is one row *)
(* of it.                                                                  *)
(***************************************************************************)
IdsInBound == Ids \subseteq 1..MaxTokens

CurrentIsUsable ==
  \A f \in 1..MaxTokens :
    /\ \A i \in Usable(f) : Current(f) = i
    /\ f \notin Ids => Current(f) = 0

(***************************************************************************)
(* A pair is reserved for every row there is and every one being issued.   *)
(***************************************************************************)
LEMMA IdsAreBounded == AInv => IdsInBound
<1> SUFFICES ASSUME AInv PROVE IdsInBound
  OBVIOUS
<1>1. Cardinality(Issuing) \in Nat
  BY IssuingFinite, FS_CardinalityType
<1>2. Len(tokens) \in Nat /\ Ids = 1..Len(tokens)
  BY TableIsASequence DEF AInv
<1> QED
  BY <1>1, <1>2, AuthAssumption DEF AInv, RoomLeft, IdsInBound

(***************************************************************************)
(* What the mapping picks is the one token there is.                       *)
(***************************************************************************)
LEMMA CurrentIs == AInv => CurrentIsUsable
<1> SUFFICES ASSUME AInv, NEW f \in 1..MaxTokens, NEW i \in Usable(f) PROVE Current(f) = i
  BY DEF CurrentIsUsable, Current
<1>1. i \in FamilyRows(f) /\ f \in Ids
  <2>1. i \in Ids /\ FamilyOf(i) = f
    BY DEF Usable, FamilyRows
  <2>2. f \in 1..i
    BY <2>1 DEF AInv, Chains
  <2> QED
    BY <2>1, <2>2, TableIsASequence DEF FamilyRows, AInv
<1>2. \A x, y \in Usable(f) : x = y
  BY DEF Usable, FamilyRows, AInv, Chains
<1>3. (CHOOSE x \in Usable(f) : TRUE) \in Usable(f)
  OBVIOUS
<1> QED
  BY <1>1, <1>2, <1>3 DEF Current

(***************************************************************************)
(* Families whose rows and usable tokens are the same are where they were. *)
(***************************************************************************)
LEMMA SameFamily ==
  ASSUME NEW g, g \in Ids <=> g \in Ids', FamilyRows(g)' = FamilyRows(g), Usable(g)' = Usable(g)
  PROVE  Current(g)' = Current(g)
BY DEF Current

(***************************************************************************)
(* A new token of family f is issued.                                      *)
(***************************************************************************)
LEMMA Issues ==
  ASSUME AInv, AInv', NEW f \in 1..MaxTokens, NEW n, Ids' = Ids \cup {n}, n \notin Ids,
         \A g \in 1..MaxTokens : g # f => Current(g)' = Current(g),
         n \in Usable(f)'
  PROVE  Family!Issue(f) /\ CurrentTokens[f] = Current(f)
<1>1. n \in 1..MaxTokens
  <2>1. IdsInBound'
    BY IdsAreBounded, PTL
  <2> QED
    BY <2>1 DEF IdsInBound
<1>2. Current(f)' = n
  <2>1. CurrentIsUsable'
    BY CurrentIs, PTL
  <2> QED
    BY <2>1 DEF CurrentIsUsable
<1>3. CurrentTokens' = [CurrentTokens EXCEPT ![f] = n] /\ CurrentTokens'[f] = n
  BY <1>2 DEF CurrentTokens
<1> QED
  BY <1>1, <1>3, FamilyActions DEF CurrentTokens

(***************************************************************************)
(* A step that touches no family is a stuttering step.                     *)
(***************************************************************************)
LEMMA NothingMoves ==
  ASSUME Ids' = Ids, \A g : FamilyRows(g)' = FamilyRows(g) /\ Usable(g)' = Usable(g)
  PROVE  UNCHANGED Family!vars
<1>1. \A g \in 1..MaxTokens : Current(g)' = Current(g)
  BY SameFamily
<1> QED
  BY <1>1, FamilyNext DEF CurrentTokens

(***************************************************************************)
(* A login opens a family, a rotation moves one on, a revocation closes    *)
(* one or leaves it as it was.                                             *)
(***************************************************************************)
LEMMA LoginOpens ==
  ASSUME AInv, AInv', NEW c \in Calls, InsertFirstToken(c)
  PROVE  Family!Next
<1>1. PICK n : n = Len(tokens) + 1
  OBVIOUS
<1>2. /\ Len(tokens) \in Nat /\ Ids = 1..Len(tokens) /\ n \in Nat /\ n \notin Ids
  BY <1>1, TableIsASequence DEF AInv
<1>3. NewToken(n, 0) \in TokenRows
  BY <1>2 DEF NewToken, TokenRows
<1>4. tokens' = Append(tokens, NewToken(n, 0))
  BY <1>1 DEF InsertFirstToken
<1>5. /\ Ids' = Ids \cup {n} /\ tokens'[n] = NewToken(n, 0) /\ \A k \in Ids : tokens'[k] = tokens[k]
  BY <1>1, <1>3, <1>4, InsertRow DEF AInv, TypeInv
<1>6. n \in 1..MaxTokens
  <2>1. IdsInBound'
    BY IdsAreBounded, PTL
  <2> QED
    BY <1>5, <2>1 DEF IdsInBound
<1>7. n \in Usable(n)'
  BY <1>5 DEF Usable, FamilyRows, FamilyOf, NewToken
<1>8. \A g : g # n => FamilyRows(g)' = FamilyRows(g) /\ Usable(g)' = Usable(g)
  BY <1>5 DEF FamilyRows, FamilyOf, Usable, NewToken
<1>9. \A g \in 1..MaxTokens : g # n => Current(g)' = Current(g)
  BY <1>5, <1>8, SameFamily
<1>10. Family!Issue(n) /\ CurrentTokens[n] = Current(n)
  BY <1>2, <1>5, <1>6, <1>7, <1>9, Issues
<1>11. Current(n) = 0
  BY <1>2 DEF Current
<1> QED
  BY <1>6, <1>10, <1>11, FamilyActions, FamilyNext

(***************************************************************************)
(* The usable token of the family was the one presented.                   *)
(***************************************************************************)
LEMMA RotationMoves ==
  ASSUME AInv, AInv', NEW c \in Calls, Rotate(c)
  PROVE  Family!Next
<1>1. PICK f, i, n : f = FamilyOf(op[c].token) /\ i = op[c].token /\ n = Len(tokens) + 1
  OBVIOUS
<1>2. /\ i \in Ids /\ i \in Usable(f) /\ f \in 1..i
      /\ Ids' = Ids \cup {n} /\ n \notin Ids /\ tokens'[n] = NewToken(f, i)
      /\ \A k \in Ids : /\ tokens'[k].family = tokens[k].family
                        /\ tokens'[k].revoked = tokens[k].revoked
                        /\ tokens'[k].used <=> (tokens[k].used \/ k = i)
  BY <1>1, RotateWrites
<1>3. f \in 1..MaxTokens /\ i \in 1..MaxTokens
  <2>1. IdsInBound
    BY IdsAreBounded
  <2> QED
    BY <1>2, <2>1, AuthAssumption DEF IdsInBound
<1>4. tokens'[n].family = f /\ ~tokens'[n].used /\ ~tokens'[n].revoked
  BY <1>2 DEF NewToken
<1>5. n \in Usable(f)'
  BY <1>2, <1>4 DEF Usable, FamilyRows, FamilyOf
<1>6. \A k \in Ids : FamilyOf(k)' = FamilyOf(k) /\ FamilyOf(i) = f
  BY <1>1, <1>2 DEF FamilyOf
<1>7. \A g : g # f => FamilyRows(g)' = FamilyRows(g) /\ Usable(g)' = Usable(g)
  BY <1>2, <1>4, <1>6 DEF FamilyRows, FamilyOf, Usable
<1>8. \A g \in 1..MaxTokens : g # f => Current(g)' = Current(g)
  <2>1. \A g \in 1..MaxTokens : g # f => (g \in Ids <=> g \in Ids') \/ g = n
    BY <1>2
  <2>2. FamilyRows(n) = {}
    BY <1>1, <1>2, TableIsASequence DEF AInv, Chains, FamilyRows
  <2>3. n # f => Current(n)' = Current(n)
    BY <1>2, <1>7, <2>2 DEF Current
  <2> QED
    BY <1>7, <2>1, <2>3, SameFamily
<1>9. Family!Issue(f) /\ CurrentTokens[f] = Current(f)
  BY <1>2, <1>3, <1>5, <1>8, Issues
<1>10. Current(f) = i
  BY <1>2, <1>3, CurrentIs DEF CurrentIsUsable
<1> QED
  BY <1>3, <1>9, <1>10, FamilyActions, FamilyNext

(***************************************************************************)
(* A revocation that has the usable token among its rows closes a family.  *)
(***************************************************************************)
LEMMA RevocationCloses ==
  ASSUME AInv, NEW c \in Calls, CommitRevocation(c)
  PROVE  Family!Next \/ UNCHANGED Family!vars
<1>1. PICK f : f = FamilyOf(op[c].token)
  OBVIOUS
<1>2. /\ Ids' = Ids
      /\ \A g : FamilyRows(g)' = FamilyRows(g) /\ Usable(g)' = Usable(g) \ op[c].rows
  BY RevocationWrites
<1>3. op[c].token \in Ids /\ op[c].rows \subseteq FamilyRows(f)
  BY <1>1 DEF CommitRevocation, AInv, CallsInv, CallOk, LocksOk, AfterLock, Presented, Family0
<1>4. f \in Ids /\ f \in 1..MaxTokens /\ FamilyRows(f) # {}
  <2>1. IdsInBound
    BY IdsAreBounded
  <2>2. f \in 1..op[c].token /\ op[c].token \in FamilyRows(f)
    BY <1>1, <1>3 DEF AInv, Chains, FamilyRows
  <2> QED
    BY <1>3, <2>1, <2>2, TableIsASequence DEF IdsInBound, AInv
<1>5. \A g : g # f => Usable(g)' = Usable(g)
  BY <1>2, <1>3 DEF Usable, FamilyRows
<1>6. CASE Usable(f)' = Usable(f)
  BY <1>2, <1>5, <1>6, NothingMoves
<1>7. CASE Usable(f)' # Usable(f)
  <2>1. PICK i \in Usable(f) : i \in op[c].rows
    BY <1>2, <1>7
  <2>2. \A x, y \in Usable(f) : x = y
    BY DEF Usable, FamilyRows, AInv, Chains
  <2>3. Usable(f)' = {}
    BY <1>2, <2>1, <2>2
  <2>4. Current(f)' = MaxTokens + 1
    BY <1>2, <1>4, <2>3 DEF Current
  <2>5. \A g \in 1..MaxTokens : g # f => Current(g)' = Current(g)
    BY <1>2, <1>5, SameFamily
  <2>6. Current(f) = i
    BY <1>4, <2>1, CurrentIs DEF CurrentIsUsable
  <2>7. i \in 1..MaxTokens
    BY <2>1, IdsAreBounded DEF IdsInBound, Usable, FamilyRows
  <2>8. CurrentTokens[f] \in 1..MaxTokens /\ CurrentTokens' = [CurrentTokens EXCEPT ![f] = MaxTokens + 1]
    BY <1>4, <2>4, <2>5, <2>6, <2>7 DEF CurrentTokens
  <2> QED
    BY <1>2, <1>4, <2>8, FamilyActions, FamilyNext
<1> QED
  BY <1>6, <1>7

(***************************************************************************)
(* Steps that leave all rows as they are, or only make a pair older.       *)
(***************************************************************************)
LEMMA AgeMovesNothing ==
  ASSUME AInv, UNCHANGED tokens \/ \E i \in Ids : Expire(i)
  PROVE  UNCHANGED Family!vars
<1>1. CASE UNCHANGED tokens
  BY <1>1, NothingMoves DEF Ids, FamilyRows, FamilyOf, Usable
<1>2. ASSUME NEW i \in Ids, Expire(i) PROVE UNCHANGED Family!vars
  <2>1. PICK age : tokens' = [tokens EXCEPT ![i].age = age]
    BY <1>2 DEF Expire
  <2>2. /\ Len(tokens) \in Nat /\ Ids = 1..Len(tokens) /\ \A k \in Ids : tokens[k] \in TokenRows
        /\ tokens \in [Ids -> TokenRows]
    BY TableIsASequence DEF AInv, TypeInv
  <2>3. Ids' = Ids
    BY <2>1, <2>2 DEF Ids
  <2>4. \A k \in Ids : /\ tokens'[k].family = tokens[k].family
                       /\ tokens'[k].used = tokens[k].used
                       /\ tokens'[k].revoked = tokens[k].revoked
    BY <2>1, <2>2 DEF TokenRows
  <2> QED
    BY <2>3, <2>4, NothingMoves DEF FamilyRows, FamilyOf, Usable
<1> QED
  BY <1>1, <1>2

(***************************************************************************)
(* Logins, rotations and revocations of PostgreSQL's rows are those of     *)
(* TokenFamily.                                                            *)
(***************************************************************************)
THEOREM TokensFormFamilies == Spec => ImplementsTokenFamily
<1>1. Init => Family!Init
  <2> SUFFICES ASSUME Init PROVE Family!Init
    OBVIOUS
  <2>1. Ids = {}
    BY DEF Init, Ids
  <2> QED
    BY <2>1, FamilyNext DEF CurrentTokens, Current
<1>2. AInv /\ AInv' /\ [Next]_vars => [Family!Next]_(Family!vars)
  <2> SUFFICES ASSUME AInv, AInv', [Next]_vars
               PROVE  Family!Next \/ UNCHANGED Family!vars
    OBVIOUS
  <2>1. ASSUME NEW c \in Calls, Step(c) PROVE Family!Next \/ UNCHANGED Family!vars
    <3>1. InsertFirstToken(c) \/ Rotate(c) \/ CommitRevocation(c) \/ UNCHANGED tokens
      BY <2>1 DEF Step, LockToken, LockUser, ScanFamily, RevokeRow, Deny, DeadlockVictim, Unwritten,
                  tableVars
    <3> QED
      BY <3>1, LoginOpens, RotationMoves, RevocationCloses, AgeMovesNothing
  <2>2. CASE \/ UNCHANGED vars
             \/ \E c \in Calls : BeginLogin(c) \/ Fail(c)
             \/ \E c \in Calls, i \in Ids : BeginRefresh(c, i)
             \/ \E c \in Calls, i, j \in Ids : BeginLogout(c, i, j)
    <3>1. UNCHANGED tokens
      BY <2>2 DEF vars, tableVars, BeginLogin, BeginRefresh, BeginLogout, Begin, Fail, Unwritten
    <3> QED
      BY <3>1, AgeMovesNothing
  <2> QED
    BY <2>1, <2>2, AgeMovesNothing DEF Next
<1> QED
  BY <1>1, <1>2, AuthInvariant, PTL DEF Spec, ImplementsTokenFamily, Family!Spec

=============================================================================
