----------------------------- MODULE AuthTokens -----------------------------
(***************************************************************************)
(* AuthService.login, refresh and logout of one user, as transactions of   *)
(* PostgreSQL under READ COMMITTED. Row locks are explicit: refresh locks  *)
(* the token's row and, through its JOIN, the row of users; logout locks   *)
(* the token's row only; the INSERT of login needs the row of users for    *)
(* its foreign key. The UPDATE of a family works on the rows its snapshot  *)
(* shows, and waits for each that another transaction has locked.          *)
(*                                                                         *)
(* A token pair has one number: that of its refresh_tokens row, in the     *)
(* order of the commits, and of its access token's jti. A family has the   *)
(* number of its first token. Hashes, signatures and passwords are left    *)
(* out.                                                                    *)
(***************************************************************************)
EXTENDS Integers, Sequences, FiniteSets

CONSTANTS
  Calls,      \* requests that are in progress at a time
  MaxTokens,  \* bound: token pairs issued
  MaxAgings,  \* bound: expiries
  MaxFaults   \* bound: failures

ASSUME AuthAssumption ==
  IsFiniteSet(Calls) /\ MaxTokens \in Nat /\ MaxAgings \in Nat /\ MaxFaults \in Nat

VARIABLES
  tokens,     \* refresh_tokens, with the age of each pair
  denied,     \* access_token_denylist
  op,         \* op[c]: await, locals, locks and uncommitted writes of c
  reused,     \* history: families whose reuse was answered
  loggedOut,  \* history: families whose logout was answered
  overtaken,  \* history: families rotated while an UPDATE revoked their rows
  agings,     \* expiries so far
  faults      \* faults so far

tableVars == <<tokens, denied>>
historyVars == <<reused, loggedOut, overtaken>>
vars == <<tableVars, op, historyVars, agings, faults>>

(***************************************************************************)
(* rows and user are the locks a transaction holds, todo the rows its      *)
(* UPDATE has still to write, deny whether it has denied the access token. *)
(***************************************************************************)
Idle ==
  [at |-> "idle", kind |-> "none", token |-> 0, access |-> 0, rows |-> {}, user |-> FALSE,
   todo |-> {}, deny |-> FALSE]

Ids == DOMAIN tokens

FamilyOf(i) == tokens[i].family

FamilyRows(f) == {i \in Ids : FamilyOf(i) = f}

(***************************************************************************)
(* A pair ages: fresh, then its access token has expired, then its refresh *)
(* token too (600 seconds and 30 days).                                    *)
(***************************************************************************)
AccessValid(i) == tokens[i].age = 0

RefreshExpired(i) == tokens[i].age = 2

HoldsRow(c, i) == i \in op[c].rows

RowFree(c, i) == \A d \in Calls \ {c} : ~HoldsRow(d, i)

UserFree(c) == \A d \in Calls \ {c} : ~op[d].user

Init ==
  /\ tokens = <<>>
  /\ denied = {}
  /\ op = [c \in Calls |-> Idle]
  /\ reused = {} /\ loggedOut = {} /\ overtaken = {}
  /\ agings = 0
  /\ faults = 0

-----------------------------------------------------------------------------
NewToken(f, i) == [family |-> f, parent |-> i, used |-> FALSE, revoked |-> FALSE, age |-> 0]

(***************************************************************************)
(* The calls that may still add a pair: used tokens stay used.             *)
(***************************************************************************)
Issuing ==
  {c \in Calls : \/ op[c].kind = "login"
                 \/ op[c].kind = "refresh" /\ ~tokens[op[c].token].used}

RoomForAnother == Len(tokens) + Cardinality(Issuing) < MaxTokens

Begin(c, kind, i, j) ==
  /\ op[c] = Idle
  /\ op' = [op EXCEPT ![c].at = IF kind = "login" THEN "insert" ELSE "token",
                        ![c].kind = kind, ![c].token = i, ![c].access = j]
  /\ UNCHANGED <<tableVars, historyVars, agings, faults>>

(***************************************************************************)
(* The calls, with credentials or tokens the service has issued. logout    *)
(* verifies its access token before it asks the database.                  *)
(***************************************************************************)
BeginLogin(c) ==
  RoomForAnother /\ Begin(c, "login", 0, 0)

BeginRefresh(c, i) ==
  (tokens[i].used \/ RoomForAnother) /\ Begin(c, "refresh", i, 0)

BeginLogout(c, i, j) == AccessValid(j) /\ Begin(c, "logout", i, j)

Goto(c, label) == op' = [op EXCEPT ![c].at = label]

\* Mutation of Finish: the connection goes back to the pool in its transaction.
FinishHoldingLocks(c) ==
  op' = [op EXCEPT ![c] = [Idle EXCEPT !.rows = op[c].rows, !.user = op[c].user]]

Finish(c) == op' = [op EXCEPT ![c] = Idle]

Unwritten == UNCHANGED <<tableVars, historyVars>>

InsertFirstToken(c) ==
  /\ op[c].at = "insert"
  /\ UserFree(c)
  /\ tokens' = Append(tokens, NewToken(Len(tokens) + 1, 0))
  /\ Finish(c)
  /\ UNCHANGED <<denied, historyVars>>

Mismatch(c) == op[c].kind = "logout" /\ FamilyOf(op[c].token) # FamilyOf(op[c].access)

Inactive(i) == tokens[i].revoked \/ RefreshExpired(i)

Locked(c, label) ==
  IF Mismatch(c) THEN Finish(c)
  ELSE op' = [op EXCEPT ![c].at = label, ![c].rows = {op[c].token}]

\* Mutation of LockToken: the SELECT reads the row without FOR UPDATE.
ReadToken(c) ==
  /\ op[c].at = "token"
  /\ IF Mismatch(c) \/ (op[c].kind = "refresh" /\ Inactive(op[c].token))
       THEN Finish(c)
       ELSE Goto(c, CASE op[c].kind = "logout"    -> "scan"
                      [] tokens[op[c].token].used -> "scan"
                      [] OTHER                    -> "rotate")
  /\ Unwritten

(***************************************************************************)
(* SELECT ... FOR UPDATE: the row of the token first.                      *)
(***************************************************************************)
LockToken(c) ==
  /\ op[c].at = "token"
  /\ RowFree(c, op[c].token)
  /\ Locked(c, IF op[c].kind = "refresh" THEN "user" ELSE "scan")
  /\ Unwritten

Decision(c) == IF tokens[op[c].token].used THEN "scan" ELSE "rotate"

\* Mutation of LockUser: FOR UPDATE OF rt leaves the row of users alone.
LeaveUserUnlocked(c) ==
  /\ op[c].at = "user"
  /\ IF Inactive(op[c].token)
       THEN Finish(c)
       ELSE Goto(c, Decision(c))
  /\ Unwritten

(***************************************************************************)
(* Then the row of users, and the checks of refresh on what it read: not   *)
(* active is a 401, used is reuse, and the rest may rotate.                *)
(***************************************************************************)
LockUser(c) ==
  /\ op[c].at = "user"
  /\ UserFree(c)
  /\ IF Inactive(op[c].token)
       THEN Finish(c)
       ELSE op' = [op EXCEPT ![c].user = TRUE, ![c].at = Decision(c)]
  /\ Unwritten

\* Mutation of FamilyToRevoke: UPDATE ... WHERE id instead of family_id.
OnlyPresented(c) == {op[c].token}

FamilyToRevoke(c) == FamilyRows(FamilyOf(op[c].token))

(***************************************************************************)
(* UPDATE refresh_tokens SET revoked_at WHERE family_id: its snapshot,     *)
(* then its rows one by one, in an order that is the database's.           *)
(***************************************************************************)
ScanFamily(c) ==
  /\ op[c].at = "scan"
  /\ op' = [op EXCEPT ![c].at = "revoke", ![c].todo = FamilyToRevoke(c)]
  /\ Unwritten

AfterRevoke(c) == IF op[c].kind = "logout" THEN "deny" ELSE "commitRevocation"

RevokeRow(c, i) ==
  /\ op[c].at = "revoke"
  /\ i \in op[c].todo
  /\ RowFree(c, i)
  /\ op' = [op EXCEPT ![c].rows = @ \cup {i}, ![c].todo = @ \ {i},
                        ![c].at = IF op[c].todo = {i} THEN AfterRevoke(c) ELSE "revoke"]
  /\ Unwritten

\* Mutation of Deny: the INSERT runs on a connection of its own.
DenyAtOnce(c) ==
  /\ op[c].at = "deny"
  /\ denied' = denied \cup {op[c].access}
  /\ Goto(c, "commitRevocation")
  /\ UNCHANGED <<tokens, historyVars>>

(***************************************************************************)
(* INSERT INTO access_token_denylist, if the access token has not expired  *)
(* meanwhile.                                                              *)
(***************************************************************************)
Deny(c) ==
  /\ op[c].at = "deny"
  /\ op' = [op EXCEPT ![c].at = "commitRevocation", ![c].deny = AccessValid(op[c].access)]
  /\ Unwritten

CommitRevocation(c) ==
  LET f == FamilyOf(op[c].token) IN
  /\ op[c].at = "commitRevocation"
  /\ tokens' = [i \in Ids |-> IF i \in op[c].rows THEN [tokens[i] EXCEPT !.revoked = TRUE]
                                                  ELSE tokens[i]]
  /\ denied' = IF op[c].deny THEN denied \cup {op[c].access} ELSE denied
  /\ reused' = IF op[c].kind = "refresh" THEN reused \cup {f} ELSE reused
  /\ loggedOut' = IF op[c].kind = "logout" THEN loggedOut \cup {f} ELSE loggedOut
  /\ Finish(c)
  /\ UNCHANGED overtaken

Revoking(d, f) ==
  /\ op[d].at \in {"revoke", "deny", "commitRevocation"}
  /\ FamilyOf(op[d].token) = f

\* Mutation of Rotated: the UPDATE of used_at is missing.
RotatedUnmarked(i) ==
  Append(tokens, NewToken(FamilyOf(i), i))

Rotated(i) ==
  Append([tokens EXCEPT ![i].used = TRUE], NewToken(FamilyOf(i), i))

(***************************************************************************)
(* UPDATE ... SET used_at, the INSERT of the successor, and the commit:    *)
(* with the locks held, nothing of it is seen before.                      *)
(***************************************************************************)
Rotate(c) ==
  LET f == FamilyOf(op[c].token) IN
  /\ op[c].at = "rotate"
  /\ tokens' = Rotated(op[c].token)
  /\ overtaken' = IF \E d \in Calls : Revoking(d, f) THEN overtaken \cup {f} ELSE overtaken
  /\ Finish(c)
  /\ UNCHANGED <<denied, reused, loggedOut>>

(***************************************************************************)
(* c waits for a lock that d holds.                                        *)
(***************************************************************************)
WaitsFor(c, d) ==
  /\ c # d
  /\ \/ op[c].at = "token" /\ HoldsRow(d, op[c].token)
     \/ op[c].at \in {"user", "insert"} /\ op[d].user
     \/ op[c].at = "revoke" /\ \E i \in op[c].todo : HoldsRow(d, i)

Deadlocked(c) ==
  \E S \in SUBSET Calls :
    /\ c \in S
    /\ \A d \in S : (\E e \in S : WaitsFor(d, e)) /\ (\E e \in S : WaitsFor(e, d))

(***************************************************************************)
(* PostgreSQL ends a deadlock by rolling one of its transactions back.     *)
(***************************************************************************)
DeadlockVictim(c) ==
  /\ Deadlocked(c)
  /\ Finish(c)
  /\ Unwritten

Step(c) ==
  /\ \/ InsertFirstToken(c) \/ LockToken(c) \/ LockUser(c) \/ ScanFamily(c)
     \/ \E i \in Ids : RevokeRow(c, i)
     \/ Deny(c) \/ CommitRevocation(c) \/ Rotate(c) \/ DeadlockVictim(c)
  /\ UNCHANGED <<agings, faults>>

Fail(c) ==
  /\ op[c] # Idle
  /\ faults < MaxFaults
  /\ faults' = faults + 1
  /\ Finish(c)
  /\ Unwritten
  /\ UNCHANGED agings

(***************************************************************************)
(* Time passes one expiry of a pair, or both at once.                      *)
(***************************************************************************)
Expire(i) ==
  /\ agings < MaxAgings
  /\ agings' = agings + 1
  /\ \E age \in (tokens[i].age + 1)..2 : tokens' = [tokens EXCEPT ![i].age = age]
  /\ UNCHANGED <<denied, op, historyVars, faults>>

Next ==
  \/ \E c \in Calls : BeginLogin(c)
  \/ \E c \in Calls, i \in Ids : BeginRefresh(c, i)
  \/ \E c \in Calls, i, j \in Ids : BeginLogout(c, i, j)
  \/ \E c \in Calls : Step(c) \/ Fail(c)
  \/ \E i \in Ids : Expire(i)

(***************************************************************************)
(* Strong fairness: PostgreSQL queues those who wait for a row, so that    *)
(* a transaction is not passed over for ever by later ones.                *)
(***************************************************************************)
Fairness == \A c \in Calls : SF_vars(Step(c))

Spec == Init /\ [][Next]_vars /\ Fairness

-----------------------------------------------------------------------------
Usable(f) == {i \in FamilyRows(f) : ~tokens[i].used /\ ~tokens[i].revoked}

(***************************************************************************)
(* A family is a chain with at most one usable end: every used token was   *)
(* rotated into exactly one successor, however its refreshes race or fail. *)
(***************************************************************************)
OneUsableToken ==
  /\ \A f \in Ids : Cardinality(Usable(f)) <= 1
  /\ \A i \in Ids : tokens[i].used = (Cardinality({j \in Ids : tokens[j].parent = i}) = 1)

(***************************************************************************)
(* Once reuse of a token has been answered, no token of its family can be  *)
(* used, those issued while the UPDATE ran included.                       *)
(***************************************************************************)
ReuseRevokesFamily ==
  \A f \in reused : Usable(f) = {}

(***************************************************************************)
(* So it is after a logout, and as soon as its access token is denied:     *)
(* family and denylist change together. Not so if a refresh of the family  *)
(* committed while the logout was at work on the rows it had seen.         *)
(***************************************************************************)
LogoutRevokesFamilyUnlessOvertaken ==
  \A f \in (loggedOut \cup {FamilyOf(j) : j \in denied}) \ overtaken : Usable(f) = {}

(***************************************************************************)
(* A family's usable token only ever moves on or ends: TokenFamily.        *)
(***************************************************************************)
Family ==
  INSTANCE TokenFamily WITH
    Families <- 1..MaxTokens,
    TokenIds <- 1..MaxTokens,
    NotOpened <- 0,
    Closed <- MaxTokens + 1,
    issued <- Ids,
    current <- [f \in 1..MaxTokens |->
                  IF f \notin Ids \/ FamilyRows(f) = {} THEN 0
                  ELSE IF Usable(f) = {} THEN MaxTokens + 1
                  ELSE CHOOSE i \in Usable(f) : TRUE]

ImplementsTokenFamily == Family!Spec

(***************************************************************************)
(* Every call ends, whatever it meets on its way: deadlocks included.      *)
(***************************************************************************)
EveryCallEnds == \A c \in Calls : op[c] # Idle ~> op[c] = Idle

(***************************************************************************)
(* README.md:433: logout marks the refresh family revoked. The UPDATE does *)
(* not see a successor that a concurrent refresh commits after it began.   *)
(***************************************************************************)
LogoutRevokesFamily ==
  \A f \in loggedOut : Usable(f) = {}

=============================================================================
