---------------------------- MODULE TokenFamily ----------------------------
(***************************************************************************)
(* What rotation promises of refresh tokens: a family has at most one      *)
(* token that a client may still use, a rotation replaces it by one never  *)
(* issued before, and a family that has been closed stays closed.          *)
(***************************************************************************)
CONSTANTS
  Families,   \* logins
  TokenIds,   \* refresh tokens
  NotOpened,  \* a family before its login
  Closed      \* a family without a token that may be used

VARIABLES
  current,  \* current[f]: the token of f that may be used
  issued    \* tokens issued so far

vars == <<current, issued>>

Init ==
  /\ current = [f \in Families |-> NotOpened]
  /\ issued = {}

Issue(f) ==
  /\ current'[f] \in TokenIds \ issued
  /\ current' = [current EXCEPT ![f] = current'[f]]
  /\ issued' = issued \cup {current'[f]}

Open(f) == current[f] = NotOpened /\ Issue(f)

Rotate(f) == current[f] \in TokenIds /\ Issue(f)

Close(f) ==
  /\ current[f] \in TokenIds
  /\ current' = [current EXCEPT ![f] = Closed]
  /\ UNCHANGED issued

Next == \E f \in Families : Open(f) \/ Rotate(f) \/ Close(f)

Spec == Init /\ [][Next]_vars

=============================================================================
