--------------------------- MODULE AccessControl ---------------------------
(***************************************************************************)
(* What stands before a handler with @UseGuards(AuthGuard): the signature  *)
(* and the exp of the access token, which the process compares with its    *)
(* own clock, and the denylist, which the database compares with its own.  *)
(* RolesGuard only reads the token, and is left out.                       *)
(***************************************************************************)
EXTENDS Integers

CONSTANTS
  Users,
  Tokens,    \* access tokens, by jti
  Holder,    \* Holder[t]: the sub of t
  Requests,  \* calls of guarded handlers
  Lifetime,  \* JWT_ACCESS_TTL_SECONDS in ticks
  DbAhead,   \* how far the clock of the database is ahead
  MaxTime,   \* bound: ticks
  NoToken

ASSUME AccessAssumption ==
  /\ Holder \in [Tokens -> Users] /\ NoToken \notin Tokens
  /\ Lifetime \in Nat \ {0} /\ DbAhead \in Int /\ MaxTime \in Nat

VARIABLES
  time,       \* the clock of the API processes
  expires,    \* expires[t]: the exp of t, 0 before it is signed
  denylist,   \* denylist[t]: expires_at of its row, 0 if there is none
  loggedOut,  \* history: tokens whose logout has committed
  request     \* request[r]: its await and what it has got so far

tokenVars == <<expires, denylist, loggedOut>>

(***************************************************************************)
(* out, expired: whether the token had been logged out when the request    *)
(* came, and had expired for the database when the denylist was read.      *)
(***************************************************************************)
Unsent ==
  [at |-> "unsent", token |-> NoToken, out |-> FALSE, expired |-> FALSE, file |-> 0, size |-> 0]

Over == [Unsent EXCEPT !.at = "over"]

AccessInit ==
  /\ time = 1
  /\ expires = [t \in Tokens |-> 0]
  /\ denylist = [t \in Tokens |-> 0]
  /\ loggedOut = {}
  /\ request = [r \in Requests |-> Unsent]

-----------------------------------------------------------------------------
(***************************************************************************)
(* signAccessToken, by login or refresh.                                   *)
(***************************************************************************)
SignAccessToken(t) ==
  /\ expires[t] = 0
  /\ expires' = [expires EXCEPT ![t] = time + Lifetime]
  /\ UNCHANGED <<denylist, loggedOut, request>>

\* Mutation of DeniedUntil: exp, in seconds, is taken for milliseconds.
DeniedUntilEpoch(t) == 0

DeniedUntil(t) == expires[t]

(***************************************************************************)
(* The commit of a logout (AuthTokens). One that comes when the token has  *)
(* expired has nothing to deny.                                            *)
(***************************************************************************)
Logout(t) ==
  /\ time < expires[t]
  /\ denylist' = [denylist EXCEPT ![t] = DeniedUntil(t)]
  /\ loggedOut' = loggedOut \cup {t}
  /\ UNCHANGED <<expires, request>>

(***************************************************************************)
(* verifyAccessToken; a request it refuses might as well not have come.    *)
(***************************************************************************)
VerifyAccessToken(r, t) ==
  /\ request[r] = Unsent
  /\ time < expires[t]
  /\ request' = [request EXCEPT ![r].at = "guard", ![r].token = t, ![r].out = t \in loggedOut]
  /\ UNCHANGED tokenVars

ExpiredForDatabase(t) == expires[t] <= time + DbAhead

IsAccessTokenDenied(t) == denylist[t] > time + DbAhead

(***************************************************************************)
(* The SELECT, as long after verifyAccessToken as it takes.                *)
(***************************************************************************)
CanActivate(r) ==
  LET t == request[r].token IN
  /\ request[r].at = "guard"
  /\ request' = [request EXCEPT ![r] =
       IF IsAccessTokenDenied(t)
         THEN Over
         ELSE [@ EXCEPT !.at = "handler", !.expired = ExpiredForDatabase(t)]]
  /\ UNCHANGED tokenVars

Tick == time < MaxTime /\ time' = time + 1 /\ UNCHANGED <<tokenVars, request>>

AccessNext ==
  \/ \E t \in Tokens : SignAccessToken(t) \/ Logout(t)
  \/ \E r \in Requests, t \in Tokens : VerifyAccessToken(r, t)
  \/ \E r \in Requests : CanActivate(r)

-----------------------------------------------------------------------------
(***************************************************************************)
(* No handler runs for a request that came after the logout of its token   *)
(* had committed, except when the token had expired for the database       *)
(* before the denylist was read: its row then counts no more, while the    *)
(* process had found exp in the future.                                    *)
(***************************************************************************)
LoggedOutIsShutOut ==
  \A r \in Requests :
    request[r].at \notin {"unsent", "guard", "over"} /\ request[r].out => request[r].expired

=============================================================================
