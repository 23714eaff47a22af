---------------------------- MODULE MCAuthTokens ----------------------------
EXTENDS AuthTokens

(***************************************************************************)
(* Calls are interchangeable: 2 is used for a call that begins while 1 is  *)
(* in progress. The first pair is the one that gets old, and the one whose *)
(* access token a logout may bring along with another pair's refresh token.*)
(***************************************************************************)
SecondCallOverlaps ==
  op[2] = Idle /\ op[2]' # Idle => op[1] # Idle

FirstPairAges ==
  \A i \in DOMAIN tokens' \ {1} : tokens'[i].age = 0

LogoutWithOwnOrFirst ==
  \A c \in Calls : op'[c].kind = "logout" => op'[c].access \in {1, op'[c].token}

(***************************************************************************)
(* A behaviour has an expiry or a failure, not both.                       *)
(***************************************************************************)
OneMishap == agings' + faults' <= 1

MCNext ==
  Next /\ SecondCallOverlaps /\ FirstPairAges /\ LogoutWithOwnOrFirst /\ OneMishap

MCSpec == Init /\ [][MCNext]_vars /\ Fairness

=============================================================================
