---------------------------- MODULE MCRedisState ----------------------------
(***************************************************************************)
(* The limiter and the sessions on one Redis. They share nothing but its   *)
(* time, and a behaviour uses one of them.                                 *)
(***************************************************************************)
EXTENDS RateLimiter, Sessions

vars == <<time, limiterVars, sessionVars>>

MCSkew == [i \in Instances |-> IF i = 1 THEN 0 ELSE 1]

Init == time = 1 /\ LimiterInit /\ SessionsInit

PassTime ==
  /\ Tick
  /\ InTime
  /\ ExpireAt(time')
  /\ UNCHANGED limiterVars

Next ==
  \/ LimiterNext /\ UNCHANGED <<time, sessionVars>>
  \/ SessionsNext /\ UNCHANGED <<time, limiterVars>>
  \/ PassTime

OneInUse == begun' = 0 \/ created' = {}

(***************************************************************************)
(* What a check brings does not depend on the scripts that have run: the   *)
(* checks of a tick are sent before its scripts run, the slow clock first. *)
(***************************************************************************)
SentFirst ==
  begun' > begun =>
    /\ \A n \in DOMAIN log : log[n].time < time
    /\ \A c \in sent, d \in sent' \ sent : c.at = time => c.now <= d.now

(***************************************************************************)
(* A check that throws before its script runs might as well not have been. *)
(***************************************************************************)
ThrowsAfterScript ==
  log' = log =>
    \A c \in sent \ sent' : \E n \in DOMAIN log : log[n].check = c.check

ResetAtRest == since' # since => sent = {}

MCSpec ==
  Init /\ [][Next /\ OneInUse /\ SentFirst /\ ThrowsAfterScript /\ ResetAtRest]_vars

=============================================================================
