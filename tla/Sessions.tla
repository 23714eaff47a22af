------------------------------ MODULE Sessions ------------------------------
(***************************************************************************)
(* session.ts: a session is a key with a TTL, which getSession reads with  *)
(* GET and renews with EXPIRE, two commands. Ids are random: a session is  *)
(* created once.                                                           *)
(***************************************************************************)
EXTENDS RedisClock

CONSTANTS
  Ids,      \* of sessions
  Readers,  \* calls of getSession that may be in progress
  Ttl,      \* SESSION_TTL_SECONDS in ticks
  NoSession

ASSUME SessionAssumption == Ttl \in Nat \ {0} /\ NoSession \notin Ids

VARIABLES
  session,  \* session[s]: the deadline of its key
  reader,   \* reader[r]: what it has read and will renew
  created,  \* history: sessions that have been created
  ended     \* history: sessions that have been deleted or have expired

sessionVars == <<session, reader, created, ended>>

SessionsInit ==
  /\ session = [s \in Ids |-> NoKey]
  /\ reader = [r \in Readers |-> NoSession]
  /\ created = {}
  /\ ended = {}

-----------------------------------------------------------------------------
Create(s) ==
  /\ s \notin created
  /\ session' = [session EXCEPT ![s] = time + Ttl]
  /\ created' = created \cup {s}
  /\ UNCHANGED <<reader, ended>>

(***************************************************************************)
(* GET; without a value getSession returns null at once.                   *)
(***************************************************************************)
GetValue(r, s) ==
  /\ reader[r] = NoSession
  /\ Alive(session[s])
  /\ reader' = [reader EXCEPT ![r] = s]
  /\ UNCHANGED <<session, created, ended>>

\* Mutation of Renewed: SET with the value that was read.
RenewedBySet(s) == time + Ttl

(***************************************************************************)
(* EXPIRE finds a key, or does nothing.                                    *)
(***************************************************************************)
Renewed(s) == IF Alive(session[s]) THEN time + Ttl ELSE session[s]

Expire(r) ==
  LET s == reader[r] IN
  /\ s # NoSession
  /\ session' = [session EXCEPT ![s] = Renewed(s)]
  /\ reader' = [reader EXCEPT ![r] = NoSession]
  /\ UNCHANGED <<created, ended>>

(***************************************************************************)
(* The process of r ends, or Redis does not answer it.                     *)
(***************************************************************************)
Lose(r) ==
  /\ reader[r] # NoSession
  /\ reader' = [reader EXCEPT ![r] = NoSession]
  /\ UNCHANGED <<session, created, ended>>

Delete(s) ==
  /\ session[s] # NoKey
  /\ session' = [session EXCEPT ![s] = NoKey]
  /\ ended' = ended \cup {s}
  /\ UNCHANGED <<reader, created>>

SessionsNext ==
  \/ \E s \in Ids : Create(s) \/ Delete(s)
  \/ \E r \in Readers, s \in Ids : GetValue(r, s)
  \/ \E r \in Readers : Expire(r) \/ Lose(r)

(***************************************************************************)
(* The sessions that end as the time becomes t.                            *)
(***************************************************************************)
ExpireAt(t) ==
  /\ ended' = ended \cup {s \in created : session[s] <= t}
  /\ UNCHANGED <<session, reader, created>>

SessionsSpec ==
  /\ time = 1 /\ SessionsInit
  /\ [][\/ SessionsNext /\ UNCHANGED time
        \/ Tick /\ ExpireAt(time')]_<<time, sessionVars>>

-----------------------------------------------------------------------------
(***************************************************************************)
(* A session that has ended stays ended, whoever has read it before and    *)
(* renews it late: no later getSession returns it.                         *)
(***************************************************************************)
EndedStaysEnded ==
  \A s \in ended : ~Alive(session[s])

=============================================================================
