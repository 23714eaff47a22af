-------------------------- MODULE MCEventDelivery --------------------------
(***************************************************************************)
(* Two stories. "start": two events are published on a broker without      *)
(* queues, to consumers that handle one at a time. "again": one event on   *)
(* a declared broker, with more faults and two copies at a time.           *)
(***************************************************************************)
EXTENDS EventDelivery

CONSTANTS Stories

VARIABLE story

Within ==
  CASE story = "start" -> /\ faults <= 1
                          /\ \A c \in Consumers : handler[<<c, 2>>] = Free
    [] story = "again" -> outbox[2] = "none"

MCInit ==
  /\ Init
  /\ story \in Stories
  /\ topology = IF story = "start" THEN {} ELSE Parts

(***************************************************************************)
(* Fairness, of steps within the story.                                    *)
(***************************************************************************)
MCFairness ==
  /\ \A r \in Relays : WF_vars(RelayStep(r))
  /\ \A c \in Consumers : WF_vars(ConsumerStep(c) /\ UNCHANGED story /\ Within')
  /\ \A s \in Slots : WF_vars(Handle(s) \/ NackFailed(s))

MCSpec == MCInit /\ [][Next /\ UNCHANGED story /\ Within']_<<vars, story>> /\ MCFairness

=============================================================================
