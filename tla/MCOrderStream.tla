--------------------------- MODULE MCOrderStream ---------------------------
EXTENDS OrderRooms, TLC

CONSTANTS o1, o2, c1, anna, ben, s1

MCWatched == [c \in Clients |-> o1]

MCReader == [s \in Sockets |-> anna]

MCSince == [o \in Orders |-> 0]

MCOwner == o1 :> anna @@ o2 :> ben

(***************************************************************************)
(* Updates and requests are interchangeable: each is used after the one    *)
(* before it.                                                              *)
(***************************************************************************)
InTurn ==
  /\ \A u \in Updates \ {1} : update[u].at # "idle" => update[u - 1].at # "idle"
  /\ \A n \in Connections \ {1} : connection[n] # Unused => connection[n - 1] # Unused

(***************************************************************************)
(* Streams and sockets know nothing of each other: a behaviour has one of  *)
(* the two, apart from sockets that a restart has closed.                  *)
(***************************************************************************)
OneKind ==
  \/ \A n \in Connections : connection[n] = Unused
  \/ \A s \in Sockets : joining[s] = {} /\ rooms[s] = {} /\ heard[s] = <<>> /\ since[s] = MCSince

MCInit == Init /\ RoomsInit

MCSpec ==
  /\ MCInit
  /\ [][RoomsNext /\ InTurn' /\ OneKind']_<<vars, roomVars>>
  /\ Fairness

=============================================================================
