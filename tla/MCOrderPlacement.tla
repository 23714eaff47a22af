-------------------------- MODULE MCOrderPlacement --------------------------
EXTENDS OrderPlacement

CONSTANTS pen, retired, k1, k2

(***************************************************************************)
(* An empty body, one with two lines, and one whose second line is of a    *)
(* product that is no longer active.                                       *)
(***************************************************************************)
Of(p, n) == [product |-> p, quantity |-> n]

MCBodies == {<<>>, <<Of(pen, 1), Of(pen, 2)>>, <<Of(pen, 1), Of(retired, 1)>>}

MCProducts == {pen, retired}

MCActive == {pen}

\* For the runs about what a replay answers: two bodies that are accepted.
MCTwoBodies == {<<Of(pen, 1)>>, <<Of(pen, 2)>>}

MCInitialPrices == {[p \in MCActive |-> 1]}

(***************************************************************************)
(* Requests 1 and 2 race for key k1; request 3, sent any time, may use k1  *)
(* too, or a key of its own, k2.                                           *)
(* Requests that share a key are interchangeable, so they are numbered in  *)
(* the order in which they are sent.                                       *)
(***************************************************************************)
MCKeys == {k1, k2}

Sent ==
  /\ pc[1] = "idle" => pc[2] = "idle"
  /\ KeyOf(1) # k2 /\ KeyOf(2) # k2

MCSpec == Init /\ [][Next /\ Sent']_vars /\ Fairness

=============================================================================
