--------------------------- MODULE MCTaskWorkers ---------------------------
EXTENDS TaskWorkers, TLC

CONSTANTS u1, u2, lamp, desk

(***************************************************************************)
(* Calls compete for the lamps, which are two, and for the money of u1,    *)
(* which is enough for two lamps or one desk. u1 and u2 buy the same       *)
(* product, u1 buys two products, and one request is refused at once.      *)
(***************************************************************************)
MCRequests ==
  1 :> {[user |-> u1, product |-> lamp, quantity |-> 1]} @@
  2 :> {[user |-> u1, product |-> lamp, quantity |-> 1],
        [user |-> u1, product |-> desk, quantity |-> 1]} @@
  3 :> {[user |-> u2, product |-> lamp, quantity |-> 2],
        [user |-> u2, product |-> lamp, quantity |-> 1],
        [user |-> u2, product |-> lamp, quantity |-> 0]}

MCPrice == lamp :> 1 @@ desk :> 2

MCStock == lamp :> 2 @@ desk :> 1

MCBalance == u1 :> 2 @@ u2 :> 2

=============================================================================
