--------------------------- MODULE AtomicPurchase ---------------------------
(***************************************************************************)
(* What checkout promises of the stock and the balances: a purchase takes  *)
(* both in one step, or nothing, and neither ever goes below zero.         *)
(***************************************************************************)
EXTENDS Integers

CONSTANTS Purchases, Users, Products

VARIABLES
  stock,    \* stock[p]: units of p that can be sold
  balance,  \* balance[u]: money of u
  bought    \* bought[c]: what purchase c took, a record, or the empty tuple

vars == <<stock, balance, bought>>

Buy(c, u, p) ==
  LET quantity == stock[p] - stock'[p]
      total    == balance[u] - balance'[u]
  IN
  /\ bought[c] = <<>>
  /\ quantity \in 1..stock[p] /\ total \in 1..balance[u]
  /\ stock' = [stock EXCEPT ![p] = @ - quantity]
  /\ balance' = [balance EXCEPT ![u] = @ - total]
  /\ bought' = [bought EXCEPT ![c] =
       [user |-> u, product |-> p, quantity |-> quantity, total |-> total]]

Next == \E c \in Purchases, u \in Users, p \in Products : Buy(c, u, p)

=============================================================================
