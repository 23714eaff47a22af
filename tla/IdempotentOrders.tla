-------------------------- MODULE IdempotentOrders --------------------------
(***************************************************************************)
(* What POST /orders promises, with no transactions in it: an              *)
(* Idempotency-Key names at most one order, and the order, the key that    *)
(* names it and the event that announces it appear in one step.            *)
(***************************************************************************)

CONSTANTS
  Keys,       \* Idempotency-Key header values
  OrderIds,   \* ids an order may get
  NoOrder     \* what a key names before its order is placed; not an id

VARIABLES
  placed,     \* placed[k]: the order key k names
  existing,   \* ids of the orders
  announced   \* ids of the orders whose order.placed event is stored

vars == <<placed, existing, announced>>

TypeOK ==
  /\ placed \in [Keys -> OrderIds \cup {NoOrder}]
  /\ existing \subseteq OrderIds
  /\ announced \subseteq OrderIds

Init ==
  /\ placed = [k \in Keys |-> NoOrder]
  /\ existing = {}
  /\ announced = {}

(***************************************************************************)
(* The id is whatever the step gives the key, provided no order had it.    *)
(***************************************************************************)
Place(k) ==
  /\ placed[k] = NoOrder
  /\ placed'[k] \in OrderIds \ existing
  /\ placed' = [placed EXCEPT ![k] = placed'[k]]
  /\ existing' = existing \cup {placed'[k]}
  /\ announced' = announced \cup {placed'[k]}

Next == \E k \in Keys : Place(k)

Spec == Init /\ [][Next]_vars

=============================================================================
