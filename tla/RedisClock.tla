----------------------------- MODULE RedisClock -----------------------------
(***************************************************************************)
(* The time of the Redis server, which decides when keys expire. A tick is *)
(* a part of a second. A key holds its deadline, 0 when there is no key.   *)
(***************************************************************************)
EXTENDS Integers

CONSTANT MaxTime  \* bound: ticks

ASSUME ClockAssumption == MaxTime \in Nat

VARIABLE time

NoKey == 0

Alive(deadline) == deadline > time

Tick == time < MaxTime /\ time' = time + 1

=============================================================================
