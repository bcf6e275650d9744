------------------------------ MODULE MCListener ------------------------------
EXTENDS Listener

CONSTANTS p1, p2

(* One pool may go down to no runner, the other keeps one *)
Pools == {p1, p2}
MinRunners == [p \in Pools |-> IF p = p1 THEN 0 ELSE 1]
MaxRunners == [p \in Pools |-> IF p = p1 THEN 1 ELSE 2]
=============================================================================
