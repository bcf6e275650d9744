------------------------------ MODULE MCPayload ------------------------------
(* TLC instances of Payload *)
EXTENDS Payload

(* The second version brings a file and drops one *)
OldAndNew == {"v1", "v2"}
SomeFiles == [v \in OldAndNew |-> IF v = "v1" THEN {1, 2} ELSE {2, 3}]
=============================================================================
