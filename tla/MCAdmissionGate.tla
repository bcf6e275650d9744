--------------------------- MODULE MCAdmissionGate ---------------------------
(* TLC instances of AdmissionGate *)
EXTENDS AdmissionGate

(* The file holds a light and a heavy job of pool "p" and one of "q"; two *)
(* more jobs of "p" are to come.                                          *)
Records == 1..5
Pools   == <<"p", "p", "q", "p", "p">>
Refs    == <<"a", "b", "b", "b", "a">>
Peaks   == <<2, 8, 4, 4, 2>>
Samples == <<TRUE, TRUE, TRUE, TRUE, FALSE>>
Sizes   == <<1, 1, 1, 2, 1>>
Former  == <<1, 2, 3>>

Places == Permutations(Slot)
=============================================================================
