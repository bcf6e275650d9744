----------------------------- MODULE MCSlotTable -----------------------------
(* TLC instances of SlotTable *)
EXTENDS SlotTable

(* No action reads completed, reports or relisted: two states that differ  *)
(* only there have the same future, and the properties of the safety run   *)
(* do not look at them.                                                    *)
SafetyView == <<memory, host, assigned, claims, lastGen, restarts>>
=============================================================================
