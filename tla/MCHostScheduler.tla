--------------------------- MODULE MCHostScheduler ---------------------------
(* TLC instances of HostScheduler *)
EXTENDS HostScheduler

NoFloor  == [p \in Pool |-> 0]
OneEach  == [p \in Pool |-> 1]
OneAndTwo == [p \in Pool |-> IF p = 0 THEN 1 ELSE 2]

(* The first pool keeps one runner warm *)
WarmFirst == [p \in Pool |-> IF p = 0 THEN 1 ELSE 0]

(* The daemon starts on a host without runners, ... *)
Fresh == {{}}

(* ... or also with more than the host and the first pool may have *)
FreshOrCrowded == {{}, {<<0, 1>>, <<0, 2>>, <<1, 1>>}}
=============================================================================
