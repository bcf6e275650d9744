------------------------------ MODULE RunnerUnit ------------------------------
(***************************************************************************)
(* What a backend promises about one unit name, runner.go: the interface   *)
(* Backend and ErrNotStarted.  Calls take effect at some moment between    *)
(* the call and its answer; the runner may end at any moment.              *)
(***************************************************************************)
VARIABLES
    runner,         \* a runner of the unit lives
    attempt,        \* the last Start: it "may" launch one, has "launched" it, or is "void"
    start,          \* what the last Start answered, or "called"
    call,           \* the same for Stop, Wait and Active
    quiet,          \* calls since which there was a moment without a runner
    after           \* calls made after the last Start had answered

vars == <<runner, attempt, start, call, quiet, after>>

Op == {"stop", "wait", "active"}
StartAnswer == {"ok", "not_started", "uncertain"}

Init ==
    /\ runner \in BOOLEAN
    /\ attempt = "void"
    /\ start = "uncertain"
    /\ call = [op \in Op |-> "error"]
    /\ quiet = {} /\ after = {}

(* Nobody starts a unit again while its last start may still come true *)
StartCalled ==
    /\ start # "called" /\ attempt # "may"
    /\ start' = "called" /\ attempt' = "may"
    /\ UNCHANGED <<runner, call>>

(* A launch may be late, even after an uncertain answer *)
Launch ==
    /\ attempt = "may" /\ ~runner
    /\ runner' = TRUE
    /\ attempt' = IF start = "called" THEN "launched" ELSE "void"
    /\ UNCHANGED <<start, call>>

(* Or it turns out that there will be none *)
Void ==
    /\ attempt = "may"
    /\ attempt' = "void"
    /\ UNCHANGED <<runner, start, call>>

(* ErrNotStarted proves that this attempt did not start a live runner; any *)
(* other error proves nothing.                                             *)
StartAnswers(answer) ==
    /\ start = "called"
    /\ answer = "ok" => attempt = "launched"
    /\ answer = "not_started" => attempt # "launched"
    /\ start' = answer
    /\ attempt' = IF attempt = "may" /\ answer = "uncertain" THEN "may" ELSE "void"
    /\ UNCHANGED <<runner, call>>

RunnerEnds == runner /\ runner' = FALSE /\ UNCHANGED <<attempt, start, call>>

Called(op) ==
    /\ call[op] # "called"
    /\ call' = [call EXCEPT ![op] = "called"]
    /\ UNCHANGED <<runner, attempt, start>>

(* Stop returns after the runner is gone, Wait returns nil only for a      *)
(* confirmed exit, Active leaves out only what does not run.  When such a  *)
(* call was made after a Start, that Start brings no runner up any more.   *)
Answers(op, answer) ==
    /\ call[op] = "called"
    /\ answer = "gone" => op \in quiet
    /\ call' = [call EXCEPT ![op] = answer]
    /\ attempt' = IF answer = "gone" /\ op \in after THEN "void" ELSE attempt
    /\ UNCHANGED <<runner, start>>

(* The daemon ends and with it its calls; the runner goes on *)
Crash ==
    /\ start' = IF start = "called" THEN "uncertain" ELSE start
    /\ call' = [op \in Op |-> IF call[op] = "called" THEN "error" ELSE call[op]]
    /\ attempt' \in (IF attempt = "may" THEN {"may", "void"} ELSE {"void"})
    /\ UNCHANGED runner

(* While a Start is under way, Wait and Active may speak of the time before *)
Follow ==
    /\ quiet' = {op \in Op : call'[op] = "called" /\
                                 \/ op \in quiet /\ call[op] = "called"
                                 \/ ~runner'
                                 \/ op # "stop" /\ start' = "called"}
    /\ after' = {op \in Op : call'[op] = "called" /\ start' # "called"
                                 /\ (op \in after \/ call[op] # "called")}

Step ==
    \/ StartCalled \/ Launch \/ Void \/ RunnerEnds \/ Crash
    \/ \E answer \in StartAnswer : StartAnswers(answer)
    \/ \E op \in Op : Called(op) \/ \E answer \in {"gone", "there", "error"} : Answers(op, answer)

Next == Step /\ Follow

Spec == Init /\ [][Next]_vars
=============================================================================
