---------------------------- MODULE SystemdBackend ----------------------------
(***************************************************************************)
(* The systemd backend, internal/systemd, for one unit name.  Every call   *)
(* runs a command that sends a request to the system's manager and waits   *)
(* for the reply.  A command whose deadline ends is killed: the request it *)
(* has sent stays where it is.                                             *)
(*                                                                         *)
(* Operators whose name starts with Bug are deliberately wrong variants of *)
(* the operator that follows them.                                         *)
(***************************************************************************)
EXTENDS Naturals, Sequences

CONSTANTS
    InOrder,        \* the manager answers a query after the requests before it
    MaxInbox        \* bound: requests the manager has not read
SystemdAssumption == InOrder \in BOOLEAN /\ MaxInbox \in Nat \ {0}

VARIABLES
    start, call,    \* the calls, as in RunnerUnit
    asked,          \* calls whose command has been run
    inbox,          \* requests the manager has not read, and whether their command lives
    jobs,           \* commands that wait for a job of the unit
    heard,          \* by command: the reply it has got
    unit            \* the unit, as the manager knows it

vars == <<start, call, asked, inbox, jobs, heard, unit>>

Request == {"start", "stop", "wait", "active"}

Running == unit \in {"activating", "active", "deactivating"}
Queued == \E i \in 1..Len(inbox) : inbox[i].op = "start"
Attempt ==
    IF Queued \/ (start = "called" /\ "start" \notin asked) THEN "may"
    ELSE IF start = "called" /\ ("start" \in jobs \/ heard["start"] \in {"ok", "ended"}) THEN "launched"
    ELSE "void"

Init ==
    /\ start = "uncertain"
    /\ call = [op \in {"stop", "wait", "active"} |-> "error"]
    /\ asked = {} /\ inbox = <<>> /\ jobs = {}
    /\ heard = [op \in Request |-> "none"]
    /\ unit \in {"absent", "active", "ended"}

Under(op) == IF op = "start" THEN start = "called" ELSE call[op] = "called"

(* The table starts a unit name again only when its last start is settled *)
StartCalled ==
    /\ start # "called" /\ ~Queued
    /\ start' = "called"
    /\ UNCHANGED <<call, asked, inbox, jobs, heard, unit>>

(* Identity, paths, environment file, caches or PrepareSlot *)
StartRefused ==
    /\ start = "called" /\ "start" \notin asked
    /\ start' = "not_started"
    /\ UNCHANGED <<call, asked, inbox, jobs, heard, unit>>

Called(op) ==
    /\ call[op] # "called"
    /\ call' = [call EXCEPT ![op] = "called"]
    /\ UNCHANGED <<start, asked, inbox, jobs, heard, unit>>

(* systemd-run or systemctl; it may fail before it has sent anything *)
Run(op) ==
    /\ Under(op) /\ op \notin asked
    /\ asked' = asked \cup {op}
    /\ \/ /\ Len(inbox) < MaxInbox
          /\ inbox' = Append(inbox, [op |-> op, lives |-> TRUE])
          /\ UNCHANGED heard
       \/ /\ heard' = [heard EXCEPT ![op] = "failed"]
          /\ UNCHANGED inbox
    /\ UNCHANGED <<start, call, jobs, unit>>

(* Wait asks again as long as the unit is there *)
PollAgain ==
    /\ heard["wait"] = "there"
    /\ heard' = [heard EXCEPT !["wait"] = "none"]
    /\ asked' = asked \ {"wait"}
    /\ UNCHANGED <<start, call, inbox, jobs, unit>>

-----------------------------------------------------------------------------
(* How a call ends *)

Told(op, answer) ==
    /\ IF op = "start" THEN start' = answer /\ UNCHANGED call
       ELSE call' = [call EXCEPT ![op] = answer] /\ UNCHANGED start
    /\ asked' = asked \ {op}
    /\ heard' = [heard EXCEPT ![op] = "none"]
    /\ UNCHANGED unit

BugFailure(op) == IF op = "start" THEN "not_started" ELSE "error"   \* attempted is not set
(* What a call answers when its command fails or is killed *)
Failure(op) == IF op = "start" THEN "uncertain" ELSE "error"

Answers(op) ==
    /\ Under(op) /\ heard[op] # "none"
    /\ op = "wait" => heard[op] # "there"
    /\ Told(op, IF heard[op] \in {"failed", "ended"} THEN Failure(op) ELSE heard[op])
    /\ UNCHANGED <<inbox, jobs>>

Abandoned(ops) ==
    /\ inbox' = [i \in 1..Len(inbox) |-> [inbox[i] EXCEPT !.lives = @ /\ inbox[i].op \notin ops]]
    /\ jobs' = jobs \ ops

TimesOut(op) ==
    /\ Under(op) /\ op \in asked
    /\ Told(op, Failure(op))
    /\ Abandoned({op})

(* The daemon ends, and its commands with it *)
Crash ==
    /\ start' = IF start = "called" THEN "uncertain" ELSE start
    /\ call' = [op \in DOMAIN call |-> IF call[op] = "called" THEN "error" ELSE call[op]]
    /\ asked' = {}
    /\ heard' = [op \in Request |-> "none"]
    /\ Abandoned(Request)
    /\ UNCHANGED unit

-----------------------------------------------------------------------------
(* The manager *)

Query == {"wait", "active"}
BugEnded == {"absent", "ended", "deactivating"}     \* a unit that stops counts as ended
Ended == {"absent", "ended"}

Reply(op) ==
    CASE op = "wait"   -> IF unit \in Ended THEN "gone" ELSE "there"
      [] op = "active" -> IF unit = "absent" THEN "gone" ELSE "there"
      [] op = "start"  -> IF unit = "absent" THEN "none" ELSE "failed"
      [] op = "stop"   -> IF unit = "absent" THEN "failed"
                          ELSE IF unit = "ended" THEN "gone" ELSE "none"

(* A job is accepted, or the reply sent at once; a stop cancels a start *)
Serve(i) ==
    LET r == inbox[i]
        cancelled == r.op = "stop" /\ Running /\ "start" \in jobs
    IN  /\ i = 1 \/ (~InOrder /\ r.op \in Query)
        /\ inbox' = SubSeq(inbox, 1, i - 1) \o SubSeq(inbox, i + 1, Len(inbox))
        /\ unit' = IF r.op = "start" /\ unit = "absent" THEN "activating"
                   ELSE IF r.op = "stop" /\ Running THEN "deactivating" ELSE unit
        /\ jobs' = (jobs \ (IF cancelled THEN {"start"} ELSE {}))
                     \cup (IF r.lives /\ Reply(r.op) = "none" THEN {r.op} ELSE {})
        /\ heard' = [op \in Request |->
                       IF op = r.op /\ r.lives THEN Reply(op)
                       ELSE IF op = "start" /\ cancelled THEN "ended" ELSE heard[op]]
        /\ UNCHANGED <<start, call, asked>>

(* The job's shell has been executed *)
Exec ==
    /\ unit = "activating"
    /\ unit' = "active"
    /\ heard' = [heard EXCEPT !["start"] = IF "start" \in jobs THEN "ok" ELSE @]
    /\ jobs' = jobs \ {"start"}
    /\ UNCHANGED <<start, call, asked, inbox>>

RunnerEnds ==
    /\ Running
    /\ unit' = "ended"
    /\ heard' = [op \in Request |->
                   IF op \notin jobs THEN heard[op] ELSE IF op = "stop" THEN "gone" ELSE "ended"]
    /\ jobs' = {}
    /\ UNCHANGED <<start, call, asked, inbox>>

(* --collect: a unit that ended is unloaded *)
Collect ==
    /\ unit = "ended"
    /\ unit' = "absent"
    /\ UNCHANGED <<start, call, asked, inbox, jobs, heard>>

-----------------------------------------------------------------------------
Next ==
    \/ StartCalled \/ StartRefused \/ PollAgain \/ Crash
    \/ \E op \in DOMAIN call : Called(op)
    \/ \E op \in Request : Run(op) \/ Answers(op) \/ TimesOut(op)
    \/ \E i \in 1..Len(inbox) : Serve(i)
    \/ Exec \/ RunnerEnds \/ Collect

TypeOK ==
    /\ asked \subseteq {op \in Request : Under(op)}
    /\ Len(inbox) <= MaxInbox
    /\ \A i \in 1..Len(inbox) : inbox[i].op \in Request /\ inbox[i].lives \in BOOLEAN
    /\ jobs \subseteq asked \cap {"start", "stop"}
    /\ heard \in [Request -> {"none", "ok", "failed", "ended", "gone", "there"}]
    /\ \A op \in Request : heard[op] # "none" => op \in asked \ jobs
    /\ unit \in {"absent", "activating", "active", "deactivating", "ended"}
=============================================================================
