---------------------------- MODULE ProcessBackend ----------------------------
(***************************************************************************)
(* The process backend, internal/process, for one unit name: a runner is a *)
(* child process with a process group of its own, and a goroutine reaps    *)
(* it.  Start and Stop share the semaphore starting.                       *)
(*                                                                         *)
(* Operators whose name starts with Bug are deliberately wrong variants of *)
(* the operator that follows them.                                         *)
(***************************************************************************)
EXTENDS Naturals

CONSTANT MaxLaunches    \* bound: processes started
LaunchAssumption == MaxLaunches \in Nat

VARIABLES
    start, call,    \* the calls, as in RunnerUnit
    spc,            \* where Start is
    sem,            \* who holds starting: Start, Stop or nobody
    gen,            \* processes started so far; each is one *unit
    entry,          \* units[unitName], 0 if there is none
    group,          \* by process: the members of its group that live
    doomed,         \* processes whose group got SIGKILL
    reaper,         \* by process: where its goroutine is
    copies,         \* processes whose copy of the credential exists
    stop,           \* where Stop is, and the process it stops
    waitOn          \* the process Wait looked up

vars == <<start, call, spc, sem, gen, entry, group, doomed, reaper, copies, stop,
          waitOn>>
processes == <<group, doomed>>

Launches == 1..MaxLaunches
Members  == {"leader", "child"}

Exited(g) == reaper[g] = "exited"
Alive == \E g \in Launches : group[g] # {}
Attempt == IF spc = "forked" THEN "launched" ELSE IF spc # "out" THEN "may" ELSE "void"

Init ==
    /\ start = "uncertain"
    /\ call = [op \in {"stop", "wait", "active"} |-> "error"]
    /\ spc = "out" /\ sem = "free" /\ gen = 0 /\ entry = 0
    /\ group = [g \in Launches |-> {}]
    /\ doomed = {} /\ copies = {}
    /\ reaper = [g \in Launches |-> "none"]
    /\ stop = [at |-> "out", on |-> 0]
    /\ waitOn = 0

-----------------------------------------------------------------------------
(* Start *)

StartCalled ==
    /\ spc = "out" /\ gen < MaxLaunches
    /\ spc' = "called"
    /\ start' = "called"
    /\ UNCHANGED <<call, sem, gen, entry, processes, reaper, copies, stop, waitOn>>

(* The copies without the one of a start that fails *)
Discarded == copies \ {gen + 1}

(* A check, a cancelled context, PrepareSlot or the fork fails *)
StartRefused ==
    /\ spc \in {"called", "held", "prepared"}
    /\ spc' = "out"
    /\ start' = "not_started"
    /\ sem' = IF spc = "called" THEN sem ELSE "free"
    /\ copies' = Discarded
    /\ UNCHANGED <<call, gen, entry, processes, reaper, stop, waitOn>>

StartAcquires ==
    /\ spc = "called" /\ sem = "free"
    /\ spc' = "held" /\ sem' = "start"
    /\ UNCHANGED <<start, call, gen, entry, processes, reaper, copies, stop, waitOn>>

(* The unit has no process that is not confirmed to be gone *)
Vacant == entry # 0 => Exited(entry)

(* The runner's own copy of the credential, and PrepareSlot *)
Prepare ==
    /\ spc = "held"
    /\ Vacant
    /\ spc' = "prepared"
    /\ copies' = copies \cup {gen + 1}
    /\ UNCHANGED <<start, call, sem, gen, entry, processes, reaper, stop, waitOn>>

(* cmd.Start *)
Fork ==
    /\ spc = "prepared"
    /\ spc' = "forked"
    /\ gen' = gen + 1
    /\ group' = [group EXCEPT ![gen + 1] = {"leader"}]
    /\ UNCHANGED <<start, call, sem, entry, doomed, reaper, copies, stop, waitOn>>

Register ==
    /\ spc = "forked"
    /\ spc' = "out" /\ sem' = "free"
    /\ entry' = gen
    /\ reaper' = [reaper EXCEPT ![gen] = "waiting"]
    /\ start' = "ok"
    /\ UNCHANGED <<call, gen, processes, copies, stop, waitOn>>

-----------------------------------------------------------------------------
(* Processes, and the goroutine that reaps a group *)

Spawn(g) ==
    /\ "leader" \in group[g] /\ g \notin doomed
    /\ group' = [group EXCEPT ![g] = Members]
    /\ UNCHANGED <<start, call, spc, sem, gen, entry, doomed, reaper, copies, stop, waitOn>>

Dies(g, m) ==
    /\ m \in group[g]
    /\ group' = [group EXCEPT ![g] = @ \ {m}]
    /\ UNCHANGED <<start, call, spc, sem, gen, entry, doomed, reaper, copies, stop, waitOn>>

(* cmd.Wait returns: the wrapper is gone, and the rest of the group is killed *)
Reap(g) ==
    /\ reaper[g] = "waiting" /\ "leader" \notin group[g]
    /\ reaper' = [reaper EXCEPT ![g] = "reaped"]
    /\ doomed' = doomed \cup {g}
    /\ UNCHANGED <<start, call, spc, sem, gen, entry, group, copies, stop, waitOn>>

BugGroupGone(g) == TRUE                 \* SIGKILL is taken for the end of the group
BugGroupWatched(g) == FALSE             \* a wait that does not see the group's end
(* waitForGroupExit returns *)
GroupGone(g) == group[g] = {}

Confirm(g) ==
    /\ reaper[g] = "reaped" /\ GroupGone(g)
    /\ reaper' = [reaper EXCEPT ![g] = "exited"]
    /\ copies' = copies \ {g}
    /\ UNCHANGED <<start, call, spc, sem, gen, entry, processes, stop, waitOn>>

-----------------------------------------------------------------------------
(* Stop *)

StopAnswers(answer) ==
    /\ call' = [call EXCEPT !["stop"] = answer]
    /\ stop' = [at |-> "out", on |-> 0]
    /\ sem' = IF stop.at = "called" THEN sem ELSE "free"
    /\ UNCHANGED <<start, spc, gen, entry, group, reaper, copies, waitOn>>

StopCalled ==
    /\ stop.at = "out"
    /\ stop' = [at |-> "called", on |-> 0]
    /\ call' = [call EXCEPT !["stop"] = "called"]
    /\ UNCHANGED <<start, spc, sem, gen, entry, processes, reaper, copies, waitOn>>

BugStopCancelled ==             \* the semaphore is given back without having been taken
    /\ stop.at = "called"
    /\ call' = [call EXCEPT !["stop"] = "error"]
    /\ stop' = [at |-> "out", on |-> 0] /\ sem' = "free"
    /\ UNCHANGED <<start, spc, gen, entry, processes, reaper, copies, waitOn>>
StopCancelled == stop.at = "called" /\ StopAnswers("error") /\ UNCHANGED doomed

(* An entry that is missing proves that there is no process only once a    *)
(* concurrent Start has registered its own.                                *)
StopLooks ==
    /\ stop.at = "called" /\ sem = "free"
    /\ sem' = "stop"
    /\ stop' = [at |-> "found", on |-> entry]
    /\ UNCHANGED <<start, call, spc, gen, entry, processes, reaper, copies, waitOn>>

StopGone ==
    /\ stop.at \in {"found", "killed"}
    /\ stop.on # 0 => Exited(stop.on)
    /\ StopAnswers("gone") /\ UNCHANGED doomed

(* SIGTERM; after the grace SIGKILL *)
StopKills ==
    /\ stop.at = "found" /\ stop.on # 0
    /\ stop' = [stop EXCEPT !.at = "killed"]
    /\ doomed' = doomed \cup {stop.on}
    /\ UNCHANGED <<start, call, spc, sem, gen, entry, group, reaper, copies, waitOn>>

BugStopExpires ==               \* without the SIGKILL
    /\ stop.at \in {"found", "killed"} /\ stop.on # 0
    /\ StopAnswers("error") /\ UNCHANGED doomed

(* The context ends first: SIGKILL, but no confirmation *)
StopExpires ==
    /\ stop.at \in {"found", "killed"} /\ stop.on # 0
    /\ doomed' = doomed \cup {stop.on}
    /\ StopAnswers("error")

-----------------------------------------------------------------------------
(* Wait and Active *)

WaitCalled ==
    /\ call["wait"] # "called"
    /\ waitOn' = entry
    /\ call' = [call EXCEPT !["wait"] = "called"]
    /\ UNCHANGED <<start, spc, sem, gen, entry, processes, reaper, copies, stop>>

(* An unknown unit is an error, as is a context that ends *)
WaitAnswers(answer) ==
    /\ call["wait"] = "called"
    /\ answer = "gone" => waitOn # 0 /\ Exited(waitOn)
    /\ call' = [call EXCEPT !["wait"] = answer]
    /\ waitOn' = 0
    /\ UNCHANGED <<start, spc, sem, gen, entry, processes, reaper, copies, stop>>

ActiveCalled ==
    /\ call["active"] # "called"
    /\ call' = [call EXCEPT !["active"] = "called"]
    /\ UNCHANGED <<start, spc, sem, gen, entry, processes, reaper, copies, stop, waitOn>>

ActiveAnswers ==
    /\ call["active"] = "called"
    /\ call' = [call EXCEPT !["active"] = IF Vacant THEN "gone" ELSE "there"]
    /\ UNCHANGED <<start, spc, sem, gen, entry, processes, reaper, copies, stop, waitOn>>

-----------------------------------------------------------------------------
StartStep == StartAcquires \/ Prepare \/ Fork \/ Register \/ StartRefused
StopStep  == StopGone \/ StopKills \/ StopExpires

Next ==
    \/ StartCalled \/ StartStep
    \/ StopCalled \/ StopCancelled \/ StopLooks \/ StopStep
    \/ WaitCalled \/ (\E answer \in {"gone", "error"} : WaitAnswers(answer))
    \/ ActiveCalled \/ ActiveAnswers
    \/ \E g \in Launches : Spawn(g) \/ Reap(g) \/ Confirm(g) \/ \E m \in Members : Dies(g, m)

(* The goroutines run, and what got SIGKILL dies; nothing else has to end *)
Killed(g) == g \in doomed /\ \E m \in Members : Dies(g, m)

-----------------------------------------------------------------------------
CallsTypeOK ==
    /\ spc \in {"out", "called", "held", "prepared", "forked"}
    /\ sem \in {"free", "start", "stop"}
    /\ sem = "start" <=> spc \in {"held", "prepared", "forked"}
    /\ sem = "stop" <=> stop.at \in {"found", "killed"}
    /\ stop \in [at : {"out", "called", "found", "killed"}, on : 0..gen]
    /\ waitOn \in 0..gen

ProcessesTypeOK ==
    /\ gen \in 0..MaxLaunches /\ entry \in 0..gen
    /\ group \in [Launches -> SUBSET Members]
    /\ doomed \subseteq 1..gen
    /\ reaper \in [Launches -> {"none", "waiting", "reaped", "exited"}]

CopiesOK ==
    copies = {g \in Launches : \/ reaper[g] \in {"waiting", "reaped"}
                               \/ spc = "prepared" /\ g = gen + 1
                               \/ spc = "forked" /\ g = gen}

TypeOK == CallsTypeOK /\ ProcessesTypeOK /\ CopiesOK
=============================================================================
