------------------------------- MODULE Backends -------------------------------
(***************************************************************************)
(* The backend the daemon was configured with, app.go backendFor, and the  *)
(* promise it keeps whichever of the two that is.                          *)
(***************************************************************************)
EXTENDS Naturals, FiniteSets, Sequences

CONSTANTS MaxLaunches, InOrder, MaxInbox

VARIABLES
    kind,           \* runtime.backend of the configuration
    start, call,    \* the calls of the slot table and what they answered
    quiet, after,   \* history of the calls, see RunnerUnit
    spc, sem, gen, entry, group, doomed, reaper, copies, stop, waitOn,
    asked, inbox, jobs, heard, unit

P == INSTANCE ProcessBackend
S == INSTANCE SystemdBackend

process == <<spc, sem, gen, entry, group, doomed, reaper, copies, stop, waitOn>>
systemd == <<asked, inbox, jobs, heard, unit>>
vars == <<kind, start, call, quiet, after, process, systemd>>

Unit == INSTANCE RunnerUnit WITH
    runner  <- IF kind = "process" THEN P!Alive ELSE S!Running,
    attempt <- IF kind = "process" THEN P!Attempt ELSE S!Attempt

ASSUME BackendsAssumption == P!LaunchAssumption /\ S!SystemdAssumption

Init ==
    /\ kind \in {"process", "systemd"}
    /\ P!Init /\ S!Init
    /\ kind = "process" => unit = "absent"
    /\ quiet = {} /\ after = {}

Process == kind = "process" /\ P!Next /\ UNCHANGED systemd
Systemd == kind = "systemd" /\ S!Next /\ UNCHANGED process

Next == UNCHANGED kind /\ (Process \/ Systemd) /\ Unit!Follow

(* Start and Stop get on or meet their deadline, the goroutines are        *)
(* scheduled, and what got SIGKILL dies.  No runner has to end by itself.  *)
Scheduling ==
    /\ WF_process(P!StartStep)
    /\ WF_process(P!StopStep)
    /\ \A g \in P!Launches :
          /\ WF_process(P!Reap(g))
          /\ WF_process(P!Confirm(g))
          /\ WF_process(P!Killed(g))

Spec == Init /\ [][Next]_vars /\ Scheduling

-----------------------------------------------------------------------------
(* Properties *)

(* The variables keep their types; the semaphore is held exactly while a   *)
(* Start or a Stop is between taking and giving it back, and only a        *)
(* command that still lives waits for a job.  A copy of the credential     *)
(* lasts from before the fork until the exit is confirmed or the start has *)
(* failed.                                                                 *)
TypeOK ==
    /\ kind \in {"process", "systemd"}
    /\ P!TypeOK /\ S!TypeOK

(* Each backend implements the interface: what a Start, Stop, Wait or      *)
(* Active answers is true of the runner, whatever else is under way, and   *)
(* no late launch follows a confirmed exit.                                *)
HonoursContract == Unit!Spec

(* A unit name has one process group at a time, its children included,     *)
(* however starts, stops and exits of the process backend overlap.         *)
OneGroup == Cardinality({g \in P!Launches : group[g] # {}}) <= 1

(* Whoever finds a process to stop brings it to a confirmed end, also when *)
(* the deadline of the call comes first.                                   *)
StopEnds == \A g \in P!Launches : stop.on = g ~> P!Exited(g)

(* The end of a wrapper ends its whole group and is confirmed in the end,  *)
(* whatever the wrapper left running.                                      *)
ExitIsConfirmed ==
    \A g \in P!Launches : (reaper[g] = "waiting" /\ "leader" \notin group[g]) ~> P!Exited(g)
=============================================================================
