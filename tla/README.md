# Verification of tentacles

tentacles keeps GitHub Actions runners on one host: one scale set per pool, one
single-use runner per slot, started as a transient systemd unit.  This directory
holds TLA+ models of its core, the TLC configurations that check them on small
instances, and TLAPS proofs, for instances of every size, of every property of the
passing runs that is not liveness: invariants, action properties and the refinement.
What stays with TLC is liveness under fairness, which this prover cannot state, and the
four properties the findings refute.

    tlc -workers 2 -config MCSlotTable_safety.cfg MCSlotTable
    tlapm SlotTableProofs.tla

and likewise for the other `MC*.tla` with their `MC*_<run>.cfg`, and for the other
`*Proofs.tla`.

| Module | Models | Extends or instantiates |
|---|---|---|
| SlotTable, SlotTableProofs | one slot table with its goroutines, units and files | |
| HostScheduler, HostSchedulerProofs | the run loop over all pools | |
| History | the usage history and its file | |
| AdmissionGate, AdmissionGateProofs | hints, estimates, the gate | History |
| RunnerUnit | what a backend promises about a unit | |
| ProcessBackend, SystemdBackend | the two backends, for one unit name | |
| Backends, BackendsProofs | the configured backend, against the promise | ProcessBackend, SystemdBackend, RunnerUnit |
| Listener, ListenerProofs | boot, sessions, readiness, shutdown | |
| Payload, PayloadProofs | the runner payload and its template | |
| Logship, LogshipProofs | archives of diagnostics and their retention | |
| FoldProofs | nothing: lemmas about folds and sums that two of the proof modules use | |

## The system

One process, `tentacles`.  Its parts, the state each keeps and what makes it
correct:

| Part | Source | State | Operations | Correct when |
|---|---|---|---|---|
| Slot table, one per pool | `internal/slot` | records by ID, the lock `mu`, the semaphore `ops` | Ensure, Shutdown, Claim, the exits its watchers see, Adopt, Close | no runner loses its files or its place in the table, none with a job is stopped, every ID comes back |
| Host scheduler and run loop | `internal/app/scheduler.go`, `app.go`, `pool.go` | cursor, desired counts, backoff per pool, the wake-up channel | reconcilePools, requestReconcile, the retry timer | the host ceiling holds, pools share free slots in turn, demand is served in the end |
| Admission gate, queue hints | `internal/app` | hints by workflow, with counts and ages | admissionGate, noteQueued, consumeQueuedRef, candidateEstimate | hints follow the queue, what is admitted fits whichever hinted jobs come |
| Usage history | `internal/history` | moving averages, a JSON-lines file | Open, Append, rotation | a torn line costs one more record at most, a restart changes no estimate |
| Scale-set listener | `internal/scaleset`, `app.go` | the scale set's ID, the message session | EnsureScaleSet, Run, its handlers, GenerateJIT | one scale set per pool, `desired` follows the statistics, sessions are reopened and closed |
| Payload manager | `internal/payload` | cache, template directory, marker | Ensure, CopySlot | a template is complete and of the version its marker names, across crashes |
| Backends | `internal/systemd`, `internal/process` | units or process groups | Start, Stop, Wait, Active | ErrNotStarted only without a runner, Wait answers only for a confirmed exit |
| Runner seam, credentials | `internal/runner`, `internal/cleanup` | the JIT file | WriteJIT, PrepareSlot, ShredCredentials | no file outlives its slot |
| Diagnostics | `internal/logship` | archives, staging directories | ShipDiag, Prune | published archives are whole, retention never removes one in the making |
| Configuration, environment, metrics, command line | `internal/config`, `env`, `metrics`, `cmd` | none that is read back | | |

How they interact.  The listener of a pool calls back into the pool: a new
desired count is stored and the run loop is nudged; a JobStarted message becomes
`Table.Claim`.  The run loop is one goroutine: it adopts what a former daemon
left (`Active`, `Adopt`), then waits for a nudge, a 30-second tick or a retry
timer and runs `reconcilePools`, which calls `Table.Ensure` pool by pool.  The
table calls the backend, starts one watcher goroutine per runner and one wipe
goroutine per cleanup, and reports through hooks: events (which nudge the run
loop or start the backoff) and completions (which go to the history).

What is hard: watchers, wipes, claims and the run loop all change one record,
with the lock released around every call of the backend and the file system; IDs
(and with them unit names, directories and JIT files) are reused; starts and
stops can fail without saying whether they took effect; the daemon can die
anywhere while runners go on.  `PROJECT.json` lists the hazards line by line
with the properties that stand guard.

## Plan

Done, in this order: SlotTable and its proofs; HostScheduler and its proofs; Payload
and its proofs; History and AdmissionGate; RunnerUnit, the two backends and the
refinement; Listener; Logship; the proofs of Listener, Logship and the backends; the
life of a record (the second part of SlotTableProofs); folds, and with them the proofs of
History and AdmissionGate and of the retention of Logship.

Next:

1. What a completion carries (MarkResult, the sampler) in SlotTable.
2. The counting of SlotTable's scale-down: HostScheduler takes it as "no more than the
   surplus", which SlotTable could be shown to implement.

## SlotTable

### State and actions

The variables are the daemon's memory (`slots`, and where the goroutines stand),
the host (`unit`, `dir`, `jit`), and what left the table (`claims`, `completed`,
`reports`).  `relisted` is a history variable: the runners that had ended when a boot
found their unit listed.  One action stands for one critical section of `Table.mu` or one call
that others can overtake.

| Goroutine | Code | Actions |
|---|---|---|
| run loop, `pc` | Ensure, Shutdown | EnsureBegin, BeginShutdown, RetryCleanup, RetryDone, EnsureCheck |
| | startOne | StartRefused, Reserve, MakeDir, MakeDirFails, Provision, StartFails, Launch, StartOk, StartUncertain |
| | stopSurplusContext | StopSurplus, StopCall, StopOk, StopErr |
| | boot adoption | Boot, AdoptRunning, AdoptOrphan, AdoptDirsDone, AdoptUnitsDone |
| watchers | watch, observeExitContext | WaitReturns, ObserveExit, CleanAfterExit |
| workers | clean's goroutine, wipe | RemoveJIT, RemoveDir, Release, WipeFails |
| listener | Claim | Claim |
| process | Close, a crash | Close, Crash |
| host, GitHub | external | RunnerExit, AssignJob |

A *generation* numbers start attempts.  It is the identity of a `*slotRec`, the
runner name of a minted JIT config and the order of `StartedAt` at once: starts
are serialized by the one run loop, and a name is drawn at random per start.

Abstractions:

- Time.  A grace, a backoff or a deadline may have passed or not whenever the
  code looks.  A caller of `clean` or `waitCleanup` waits for the wipe or a
  deadline, so the model lets it go on at once.
- Diagnostics and the unlinking of credentials are best effort and belong to
  RemoveJIT.
- `Boot` joins the listing of the units with the reading of the directory: no
  goroutine runs between the two, only a runner can end.  The list names every unit that
  runs and may name others: systemd lists an exited unit until it collects it, and
  `Active` keeps those (systemd/backend.go:469-472).
- AdoptUnitsDone joins the stops of units without a directory.  RunnersAreTracked
  shows there is never such a unit running.
- A launch takes effect no later than backend.Start returns, and Wait answers nil
  only for a unit that does not run (the contract in `runner.go`).  After an uncertain
  answer systemd may bring the unit up later still (RunnerUnit allows it), but before it
  answers any later query, so that no call of the table can tell the difference.
- `Stop` may fail and the unit still end later (RunnerExit is always possible):
  the table's stop timeout equals the TimeoutStopSec of the unit, so that is the
  usual outcome for a slow runner.
- A claim may come late, again and again, or never.  It comes after adoption: the
  listeners start then.

Not in the model: MarkResult and the sampler (the content of a completion),
MarkBusy and ObserveExit(id, err) (no callers but tests), the reported
"started" and "admission hold" events.

### Runs

| Run | Instance | Shows |
|---|---|---|
| `safety` | 2 slots, 2 starts, 1 restart, exited units listed | the safety invariants and the action properties below |
| `live` | 1 slot, 1 start, 2 restarts, fairness | one completion and one kind of end per runner; the slot of an ended runner is freed |
| `accept` | 1 slot, 1 start | a violation: see Findings |

Two slots and two starts are the smallest instance in which an ID is reused
while the goroutines of its former runner still exist, two wipes can meet and a
scale-down has a choice.  One restart lets a crash cut every step and its
adoption run beside old runners; the second restart of `live` cuts the adoption and
its wipes too.  `safety` uses a VIEW without the variables that no action reads and
its properties do not mention: `completed`, `reports` and `relisted`.

In every run the unit list at boot may name units that have exited.  That has a price,
which OneEndReported and OneCompletionPerRunner spell out: the directory of a runner whose
completion was already recorded is adopted as busy when its unit is still listed, can be
claimed again by a repeated JobStarted, and its exit is then seen, reported and recorded a
second time.  The runners in `relisted` are therefore the one exception of both, and it is
needed: without it TLC finds both violated.

Fairness of `live`.  The run loop ticks every 30 seconds and each call it makes
has a deadline, so it is weakly fair, as is the end of a daemon that leaves and
its restart by systemd.  A watcher retries its query until it is answered: weak
fairness for each.  A step of the wipe may fail again and again (WipeFails
competes with it), but not for ever: strong fairness of each step that succeeds.
Reconciles may run out of time before they reach a cleanup, but not always:
strong fairness of RetryCleanup.  Claims, jobs, exits and crashes are not fair.

### What the properties say

- WorkersOwnTheirSlot, NoWipeUnderRunner, RunnerKeepsItsFiles: nothing is removed
  under a runner, and no wipe outlives its reservation.
- RunnersAreTracked: nothing is lost over crashes and adoption.
- ExitedIsNotLive, ClaimedStaysBusy: what late claims, late
  replies and failed stops may not undo.
- StopSparesClaimed: what the loop of Ensure may do while claims come in.
- OneEndReported, OneCompletionPerRunner: what the hooks are told.  A runner is not
  reported both as exited and as stopped, and is not completed twice, over all the lives of
  the daemon, unless it had ended when a boot found its unit listed.
- EndedSlotIsFreed: every cleanup ends.

### Proofs

`SlotTableProofs` proves the properties of `safety`, and the two of `live` that are not
liveness, for every number of slots, starts and restarts, from `SlotTableAssumption`; and
with them TypeOK, JITHasDirectory (a JIT file never outlives the directory
adoption finds it by) and StartingIsInProgress (only the start in progress has a
starting record), which TLC need not repeat.  No invariant among them is
inductive by itself: that a wipe meets no runner depends on what its watcher knew
when it started it, which depends on what the record was then, which depends on
the start that made it and on adoption.  `IInv` states it goroutine by goroutine:

- PendingInv: a record whose cleanup is pending is stopping and its runner is gone;
- WorkerInv and WatcherInv: what a wipe and a watcher know of the record in the
  table, if it is still theirs;
- CurInv: the record of a start in progress has no watcher, no wipe, and no unit
  before its launch;
- AdoptInv and TrackInv: between Boot and the end of adoption a runner without a
  record is one of the directories still to come;
- TodoInv, GenInv, DownInv: what the stop loop and retryCleanup hold, the order of
  generations, and that a dead daemon remembers nothing.

Each action has a lemma that it preserves `IInv`, by its conjuncts; the records
are handled through lemmas about the operators that write them.

The second part is about what the table tells others of a runner, and needs its history.
`LifeOK` is one step formula that every action satisfies: a record keeps the identity of
its start attempt until it is freed, reserved anew or adopted, its exit is confirmed once,
only then an event and a completion are attached to it, and what leaves the table says so.
An invariant about generations, claims or reports is then proved once, from that
formula, and not action by action:

- `LifeInv`, for StopSparesClaimed: a generation belongs to one ID (IdentInv), no claimed
  record is idle (ClaimInv), and what the stop loop holds was never claimed and
  no other record took its ID (StopInv).  The last one has to look back over crashes, since
  a claim of an earlier life of the daemon counts, too;
- `EndInv`, for OneEndReported and OneCompletionPerRunner: a runner outside `relisted` whose
  completion was handed over, or whose stop was reported, is over: it does not run, and a
  record of it is pending.  Adoption is the one step that could undo that, and it does so
  for those it finds listed, which Boot has put into `relisted`; `relisted` only grows.  The
  theorems assume nothing about the list.

EndedSlotIsFreed is liveness and only model-checked.

## HostScheduler

### State and actions

One table of the pool in `SlotTable` is here a set of live slots, a set of slots being
stopped, the slots that are being wiped with what is yet to be reported of them (`ended`),
and those whose wipe failed (`unclean`); the module composes all pools with the one run
loop.

| Who | Code | Actions |
|---|---|---|
| listeners | Desired, requestReconcile | Push, PushNudge |
| watchers, wipes | observeExitContext, clean, onSlotEvent | Exit, ReportFailure, Wiped, WipeFails |
| clock | acquireRetryWait | BackoffOver |
| run loop | select, resetRetry(nextRetryWait()) | WakeByNudge, WakeByRetry, WakeByTick, Arm |
| | reconcilePools, first loop | Trim, Trimmed |
| | reconcilePools, second loop | Skip, Grant, Granted, Finish |
| | ctx.Err() and errors of Ensure | Cut |
| | Ensure | RetryCleanup, EnoughLive, StartRefused, Reserve, StartOk, StartFails, StartUncertain, StopSurplus, StopOk, StopErr |

`want` is Ensure's argument, `before` and `total` are locals of reconcilePools,
`idleTurns` is `withoutProgress`, `cursor` is `scheduleCursor`, `nudge` says that
`reconCh` is full.  `phase` tells which of the two loops called Ensure.

Abstractions:

- Which live slots a scale-down may take (idle, past their grace, the oldest) is
  any choice of no more than the surplus: SlotTable has the rules.
- An ID is free again when its slot is wiped.  A wipe that fails reports nothing and
  nudges nobody; it waits for the next Ensure of its pool, whose retryCleanup begins it
  again.  The steps of a wipe, and its meeting with others, are SlotTable's.
- Ensure waits for the wipes it begins, up to their deadline, so it may go on while they do.
- The gate may hold any start of a host that is not idle, as admissionGate does
  (`Gated`); the estimates behind it are in AdmissionGate.
- startOne's checks and its reservation are one step.  Two reads in a row of
  `Active` or `desired` are one step where only exits, which lower the first, can
  come between.
- Time: a backoff may end, and a set retry timer may fire, at any moment; the
  doubling of the backoff is left out.
- The two minutes of a reconcile may be over wherever the code looks (Cut).
- Shutdown is SlotTable's BeginShutdown; the loop here runs for ever.

### Runs

| Run | Instance | Shows |
|---|---|---|
| `host` | 2 pools of 2 slots, max_runners 1 each, a host for 1, boot empty or with 3 runners, one pool whose starts and wipes may fail, a gate, fairness | the ceilings, a stale scale-down is looked at again, demand is served in turn; without failures also without the tick |
| `host_ceiling`, `host_timer` | the smallest instances | violations: see Findings |

With two pools the host can be full of the other pool's runners, the trim of one pool runs
beside exits of the other, and the cursor matters.  Booting with three runners on a host for
one puts the host and the first pool above their ceilings, so that the surplus is two and
stops, exits and wipes of two slots of one pool meet; from the empty boot the pools compete
for the one place.  One pool may fail and the other may not, so that backoffs and retried
wipes of the one meet the regular service of the other.  `MaxWipes` bounds the runners that
end by themselves while a slot waits to be wiped: the wipes of stops and of failed starts
come on top.  One is enough for a wipe to fail, be retried and fail again.

Fairness.  The run loop is one goroutine whose calls all return, so each of its
steps is weakly fair, as are its waking by a nudge or a set timer, the second half
of a Desired event, the report of a failure and the end of a backoff.  A wipe of a pool
that is not `Dirty` ends well: weak fairness of each.  In a `Dirty` pool wipes may fail, but of
those that are begun again and again one succeeds: strong fairness of one of the pool's.
Nothing makes anyone begin a failed wipe again but the step of Ensure, so without the tick
it may stay for ever.  Whether the tick comes is a premise: DemandIsServed and
NoPoolStarves assume it (`Ticking`), NudgesSuffice and WakeupsSuffice do not.  Demand,
exits, failures, holds and cuts are not fair.
DemandIsServed and NoPoolStarves assume that reconciles end and run out of their
two minutes only finitely often.  That is an assumption, not a consequence: the
first loop always begins with the first pool, and one whose cleanups take the two
minutes in every reconcile starves the pools after it.  A pool is excused while
the host is full or the gate may hold it.

### What the properties say

- Ceiling: runners that live or are being stopped are no more than configured or, if
  that was more, than adoption found.
- GrantsBelowCeiling: a start for a free place finds fewer runners than the host is for.
  `total` is counted once, charged with every start and never credited with an exit, so
  it errs on the safe side.
- StaleTrimIsRevisited: a scale-down that works with an old desired count and cuts
  below the new one always has a nudge behind it.
- DemandIsServed, NoPoolStarves: the loop acts on demand, in turn, whatever fails.
- NudgesSuffice: it does not need its tick as long as no start and no wipe fails, no
  reconcile is cut and no pool that wants a runner is out of IDs.  A failed wipe is part of the
  premise (`Wipeable`) because it reports nothing: the demand behind it waits for the tick.
  WakeupsSuffice says the same of starts that fail, and is violated (see Findings).

### Proofs

`HostSchedulerProofs` proves every property of `host` that is not liveness, the action
properties included, for every number of pools and slots, every configuration
and every boot, from `HostSchedulerAssumption`; and with them TypeOK, PoolCeiling (the
ceiling of each pool) and LedgerCovers (`total` covers what lives).  The ceilings are not inductive:
that a start fits depends on the count Ensure was called with, read while exits
and other pools' runners change.  The strengthening is

- RoomInv: during Ensure, what the other pools have plus `want` fits the host, and
  `want` fits the pool.  In the first loop that holds because `want` is no more than
  what lived, in the second because `total` was below the ceiling;
- GrantInv: in the second loop `total` covers what lives, less the runner granted,
  and nothing is stopped there (so a failed stop cannot bring back what was not
  counted);
- PlaceInv: stops belong to the scale-down of the pool at hand;
- StaleInv, for StaleTrimIsRevisited: the count Ensure has is the desired one, or no
  surplus exists, or a nudge is due.

Counting rests on CountMono, CountSplit and OfMono, from the library's theorems
about finite sets.  Liveness is only model-checked.

## Payload

`Payload` models `internal/payload`: one Ensure at a time (the manager's lock), the
directories it works on, and one copy of the template into a slot.

### State and actions

| Part | Code | Actions |
|---|---|---|
| process | newDaemon, a crash | Boot, Crash |
| Ensure | lock, eviction, marker, cache | Again, Begin |
| | download, verify, the retry | Download, Verified, Redownload, Mismatch |
| | extract | ClearStaging, Unpack, WriteMarker |
| | promote | MoveAside, Install, DropAside, RollBack, RollBackFails |
| | every other error, the deadline | Fails |
| copy | CopySlotIntoContext, copyTreeContext | CopyBegin, CopyFile, CopyDone, CopyFails |

`template`, `staging` (`<template>.tmp`), `aside` and `leftovers`
(`<template>.previous-*`) are directories: sets of files, each with the version it
comes from, so that a tree can be partial or mixed.  File 0 is the marker with the
version and the checksum.  `cache` says of each version's tarball whether there is
none, or whether it is empty, has another checksum or the right one.

What is abstracted:

- An entry of a tarball is unpacked in one step; a file cut short by a crash counts as
  missing, which is the same to whatever reads the directory, because the staging
  directory is only ever cleared.
- Entries come in any order.  Their modes, links and the checks of their paths are
  left out, as are the temporary files of downloads, which nothing reads.
- The checksum is always required (TENTACLES_ALLOW_UNVERIFIED_PAYLOAD is not set).
- A backup that was removed in part is not kept in `leftovers`.  A staging directory
  may be left in part by a removal that fails.
- An Ensure that fails ends the daemon, as in newDaemon.  Crashes are of the process;
  what fsync is for is not modelled.

### Runs

| Run | Instance | Shows |
|---|---|---|
| `payload` | Ensure from a starting daemon and beside a copy, fairness | slots are of the wanted version, trees stay whole, a starting daemon recovers |

There are two versions, one with files 1 and 2, one with files 2 and 3: unpacking over
the other one's tree would leave a file too many, and a copy can mix two contents
under one name.  Every start may want either version, starts and crashes are not
bounded (the directories have finitely many states), so the run visits every
sequence of upgrades, downgrades, errors and crashes of any length.

Fairness.  The daemon is started again (its unit restarts it) and each step of Ensure
returns.  Recovers assumes that errors and crashes end and that a second download is
not bad for ever; it says that what they left behind does not stand in the way.

### What the properties say

- TemplateIsWhole, ReadyIsWanted: templateMatches trusts the marker alone; that is
  right because a template is never built in place, and a tree under construction has
  its marker last.
- TreeSurvives: promote always has one whole tree on the disk.  After a crash between
  its renames that tree is `<template>.previous-*`, which no code reads: the next
  Ensure builds another one, and the backup stays until someone removes it.
- ErrorKeepsTemplate: an Ensure that fails changes nothing a later one relies on: no step
  but the installation of a new tree changes which tree is installed, unless the rollback
  fails or the daemon dies between the two renames.
- SlotIsWanted: no copy ends without an error and lacks a file.  `beside` notes that
  Ensure was called during or after the copy, which the daemon never does; such a copy
  promises nothing here (see Observations).
- Recovers: poisoned tarballs, stale staging directories, missing templates and
  backups never wedge Ensure.

### Proofs

`PayloadProofs` proves TypeOK (which no run repeats), TemplateIsWhole, ReadyIsWanted, SlotIsWanted and
TreeSurvives for any versions with any files, from `PayloadAssumption` (a file of a
tarball is not the marker).  None of them is inductive.  The strengthening
is TreesInv (what is not under construction is whole; a tree is set aside only between
promote's first rename and the removal of the backup) and StageInv (the staging
directory has exactly the files unpacked so far; while `moved`, no template is in the
way).  WholeTree says that whole trees are not empty, MarkerTells that the marker of
a whole tree names its version, EndedOK that every way to end a process keeps the
invariant; CopyInv, for SlotIsWanted, that a copy has exactly the files it no longer
lists.  ErrorKeepsTemplate follows from TreesInv, action by action.  Recovers is liveness
and only model-checked.

## History and AdmissionGate

`History` models `internal/history`; `AdmissionGate` extends it with the hints of each
pool, the gate and the runners whose jobs end up in the history.

### State and actions

| Who | Code | Actions |
|---|---|---|
| watchers | onCompletion, Append, rotateLocked | Exit, AppendBegin, Rewrite, Rename, Write, AppendFails |
| listeners | noteQueued; Claim, then consumeQueuedRef | Queue, QueueAgain, Claim, ClaimUnknown, ClaimAgain, Consume |
| GitHub | external | Cancel |
| run loop | allActive, admissionGate | Ungated, Look, Charge, Admit, Hold |
| | candidateEstimate | Estimate, Quote |
| | startOne | Reserve, Store, GiveUp |
| process | a crash, newDaemon | Crash, Restart |

`file` is a sequence of lines, each with the record it decodes to, if any, its size in
units of 250 bytes, and whether the last one has its newline: a line after one without
continues it, as the bytes do.  `est` is the averages of the memory peak, rounded as the
code rounds.  `acked` is history: the records whose Append returned nil.

Abstractions:

- CPU time and wall time are averaged as the peak is (wall time over unsampled records
  too).  The CPU half of the gate is a choice to hold.
- A hint may have expired or not whenever the code looks.  What the sampler last found is
  chosen when the scheduler looks; starting and idle runners are one state.
- The gate is as many steps as it takes locks.  It looks at the tables, expires and reads the
  hints, asks the history for each hinted workflow and then for each busy runner, and reads
  the free memory last; startOne reserves an ID and asks for the estimate again.  Every
  prediction takes the history's lock for itself, and waits while an Append has it.  In
  between, messages and exits go on where they can: candidateEstimate holds `queuedMu` of its
  pool throughout (`Estimating`), and a reservation the lock of its table (`TableFree`).
- What is left of the temporary file is dropped: the next rotation truncates it.
- A repeated JobStarted consumes another job's hint, as in the code; hints are advice.
- A job that is cancelled while it waits, or whose runner's record is gone when its JobStarted
  arrives, is `missed`: it waits no longer and its hint stays, until it expires.

### Runs

`usage`: the file holds a light and a heavy job of one pool and one of another; two more jobs
of the first pool come, one without samples and one with a long line, on a host with two
slots.  Either may be cancelled, or start on a runner the table has forgotten.  One trouble
in all: a repeated message, a torn line or a crash.  RotateLines is such that the last Append
rotates.  Two slots let an unclaimed runner and a busy one be charged
while a third estimate is asked for; two pools tell the pool's average from the host's.  What the
sampler finds is one value here: more of them multiply the states and change no comparison
of the gate but the last.  No liveness is claimed, so there is no fairness.

`torn`: the same instance without a rotation: a violation, see Findings.

### What the properties say

- LossIsBounded: no acknowledged record is missing unless it is older than RotateLines/2
  newer ones or follows a torn line: rotation writes a copy and renames it.  The loss behind
  a torn line is what the code does, not what its comment asks for: TornLineCostsNothing,
  the comment's words, is violated (see Findings).
- RestartKeepsEstimates: the averages in memory are those of the file, in its order.  After
  a rotation or a torn line that is not so, which is why both are excluded.
- HintsWithinQueue: hints count no more than the jobs that wait, those that were missed, the
  claim in progress and the repeated messages; whatever is missed, repeated or expires, no
  count leaves its bounds and no more workflows are noted than the limit.
- AdmittedWorkFits: whichever of the workflows that were hinted when the estimate was begun
  the pool's unclaimed runners and the new one take, the growth predicted for the runners that
  were seen fits the limit at the moment of admission.  It is about every assignment of
  workflows, where the code takes one maximum for all.  The predictions are those the gate has
  read, one after the other; that they are also what the history says now holds only if no
  record was added since the first, and the property says so (`Current`).

### Proofs

`AdmissionGateProofs` proves all four, and the types, for any records, pools, hints and
limits.  Averages, sizes and what is decoded are folds over the lines of a file, so
they need induction over data.  `FoldProofs` has it in a form the provers can use: over a
set F in place of a predicate, derived from the well-foundedness of strict inclusion, and with it
what a fold over a sequence and a sum over a set do with one element more.

- HintsWithinQueue (`HintsFollowTheQueue`): `IInv` has the types, the limit of workflows and
  of counts, and HintsFollow: the hints of a workflow are no more than its waiting jobs and the
  claim whose hint is not consumed yet.  The claim takes its job from those that wait before it
  takes the hint; one of an unknown runner, and a cancellation, only moves its job to the missed.
- RestartKeepsEstimates (`ReplayAgrees`): ReplayInv adds that an untorn file ends with a
  newline, so that the next line is decoded by itself and the average absorbs it last.
- AdmittedWorkFits (`AdmissionIsConservative`): EstimateInv says how far the estimate is at each
  step (whom it has asked about, for whom the answers are, and that they are Current unless a
  record came in between); by AdmissionCovers the maximum the gate charges is at least what was
  predicted for every hinted workflow, and a sum of smaller numbers is smaller.
- LossIsBounded (`TearsBoundLoss`): `FileInv` says that a record is written once
  (KnownInv, SlotsInv), that acknowledged records are on file in the order of their
  acknowledgement (OrderInv) and that those that are gone without having made room, and a torn
  last line, are no more than the torn writes (LossInv).  That is the argument: a torn line is paid for in
  advance, before it swallows the record that is appended to it, and a rotation drops a
  record only with everything acknowledged before it.  A torn line never holds an
  acknowledged record, so what is solid, the file without such a line, is what counts.

The strengthened invariants were checked by TLC first.  The assumptions say no more than the
code: there is a record and so a pool (a configuration without pools is refused,
config.go:256), records on file are numbered, so that two lines are two records whatever they say, and
"none" is no workflow.

## Backends

### State and actions

`RunnerUnit` is the contract of `runner.go` for one unit name: when a runner may come up, and
what "ok", ErrNotStarted, an uncertain error, "gone" and "there" then prove.  A call takes
effect somewhere between its begin and its answer, so `quiet` remembers during which calls
there was a moment without a runner and `after` which calls began after the last Start had
answered.  SlotTable uses that contract.

`ProcessBackend` has the calls step by step (the semaphore `starting`, the registry, fork,
signals), the groups of processes and the goroutine that reaps each:

| Call | Actions |
|---|---|
| Start | StartCalled, StartAcquires, Prepare, Fork, Register, StartRefused |
| reaper | Reap, Confirm |
| Stop | StopCalled, StopCancelled, StopLooks, StopKills, StopGone, StopExpires |
| Wait, Active | WaitCalled, WaitAnswers, ActiveCalled, ActiveAnswers |
| host | Spawn, Dies |

`SystemdBackend` has what every call does: run a command that sends a request, wait for its
reply, be killed at a deadline.  The requests lie in `inbox` until the manager takes them,
those of killed commands too.

| Who | Actions |
|---|---|
| calls | StartCalled, StartRefused, Called, Run, PollAgain, Answers, TimesOut, Crash |
| systemd | Serve, Exec, Collect |
| runner | RunnerEnds |

`Backends` is the configured one of the two, and instantiates RunnerUnit with a runner that
is "a process of the group lives" or "the unit is activating, active or deactivating", and
with `attempt` computed from where Start is.

Assumptions and abstractions:

- `InOrder`: systemd answers a query after the requests that came before it.  This is an
  assumption about systemd.  With FALSE the contract is violated: systemd-run is killed at
  the start timeout, Wait is told that there is no such unit, and the unit comes up then.
- The table starts a unit only when its last start is settled; calls of the same kind do not
  overlap for one unit.  Both are SlotTable's.
- Errors of kill other than ESRCH, the reuse of process IDs and a `ps` that never works are
  left out.  A zombie does not count as a member of its group.
- The process backend is not restarted (its registry is in memory, as the README of the
  program says); Crash of systemd ends the commands and leaves unit and requests.
- The set `started` of the systemd backend is written and never read.

### Run

`backends`: two launches of a process, three requests in the inbox, every overlap of one
Start, one Stop, one Wait and one Active, either backend.  Two launches are what a group
that outlives its wrapper could meet; with three requests one start, one stop and one query
can be under way at a time.

Fairness: in the process backend Start and Stop go on (each wait in them has a deadline),
the goroutines are scheduled, and what got SIGKILL dies.  No runner has to end by itself,
nothing of systemd is fair.

### What the properties say

- HonoursContract: both backends implement RunnerUnit.  This is the refinement: each of
  their steps is one of RunnerUnit or leaves its variables alone.
- OneGroup: a unit has one live process group at most, children included.
- TypeOK: besides the types, a copied credential exists exactly as long as a start is under
  way or a runner is not confirmed to be gone, and the semaphore is held by who is past it.
- StopEnds, ExitIsConfirmed: a stop that is cut short has still killed the group; the end of
  a wrapper is confirmed in the end.

### Proofs

`BackendsProofs` proves TypeOK, OneGroup and HonoursContract for any number of launches and
any size of the inbox, from `BackendsAssumption`; HonoursContract under the assumption
`InOrder`, without which it is violated.  Its proof maps each action of a backend to the step
of RunnerUnit it stands for, or to a stutter, with an invariant for each half.

For the process backend, ProcessInv is about the processes:

- GenInv: processes are numbered as they are forked, and only the one being registered has
  no goroutine yet;
- LiveInv: a group lives only if its process is registered and not confirmed to be gone, or
  is the one just forked; after the check of Start nobody is registered who is not gone;
- StopInv: who holds the semaphore to stop stops the registered process.

CInv ties it to the history variables: CallsInv says where each call is, FollowInv that
`quiet` and `after` know every call they must, WaitInv that a Wait which has seen no start
asks about the registered process.

For the systemd backend:

- CommandInv, InboxInv: a command waits for one thing at a time: its request to be read, a
  job, or to be told what it heard;
- StartInv: the inbox has one request to start at most, and if a Start is under way it is its;
- CallersInv: a "gone" that was heard was true at some moment of the call;
- OrderInv: no request to start lies behind one of a call made after the Start was over.
  That is where `InOrder` comes in: such a "gone" then proves that no start is left.

The lemmas Sent, LeftBehind and Read say what becomes of the inbox when a request is sent, a
command is killed and a request is taken from any place in it.  StopEnds and ExitIsConfirmed
are liveness and only model-checked.

## Listener

### State and actions

| Who | Code | Actions |
|---|---|---|
| GitHub | external | Demand |
| main goroutine | daemon.run | EnsureScaleSet, Adopt, Cancelled, Shutdown, Return |
| | notifyReady | NotifyReady |
| a listener per pool | Adapter.Run | OpenSession, OpenFails, ListenerEnds, EndRun |
| | the library's loop | GetMessage, HandleDesired, DeleteMessage |
| | runPoolListener | BackoffEnds |
| host | a signal, systemd | Signal, Restart |

Abstractions:

- A message is the number of assigned jobs it carries.  The job messages act on the table and
  the hints: SlotTable's Claim, AdmissionGate's Queue and Claim.
- The library handles a message and then acknowledges it, as `docs/spike.md` notes; a session
  reports its statistics first.  Both are external.
- A call to GitHub that fails may have taken effect.  Backoffs are over at any time.
- Adoption and shutdownSlots are one step each: SlotTable has them.
- Restart may come at any moment: after an error, a kill or a normal end.

### Run

`listener`: two pools, one with a floor of one runner, two changes of demand, two troubles, two
boots.  Two pools are what readiness and the join at shutdown are about; two troubles let an
acknowledgment and the next session fail; the second boot finds what the first one left.

Fairness: calls end by themselves or with the context, the library polls, and systemd restarts
a daemon that failed.  No call has to fail, no signal has to come.  DesiredFollows and
ReadyIsSent are about a daemon that stays up.

### What the properties say

- ReadyMeansConnected, ReadyIsSent: READY=1 only after every pool's session, and in the end.
- SessionsAreClosed: on shutdown, unless a call failed (then closing is best effort).
- DesiredFollows: the cell ends at what GitHub last said, within the pool's bounds.
- ShutdownEnds: no listener keeps the daemon from ending.

### Proofs

`ListenerProofs` proves ReadyMeansConnected and SessionsAreClosed for any number of pools,
boots, troubles and changes of demand, from `ListenerAssumption`; and TypeOK (with the bounds
of what is desired) and OneScaleSet: lost answers and crashes during creation never lead to a
second scale set, because a boot looks before it creates.  OneScaleSet is inductive by
itself.  The others need

- JoinInv: a listener whose end was received is over, and Return waits for all;
- UpInv: SessionStarted is reported only for a session;
- SessionInv: without a failed call, a listener opens one session, keeps it until the
  context is done and then deletes it;
- QueueInv, for the types: what is to be acknowledged is at the head of the queue.

## Logship

### State and actions

| Part | Code | Actions |
|---|---|---|
| wipe | shipDiag in pool.go | Call, Acquire, GiveUp, Return, Deadline |
| retention, before and after | Prune, findArchives, removeTree | Inventory, Keep, Remove, RemoveFile, RemoveMarker, RemoveDir, RemoveDirFails, Pruned, PruneFails |
| archive | ShipDiagContext | NothingToShip, Stage, CopyFile, Mark, Publish, ShipFails |
| host | the clock, a crash | Tick, Crash |

A directory has a number of files of one unit each, the number it is to get, its marker and
the time in its name.  `stuck` is a history variable: the archives whose own removal met an
error, at the rmdir after the unlink of the marker (RemoveDirFails) or in the deferred
RemoveAll of staging, whose error nobody looks at (ShipFails).  Abstractions:

- One log directory; the semaphore is the daemon's, so wipes of other pools wait as well.
- The marker's own bytes are not counted; sub-directories are files.
- Whatever the copier refuses (a link that appears, a changed entry, a limit, the free-space
  watermark) is ShipFails; what it skips is not there.
- A wipe that is retried ships again: archives of the same runner are different archives.

### Run

`logship`: two wipes, two archives of up to two files, a budget of two, an age of one with a clock
to two, one crash.  The second archive makes the first one too much, too old, or both; every step
of copying and removing can be cut off, and a second Prune looks at the result.

Fairness: a deadline comes, and system calls return: weak fairness of both for each wipe.  No wipe
has to be called.

### What the properties say

- PublishedIsWhole: an archive is visible as a whole, or is being removed.
- RetentionHolds: after a Prune that returned nil, age and budget hold for all that is visible.
- NothingStranded: cancellation and errors, at any step of a copy or a removal, leave nothing
  that no later Prune recognizes, except errors of the removal itself (`stuck`).  Of the rest
  there are no more than crashes, and an archive without its marker is always empty.
- ShippingEnds: every wipe gets through, also while another one holds the semaphore.

### Proofs

`LogshipProofs` proves PublishedIsWhole, NothingStranded and RetentionHolds for any number of
wipes, archives, files and crashes, from `LogshipAssumption`, and TypeOK, which says that the
semaphore is held by exactly one wipe past its wait.  The strengthening is VictimInv (only a
Prune at work has archives to look at, and it never looks twice at one) and StagingInv (the
archive in the making is out of sight, and complete and marked before it is published);
exclusion by the semaphore is what makes both stable under the steps of the other wipes.
RetentionHolds is about a sum over a set of archives.  AccountInv says what a Prune at work
keeps in `total`: the bytes of the archives it does not remove right now, and what the inventory
noted of the one it does; and that every archive it has passed is young enough and was passed
with a total within the budget, so that from the first one it keeps the budget holds.  That a removal in steps leaves the
account right, and that another wipe cannot publish meanwhile, is AccountStep; the sums are
those of FoldProofs.  ShippingEnds is liveness and only model-checked.

## Findings

`accept`: the comment of Claim says that a claim marks its slot busy "so
scale-down will not stop it".  A claim that arrives while the slot is stopping is
answered with true and changes nothing; when the stop then fails, the loop restores
the state it had saved, idle.  The runner works on its job in a slot the next
scale-down may stop.

`host_ceiling`: both loops of reconcilePools can start runners.  The
first one asks Ensure for min(live, desired), and Ensure counts again: a runner that
exits between the two counts is replaced at once, by the same pool, whatever the
cursor says and, on a host that adoption left too full, above
`capacity.max_runners`.  The README has it that the scheduler allocates slots
"round-robin without starting above `capacity.max_runners`", the comment of
reconcilePools that it "first removes per-pool surplus, then allocates".  The ceiling
itself (Ceiling) is not broken: the replaced runner was counted.

`host_timer`: nextRetryWait's zero is to mean "no retry timer is needed".  It is also
the answer when a backoff ended before the loop asked, as a backoff of one second
does during the cleanup of the failed start.  The demand then waits for the tick.

`torn`: the comment of replayTail says that "a single torn fragment after a crash must not
discard the records around it" (history.go:283-285).  Append opens the file with O_APPEND and
does not look whether its last line has ended (history.go:117-122): the first record after a
restart continues the fragment, its Append returns nil, and every later replay skips the two as
one malformed line.

### Observations

Not runs, because the daemon does not meet them or nothing depends on them:

- "CopySlot may run while a different version is being swapped in and copies one
  complete template", says the comment of Manager (payload.go:114).  The copy goes by
  path and takes no lock; in the model, when promote swaps the trees under it, it ends
  without an error with files of both.  The daemon calls Ensure once, before any slot.
- "On every return it calls ev.Session with the reason: nil when the context was
  canceled" (adapter.go:203): Run returns without a Session event before
  EnsureScaleSet, and a creation that is cancelled is reported with its error.
- A message that was not acknowledged is delivered again after a newer session has
  reported its statistics, so that the desired count goes back for a moment.
  DesiredFollows says that it ends at the newest.
- A Prune that is cut off in the middle of the oldest archive leaves it visible with
  its marker and fewer bytes.  If it now fits the budget, it stays, incomplete, until
  its age removes it.
- "errors/cancellation remove staging", says the comment of ShipDiagContext (logship.go:38); the
  error of the RemoveAll that does it is ignored (logship.go:126), and no Prune looks at
  staging directories.  "Once only the marker remains, finish the two unlinks without a
  cancellation gap that could strand a directory" (retention.go:271-273): an error of the second
  one strands it as well.  NothingStranded names both.
- The completion hook is "fired once per claimed slot exit" (manager.go:200-201).  Over a restart
  that finds the unit of an ended runner listed, it may be fired again for the same runner;
  OneCompletionPerRunner names the case.
- rotateLocked decides by the size of the file, 250 bytes a line.  With longer lines
  it rotates before the file has RotateLines of them, which costs nothing but work:
  it keeps RotateLines/2 records.

## Not modelled

- Configuration (parsing, defaults, validation), the environment file, the command line
  and the version: read once, before anything else runs; their result is the constants of
  the models.
- Metrics: counters behind one mutex; nothing in the program reads them back.
- The notification datagram and the version probe: one system call each.  When READY=1 is
  sent is in Listener.
- Resolution of users, ownership of files, validation of tar paths, links and special
  files: system calls and checks without state of their own; where they can fail, the
  models have an action for the failure.
- MarkResult and the usage sampler: what a completion carries, not whether there is one.
- Anything of systemd and GitHub beyond what the code relies on; both are written from how
  `src/` uses them and marked external in the map.
