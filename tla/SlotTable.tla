------------------------------ MODULE SlotTable ------------------------------
(***************************************************************************)
(* The slot table of one pool (internal/slot/manager.go, type Table), the  *)
(* runners it starts on the host and the files it keeps for them.          *)
(*                                                                         *)
(* Granularity: one action per critical section of Table.mu or per call of *)
(* the backend or the file system that can be interleaved.  Four kinds of  *)
(* goroutine run: the reconciler (Ensure, Shutdown and boot adoption, all  *)
(* called by the one run loop of the daemon), one watcher per runner, one  *)
(* cleanup worker per wipe, and the listener that delivers JobStarted.     *)
(*                                                                         *)
(* A generation is one start attempt.  It stands for the identity of a     *)
(* *slotRec, for the runner name of the minted JIT config, and, because    *)
(* starts are serialized, for the order of StartedAt.  An adopted record   *)
(* takes the generation that made its directory: no goroutine of the dead  *)
(* daemon is left to hold the old pointer.                                 *)
(*                                                                         *)
(* Time is abstracted: a timeout, a grace period or a backoff may have     *)
(* elapsed or not whenever the code looks at it.                           *)
(*                                                                         *)
(* Operators whose name starts with Bug are deliberately wrong variants of *)
(* the operator that follows them; no specification uses them.             *)
(***************************************************************************)
EXTENDS Naturals, FiniteSets

CONSTANTS
    MaxSlotID,      \* the slot directories are 1 .. MaxSlotID (9999 in the code)
    MaxGen,         \* bound on the number of start attempts
    MaxRestarts     \* bound on the number of times the daemon goes down

ASSUME SlotTableAssumption ==
    /\ MaxSlotID \in Nat \ {0}
    /\ MaxGen \in Nat
    /\ MaxRestarts \in Nat

SlotID == 1 .. MaxSlotID
Gen    == 1 .. MaxGen

VARIABLES
    (* The daemon's memory *)
    daemon,      \* "down", "up", or "leaving" once Shutdown has begun
    slots,       \* Table.slots: the record of every ID, NoRec when absent
    pc,          \* where the goroutine of the run loop stands
    want,        \* the count Ensure converges to
    cur,         \* the ID startOne is starting, 0 when it is not running
    todo,        \* the records that goroutine has still to handle
    listed,      \* the unit names Adopt was given
    watchers,    \* the watch goroutines
    workers,     \* the wipe goroutines of clean
    (* The host *)
    unit,        \* the generation that runs under a slot's unit name, 0 = none
    dir,         \* the generation that made the slot directory, 0 = none
    jit,         \* whether the slot's JIT file exists
    (* GitHub, and what left the table through its hooks *)
    assigned,    \* generations with a JobStarted message sent
    claims,      \* what the calls of Claim for a generation came to
    completed,   \* generations handed to the completion hook
    reports,     \* <<generation, event>> given to the event hook
    (* Bounds *)
    lastGen,     \* the latest generation allocated
    restarts,    \* how often the daemon went down
    (* What the properties remember *)
    relisted     \* generations that had ended when a boot found their unit listed

memory == <<daemon, slots, pc, want, cur, todo, listed, watchers, workers>>
host   == <<unit, dir, jit>>
sinks  == <<assigned, claims, completed, reports>>
vars   == <<memory, host, sinks, lastGen, restarts, relisted>>

-----------------------------------------------------------------------------
(* Records of the table *)

States == {"none", "starting", "idle", "busy", "stopping"}

Record == [state    : States,
           gen      : 0 .. MaxGen,
           named    : BOOLEAN,           \* RunnerName is known
           claimed  : BOOLEAN,
           cleaning : BOOLEAN,
           pending  : BOOLEAN,           \* cleanupPending
           event    : {"", "exited"},    \* exitEvent, reported after the wipe
           sent     : BOOLEAN]           \* completionSent

NewRec(state, g) ==
    [state |-> state, gen |-> g, named |-> FALSE, claimed |-> FALSE,
     cleaning |-> FALSE, pending |-> FALSE, event |-> "", sent |-> FALSE]

NoRec == NewRec("none", 0)

(* A reference to a record held outside the lock, with the state it had *)
Ref   == [id : SlotID, gen : Gen, was : States]
RefOf(i) == [id |-> i, gen |-> slots[i].gen, was |-> slots[i].state]

Watcher == [id : SlotID, gen : Gen, step : {"wait", "exited", "clean"}]
Worker  == [id : SlotID, gen : Gen, step : {"jit", "dir", "release"}]

Live(state) == state \in {"starting", "idle", "busy"}
LiveSlots   == {i \in SlotID : Live(slots[i].state)}
Tracked(i)  == slots[i].state # "none"
Holds(v)    == slots[v.id].gen = v.gen      \* t.slots[rec.ID] == rec

StartPCs == {"mkdir", "provision", "launch", "reply"}
AdoptPCs == {"adopt", "adoptUnits"}
PCs == {"idle", "retry", "loop", "start", "surplus", "stop", "stopping"}
         \cup StartPCs \cup AdoptPCs

TypeOK ==
    /\ daemon \in {"down", "up", "leaving"}
    /\ slots \in [SlotID -> Record]
    /\ \A i \in SlotID : Tracked(i) <=> slots[i].gen # 0
    /\ pc \in PCs
    /\ want \in 0 .. MaxSlotID
    /\ cur \in 0 .. MaxSlotID
    /\ todo \subseteq Ref
    /\ listed \subseteq SlotID
    /\ watchers \subseteq Watcher
    /\ workers \subseteq Worker
    /\ unit \in [SlotID -> 0 .. MaxGen]
    /\ dir \in [SlotID -> 0 .. MaxGen]
    /\ jit \in [SlotID -> BOOLEAN]
    /\ assigned \subseteq Gen
    /\ claims \in [Gen -> {"none", "late", "marked"}]
    /\ completed \subseteq Gen
    /\ reports \subseteq Gen \X {"stopped", "exited", "failure"}
    /\ lastGen \in 0 .. MaxGen
    /\ restarts \in 0 .. MaxRestarts
    /\ relisted \subseteq Gen

Init ==
    /\ daemon = "down"
    /\ slots = [i \in SlotID |-> NoRec]
    /\ pc = "idle"
    /\ want = 0
    /\ cur = 0
    /\ todo = {}
    /\ listed = {}
    /\ watchers = {}
    /\ workers = {}
    /\ unit = [i \in SlotID |-> 0]
    /\ dir = [i \in SlotID |-> 0]
    /\ jit = [i \in SlotID |-> FALSE]
    /\ assigned = {}
    /\ claims = [g \in Gen |-> "none"]
    /\ completed = {}
    /\ reports = {}
    /\ lastGen = 0
    /\ restarts = 0
    /\ relisted = {}

(* Writing the record of an ID, and what the code writes in one *)
Put(i, r)         == slots' = [slots EXCEPT ![i] = r]
InState(r, state) == [r EXCEPT !.state = state]
Named(r)          == [r EXCEPT !.named = TRUE]
Claimed(r)        == [r EXCEPT !.state = "busy", !.claimed = TRUE]
InCleanup(r)      == [r EXCEPT !.cleaning = TRUE, !.pending = TRUE]
CleanupOver(r)    == [r EXCEPT !.cleaning = FALSE]

(* A goroutine at another step *)
AtStep(w, step)   == [w EXCEPT !.step = step]

-----------------------------------------------------------------------------
(* Cleanup: clean and its wipe goroutine *)

BugCleanRuns(v) == Holds(v)     \* no test of cleaning
(* clean proceeds only for the record still in the table, once at a time *)
CleanRuns(v) == Holds(v) /\ ~slots[v.id].cleaning

WipeOf(v) == [id |-> v.id, gen |-> v.gen, step |-> "jit"]

(* clean: the lock section, and the goroutine it starts.  Its caller waits *)
(* for the wipe or for a deadline, so it may go on at any time.            *)
Clean(v) ==
    IF CleanRuns(v)
    THEN /\ Put(v.id, InCleanup(slots[v.id]))
         /\ workers' = workers \cup {WipeOf(v)}
    ELSE UNCHANGED <<slots, workers>>

ToStep(w, step) == (workers \ {w}) \cup {AtStep(w, step)}

(* wipe: ship diagnostics (best effort), unlink credentials and the JIT file *)
RemoveJIT(w) ==
    /\ w.step = "jit"
    /\ jit' = [jit EXCEPT ![w.id] = FALSE]
    /\ workers' = ToStep(w, "dir")
    /\ UNCHANGED <<slots, reports, dir>>

(* wipe: os.RemoveAll of the slot directory *)
RemoveDir(w) ==
    /\ w.step = "dir"
    /\ dir' = [dir EXCEPT ![w.id] = 0]
    /\ workers' = ToStep(w, "release")
    /\ UNCHANGED <<slots, reports, jit>>

(* The wipe succeeded: the ID is freed and the pending event reported *)
Release(w) ==
    /\ w.step = "release"
    /\ workers' = workers \ {w}
    /\ IF Holds(w)
       THEN /\ Put(w.id, NoRec)
            /\ reports' = IF slots[w.id].event = "" THEN reports
                          ELSE reports \cup {<<w.gen, slots[w.id].event>>}
       ELSE UNCHANGED <<slots, reports>>
    /\ UNCHANGED <<dir, jit>>

BugWipeFails(w) ==              \* cleaning is not reset
    /\ w.step \in {"jit", "dir"}
    /\ workers' = workers \ {w}
    /\ UNCHANGED <<slots, reports, dir, jit>>

(* The wipe failed or ran past its deadline: the record is kept for a retry *)
WipeFails(w) ==
    /\ w.step \in {"jit", "dir"}
    /\ workers' = workers \ {w}
    /\ IF Holds(w) THEN Put(w.id, CleanupOver(slots[w.id])) ELSE UNCHANGED slots
    /\ UNCHANGED <<reports, dir, jit>>

WipeSucceeds(w) == RemoveJIT(w) \/ RemoveDir(w) \/ Release(w)

WorkerStep(w) ==
    /\ WipeSucceeds(w) \/ WipeFails(w)
    /\ UNCHANGED <<daemon, pc, want, cur, todo, listed, watchers, unit,
                   assigned, claims, completed, lastGen, restarts, relisted>>

-----------------------------------------------------------------------------
(* The exit of a runner: watch and observeExit *)

BugObserveRuns(v) ==            \* whatever record has the ID
    Tracked(v.id) /\ ~slots[v.id].cleaning /\ ~slots[v.id].pending
(* observeExit ignores a record that was replaced or is already on its way out *)
ObserveRuns(v) == Holds(v) /\ ~slots[v.id].cleaning /\ ~slots[v.id].pending

(* quickNeverBusyExit needs a runner that never was busy *)
MayBeQuick(r) == r.state # "busy" /\ ~r.claimed

BugExited(r, quick) ==          \* an exit during a stop is reported too
    [r EXCEPT !.state = "stopping",
              !.pending = TRUE,
              !.event = IF quick THEN "" ELSE "exited",
              !.sent = @ \/ r.claimed]

(* The record after observeExit's critical section.  An acquire failure is *)
(* reported at once, so exitEvent is left empty.                           *)
Exited(r, quick) ==
    [r EXCEPT !.state = "stopping",
              !.pending = TRUE,
              !.event = IF r.state = "stopping" THEN @
                        ELSE IF quick THEN "" ELSE "exited",
              !.sent = @ \/ r.claimed]

(* What observeExit hands to the hooks *)
CompletionOf(r) == IF r.claimed /\ ~r.sent THEN {r.gen} ELSE {}
FailureOf(r, quick) ==
    IF r.state # "stopping" /\ quick THEN {<<r.gen, "failure">>} ELSE {}

Watch(i, g) == [id |-> i, gen |-> g, step |-> "wait"]

(* watch: backend.Wait returned nil.  It asks about a unit NAME, so a late *)
(* watcher may be told of a younger runner.  A failed Wait is retried.     *)
WaitReturns(w) ==
    /\ w.step = "wait"
    /\ unit[w.id] = 0
    /\ watchers' = (watchers \ {w}) \cup {AtStep(w, "exited")}
    /\ UNCHANGED <<slots, workers, completed, reports>>

(* observeExit up to its unlock, and the hooks it calls *)
ObserveExit(w, quick) ==
    /\ w.step = "exited"
    /\ UNCHANGED workers
    /\ IF ObserveRuns(w)
       THEN LET r == slots[w.id]
            IN  /\ quick => MayBeQuick(r)
                /\ Put(w.id, Exited(r, quick))
                /\ completed' = completed \cup CompletionOf(r)
                /\ reports' = reports \cup FailureOf(r, quick)
                /\ watchers' = (watchers \ {w}) \cup {AtStep(w, "clean")}
       ELSE /\ watchers' = watchers \ {w}
            /\ UNCHANGED <<slots, completed, reports>>

(* ... and the clean it ends with, in a later critical section *)
CleanAfterExit(w) ==
    /\ w.step = "clean"
    /\ Clean(w)
    /\ watchers' = watchers \ {w}
    /\ UNCHANGED <<completed, reports>>

WatchSteps(w) == WaitReturns(w) \/ CleanAfterExit(w)
                   \/ \E quick \in BOOLEAN : ObserveExit(w, quick)

WatcherStep(w) ==
    /\ WatchSteps(w)
    /\ UNCHANGED <<daemon, pc, want, cur, todo, listed, host,
                   assigned, claims, lastGen, restarts, relisted>>

-----------------------------------------------------------------------------
(* Claim: a JobStarted message reaches the table *)

Claimable(r) == \/ r.state \in {"starting", "idle"}
                \/ r.state = "busy" /\ ~r.claimed

(* The message may be late, repeated or lost; the listener runs only after *)
(* adoption.  Claim answers TRUE for every record with the runner's name.  *)
Claim(i) ==
    LET r == slots[i]
        g == r.gen
    IN  /\ daemon # "down"
        /\ pc \notin AdoptPCs
        /\ g \in assigned
        /\ r.named
        /\ IF Claimable(r)
           THEN /\ Put(i, Claimed(r))
                /\ claims' = [claims EXCEPT ![g] = "marked"]
           ELSE /\ claims' = [claims EXCEPT ![g] = IF @ = "none" THEN "late" ELSE @]
                /\ UNCHANGED slots
        /\ UNCHANGED <<daemon, pc, want, cur, todo, listed, watchers, workers, host,
                       assigned, completed, reports, lastGen, restarts, relisted>>

-----------------------------------------------------------------------------
(* Ensure: retryCleanup, then starts up to the wanted count, then stops *)

Pending == {i \in SlotID : slots[i].pending /\ ~slots[i].cleaning}

AfterRetry == IF daemon = "leaving" THEN "surplus" ELSE "loop"

(* Ensure takes the ops semaphore and snapshots the unfinished cleanups *)
Begin(n) ==
    /\ want' = n
    /\ todo' = {RefOf(i) : i \in Pending}
    /\ pc' = "retry"

EnsureBegin ==
    /\ daemon = "up"
    /\ pc = "idle"
    /\ \E n \in 0 .. MaxSlotID : Begin(n)
    /\ UNCHANGED <<daemon, slots, cur, listed, watchers, workers, host, sinks,
                   lastGen, restarts, relisted>>

(* retryCleanup: clean one record of the snapshot *)
RetryCleanup(v) ==
    /\ pc = "retry"
    /\ Clean(v)
    /\ todo' = todo \ {v}
    /\ UNCHANGED <<daemon, pc, want, cur, listed, watchers, host, sinks,
                   lastGen, restarts, relisted>>

(* The snapshot is done, or the context expired and the rest is left *)
RetryDone ==
    /\ pc = "retry"
    /\ todo' = {}
    /\ pc' = AfterRetry
    /\ UNCHANGED <<daemon, slots, want, cur, listed, watchers, workers, host,
                   sinks, lastGen, restarts, relisted>>

(* countLiveLocked against the wanted count *)
Enough == Cardinality(LiveSlots) >= want

(* The head of Ensure's loop; with an expired context Ensure returns *)
EnsureCheck ==
    /\ pc = "loop"
    /\ pc' \in (IF Enough THEN {"surplus"} ELSE {"start", "idle"})
    /\ UNCHANGED <<daemon, slots, want, cur, todo, listed, watchers, workers, host,
                   sinks, lastGen, restarts, relisted>>

(* startAllowed or the admission gate refuses, or no ID is free *)
StartRefused ==
    /\ pc = "start"
    /\ pc' = "surplus"
    /\ UNCHANGED <<daemon, slots, want, cur, todo, listed, watchers, workers, host,
                   sinks, lastGen, restarts, relisted>>

(* nextIDLocked takes the lowest ID without a record *)
Free(i) == ~Tracked(i)

(* startOne: reserve the lowest free ID with a starting record *)
Reserve(i) ==
    /\ pc = "start"
    /\ lastGen < MaxGen
    /\ Free(i)
    /\ \A j \in SlotID : j < i => ~Free(j)
    /\ lastGen' = lastGen + 1
    /\ Put(i, NewRec("starting", lastGen + 1))
    /\ cur' = i
    /\ pc' = "mkdir"
    /\ UNCHANGED <<daemon, want, todo, listed, watchers, workers, host, sinks,
                   restarts, relisted>>

(* The exclusive os.Mkdir *)
MakeDir ==
    /\ pc = "mkdir"
    /\ dir[cur] = 0
    /\ dir' = [dir EXCEPT ![cur] = slots[cur].gen]
    /\ pc' = "provision"
    /\ UNCHANGED <<daemon, slots, want, cur, todo, listed, watchers, workers, unit, jit,
                   sinks, lastGen, restarts, relisted>>

MakeDirFails ==
    /\ pc = "mkdir"
    /\ Put(cur, NoRec)
    /\ reports' = reports \cup {<<slots[cur].gen, "failure">>}
    /\ pc' = "surplus"
    /\ cur' = 0
    /\ UNCHANGED <<daemon, want, todo, listed, watchers, workers, host, assigned,
                   claims, completed, lastGen, restarts, relisted>>

(* Materialize the directory, mint the JIT config and write its file *)
Provision ==
    /\ pc = "provision"
    /\ Put(cur, Named(slots[cur]))
    /\ jit' = [jit EXCEPT ![cur] = TRUE]
    /\ pc' = "launch"
    /\ UNCHANGED <<daemon, want, cur, todo, listed, watchers, workers, unit, dir,
                   sinks, lastGen, restarts, relisted>>

(* fail(): provisioning failed, or backend.Start wraps ErrNotStarted *)
StartFails ==
    /\ pc \in {"provision", "launch"}
    /\ Put(cur, InCleanup(InState(slots[cur], "stopping")))
    /\ workers' = workers \cup {WipeOf(RefOf(cur))}
    /\ reports' = reports \cup {<<slots[cur].gen, "failure">>}
    /\ pc' = "surplus"
    /\ cur' = 0
    /\ UNCHANGED <<daemon, want, todo, listed, watchers, host, assigned, claims,
                   completed, lastGen, restarts, relisted>>

(* backend.Start takes effect: from here on GitHub can assign a job *)
Launch ==
    /\ pc = "launch"
    /\ unit' = [unit EXCEPT ![cur] = slots[cur].gen]
    /\ pc' = "reply"
    /\ UNCHANGED <<daemon, slots, want, cur, todo, listed, watchers, workers, dir, jit,
                   sinks, lastGen, restarts, relisted>>

BugStarted(r) == InState(r, "idle")    \* whatever happened meanwhile
(* A claim may have come before the reply of backend.Start *)
Started(r) == IF r.state = "starting" THEN InState(r, "idle") ELSE r

StartOk ==
    /\ pc = "reply"
    /\ Put(cur, Started(slots[cur]))
    /\ watchers' = watchers \cup {Watch(cur, slots[cur].gen)}
    /\ pc' = "loop"
    /\ cur' = 0
    /\ UNCHANGED <<daemon, want, todo, listed, workers, host, sinks,
                   lastGen, restarts, relisted>>

BugStartUncertain ==            \* every error is taken for ErrNotStarted
    /\ pc \in {"launch", "reply"}
    /\ Put(cur, InCleanup(InState(slots[cur], "stopping")))
    /\ workers' = workers \cup {WipeOf(RefOf(cur))}
    /\ reports' = reports \cup {<<slots[cur].gen, "failure">>}
    /\ pc' = "surplus"
    /\ cur' = 0
    /\ UNCHANGED <<daemon, want, todo, listed, watchers, host, assigned, claims,
                   completed, lastGen, restarts, relisted>>

(* Any other error of backend.Start: launched or not, the slot is kept busy *)
StartUncertain ==
    /\ pc \in {"launch", "reply"}
    /\ Put(cur, InState(slots[cur], "busy"))
    /\ watchers' = watchers \cup {Watch(cur, slots[cur].gen)}
    /\ reports' = reports \cup {<<slots[cur].gen, "failure">>}
    /\ pc' = "surplus"
    /\ cur' = 0
    /\ UNCHANGED <<daemon, want, todo, listed, workers, host, assigned, claims,
                   completed, lastGen, restarts, relisted>>

-----------------------------------------------------------------------------
(* stopSurplusContext *)

BugEligible(k) ==               \* busy slots too
    {i \in SlotID : Live(slots[i].state) /\ slots[i].gen <= k}

(* Idle and starting slots, those past their grace: StartedAt <= k.  The   *)
(* idle grace does not count during Shutdown.                              *)
Eligible(k) ==
    {i \in SlotID : \/ slots[i].state = "idle" /\ (daemon = "leaving" \/ slots[i].gen <= k)
                    \/ slots[i].state = "starting" /\ slots[i].gen <= k}

(* The oldest eligible slots, no more than the live count exceeds the target *)
Surplus(k) ==
    {i \in Eligible(k) :
        Cardinality({j \in Eligible(k) : slots[j].gen < slots[i].gen}) + want
          < Cardinality(LiveSlots)}

StopSurplus(k) ==
    /\ pc = "surplus"
    /\ slots' = [i \in SlotID |-> IF i \in Surplus(k) THEN InState(slots[i], "stopping")
                                                       ELSE slots[i]]
    /\ todo' = {RefOf(i) : i \in Surplus(k)}
    /\ pc' = IF Surplus(k) = {} THEN "idle" ELSE "stop"
    /\ UNCHANGED <<daemon, want, cur, listed, watchers, workers, host, sinks,
                   lastGen, restarts, relisted>>

Oldest(v) == v \in todo /\ \A u \in todo : v.gen <= u.gen

(* backend.Stop is called; when the runner dies is up to the host *)
StopCall ==
    /\ pc = "stop"
    /\ pc' = "stopping"
    /\ UNCHANGED <<daemon, slots, want, cur, todo, listed, watchers, workers, host,
                   sinks, lastGen, restarts, relisted>>

StopNext(v) ==
    /\ todo' = todo \ {v}
    /\ pc' = IF todo = {v} THEN "idle" ELSE "stop"

(* backend.Stop returned nil, so the unit is gone: observeExit and clean.  *)
(* Nothing can come between the two: every watcher of the record is turned *)
(* away by cleanupPending and retryCleanup runs on this same goroutine.    *)
StopOk(v) ==
    /\ pc = "stopping"
    /\ Oldest(v)
    /\ unit[v.id] = 0
    /\ StopNext(v)
    /\ IF ObserveRuns(v)
       THEN LET r == slots[v.id]
            IN  /\ Put(v.id, InCleanup(Exited(r, FALSE)))
                /\ workers' = workers \cup {WipeOf(v)}
                /\ completed' = completed \cup CompletionOf(r)
       ELSE UNCHANGED <<slots, workers, completed>>
    /\ reports' = reports \cup {<<v.gen, "stopped">>}
    /\ UNCHANGED <<daemon, want, cur, listed, watchers, host, assigned, claims,
                   lastGen, restarts, relisted>>

BugRestores(v) ==               \* the exit may have been seen
    Holds(v) /\ slots[v.id].state = "stopping"

(* A failed stop gives the slot its state back, unless its exit was seen *)
Restores(v) == /\ Holds(v)
               /\ slots[v.id].state = "stopping"
               /\ ~slots[v.id].pending
               /\ ~slots[v.id].cleaning

(* backend.Stop failed or timed out; the host may still be stopping the unit *)
StopErr(v) ==
    /\ pc = "stopping"
    /\ Oldest(v)
    /\ StopNext(v)
    /\ IF Restores(v) THEN Put(v.id, InState(slots[v.id], v.was)) ELSE UNCHANGED slots
    /\ UNCHANGED <<daemon, want, cur, listed, watchers, workers, host, sinks,
                   lastGen, restarts, relisted>>

-----------------------------------------------------------------------------
(* The daemon's life: boot adoption, shutdown, crash *)

(* The directories of runners that ended, whose unit is still listed *)
Ended(list) == {i \in list : dir[i] # 0 /\ unit[i] = 0}

(* run: list this pool's units, then Adopt reads the slot directories.     *)
(* systemd lists an exited unit until it collects it, so the list may name *)
(* more than what runs.                                                    *)
Boot ==
    /\ daemon = "down"
    /\ daemon' = "up"
    /\ pc' = "adopt"
    /\ listed' \in SUBSET SlotID
    /\ \A i \in SlotID : unit[i] # 0 => i \in listed'
    /\ relisted' = relisted \cup {dir[i] : i \in Ended(listed')}
    /\ todo' = {[id |-> i, gen |-> dir[i], was |-> "none"] :
                   i \in {j \in SlotID : dir[j] # 0}}
    /\ UNCHANGED <<slots, want, cur, watchers, workers, host, sinks, lastGen, restarts>>

(* os.ReadDir returns the entries in the order of their names *)
NextEntry(e) == e \in todo /\ \A f \in todo : e.id <= f.id

BugRuns(e) == TRUE              \* adopts every directory
(* Adopt's running set: the units it was given *)
Runs(e) == e.id \in listed

(* The record made of a directory; its runner name is known only if the    *)
(* .runner file of the directory can be read.                              *)
AdoptedAs(state, e) == {NewRec(state, e.gen), Named(NewRec(state, e.gen))}

BugAdoptRunning(e) ==           \* leaves out a runner whose name is not known
    /\ pc = "adopt"
    /\ NextEntry(e)
    /\ Runs(e)
    /\ \/ /\ Put(e.id, Named(NewRec("busy", e.gen)))
          /\ watchers' = watchers \cup {Watch(e.id, e.gen)}
       \/ UNCHANGED <<slots, watchers>>
    /\ todo' = todo \ {e}
    /\ UNCHANGED <<daemon, pc, want, cur, listed, workers, host, sinks,
                   lastGen, restarts, relisted>>

(* A directory whose unit is listed is adopted as busy *)
AdoptRunning(e) ==
    /\ pc = "adopt"
    /\ NextEntry(e)
    /\ Runs(e)
    /\ \E r \in AdoptedAs("busy", e) : Put(e.id, r)
    /\ watchers' = watchers \cup {Watch(e.id, e.gen)}
    /\ todo' = todo \ {e}
    /\ UNCHANGED <<daemon, pc, want, cur, listed, workers, host, sinks,
                   lastGen, restarts, relisted>>

(* Any other directory is wiped under a stopping record *)
AdoptOrphan(e) ==
    /\ pc = "adopt"
    /\ NextEntry(e)
    /\ ~Runs(e)
    /\ \E r \in AdoptedAs("stopping", e) : Put(e.id, InCleanup(r))
    /\ workers' = workers \cup {WipeOf(e)}
    /\ todo' = todo \ {e}
    /\ UNCHANGED <<daemon, pc, want, cur, listed, watchers, host, sinks,
                   lastGen, restarts, relisted>>

AdoptDirsDone ==
    /\ pc = "adopt"
    /\ todo = {}
    /\ pc' = "adoptUnits"
    /\ UNCHANGED <<daemon, slots, want, cur, todo, listed, watchers, workers, host,
                   sinks, lastGen, restarts, relisted>>

(* Listed units with neither a record nor a directory are stopped *)
Stray == {i \in listed : ~Tracked(i) /\ dir[i] = 0}

AdoptUnitsDone ==
    /\ pc = "adoptUnits"
    /\ unit' = [i \in SlotID |-> IF i \in Stray THEN 0 ELSE unit[i]]
    /\ listed' = {}
    /\ pc' = "idle"
    /\ UNCHANGED <<daemon, slots, want, cur, todo, watchers, workers, dir, jit, sinks,
                   lastGen, restarts, relisted>>

(* shutdownSlots: Table.Shutdown stops every idle slot, whatever its grace *)
BeginShutdown ==
    /\ daemon = "up"
    /\ pc = "idle"
    /\ restarts < MaxRestarts
    /\ daemon' = "leaving"
    /\ Begin(0)
    /\ UNCHANGED <<slots, cur, listed, watchers, workers, host, sinks,
                   lastGen, restarts, relisted>>

(* The process ends: its goroutines and its memory are gone, the units and *)
(* the files stay.                                                         *)
Down ==
    /\ daemon' = "down"
    /\ restarts' = restarts + 1
    /\ slots' = [i \in SlotID |-> NoRec]
    /\ pc' = "idle"
    /\ want' = 0
    /\ cur' = 0
    /\ todo' = {}
    /\ listed' = {}
    /\ watchers' = {}
    /\ workers' = {}
    /\ UNCHANGED <<host, sinks, lastGen, relisted>>

(* Close, and the return of run *)
Close ==
    /\ daemon = "leaving"
    /\ pc = "idle"
    /\ restarts < MaxRestarts
    /\ Down

(* A crash anywhere; an adoption that returns an error ends the same way *)
Crash ==
    /\ daemon # "down"
    /\ restarts < MaxRestarts
    /\ Down

-----------------------------------------------------------------------------
(* The host and GitHub *)

(* A runner ends: its job is done, it failed, or it was stopped *)
RunnerExit(i) ==
    /\ unit[i] # 0
    /\ unit' = [unit EXCEPT ![i] = 0]
    /\ UNCHANGED <<memory, dir, jit, sinks,
                   lastGen, restarts, relisted>>

(* GitHub assigns a job to a runner and sends its JobStarted message *)
AssignJob(i) ==
    /\ unit[i] # 0
    /\ unit[i] \notin assigned
    /\ assigned' = assigned \cup {unit[i]}
    /\ UNCHANGED <<memory, host, claims, completed, reports, lastGen, restarts, relisted>>

-----------------------------------------------------------------------------
StartStep ==
    \/ StartRefused \/ MakeDir \/ MakeDirFails \/ Provision \/ StartFails
    \/ Launch \/ StartOk \/ StartUncertain
    \/ \E i \in SlotID : Reserve(i)

StopStep ==
    \/ StopCall
    \/ \E k \in 0 .. MaxGen : StopSurplus(k)
    \/ \E v \in todo : StopOk(v) \/ StopErr(v)

AdoptStep ==
    \/ AdoptDirsDone \/ AdoptUnitsDone
    \/ \E e \in todo : AdoptRunning(e) \/ AdoptOrphan(e)

(* What the run loop's goroutine does on its own account *)
Reconciler ==
    \/ EnsureBegin \/ RetryDone \/ EnsureCheck \/ StartStep \/ StopStep
    \/ Boot \/ AdoptStep
    \/ \E v \in todo : RetryCleanup(v)

Next ==
    \/ Reconciler
    \/ \E w \in watchers : WatcherStep(w)
    \/ \E w \in workers : WorkerStep(w)
    \/ \E i \in SlotID : Claim(i) \/ RunnerExit(i) \/ AssignJob(i)
    \/ BeginShutdown \/ Close \/ Crash

Spec == Init /\ [][Next]_vars

-----------------------------------------------------------------------------
(* Safety *)

(* A wipe goroutine works for the record that still reserves its ID, and is *)
(* the only one on that ID: clean "keeps this slot reserved until return".  *)
WorkersOwnTheirSlot ==
    \A w \in workers :
        /\ Holds(w) /\ slots[w.id].cleaning
        /\ \A x \in workers : x.id = w.id => x = w

(* No wipe goroutine, and no watcher on its way to start one for the record *)
(* in the table, exists for a slot whose runner is running.                 *)
NoWipeUnderRunner ==
    /\ \A w \in workers : unit[w.id] = 0
    /\ \A w \in watchers : w.step = "clean" /\ Holds(w) => unit[w.id] = 0

(* A runner has the directory and the JIT file of its own start attempt for *)
(* as long as it runs, whatever the daemon does, across its restarts.       *)
RunnerKeepsItsFiles ==
    \A i \in SlotID : unit[i] # 0 => dir[i] = unit[i] /\ jit[i]

(* Once boot adoption is over the table knows every runner of the host under *)
(* the record of that runner, so no runner escapes the count of live slots.  *)
RunnersAreTracked ==
    (daemon # "down" /\ pc \notin AdoptPCs) =>
        \A i \in SlotID : unit[i] # 0 => slots[i].gen = unit[i]

(* A JIT file never outlives the directory that boot adoption finds it by.  *)
JITHasDirectory == \A i \in SlotID : jit[i] => dir[i] # 0

(* A record whose exit was confirmed never counts as live again: a failed   *)
(* stop or a late claim does not bring it back.                             *)
ExitedIsNotLive == \A i \in SlotID : slots[i].pending => slots[i].state = "stopping"

(* A record a claim was noted on stays busy until its exit is confirmed: the *)
(* reply of backend.Start and a failed stop do not make it idle.             *)
ClaimedStaysBusy ==
    \A i \in SlotID : slots[i].claimed => slots[i].state = "busy" \/ slots[i].pending

(* A starting record exists only while startOne works on it: nothing else   *)
(* stops, wipes or leaves behind a start that is in progress.               *)
StartingIsInProgress ==
    \A i \in SlotID : slots[i].state = "starting" => pc \in StartPCs /\ cur = i

(* The event hook never hears of one runner both that it exited on its own  *)
(* and that it was stopped as surplus.  The exception is a runner that had  *)
(* ended when a boot found its unit listed: Adopt takes every listed unit   *)
(* for a running one, so the new daemon watches it and may report its end   *)
(* after a stop of the old daemon was reported.                             *)
OneEndReported ==
    \A g \in Gen \ relisted : ~({<<g, "exited">>, <<g, "stopped">>} \subseteq reports)

(* backend.Stop is called for the unit of a record only while that record   *)
(* is out of the live count, and never for one a claim had made busy.       *)
StopSparesClaimed ==
    [][\A v \in todo : (pc = "stop" /\ pc' = "stopping" /\ Oldest(v)) =>
           /\ claims[v.gen] # "marked"
           /\ unit[v.id] \in {0, v.gen}]_vars

(* A second completion of one runner is handed to the usage history only if *)
(* that runner had ended when a boot found its unit listed, over all the    *)
(* lives of the daemon and however often its JobStarted message comes: the  *)
(* exit seen by the old daemon is then seen again by the new one.           *)
OneCompletionPerRunner ==
    [][\A i \in SlotID : (slots'[i].sent /\ ~slots[i].sent) =>
           slots'[i].gen \notin completed \ relisted]_vars

(* What the comments of Claim promise: a claim that was accepted makes the  *)
(* slot busy "so scale-down will not stop it".                              *)
AcceptedClaimIsBusy ==
    \A i \in SlotID : slots[i].state \in {"starting", "idle"} =>
        claims[slots[i].gen] = "none"

-----------------------------------------------------------------------------
(* Liveness *)

(* The daemon is restarted when it is down and ends once it leaves; the run *)
(* loop keeps reconciling and never hangs (every call it makes has a        *)
(* deadline); a watcher that retries gets its answer; a step of the wipe    *)
(* that is tried for ever succeeds in the end; and reconciles do not run    *)
(* out of time before every cleanup, for ever.                              *)
WatcherStepOf(i, g) == \E w \in watchers : w.id = i /\ w.gen = g /\ WatcherStep(w)
WipeStepOf(i, g, step) ==
    \E w \in workers : /\ w.id = i /\ w.gen = g /\ w.step = step
                       /\ WipeSucceeds(w) /\ WorkerStep(w)
RetryCleanupOf(i) == \E v \in todo : v.id = i /\ RetryCleanup(v)

Fairness ==
    /\ WF_vars(Reconciler)
    /\ WF_vars(Close)
    /\ \A i \in SlotID, g \in Gen :
          /\ WF_vars(WatcherStepOf(i, g))
          /\ \A step \in {"jit", "dir", "release"} : SF_vars(WipeStepOf(i, g, step))
    /\ \A i \in SlotID : SF_vars(RetryCleanupOf(i))

FairSpec == Spec /\ Fairness

(* The directory of a runner that ended is removed in the end: no crash, no *)
(* failed wipe and no race between the watcher and a stop loses a slot.     *)
EndedSlotIsFreed ==
    \A i \in SlotID : (dir[i] # 0 /\ unit[i] = 0) ~> (dir[i] = 0 \/ unit[i] # 0)
=============================================================================
