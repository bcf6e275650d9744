-------------------------------- MODULE Logship --------------------------------
(***************************************************************************)
(* The diagnostics of ended runners in one pool's log directory: the wipes *)
(* of its slots ship _diag into an archive and prune the old ones, one at  *)
(* a time.  shipDiag of app/pool.go, ShipDiagContext and Prune of          *)
(* internal/logship.                                                       *)
(*                                                                         *)
(* Operators whose name starts with Bug are deliberately wrong variants of *)
(* the operator that follows them.                                         *)
(***************************************************************************)
EXTENDS Naturals, FiniteSets, Functions

CONSTANTS
    Worker,         \* the wipes of the slots
    MaxAge,         \* diag_max_age
    MaxBytes,       \* diag_max_bytes
    MaxTime,        \* bound: the clock
    MaxFiles,       \* bound: files in a _diag directory, one unit of bytes each
    MaxShips,       \* bound: archives begun
    MaxCrashes      \* bound: ends of the daemon

ASSUME LogshipAssumption ==
    {MaxAge, MaxBytes} \subseteq Nat \ {0} /\ {MaxTime, MaxFiles, MaxShips, MaxCrashes} \subseteq Nat

VARIABLES
    now,            \* the clock
    dirs,           \* the directories in the log directory, by archive
    ships,          \* archives begun so far
    pc,             \* by worker: where shipDiag is
    late,           \* workers whose context is done
    sem,            \* who holds diagSem
    todo,           \* Prune: archives of the inventory not yet looked at
    total,          \* Prune: what the inventory still counts
    cutoff,         \* Prune: archives older than this are expired
    victim,         \* Prune: the archive that is being removed
    touched,        \* history: archives that a Prune has begun to remove
    stuck,          \* history: archives whose removal met an error
    crashes

prune == <<todo, total, cutoff, victim, touched>>
vars == <<now, dirs, ships, pc, late, sem, prune, stuck, crashes>>

Archive == 1..MaxShips
None == [id |-> 0, bytes |-> 0]
NoDir == [at |-> "none", files |-> 0, want |-> 0, marker |-> FALSE, born |-> 0]

Published == {i \in Archive : dirs[i].at = "published"}
Owned == {i \in Published : dirs[i].marker}             \* what findArchives returns
Bytes(i) == dirs[i].files
Sum(S) == SumFunctionOnSet([i \in Archive |-> Bytes(i)], S)

Init ==
    /\ now = 0
    /\ dirs = [i \in Archive |-> NoDir] /\ ships = 0
    /\ pc = [w \in Worker |-> "out"] /\ late = {} /\ sem = {}
    /\ todo = {} /\ total = 0 /\ cutoff = 0 /\ victim = None /\ touched = {}
    /\ stuck = {} /\ crashes = 0

Tick ==
    /\ now < MaxTime /\ now' = now + 1
    /\ UNCHANGED <<dirs, ships, pc, late, sem, prune, stuck, crashes>>

(* The cleanup timeout of the wipe *)
Deadline(w) ==
    /\ pc[w] # "out" /\ w \notin late
    /\ late' = late \cup {w}
    /\ UNCHANGED <<now, dirs, ships, pc, sem, prune, stuck, crashes>>

-----------------------------------------------------------------------------
(* shipDiag *)

At(w, here) == pc[w] = here
Goes(w, there) == pc' = [pc EXCEPT ![w] = there]

Call(w) ==
    /\ At(w, "out")
    /\ Goes(w, "wait")
    /\ UNCHANGED <<now, dirs, ships, late, sem, prune, stuck, crashes>>

Acquire(w) ==
    /\ At(w, "wait") /\ sem = {}
    /\ sem' = {w} /\ Goes(w, "before")
    /\ UNCHANGED <<now, dirs, ships, late, prune, stuck, crashes>>

BugGiveUp(w) == FALSE               \* waits without a look at the context
GiveUp(w) ==
    /\ At(w, "wait") /\ w \in late
    /\ Goes(w, "out") /\ late' = late \ {w}
    /\ UNCHANGED <<now, dirs, ships, sem, prune, stuck, crashes>>

(* The deferred receive *)
Released(w) == {}

Return(w) ==
    /\ pc[w] \in {"kept", "failed"}
    /\ Goes(w, "out") /\ late' = late \ {w} /\ sem' = Released(w)
    /\ total' = 0 /\ cutoff' = 0
    /\ UNCHANGED <<now, dirs, ships, todo, victim, touched, stuck, crashes>>

-----------------------------------------------------------------------------
(* Prune, before and after the copy *)

Older(i, j) == dirs[i].born < dirs[j].born
BugExcess(i) == dirs[i].born < cutoff /\ total > MaxBytes      \* both limits must be exceeded
(* The archives that go: expired ones, and others while there is too much *)
Excess(i) == dirs[i].born < cutoff \/ total > MaxBytes

Inventory(w) ==
    /\ pc[w] \in {"before", "after"} /\ w \notin late
    /\ todo' = Owned /\ total' = Sum(Owned)
    /\ cutoff' = IF now > MaxAge THEN now - MaxAge ELSE 0
    /\ Goes(w, IF pc[w] = "before" THEN "prune" ELSE "pruneAgain")
    /\ UNCHANGED <<now, dirs, ships, late, sem, victim, touched, stuck, crashes>>

Pruning(w) == pc[w] \in {"prune", "pruneAgain"} /\ victim = None

Oldest(i) == \A j \in todo : ~Older(j, i)

Keep(w, i) ==
    /\ Pruning(w) /\ i \in todo /\ Oldest(i) /\ ~Excess(i) /\ w \notin late
    /\ todo' = todo \ {i}
    /\ UNCHANGED <<now, dirs, ships, pc, late, sem, total, cutoff, victim, touched, stuck, crashes>>

Remove(w, i) ==
    /\ Pruning(w) /\ i \in todo /\ Oldest(i) /\ Excess(i) /\ w \notin late
    /\ todo' = todo \ {i}
    /\ victim' = [id |-> i, bytes |-> Bytes(i)]
    /\ touched' = touched \cup {i}
    /\ UNCHANGED <<now, dirs, ships, pc, late, sem, total, cutoff, stuck, crashes>>

RemoveFile(w) ==
    /\ sem = {w} /\ victim # None /\ w \notin late
    /\ dirs[victim.id].files > 0
    /\ dirs' = [dirs EXCEPT ![victim.id].files = @ - 1]
    /\ UNCHANGED <<now, ships, pc, late, sem, prune, stuck, crashes>>

BugOnlyMarker(i) == TRUE            \* the marker goes with the other files
OnlyMarker(i) == dirs[i].files = 0

(* The marker and the directory: no cancellation comes between *)
RemoveMarker(w) ==
    /\ sem = {w} /\ victim # None /\ w \notin late
    /\ dirs[victim.id].marker /\ OnlyMarker(victim.id)
    /\ dirs' = [dirs EXCEPT ![victim.id].marker = FALSE]
    /\ UNCHANGED <<now, ships, pc, late, sem, prune, stuck, crashes>>

RemoveDir(w) ==
    /\ sem = {w} /\ victim # None
    /\ ~dirs[victim.id].marker /\ dirs[victim.id].files = 0
    /\ dirs' = [dirs EXCEPT ![victim.id] = NoDir]
    /\ total' = total - victim.bytes
    /\ victim' = None /\ touched' = touched \ {victim.id}
    /\ UNCHANGED <<now, ships, pc, late, sem, todo, cutoff, stuck, crashes>>

(* The last call may fail, and the marker is gone *)
RemoveDirFails(w) ==
    /\ sem = {w} /\ victim # None
    /\ ~dirs[victim.id].marker /\ dirs[victim.id].files = 0
    /\ stuck' = stuck \cup {victim.id}
    /\ Goes(w, "failed")
    /\ todo' = {} /\ victim' = None
    /\ UNCHANGED <<now, dirs, ships, late, sem, total, cutoff, touched, crashes>>

Pruned(w) ==
    /\ Pruning(w) /\ todo = {}
    /\ Goes(w, IF pc[w] = "prune" THEN "ship" ELSE "kept")
    /\ UNCHANGED <<now, dirs, ships, late, sem, prune, stuck, crashes>>

(* The context is done, or a system call fails *)
PruneFails(w) ==
    /\ pc[w] \in {"before", "prune", "pruneAgain", "after"}
    /\ victim # None => dirs[victim.id].marker
    /\ Goes(w, "failed")
    /\ todo' = {} /\ victim' = None
    /\ UNCHANGED <<now, dirs, ships, late, sem, total, cutoff, touched, stuck, crashes>>

-----------------------------------------------------------------------------
(* ShipDiagContext *)

(* There is no _diag *)
NothingToShip(w) ==
    /\ At(w, "ship") /\ w \notin late
    /\ Goes(w, "after")
    /\ UNCHANGED <<now, dirs, ships, late, sem, prune, stuck, crashes>>

Stage(w) ==
    /\ At(w, "ship") /\ w \notin late /\ ships < MaxShips
    /\ \E diag \in 0..MaxFiles :
          dirs' = [dirs EXCEPT ![ships + 1] = [NoDir EXCEPT !.at = "staging", !.want = diag]]
    /\ ships' = ships + 1
    /\ Goes(w, "copy")
    /\ UNCHANGED <<now, late, sem, prune, stuck, crashes>>

CopyFile(w) ==
    /\ At(w, "copy") /\ w \notin late
    /\ dirs[ships].files < dirs[ships].want
    /\ dirs' = [dirs EXCEPT ![ships].files = @ + 1]
    /\ UNCHANGED <<now, ships, pc, late, sem, prune, stuck, crashes>>

BugComplete(i) == TRUE              \* the error of the copy is not looked at
Complete(i) == dirs[i].files = dirs[i].want

Mark(w) ==
    /\ At(w, "copy") /\ Complete(ships) /\ w \notin late
    /\ dirs' = [dirs EXCEPT ![ships].marker = TRUE]
    /\ Goes(w, "publish")
    /\ UNCHANGED <<now, ships, late, sem, prune, stuck, crashes>>

(* The name carries the time *)
Publish(w) ==
    /\ At(w, "publish") /\ w \notin late
    /\ dirs' = [dirs EXCEPT ![ships].at = "published", ![ships].born = now]
    /\ Goes(w, "after")
    /\ UNCHANGED <<now, ships, late, sem, prune, stuck, crashes>>

(* An error, a limit, the free-space watermark or the context: the         *)
(* deferred RemoveAll takes the staging directory away, if it can; nobody  *)
(* looks at its error.                                                     *)
ShipFails(w) ==
    /\ pc[w] \in {"ship", "copy", "publish"}
    /\ \/ At(w, "ship") /\ UNCHANGED <<dirs, stuck>>
       \/ ~At(w, "ship") /\ dirs' = [dirs EXCEPT ![ships] = NoDir] /\ UNCHANGED stuck
       \/ ~At(w, "ship") /\ stuck' = stuck \cup {ships} /\ UNCHANGED dirs
    /\ Goes(w, "failed")
    /\ UNCHANGED <<now, ships, late, sem, prune, crashes>>

(* The daemon ends; what is on disk stays *)
Crash ==
    /\ crashes < MaxCrashes /\ crashes' = crashes + 1
    /\ pc' = [w \in Worker |-> "out"] /\ late' = {} /\ sem' = {}
    /\ todo' = {} /\ total' = 0 /\ cutoff' = 0 /\ victim' = None
    /\ UNCHANGED <<now, dirs, ships, touched, stuck>>

-----------------------------------------------------------------------------
Step(w) ==
    \/ Acquire(w) \/ GiveUp(w) \/ Return(w)
    \/ Inventory(w) \/ RemoveFile(w) \/ RemoveMarker(w) \/ RemoveDir(w) \/ RemoveDirFails(w)
    \/ Pruned(w) \/ PruneFails(w)
    \/ NothingToShip(w) \/ Stage(w) \/ CopyFile(w) \/ Mark(w) \/ Publish(w) \/ ShipFails(w)
    \/ \E i \in Archive : Keep(w, i) \/ Remove(w, i)

Next == Tick \/ Crash \/ \E w \in Worker : Call(w) \/ Deadline(w) \/ Step(w)

(* A wipe's deadline comes, and system calls return *)
Spec ==
    /\ Init /\ [][Next]_vars
    /\ \A w \in Worker : WF_vars(Deadline(w)) /\ WF_vars(Step(w))

-----------------------------------------------------------------------------
(* Properties *)

HostTypeOK ==
    /\ now \in 0..MaxTime /\ ships \in 0..MaxShips /\ crashes \in 0..MaxCrashes
    /\ dirs \in [Archive -> [at : {"none", "staging", "published"}, files : 0..MaxFiles,
                             want : 0..MaxFiles, marker : BOOLEAN, born : 0..MaxTime]]

PruneTypeOK ==
    /\ todo \subseteq Published /\ touched \subseteq Archive /\ stuck \subseteq Archive
    /\ cutoff \in 0..MaxTime
    /\ victim = None \/ victim.id \in Published

WipeTypeOK ==
    /\ pc \in [Worker -> {"out", "wait", "before", "prune", "ship", "copy", "publish", "after",
                          "pruneAgain", "kept", "failed"}]
    /\ sem = {w \in Worker : pc[w] \notin {"out", "wait"}}
    /\ \A v, w \in sem : v = w
    /\ late \subseteq Worker

(* The variables keep their types; whoever is past the wait holds diagSem, *)
(* alone, whichever way it returns.                                        *)
TypeOK == HostTypeOK /\ PruneTypeOK /\ WipeTypeOK

(* An archive is visible with everything that was to be copied and with    *)
(* its marker, or not at all, wherever the copy failed, was cancelled or   *)
(* the daemon died; only a Prune takes something away from it.             *)
PublishedIsWhole ==
    \A i \in Published \ touched : dirs[i].files = dirs[i].want /\ dirs[i].marker

(* A Prune that ends without an error leaves neither an expired archive    *)
(* nor more bytes than the budget, also when an earlier one was cut off in *)
(* the middle of an archive.                                               *)
RetentionHolds ==
    (\E w \in Worker : pc[w] \in {"ship", "kept"})
        => Sum(Published) <= MaxBytes /\ \A i \in Owned : dirs[i].born >= cutoff

(* What no later Prune recognizes: archives without their marker, except   *)
(* the one that is being removed, and staging that nobody fills            *)
Filling == {i \in Archive : i = ships /\ \E w \in Worker : pc[w] \in {"copy", "publish"}}
Stranded ==
    {i \in Published \ Owned : victim.id # i}
        \cup {i \in Archive \ Filling : dirs[i].at = "staging"}

(* Cancellation and errors strand nothing, whatever step of a copy or a    *)
(* removal they come at, unless the error is one of the removal itself:    *)
(* rmdir after the marker is gone, or RemoveAll of staging, whose error is *)
(* not looked at.  Of the others there are no more than crashes; and what  *)
(* is left of an archive without its marker is always empty.               *)
NothingStranded ==
    /\ \A i \in Published \ Owned : dirs[i].files = 0
    /\ Cardinality(Stranded \ stuck) <= crashes

(* Every wipe is through with its diagnostics in the end, also when others *)
(* keep it from starting: the slot's ID is free again only then.           *)
ShippingEnds == \A w \in Worker : pc[w] # "out" ~> pc[w] = "out"
=============================================================================
