--------------------------- MODULE SlotTableProofs ---------------------------
(***************************************************************************)
(* Proofs about SlotTable, for every number of slots, start attempts and   *)
(* restarts.  The safety properties are not inductive one by one: that no  *)
(* wipe runs under a runner rests on what every goroutine that may start   *)
(* one knows of the record it holds, which in turn rests on the serialized *)
(* starts and on boot adoption.  IInv states all of that together.         *)
(***************************************************************************)
EXTENDS SlotTable, TLAPS

(* The daemon that is down has no memory, only units and files.            *)
DownInv ==
    daemon = "down" =>
        /\ pc = "idle" /\ todo = {} /\ watchers = {} /\ workers = {}
        /\ \A i \in SlotID : slots[i].state = "none"

(* Generations are allocated in order.                                     *)
GenInv ==
    /\ \A i \in SlotID : slots[i].gen <= lastGen /\ dir[i] <= lastGen
    /\ \A w \in watchers : w.gen <= lastGen

(* The record of the start in progress: no watcher has it yet, nobody has  *)
(* begun to clean it, and its unit does not run before the launch.         *)
CurInv ==
    pc \in StartPCs =>
        /\ cur \in SlotID
        /\ lastGen \in Gen
        /\ slots[cur].gen = lastGen
        /\ slots[cur].state \in {"starting", "busy"}
        /\ \A w \in watchers : w.gen # lastGen
        /\ pc # "reply" => unit[cur] = 0
        /\ pc # "mkdir" => dir[cur] = lastGen
        /\ pc \in {"launch", "reply"} => jit[cur]

(* The directories that boot adoption has still to look at.                *)
AdoptInv ==
    /\ pc \in AdoptPCs => \A i \in SlotID : unit[i] # 0 => i \in listed
    /\ pc = "adopt" =>
         \A e \in todo :
            /\ slots[e.id].state = "none"
            /\ dir[e.id] = e.gen
            /\ \A w \in watchers : w.id # e.id
            /\ \A f \in todo : f.id = e.id => f = e

(* Every runner has its record, or boot adoption will still come to it.    *)
TrackInv ==
    daemon # "down" =>
        \A i \in SlotID : unit[i] # 0 =>
            \/ slots[i].gen = unit[i]
            \/ pc = "adopt" /\ \E e \in todo : e.id = i

(* A record with cleanup pending is stopping and its runner is gone.       *)
PendingInv ==
    \A i \in SlotID :
        /\ slots[i].cleaning => slots[i].pending
        /\ slots[i].pending => slots[i].state = "stopping" /\ unit[i] = 0

(* A wipe goroutine owns the record in the table, alone.                   *)
WorkerInv ==
    \A w \in workers :
        /\ Holds(w) /\ slots[w.id].cleaning
        /\ \A x \in workers : x.id = w.id => x = w
        /\ w.step # "jit" => ~jit[w.id]

(* A watcher that saw the exit of the runner of the record in the table    *)
WatcherInv ==
    \A w \in watchers :
        Holds(w) => /\ w.step # "wait" => unit[w.id] = 0
                    /\ w.step = "clean" => slots[w.id].pending

(* What retryCleanup and the stop loop hold in todo                        *)
TodoInv ==
    /\ pc = "retry" => \A v \in todo : Holds(v) => slots[v.id].pending
    /\ pc \in {"stop", "stopping"} => \A v \in todo : v.was = "idle"

IInv ==
    /\ TypeOK
    /\ DownInv
    /\ GenInv
    /\ CurInv
    /\ AdoptInv
    /\ TrackInv
    /\ PendingInv
    /\ WorkerInv
    /\ WatcherInv
    /\ TodoInv
    /\ RunnerKeepsItsFiles
    /\ JITHasDirectory
    /\ ClaimedStaysBusy
    /\ StartingIsInProgress


-----------------------------------------------------------------------------
(* What the operators on records return.  The proofs below cite these and   *)
(* leave the operators themselves folded.                                   *)

(* Put writes one record and keeps the others.                              *)
LEMMA PutFacts ==
  ASSUME NEW i \in SlotID, NEW r \in Record, TypeOK, Put(i, r),
         r.state # "none" <=> r.gen # 0
  PROVE  /\ slots' \in [SlotID -> Record]
         /\ \A j \in SlotID : (slots'[j].state # "none") <=> (slots'[j].gen # 0)
         /\ slots'[i] = r
         /\ \A j \in SlotID : j # i => slots'[j] = slots[j]
  BY DEF TypeOK, Put, Tracked

(* Whatever the typed table holds for an ID is a record, absent or not.     *)
LEMMA SlotFacts ==
  ASSUME TypeOK, NEW i \in SlotID
  PROVE  /\ slots[i] \in Record
         /\ slots[i].state # "none" <=> slots[i].gen # 0
         /\ slots[i].gen \in 0 .. MaxGen
  BY DEF TypeOK, Tracked, Record

LEMMA NamedFacts ==
  ASSUME NEW r \in Record
  PROVE  /\ Named(r) \in Record
         /\ Named(r).state = r.state /\ Named(r).gen = r.gen
         /\ Named(r).claimed = r.claimed /\ Named(r).cleaning = r.cleaning
         /\ Named(r).pending = r.pending
  BY DEF Named, Record

LEMMA InStateFacts ==
  ASSUME NEW r \in Record, NEW st \in States
  PROVE  /\ InState(r, st) \in Record
         /\ InState(r, st).state = st /\ InState(r, st).gen = r.gen
         /\ InState(r, st).claimed = r.claimed /\ InState(r, st).cleaning = r.cleaning
         /\ InState(r, st).pending = r.pending
  BY DEF InState, Record

LEMMA ClaimedFacts ==
  ASSUME NEW r \in Record
  PROVE  /\ Claimed(r) \in Record
         /\ Claimed(r).state = "busy" /\ Claimed(r).gen = r.gen
         /\ Claimed(r).cleaning = r.cleaning /\ Claimed(r).pending = r.pending
  BY DEF Claimed, Record, States

LEMMA InCleanupFacts ==
  ASSUME NEW r \in Record
  PROVE  /\ InCleanup(r) \in Record
         /\ InCleanup(r).state = r.state /\ InCleanup(r).gen = r.gen
         /\ InCleanup(r).claimed = r.claimed
         /\ InCleanup(r).cleaning = TRUE /\ InCleanup(r).pending = TRUE
  BY DEF InCleanup, Record

LEMMA CleanupOverFacts ==
  ASSUME NEW r \in Record
  PROVE  /\ CleanupOver(r) \in Record
         /\ CleanupOver(r).state = r.state /\ CleanupOver(r).gen = r.gen
         /\ CleanupOver(r).claimed = r.claimed
         /\ CleanupOver(r).cleaning = FALSE /\ CleanupOver(r).pending = r.pending
  BY DEF CleanupOver, Record

LEMMA ExitedFacts ==
  ASSUME NEW r \in Record, NEW quick \in BOOLEAN
  PROVE  /\ Exited(r, quick) \in Record
         /\ Exited(r, quick).state = "stopping" /\ Exited(r, quick).gen = r.gen
         /\ Exited(r, quick).claimed = r.claimed
         /\ Exited(r, quick).cleaning = r.cleaning /\ Exited(r, quick).pending = TRUE
  BY DEF Exited, Record, States

LEMMA StartedFacts ==
  ASSUME NEW r \in Record
  PROVE  /\ Started(r) \in Record
         /\ Started(r).state = IF r.state = "starting" THEN "idle" ELSE r.state
         /\ Started(r).gen = r.gen /\ Started(r).claimed = r.claimed
         /\ Started(r).cleaning = r.cleaning /\ Started(r).pending = r.pending
  BY InStateFacts DEF Started, States

LEMMA NewRecFacts ==
  ASSUME NEW st \in States, NEW g \in 0 .. MaxGen
  PROVE  /\ NewRec(st, g) \in Record
         /\ NewRec(st, g).state = st /\ NewRec(st, g).gen = g
         /\ NewRec(st, g).claimed = FALSE
         /\ NewRec(st, g).cleaning = FALSE /\ NewRec(st, g).pending = FALSE
  BY DEF NewRec, Record

LEMMA GenFacts == \A g \in Gen : g # 0 /\ g \in 0 .. MaxGen
  BY SlotTableAssumption DEF Gen

LEMMA NoRecFacts ==
  /\ NoRec \in Record
  /\ NoRec.state = "none" /\ NoRec.gen = 0 /\ NoRec.claimed = FALSE
  /\ NoRec.cleaning = FALSE /\ NoRec.pending = FALSE
<1>1. "none" \in States /\ 0 \in 0 .. MaxGen
  BY SlotTableAssumption DEF States
<1>2. /\ NewRec("none", 0) \in Record
      /\ NewRec("none", 0).state = "none" /\ NewRec("none", 0).gen = 0
  BY <1>1, NewRecFacts
<1>3. NewRec("none", 0).claimed = FALSE
  BY <1>1, NewRecFacts
<1>4. NewRec("none", 0).cleaning = FALSE
  BY <1>1, NewRecFacts
<1>5. NewRec("none", 0).pending = FALSE
  BY <1>1, NewRecFacts
<1> QED BY <1>2, <1>3, <1>4, <1>5 DEF NoRec

LEMMA WorkerFacts ==
  /\ \A w \in Worker, st \in {"jit", "dir", "release"} :
        /\ AtStep(w, st) \in Worker
        /\ AtStep(w, st).id = w.id /\ AtStep(w, st).gen = w.gen /\ AtStep(w, st).step = st
  /\ \A w \in Watcher, st \in {"wait", "exited", "clean"} :
        /\ AtStep(w, st) \in Watcher
        /\ AtStep(w, st).id = w.id /\ AtStep(w, st).gen = w.gen /\ AtStep(w, st).step = st
  BY DEF AtStep, Worker, Watcher

LEMMA RefFacts ==
  ASSUME TypeOK, NEW i \in SlotID, Tracked(i)
  PROVE  RefOf(i) \in Ref /\ RefOf(i).id = i /\ RefOf(i).gen = slots[i].gen
           /\ RefOf(i).was = slots[i].state
<1>1. slots[i].state \in States
  BY SlotFacts DEF Record
<1>2. slots[i].gen \in Gen
  BY SlotFacts, SlotTableAssumption DEF Tracked, Gen
<1> QED BY <1>1, <1>2 DEF RefOf, Ref

LEMMA WipeOfFacts ==
  ASSUME NEW v, v.id \in SlotID, v.gen \in Gen
  PROVE  /\ WipeOf(v) \in Worker
         /\ WipeOf(v).id = v.id /\ WipeOf(v).gen = v.gen /\ WipeOf(v).step = "jit"
  BY DEF WipeOf, Worker

-----------------------------------------------------------------------------
(* The host and GitHub *)

LEMMA RunnerExitOK == \A i \in SlotID : IInv /\ RunnerExit(i) => IInv'
<1> SUFFICES ASSUME NEW i \in SlotID, IInv, RunnerExit(i) PROVE IInv'
  OBVIOUS
<1> USE DEF IInv
<1>1. TypeOK'
  BY SlotTableAssumption DEF TypeOK, RunnerExit, memory, sinks, Tracked
<1>2. DownInv' /\ GenInv' /\ TodoInv' /\ AdoptInv' /\ TrackInv'
  BY DEF RunnerExit, memory, DownInv, GenInv, TodoInv, AdoptInv, TrackInv, Holds, TypeOK
<1>3. CurInv'
  BY DEF RunnerExit, memory, CurInv, TypeOK
<1>4. PendingInv' /\ WorkerInv' /\ WatcherInv'
  BY DEF RunnerExit, memory, PendingInv, WorkerInv, WatcherInv, Holds, TypeOK, Watcher
<1>5. /\ RunnerKeepsItsFiles' /\ JITHasDirectory'
      /\ ClaimedStaysBusy' /\ StartingIsInProgress'
  BY DEF RunnerExit, memory, RunnerKeepsItsFiles, JITHasDirectory, ClaimedStaysBusy,
         StartingIsInProgress, TypeOK
<1> QED BY <1>1, <1>2, <1>3, <1>4, <1>5

LEMMA AssignJobOK == \A i \in SlotID : IInv /\ AssignJob(i) => IInv'
<1> SUFFICES ASSUME NEW i \in SlotID, IInv, AssignJob(i) PROVE IInv'
  OBVIOUS
<1> USE DEF IInv
<1>1. TypeOK'
  <2>1. unit[i] \in Gen
    BY SlotTableAssumption DEF TypeOK, AssignJob, Gen
  <2> QED BY <2>1 DEF TypeOK, AssignJob, memory, host, Tracked
<1>2. DownInv' /\ GenInv' /\ TodoInv' /\ AdoptInv' /\ TrackInv' /\ CurInv'
  BY DEF AssignJob, memory, host, DownInv, GenInv, TodoInv, AdoptInv, TrackInv, CurInv, Holds
<1>3. PendingInv' /\ WorkerInv' /\ WatcherInv'
  BY DEF AssignJob, memory, host, PendingInv, WorkerInv, WatcherInv, Holds
<1>4. /\ RunnerKeepsItsFiles' /\ JITHasDirectory'
      /\ ClaimedStaysBusy' /\ StartingIsInProgress'
  BY DEF AssignJob, memory, host, RunnerKeepsItsFiles, JITHasDirectory, ClaimedStaysBusy,
         StartingIsInProgress
<1> QED BY <1>1, <1>2, <1>3, <1>4

-----------------------------------------------------------------------------
(* Cleanup *)

(* The effect of clean on the table and on the workers.                     *)
LEMMA CleanFacts ==
  ASSUME IInv, NEW v, v.id \in SlotID, v.gen \in Gen, Clean(v),
         Holds(v) => slots[v.id].pending
  PROVE  /\ slots' \in [SlotID -> Record]
         /\ \A j \in SlotID :
               /\ slots'[j].state = slots[j].state
               /\ slots'[j].gen = slots[j].gen
               /\ slots'[j].claimed = slots[j].claimed
               /\ slots'[j].pending = slots[j].pending
               /\ slots[j].cleaning => slots'[j].cleaning
               /\ slots'[j].cleaning => slots'[j].pending
         /\ \/ workers' = workers
            \/ /\ workers' = workers \cup {WipeOf(v)}
               /\ Holds(v)
               /\ slots[v.id].pending
               /\ ~slots[v.id].cleaning
               /\ slots'[v.id].cleaning
<1> USE DEF IInv
<1>1. CASE CleanRuns(v)
  <2>1. /\ Holds(v) /\ ~slots[v.id].cleaning /\ slots[v.id].pending
        /\ Put(v.id, InCleanup(slots[v.id]))
        /\ workers' = workers \cup {WipeOf(v)}
    BY <1>1 DEF Clean, CleanRuns
  <2>2. /\ slots' \in [SlotID -> Record]
        /\ slots'[v.id] = InCleanup(slots[v.id])
        /\ \A j \in SlotID : j # v.id => slots'[j] = slots[j]
    <3>1. slots[v.id] \in Record /\ (slots[v.id].state # "none" <=> slots[v.id].gen # 0)
      BY SlotFacts
    <3>2. /\ InCleanup(slots[v.id]) \in Record
          /\ InCleanup(slots[v.id]).state = slots[v.id].state
          /\ InCleanup(slots[v.id]).gen = slots[v.id].gen
      BY <3>1, InCleanupFacts
    <3> QED BY <2>1, <3>1, <3>2, PutFacts
  <2>3. /\ slots'[v.id].state = slots[v.id].state /\ slots'[v.id].gen = slots[v.id].gen
        /\ slots'[v.id].claimed = slots[v.id].claimed
        /\ slots'[v.id].cleaning = TRUE /\ slots'[v.id].pending = TRUE
    <3>1. slots[v.id] \in Record
      BY SlotFacts
    <3>2. /\ InCleanup(slots[v.id]).state = slots[v.id].state
          /\ InCleanup(slots[v.id]).gen = slots[v.id].gen
      BY <3>1, InCleanupFacts
    <3>3. InCleanup(slots[v.id]).claimed = slots[v.id].claimed
      BY <3>1, InCleanupFacts
    <3>4. InCleanup(slots[v.id]).cleaning = TRUE
      BY <3>1, InCleanupFacts
    <3>5. InCleanup(slots[v.id]).pending = TRUE
      BY <3>1, InCleanupFacts
    <3> QED BY <2>2, <3>2, <3>3, <3>4, <3>5
  <2>4. slots[v.id].pending = TRUE
    BY <2>1, SlotFacts DEF Record
  <2> QED BY <2>1, <2>2, <2>3, <2>4 DEF PendingInv
<1>2. CASE ~CleanRuns(v)
  BY <1>2 DEF Clean, TypeOK, PendingInv
<1> QED BY <1>1, <1>2

LEMMA RetryCleanupOK == \A v \in todo : IInv /\ RetryCleanup(v) => IInv'
<1> SUFFICES ASSUME NEW v \in todo, IInv, RetryCleanup(v) PROVE IInv'
  OBVIOUS
<1> USE DEF IInv
<1>1. /\ v.id \in SlotID /\ v.gen \in Gen /\ pc = "retry" /\ Clean(v)
      /\ Holds(v) => slots[v.id].pending
  BY DEF TypeOK, Ref, RetryCleanup, TodoInv
<1>2. /\ WipeOf(v) \in Worker
      /\ WipeOf(v).id = v.id /\ WipeOf(v).gen = v.gen /\ WipeOf(v).step = "jit"
  BY <1>1, WipeOfFacts
<1>3. slots' \in [SlotID -> Record]
  BY <1>1, CleanFacts
<1>4. \A j \in SlotID :
         /\ slots'[j].state = slots[j].state
         /\ slots'[j].gen = slots[j].gen
         /\ slots'[j].claimed = slots[j].claimed
         /\ slots'[j].pending = slots[j].pending
         /\ slots[j].cleaning => slots'[j].cleaning
         /\ slots'[j].cleaning => slots'[j].pending
  BY <1>1, CleanFacts
<1>5. \/ workers' = workers
      \/ /\ workers' = workers \cup {WipeOf(v)} /\ Holds(v)
         /\ slots[v.id].pending /\ ~slots[v.id].cleaning /\ slots'[v.id].cleaning
  BY <1>1, CleanFacts
<1>6. TypeOK'
  BY <1>2, <1>3, <1>4, <1>5 DEF TypeOK, RetryCleanup, host, sinks, Tracked
<1>7. DownInv' /\ GenInv' /\ TodoInv' /\ AdoptInv' /\ TrackInv' /\ CurInv'
  BY <1>1, <1>4 DEF RetryCleanup, host, DownInv, GenInv, TodoInv, AdoptInv, TrackInv,
     CurInv, Holds, TypeOK, Ref, StartPCs, AdoptPCs
<1>8. PendingInv'
  BY <1>4 DEF RetryCleanup, host, PendingInv
<1>9. WorkerInv'
  BY <1>1, <1>2, <1>4, <1>5 DEF RetryCleanup, host, WorkerInv, Holds, TypeOK, Worker
<1>10. WatcherInv'
  BY <1>4 DEF RetryCleanup, host, WatcherInv, Holds, TypeOK, Watcher
<1>11. /\ RunnerKeepsItsFiles' /\ JITHasDirectory'
       /\ ClaimedStaysBusy' /\ StartingIsInProgress'
  BY <1>4 DEF RetryCleanup, host, RunnerKeepsItsFiles, JITHasDirectory, ClaimedStaysBusy,
     StartingIsInProgress
<1> QED BY <1>6, <1>7, <1>8, <1>9, <1>10, <1>11

LEMMA WorkerStepOK == \A w \in workers : IInv /\ WorkerStep(w) => IInv'
<1> SUFFICES ASSUME NEW w \in workers, IInv, WorkerStep(w) PROVE IInv'
  OBVIOUS
<1> USE DEF IInv
<1>1. /\ w \in Worker /\ w.id \in SlotID /\ w.gen \in Gen
      /\ slots[w.id] \in Record
      /\ Holds(w) /\ slots[w.id].cleaning /\ slots[w.id].pending
      /\ slots[w.id].state = "stopping" /\ unit[w.id] = 0
  <2>1. w \in Worker /\ w.id \in SlotID /\ w.gen \in Gen
    BY DEF TypeOK, Worker
  <2> QED BY <2>1, SlotFacts DEF WorkerInv, PendingInv
<1>2. CASE RemoveJIT(w)
  <2>1. /\ AtStep(w, "dir") \in Worker /\ AtStep(w, "dir").id = w.id
        /\ AtStep(w, "dir").gen = w.gen /\ AtStep(w, "dir").step = "dir"
    BY <1>1, WorkerFacts
  <2>2. /\ workers' = (workers \ {w}) \cup {AtStep(w, "dir")}
        /\ jit' = [jit EXCEPT ![w.id] = FALSE]
        /\ UNCHANGED <<slots, reports, dir, daemon, pc, want, cur, todo, listed, watchers,
                       unit, assigned, claims, completed, lastGen, restarts, relisted>>
    BY <1>2 DEF WorkerStep, RemoveJIT, ToStep
  <2>3. TypeOK'
    BY <2>1, <2>2 DEF TypeOK, Tracked
  <2>4. DownInv' /\ GenInv' /\ TodoInv' /\ AdoptInv' /\ TrackInv'
    BY <2>2 DEF DownInv, GenInv, TodoInv, AdoptInv, TrackInv, Holds
  <2>5. CurInv'
    BY <1>1, <2>2 DEF CurInv, TypeOK
  <2>6. PendingInv' /\ WatcherInv'
    BY <2>2 DEF PendingInv, WatcherInv, Holds
  <2>7. WorkerInv'
    BY <1>1, <2>1, <2>2 DEF WorkerInv, Holds, TypeOK, Worker
  <2>8. /\ RunnerKeepsItsFiles' /\ JITHasDirectory'
        /\ ClaimedStaysBusy' /\ StartingIsInProgress'
    BY <1>1, <2>2 DEF RunnerKeepsItsFiles, JITHasDirectory, ClaimedStaysBusy,
       StartingIsInProgress, TypeOK
  <2> QED BY <2>3, <2>4, <2>5, <2>6, <2>7, <2>8
<1>3. CASE RemoveDir(w)
  <2>1. /\ AtStep(w, "release") \in Worker /\ AtStep(w, "release").id = w.id
        /\ AtStep(w, "release").gen = w.gen /\ AtStep(w, "release").step = "release"
    BY <1>1, WorkerFacts
  <2>2. /\ workers' = (workers \ {w}) \cup {AtStep(w, "release")}
        /\ dir' = [dir EXCEPT ![w.id] = 0]
        /\ UNCHANGED <<slots, reports, jit, daemon, pc, want, cur, todo, listed, watchers,
                       unit, assigned, claims, completed, lastGen, restarts, relisted>>
        /\ ~jit[w.id]
    BY <1>3 DEF WorkerStep, RemoveDir, ToStep, WorkerInv
  <2>3. TypeOK'
    <3>1. dir' \in [SlotID -> 0 .. MaxGen]
      BY <1>1, <2>2, SlotTableAssumption DEF TypeOK
    <3> QED BY <2>1, <2>2, <3>1 DEF TypeOK, Tracked
  <2>4. DownInv' /\ GenInv' /\ TodoInv' /\ TrackInv'
    BY <2>2, SlotTableAssumption DEF DownInv, GenInv, TodoInv, TrackInv, Holds, TypeOK
  <2>5. CurInv' /\ AdoptInv'
    BY <1>1, <2>2 DEF CurInv, AdoptInv, TypeOK, Ref
  <2>6. PendingInv' /\ WatcherInv'
    BY <2>2 DEF PendingInv, WatcherInv, Holds
  <2>7. WorkerInv'
    BY <1>1, <2>1, <2>2 DEF WorkerInv, Holds, TypeOK, Worker
  <2>8. /\ RunnerKeepsItsFiles' /\ JITHasDirectory'
        /\ ClaimedStaysBusy' /\ StartingIsInProgress'
    BY <1>1, <2>2 DEF RunnerKeepsItsFiles, JITHasDirectory, ClaimedStaysBusy,
       StartingIsInProgress, TypeOK
  <2> QED BY <2>3, <2>4, <2>5, <2>6, <2>7, <2>8
<1>4. CASE Release(w)
  <2>1. /\ workers' = workers \ {w}
        /\ Put(w.id, NoRec)
        /\ UNCHANGED <<dir, jit, daemon, pc, want, cur, todo, listed, watchers,
                       unit, assigned, claims, completed, lastGen, restarts, relisted>>
    BY <1>1, <1>4 DEF WorkerStep, Release
  <2>2. reports' \subseteq Gen \X {"stopped", "exited", "failure"}
    <3>1. slots[w.id].event \in {"", "exited"}
      BY <1>1 DEF Record
    <3>2. reports' = reports \/ reports' = reports \cup {<<w.gen, "exited">>}
      BY <1>1, <1>4, <3>1 DEF Release
    <3>3. <<w.gen, "exited">> \in Gen \X {"stopped", "exited", "failure"}
      BY <1>1
    <3> QED BY <3>2, <3>3 DEF TypeOK
  <2>3. /\ slots' \in [SlotID -> Record]
        /\ \A j \in SlotID : (slots'[j].state # "none") <=> (slots'[j].gen # 0)
        /\ slots'[w.id] = NoRec
        /\ \A j \in SlotID : j # w.id => slots'[j] = slots[j]
    BY <1>1, <2>1, NoRecFacts, PutFacts
  <2>4. TypeOK'
    BY <2>1, <2>2, <2>3 DEF TypeOK, Tracked
  <2>5. DownInv' /\ GenInv' /\ AdoptInv' /\ TrackInv'
    BY <1>1, <2>1, <2>3, NoRecFacts DEF DownInv, GenInv, AdoptInv, TrackInv, TypeOK, Ref
  <2>6. CurInv'
    BY <1>1, <2>1, <2>3 DEF CurInv
  <2>7. TodoInv'
    BY <1>1, <2>1, <2>3, NoRecFacts, GenFacts DEF TodoInv, TypeOK, Ref, Holds
  <2>11. PendingInv'
    BY <1>1, <2>1, <2>3, NoRecFacts DEF PendingInv
  <2>12. WatcherInv'
    BY <1>1, <2>1, <2>3, NoRecFacts, GenFacts DEF WatcherInv, Holds, TypeOK, Watcher
  <2>8. WorkerInv'
    BY <1>1, <2>1, <2>3 DEF WorkerInv, Holds, TypeOK, Worker
  <2>9. RunnerKeepsItsFiles' /\ JITHasDirectory'
    BY <2>1 DEF RunnerKeepsItsFiles, JITHasDirectory
  <2>10. ClaimedStaysBusy' /\ StartingIsInProgress'
    BY <1>1, <2>1, <2>3, NoRecFacts DEF ClaimedStaysBusy, StartingIsInProgress
  <2> QED BY <2>4, <2>5, <2>6, <2>7, <2>8, <2>9, <2>10, <2>11, <2>12
<1>5. CASE WipeFails(w)
  <2>1. /\ workers' = workers \ {w}
        /\ Put(w.id, CleanupOver(slots[w.id]))
        /\ UNCHANGED <<dir, jit, daemon, pc, want, cur, todo, listed, watchers, reports,
                       unit, assigned, claims, completed, lastGen, restarts, relisted>>
    BY <1>1, <1>5 DEF WorkerStep, WipeFails
  <2>2. /\ CleanupOver(slots[w.id]) \in Record
        /\ slots[w.id].state # "none" <=> slots[w.id].gen # 0
    BY <1>1, SlotFacts, CleanupOverFacts
  <2>3. /\ slots' \in [SlotID -> Record]
        /\ slots'[w.id] = CleanupOver(slots[w.id])
        /\ \A j \in SlotID : j # w.id => slots'[j] = slots[j]
    <3>1. /\ CleanupOver(slots[w.id]).state = slots[w.id].state
          /\ CleanupOver(slots[w.id]).gen = slots[w.id].gen
      BY <1>1, CleanupOverFacts
    <3> QED BY <1>1, <2>1, <2>2, <3>1, PutFacts
  <2>4. /\ \A j \in SlotID :
              /\ slots'[j].state = slots[j].state
              /\ slots'[j].gen = slots[j].gen
              /\ slots'[j].claimed = slots[j].claimed
              /\ slots'[j].pending = slots[j].pending
        /\ slots'[w.id].cleaning = FALSE
        /\ \A j \in SlotID : j # w.id => slots'[j].cleaning = slots[j].cleaning
    <3>1. /\ slots'[w.id].state = slots[w.id].state
          /\ slots'[w.id].gen = slots[w.id].gen
          /\ slots'[w.id].claimed = slots[w.id].claimed
          /\ slots'[w.id].pending = slots[w.id].pending
          /\ slots'[w.id].cleaning = FALSE
      BY <1>1, <2>3, CleanupOverFacts
    <3> QED BY <2>3, <3>1
  <2>5. TypeOK'
    BY <2>1, <2>3, <2>4 DEF TypeOK, Tracked
  <2>6. DownInv' /\ GenInv' /\ TodoInv' /\ AdoptInv' /\ TrackInv' /\ CurInv'
    BY <2>1, <2>4 DEF DownInv, GenInv, TodoInv, AdoptInv, TrackInv, CurInv, Holds, TypeOK,
       Ref
  <2>7. PendingInv' /\ WatcherInv'
    BY <2>1, <2>4 DEF PendingInv, WatcherInv, Holds, TypeOK, Watcher
  <2>8. WorkerInv'
    BY <1>1, <2>1, <2>4 DEF WorkerInv, Holds, TypeOK, Worker
  <2>9. /\ RunnerKeepsItsFiles' /\ JITHasDirectory'
        /\ ClaimedStaysBusy' /\ StartingIsInProgress'
    BY <2>1, <2>4 DEF RunnerKeepsItsFiles, JITHasDirectory, ClaimedStaysBusy,
       StartingIsInProgress
  <2> QED BY <2>5, <2>6, <2>7, <2>8, <2>9
<1> QED BY <1>2, <1>3, <1>4, <1>5 DEF WorkerStep, WipeSucceeds

-----------------------------------------------------------------------------
(* The exit of a runner *)

LEMMA WatcherStepOK == \A w \in watchers : IInv /\ WatcherStep(w) => IInv'
<1> SUFFICES ASSUME NEW w \in watchers, IInv, WatcherStep(w) PROVE IInv'
  OBVIOUS
<1> USE DEF IInv
<1>1. w \in Watcher /\ w.id \in SlotID /\ w.gen \in Gen
  BY DEF TypeOK, Watcher
<1>u. UNCHANGED <<daemon, pc, want, cur, todo, listed, unit, dir, jit, assigned, claims,
                  lastGen, restarts, relisted>>
  BY DEF WatcherStep, host
<1>2. CASE WaitReturns(w)
  <2>1. /\ AtStep(w, "exited") \in Watcher /\ AtStep(w, "exited").id = w.id
        /\ AtStep(w, "exited").gen = w.gen /\ AtStep(w, "exited").step = "exited"
    BY <1>1, WorkerFacts
  <2>2. /\ watchers' = (watchers \ {w}) \cup {AtStep(w, "exited")}
        /\ UNCHANGED <<slots, workers, completed, reports>>
        /\ unit[w.id] = 0
    BY <1>2 DEF WaitReturns
  <2>3. TypeOK'
    BY <1>u, <2>1, <2>2 DEF TypeOK, Tracked
  <2>4. DownInv' /\ GenInv' /\ TodoInv' /\ AdoptInv' /\ TrackInv' /\ CurInv'
    BY <1>u, <2>1, <2>2 DEF DownInv, GenInv, TodoInv, AdoptInv, TrackInv, CurInv, Holds
  <2>5. PendingInv' /\ WorkerInv' /\ WatcherInv'
    BY <1>u, <2>1, <2>2 DEF PendingInv, WorkerInv, WatcherInv, Holds
  <2>6. /\ RunnerKeepsItsFiles' /\ JITHasDirectory'
        /\ ClaimedStaysBusy' /\ StartingIsInProgress'
    BY <1>u, <2>2 DEF RunnerKeepsItsFiles, JITHasDirectory, ClaimedStaysBusy,
       StartingIsInProgress
  <2> QED BY <2>3, <2>4, <2>5, <2>6
<1>3. ASSUME NEW quick \in BOOLEAN, ObserveExit(w, quick), ObserveRuns(w) PROVE IInv'
  <2>1. /\ AtStep(w, "clean") \in Watcher /\ AtStep(w, "clean").id = w.id
        /\ AtStep(w, "clean").gen = w.gen /\ AtStep(w, "clean").step = "clean"
    BY <1>1, WorkerFacts
  <2>2. /\ watchers' = (watchers \ {w}) \cup {AtStep(w, "clean")}
        /\ Put(w.id, Exited(slots[w.id], quick))
        /\ completed' = completed \cup CompletionOf(slots[w.id])
        /\ reports' = reports \cup FailureOf(slots[w.id], quick)
        /\ UNCHANGED workers
        /\ w.step = "exited"
    BY <1>3 DEF ObserveExit
  <2>3. /\ slots[w.id] \in Record /\ slots[w.id].gen = w.gen
        /\ unit[w.id] = 0 /\ Holds(w)
        /\ slots[w.id].state # "none"
    BY <1>1, <1>3, <2>2, SlotFacts, GenFacts DEF ObserveRuns, Holds, WatcherInv
  <2>4. completed' \subseteq Gen /\ reports' \subseteq Gen \X {"stopped", "exited", "failure"}
    <3>1. CompletionOf(slots[w.id]) \subseteq Gen
      BY <1>1, <2>3 DEF CompletionOf
    <3>2. FailureOf(slots[w.id], quick) \subseteq Gen \X {"stopped", "exited", "failure"}
      BY <1>1, <2>3 DEF FailureOf
    <3> QED BY <2>2, <3>1, <3>2 DEF TypeOK
  <2>5. /\ slots' \in [SlotID -> Record]
        /\ \A j \in SlotID : (slots'[j].state # "none") <=> (slots'[j].gen # 0)
        /\ slots'[w.id] = Exited(slots[w.id], quick)
        /\ \A j \in SlotID : j # w.id => slots'[j] = slots[j]
    <3>1. /\ Exited(slots[w.id], quick) \in Record
          /\ Exited(slots[w.id], quick).state = "stopping"
          /\ Exited(slots[w.id], quick).gen = w.gen
      BY <1>3, <2>3, ExitedFacts
    <3>2. w.gen # 0
      BY <1>1, GenFacts
    <3> QED BY <1>1, <2>2, <3>1, <3>2, PutFacts
  <2>6. /\ slots'[w.id].state = "stopping"
        /\ slots'[w.id].gen = w.gen
        /\ slots'[w.id].cleaning = slots[w.id].cleaning
        /\ slots'[w.id].pending = TRUE
    <3>1. /\ Exited(slots[w.id], quick).state = "stopping"
          /\ Exited(slots[w.id], quick).gen = w.gen
      BY <1>3, <2>3, ExitedFacts
    <3>2. Exited(slots[w.id], quick).cleaning = slots[w.id].cleaning
      BY <1>3, <2>3, ExitedFacts
    <3>3. Exited(slots[w.id], quick).pending = TRUE
      BY <1>3, <2>3, ExitedFacts
    <3> QED BY <2>5, <3>1, <3>2, <3>3
  <2>7. TypeOK'
    BY <1>u, <2>1, <2>2, <2>4, <2>5 DEF TypeOK, Tracked
  <2>8. DownInv' /\ GenInv' /\ TodoInv' /\ AdoptInv' /\ TrackInv'
    <3>1. DownInv' /\ GenInv'
      BY <1>1, <1>u, <2>1, <2>2, <2>3, <2>5, <2>6 DEF DownInv, GenInv, TypeOK
    <3>2. TodoInv'
      BY <1>1, <1>u, <2>1, <2>2, <2>3, <2>5, <2>6 DEF TodoInv, Holds, TypeOK, Ref
    <3>3. AdoptInv'
      BY <1>1, <1>u, <2>1, <2>2, <2>3, <2>5, <2>6 DEF AdoptInv, TypeOK, Ref
    <3>4. TrackInv'
      BY <1>1, <1>u, <2>1, <2>2, <2>3, <2>5, <2>6 DEF TrackInv
    <3> QED BY <3>1, <3>2, <3>3, <3>4
  <2>9. CurInv'
    BY <1>1, <1>u, <2>1, <2>2, <2>3, <2>5, <2>6 DEF CurInv
  <2>10. PendingInv' /\ WorkerInv'
    <3>1. PendingInv'
      BY <1>1, <1>u, <2>2, <2>3, <2>5, <2>6 DEF PendingInv
    <3>2. WorkerInv'
      BY <1>1, <1>u, <2>2, <2>3, <2>5, <2>6 DEF WorkerInv, Holds, TypeOK, Worker
    <3> QED BY <3>1, <3>2
  <2>11. WatcherInv'
    BY <1>1, <1>u, <2>1, <2>2, <2>3, <2>5, <2>6 DEF WatcherInv, Holds, TypeOK, Watcher
  <2>12. /\ RunnerKeepsItsFiles' /\ JITHasDirectory'
         /\ ClaimedStaysBusy' /\ StartingIsInProgress'
    BY <1>u, <2>5, <2>6 DEF RunnerKeepsItsFiles, JITHasDirectory, ClaimedStaysBusy,
       StartingIsInProgress
  <2> QED BY <2>7, <2>8, <2>9, <2>10, <2>11, <2>12
<1>4. ASSUME NEW quick \in BOOLEAN, ObserveExit(w, quick), ~ObserveRuns(w) PROVE IInv'
  <2>1. /\ watchers' = watchers \ {w}
        /\ UNCHANGED <<slots, workers, completed, reports>>
    BY <1>4 DEF ObserveExit
  <2>2. TypeOK'
    BY <1>u, <2>1 DEF TypeOK, Tracked
  <2>3. DownInv' /\ GenInv' /\ TodoInv' /\ AdoptInv' /\ TrackInv' /\ CurInv'
    BY <1>u, <2>1 DEF DownInv, GenInv, TodoInv, AdoptInv, TrackInv, CurInv, Holds
  <2>4. PendingInv' /\ WorkerInv' /\ WatcherInv'
    BY <1>u, <2>1 DEF PendingInv, WorkerInv, WatcherInv, Holds
  <2>5. /\ RunnerKeepsItsFiles' /\ JITHasDirectory'
        /\ ClaimedStaysBusy' /\ StartingIsInProgress'
    BY <1>u, <2>1 DEF RunnerKeepsItsFiles, JITHasDirectory, ClaimedStaysBusy,
       StartingIsInProgress
  <2> QED BY <2>2, <2>3, <2>4, <2>5
<1>5. CASE CleanAfterExit(w)
  <2>1. /\ Clean(w) /\ watchers' = watchers \ {w} /\ UNCHANGED <<completed, reports>>
        /\ Holds(w) => slots[w.id].pending
    BY <1>5 DEF CleanAfterExit, WatcherInv
  <2>2. /\ WipeOf(w) \in Worker
        /\ WipeOf(w).id = w.id /\ WipeOf(w).gen = w.gen /\ WipeOf(w).step = "jit"
    BY <1>1, WipeOfFacts
  <2>3. slots' \in [SlotID -> Record]
    BY <1>1, <2>1, CleanFacts
  <2>4. \A j \in SlotID :
           /\ slots'[j].state = slots[j].state
           /\ slots'[j].gen = slots[j].gen
           /\ slots'[j].claimed = slots[j].claimed
           /\ slots'[j].pending = slots[j].pending
           /\ slots[j].cleaning => slots'[j].cleaning
           /\ slots'[j].cleaning => slots'[j].pending
    BY <1>1, <2>1, CleanFacts
  <2>5. \/ workers' = workers
        \/ /\ workers' = workers \cup {WipeOf(w)} /\ Holds(w)
           /\ slots[w.id].pending /\ ~slots[w.id].cleaning /\ slots'[w.id].cleaning
    BY <1>1, <2>1, CleanFacts
  <2>6. TypeOK'
    BY <1>u, <2>1, <2>2, <2>3, <2>4, <2>5 DEF TypeOK, Tracked
  <2>7. DownInv' /\ GenInv' /\ TodoInv' /\ AdoptInv' /\ TrackInv' /\ CurInv'
    BY <1>u, <2>1, <2>4, <2>5 DEF DownInv, GenInv, TodoInv, AdoptInv, TrackInv, CurInv,
       Holds, TypeOK, Ref
  <2>8. PendingInv'
    BY <1>u, <2>4 DEF PendingInv
  <2>9. WorkerInv'
    BY <1>1, <1>u, <2>2, <2>4, <2>5 DEF WorkerInv, Holds, TypeOK, Worker
  <2>10. WatcherInv'
    BY <1>u, <2>1, <2>4 DEF WatcherInv, Holds, TypeOK, Watcher
  <2>11. /\ RunnerKeepsItsFiles' /\ JITHasDirectory'
         /\ ClaimedStaysBusy' /\ StartingIsInProgress'
    BY <1>u, <2>4 DEF RunnerKeepsItsFiles, JITHasDirectory, ClaimedStaysBusy,
       StartingIsInProgress
  <2> QED BY <2>6, <2>7, <2>8, <2>9, <2>10, <2>11
<1> QED BY <1>2, <1>3, <1>4, <1>5 DEF WatcherStep, WatchSteps

LEMMA ClaimOK == \A i \in SlotID : IInv /\ Claim(i) => IInv'
<1> SUFFICES ASSUME NEW i \in SlotID, IInv, Claim(i) PROVE IInv'
  OBVIOUS
<1> USE DEF IInv
<1>u. /\ UNCHANGED <<daemon, pc, want, cur, todo, listed, watchers, workers, unit, dir, jit,
                     assigned, completed, reports, lastGen, restarts, relisted>>
      /\ claims' \in [Gen -> {"none", "late", "marked"}]
  BY DEF Claim, host, TypeOK
<1>1. CASE Claimable(slots[i])
  <2>1. /\ Put(i, Claimed(slots[i]))
        /\ slots[i] \in Record
        /\ slots[i].state \in {"starting", "idle", "busy"}
        /\ slots[i].state # "none" <=> slots[i].gen # 0
    BY <1>1, SlotFacts DEF Claim, Claimable
  <2>2. /\ slots' \in [SlotID -> Record]
        /\ \A j \in SlotID : (slots'[j].state # "none") <=> (slots'[j].gen # 0)
        /\ slots'[i] = Claimed(slots[i])
        /\ \A j \in SlotID : j # i => slots'[j] = slots[j]
    BY <2>1, ClaimedFacts, PutFacts
  <2>3. /\ slots'[i].state = "busy" /\ slots'[i].gen = slots[i].gen
        /\ slots'[i].cleaning = slots[i].cleaning /\ slots'[i].pending = slots[i].pending
    BY <2>1, <2>2, ClaimedFacts
  <2>4. TypeOK'
    BY <1>u, <2>2 DEF TypeOK, Tracked
  <2>5. DownInv' /\ GenInv' /\ TodoInv' /\ AdoptInv' /\ TrackInv'
    <3>1. DownInv' /\ GenInv'
      BY <1>u, <2>1, <2>2, <2>3 DEF DownInv, GenInv, TypeOK
    <3>2. TodoInv'
      BY <1>u, <2>1, <2>2, <2>3 DEF TodoInv, Holds, TypeOK, Ref
    <3>3. AdoptInv'
      BY <1>u, <2>1, <2>2, <2>3 DEF AdoptInv, TypeOK, Ref
    <3>4. TrackInv'
      BY <1>u, <2>1, <2>2, <2>3 DEF TrackInv
    <3> QED BY <3>1, <3>2, <3>3, <3>4
  <2>6. CurInv'
    BY <1>u, <2>1, <2>2, <2>3 DEF CurInv
  <2>7. PendingInv' /\ WorkerInv' /\ WatcherInv'
    BY <1>u, <2>1, <2>2, <2>3 DEF PendingInv, WorkerInv, WatcherInv, Holds, TypeOK, Worker,
       Watcher
  <2>8. /\ RunnerKeepsItsFiles' /\ JITHasDirectory'
        /\ ClaimedStaysBusy' /\ StartingIsInProgress'
    BY <1>u, <2>1, <2>2, <2>3 DEF RunnerKeepsItsFiles, JITHasDirectory, ClaimedStaysBusy,
       StartingIsInProgress
  <2> QED BY <2>4, <2>5, <2>6, <2>7, <2>8
<1>2. CASE ~Claimable(slots[i])
  <2>1. UNCHANGED slots
    BY <1>2 DEF Claim
  <2>2. TypeOK'
    BY <1>u, <2>1 DEF TypeOK, Tracked
  <2>3. DownInv' /\ GenInv' /\ TodoInv' /\ AdoptInv' /\ TrackInv' /\ CurInv'
    BY <1>u, <2>1 DEF DownInv, GenInv, TodoInv, AdoptInv, TrackInv, CurInv, Holds
  <2>4. PendingInv' /\ WorkerInv' /\ WatcherInv'
    BY <1>u, <2>1 DEF PendingInv, WorkerInv, WatcherInv, Holds
  <2>5. /\ RunnerKeepsItsFiles' /\ JITHasDirectory'
        /\ ClaimedStaysBusy' /\ StartingIsInProgress'
    BY <1>u, <2>1 DEF RunnerKeepsItsFiles, JITHasDirectory, ClaimedStaysBusy,
       StartingIsInProgress
  <2> QED BY <2>2, <2>3, <2>4, <2>5
<1> QED BY <1>1, <1>2

-----------------------------------------------------------------------------
(* The run loop: steps that move it on without writing a record *)

(* What such a step leaves alone; what is left to show is about pc and todo. *)
LEMMA ControlFacts ==
  ASSUME IInv,
         UNCHANGED <<slots, watchers, workers, host, sinks, lastGen, restarts, relisted>>,
         daemon' \in {"up", "leaving"}, pc' \in PCs,
         want' \in 0 .. MaxSlotID, cur' \in 0 .. MaxSlotID,
         todo' \subseteq Ref, listed' \subseteq SlotID,
         pc' \notin AdoptPCs, pc' \notin StartPCs, pc \notin StartPCs, pc # "adopt",
         daemon # "down", TodoInv'
  PROVE  IInv'
<1> USE DEF IInv
<1>1. TypeOK'
  BY DEF TypeOK, host, sinks, Tracked
<1>2. DownInv' /\ GenInv' /\ CurInv' /\ AdoptInv' /\ TrackInv'
  BY DEF DownInv, GenInv, CurInv, AdoptInv, AdoptPCs, TrackInv, host
<1>3. PendingInv' /\ WorkerInv' /\ WatcherInv'
  BY DEF PendingInv, WorkerInv, WatcherInv, Holds, host
<1>4. /\ RunnerKeepsItsFiles' /\ JITHasDirectory'
      /\ ClaimedStaysBusy' /\ StartingIsInProgress'
  BY DEF RunnerKeepsItsFiles, JITHasDirectory, ClaimedStaysBusy, StartingIsInProgress, host
<1> QED BY <1>1, <1>2, <1>3, <1>4

(* A reconcile starts from the snapshot of the records with cleanup pending. *)
LEMMA BeginFacts ==
  ASSUME IInv, NEW n \in 0 .. MaxSlotID, Begin(n), UNCHANGED slots
  PROVE  /\ want' \in 0 .. MaxSlotID
         /\ pc' = "retry"
         /\ todo' \subseteq Ref
         /\ TodoInv'
<1> USE DEF IInv
<1>1. /\ want' = n /\ pc' = "retry" /\ todo' = {RefOf(i) : i \in Pending}
  BY DEF Begin
<1>2. ASSUME NEW i \in Pending
      PROVE  /\ RefOf(i) \in Ref /\ RefOf(i).id = i
             /\ slots[i].pending
  <2>1. i \in SlotID /\ slots[i].pending
    BY <1>2 DEF Pending
  <2>2. Tracked(i)
    BY <2>1 DEF PendingInv, Tracked
  <2> QED BY <2>1, <2>2, RefFacts
<1>3. todo' \subseteq Ref
  BY <1>1, <1>2
<1>4. TodoInv'
  BY <1>1, <1>2 DEF TodoInv
<1> QED BY <1>1, <1>3, <1>4

LEMMA EnsureBeginOK == IInv /\ EnsureBegin => IInv'
<1> SUFFICES ASSUME IInv, EnsureBegin PROVE IInv'
  OBVIOUS
<1>1. PICK n \in 0 .. MaxSlotID : Begin(n)
  BY DEF EnsureBegin
<1>2. /\ want' \in 0 .. MaxSlotID /\ pc' = "retry" /\ todo' \subseteq Ref /\ TodoInv'
  BY <1>1, BeginFacts DEF EnsureBegin
<1>3. daemon = "up" /\ daemon' = "up" /\ pc = "idle" /\ cur' \in 0 .. MaxSlotID
      /\ listed' \subseteq SlotID
  BY DEF EnsureBegin, IInv, TypeOK
<1> QED BY <1>2, <1>3, ControlFacts DEF EnsureBegin, PCs, StartPCs, AdoptPCs

LEMMA BeginShutdownOK == IInv /\ BeginShutdown => IInv'
<1> SUFFICES ASSUME IInv, BeginShutdown PROVE IInv'
  OBVIOUS
<1>1. Begin(0) /\ 0 \in 0 .. MaxSlotID
  BY SlotTableAssumption DEF BeginShutdown
<1>2. /\ want' \in 0 .. MaxSlotID /\ pc' = "retry" /\ todo' \subseteq Ref /\ TodoInv'
  BY <1>1, BeginFacts DEF BeginShutdown
<1>3. daemon = "up" /\ daemon' = "leaving" /\ pc = "idle" /\ cur' \in 0 .. MaxSlotID
      /\ listed' \subseteq SlotID
  BY DEF BeginShutdown, IInv, TypeOK
<1> QED BY <1>2, <1>3, ControlFacts DEF BeginShutdown, PCs, StartPCs, AdoptPCs

LEMMA RetryDoneOK == IInv /\ RetryDone => IInv'
<1> SUFFICES ASSUME IInv, RetryDone PROVE IInv'
  OBVIOUS
<1>1. /\ daemon # "down" /\ daemon' \in {"up", "leaving"} /\ pc = "retry"
      /\ pc' \in {"loop", "surplus"} /\ todo' = {}
      /\ want' \in 0 .. MaxSlotID /\ cur' \in 0 .. MaxSlotID /\ listed' \subseteq SlotID
  BY DEF RetryDone, AfterRetry, IInv, TypeOK, DownInv
<1>2. TodoInv'
  BY <1>1 DEF TodoInv
<1> QED BY <1>1, <1>2, ControlFacts DEF RetryDone, PCs, StartPCs, AdoptPCs

LEMMA EnsureCheckOK == IInv /\ EnsureCheck => IInv'
<1> SUFFICES ASSUME IInv, EnsureCheck PROVE IInv'
  OBVIOUS
<1>1. /\ daemon # "down" /\ daemon' \in {"up", "leaving"} /\ pc = "loop"
      /\ pc' \in {"start", "surplus", "idle"} /\ todo' \subseteq Ref
      /\ want' \in 0 .. MaxSlotID /\ cur' \in 0 .. MaxSlotID /\ listed' \subseteq SlotID
  BY DEF EnsureCheck, IInv, TypeOK, DownInv
<1>2. TodoInv'
  BY <1>1 DEF TodoInv
<1> QED BY <1>1, <1>2, ControlFacts DEF EnsureCheck, PCs, StartPCs, AdoptPCs

LEMMA StartRefusedOK == IInv /\ StartRefused => IInv'
<1> SUFFICES ASSUME IInv, StartRefused PROVE IInv'
  OBVIOUS
<1>1. /\ daemon # "down" /\ daemon' \in {"up", "leaving"} /\ pc = "start"
      /\ pc' = "surplus" /\ todo' \subseteq Ref
      /\ want' \in 0 .. MaxSlotID /\ cur' \in 0 .. MaxSlotID /\ listed' \subseteq SlotID
  BY DEF StartRefused, IInv, TypeOK, DownInv
<1>2. TodoInv'
  BY <1>1 DEF TodoInv
<1> QED BY <1>1, <1>2, ControlFacts DEF StartRefused, PCs, StartPCs, AdoptPCs

LEMMA StopCallOK == IInv /\ StopCall => IInv'
<1> SUFFICES ASSUME IInv, StopCall PROVE IInv'
  OBVIOUS
<1>1. /\ daemon # "down" /\ daemon' \in {"up", "leaving"} /\ pc = "stop"
      /\ pc' = "stopping" /\ todo' \subseteq Ref
      /\ want' \in 0 .. MaxSlotID /\ cur' \in 0 .. MaxSlotID /\ listed' \subseteq SlotID
  BY DEF StopCall, IInv, TypeOK, DownInv
<1>2. TodoInv'
  BY <1>1 DEF TodoInv, IInv, StopCall
<1> QED BY <1>1, <1>2, ControlFacts DEF StopCall, PCs, StartPCs, AdoptPCs

-----------------------------------------------------------------------------
(* Starting a runner *)

(* What a start in progress knows of its record.                            *)
LEMMA CurFacts ==
  ASSUME IInv, pc \in StartPCs
  PROVE  /\ daemon # "down"
         /\ cur \in SlotID /\ lastGen \in Gen /\ lastGen # 0
         /\ slots[cur] \in Record
         /\ slots[cur].gen = lastGen
         /\ slots[cur].state \in {"starting", "busy"}
         /\ slots[cur].state \in States
         /\ slots[cur].pending = FALSE /\ slots[cur].cleaning = FALSE
         /\ \A w \in watchers : w.gen # lastGen
         /\ \A w \in workers : w.id # cur
<1> USE DEF IInv
<1>1. /\ daemon # "down"
      /\ cur \in SlotID /\ lastGen \in Gen /\ lastGen # 0
      /\ slots[cur].gen = lastGen
      /\ slots[cur].state \in {"starting", "busy"}
      /\ \A w \in watchers : w.gen # lastGen
  BY GenFacts DEF CurInv, DownInv, StartPCs
<1>2. slots[cur] \in Record
  BY <1>1, SlotFacts
<1>3. ~slots[cur].pending /\ ~slots[cur].cleaning
  BY <1>1 DEF PendingInv
<1>4. slots[cur].pending = FALSE
  BY <1>2, <1>3 DEF Record
<1>5. slots[cur].cleaning = FALSE
  BY <1>2, <1>3 DEF Record
<1>6. \A w \in workers : w.id # cur
  BY <1>3 DEF WorkerInv
<1> QED BY <1>1, <1>2, <1>4, <1>5, <1>6 DEF States

LEMMA ReserveOK == \A i \in SlotID : IInv /\ Reserve(i) => IInv'
<1> SUFFICES ASSUME NEW i \in SlotID, IInv, Reserve(i) PROVE IInv'
  OBVIOUS
<1> USE DEF IInv
<1>1. /\ UNCHANGED <<daemon, want, todo, listed, watchers, workers, unit, dir, jit, assigned,
                     claims, completed, reports, restarts, relisted>>
      /\ lastGen' = lastGen + 1 /\ cur' = i /\ pc' = "mkdir" /\ pc = "start"
      /\ lastGen' \in Gen /\ lastGen' \in 0 .. MaxGen /\ lastGen' # 0
      /\ lastGen \in Nat
      /\ slots[i].state = "none" /\ slots[i].gen = 0
      /\ Put(i, NewRec("starting", lastGen'))
  BY SlotTableAssumption DEF Reserve, Free, Tracked, host, sinks, TypeOK, Gen
<1>2. /\ slots' \in [SlotID -> Record]
      /\ \A j \in SlotID : (slots'[j].state # "none") <=> (slots'[j].gen # 0)
      /\ slots'[i] = NewRec("starting", lastGen')
      /\ \A j \in SlotID : j # i => slots'[j] = slots[j]
  <2>1. "starting" \in States
    BY DEF States
  <2>2. /\ NewRec("starting", lastGen') \in Record
        /\ NewRec("starting", lastGen').state = "starting"
        /\ NewRec("starting", lastGen').gen = lastGen'
    BY <1>1, <2>1, NewRecFacts
  <2> QED BY <1>1, <2>2, PutFacts
<1>3. /\ slots'[i].state = "starting" /\ slots'[i].gen = lastGen'
      /\ slots'[i].claimed = FALSE
      /\ slots'[i].cleaning = FALSE /\ slots'[i].pending = FALSE
  <2>1. "starting" \in States
    BY DEF States
  <2>2. /\ NewRec("starting", lastGen').state = "starting"
        /\ NewRec("starting", lastGen').gen = lastGen'
    BY <1>1, <2>1, NewRecFacts
  <2>3. NewRec("starting", lastGen').claimed = FALSE
    BY <1>1, <2>1, NewRecFacts
  <2>4. NewRec("starting", lastGen').cleaning = FALSE
    BY <1>1, <2>1, NewRecFacts
  <2>5. NewRec("starting", lastGen').pending = FALSE
    BY <1>1, <2>1, NewRecFacts
  <2> QED BY <1>2, <2>2, <2>3, <2>4, <2>5
<1>4. \A w \in watchers : w.gen \in Gen /\ w.gen < lastGen' /\ w.gen # lastGen'
  BY <1>1 DEF GenInv, TypeOK, Watcher, Gen
<1>5. unit[i] = 0
  BY <1>1 DEF TrackInv, DownInv, TypeOK
<1>6. TypeOK'
  BY <1>1, <1>2 DEF TypeOK, Tracked, SlotID, PCs, StartPCs
<1>7. DownInv' /\ TodoInv' /\ AdoptInv' /\ TrackInv'
  BY <1>1, <1>2, <1>5 DEF DownInv, TodoInv, AdoptInv, AdoptPCs, TrackInv
<1>8. GenInv'
  <2>1. \A j \in SlotID : slots[j].gen \in 0 .. MaxGen /\ dir[j] \in 0 .. MaxGen
    BY SlotFacts DEF TypeOK
  <2>2. \A j \in SlotID : slots'[j].gen <= lastGen' /\ dir'[j] <= lastGen'
    BY <1>1, <1>2, <1>3, <2>1 DEF GenInv
  <2>3. \A w \in watchers' : w.gen <= lastGen'
    BY <1>1, <1>4 DEF Gen
  <2> QED BY <2>2, <2>3 DEF GenInv
<1>9. CurInv'
  BY <1>1, <1>3, <1>4, <1>5 DEF CurInv
<1>10. PendingInv'
  BY <1>1, <1>2, <1>3 DEF PendingInv
<1>11. WorkerInv'
  BY <1>1, <1>2, GenFacts DEF WorkerInv, Holds, TypeOK, Worker
<1>12. WatcherInv'
  BY <1>1, <1>2, <1>3, <1>4 DEF WatcherInv, Holds, TypeOK, Watcher
<1>13. RunnerKeepsItsFiles' /\ JITHasDirectory'
  BY <1>1 DEF RunnerKeepsItsFiles, JITHasDirectory
<1>14. ClaimedStaysBusy' /\ StartingIsInProgress'
  BY <1>1, <1>2, <1>3 DEF ClaimedStaysBusy, StartingIsInProgress, StartPCs
<1> QED BY <1>6, <1>7, <1>8, <1>9, <1>10, <1>11, <1>12, <1>13, <1>14

LEMMA MakeDirOK == IInv /\ MakeDir => IInv'
<1> SUFFICES ASSUME IInv, MakeDir PROVE IInv'
  OBVIOUS
<1> USE DEF IInv
<1>1. /\ pc = "mkdir" /\ pc' = "provision" /\ dir' = [dir EXCEPT ![cur] = lastGen]
      /\ dir[cur] = 0 /\ unit[cur] = 0
      /\ UNCHANGED <<daemon, slots, want, cur, todo, listed, watchers, workers, unit, jit,
                     assigned, claims, completed, reports, lastGen, restarts, relisted>>
  BY CurFacts DEF MakeDir, sinks, StartPCs, CurInv
<1>2. /\ daemon # "down" /\ cur \in SlotID /\ lastGen \in Gen /\ lastGen # 0
      /\ lastGen \in 0 .. MaxGen
      /\ slots[cur].gen = lastGen
  BY <1>1, CurFacts DEF StartPCs, TypeOK
<1>3. TypeOK'
  BY <1>1, <1>2 DEF TypeOK, Tracked, PCs, StartPCs
<1>4. DownInv' /\ GenInv' /\ CurInv' /\ TodoInv'
  BY <1>1, <1>2 DEF DownInv, GenInv, CurInv, TodoInv, StartPCs, Holds, TypeOK
<1>5. AdoptInv' /\ TrackInv'
  BY <1>1, <1>2 DEF AdoptInv, AdoptPCs, TrackInv
<1>6. PendingInv' /\ WorkerInv' /\ WatcherInv'
  BY <1>1 DEF PendingInv, WorkerInv, WatcherInv, Holds
<1>7. /\ RunnerKeepsItsFiles' /\ JITHasDirectory'
      /\ ClaimedStaysBusy' /\ StartingIsInProgress'
  BY <1>1, <1>2 DEF RunnerKeepsItsFiles, JITHasDirectory, ClaimedStaysBusy,
     StartingIsInProgress, StartPCs, TypeOK
<1> QED BY <1>3, <1>4, <1>5, <1>6, <1>7

LEMMA MakeDirFailsOK == IInv /\ MakeDirFails => IInv'
<1> SUFFICES ASSUME IInv, MakeDirFails PROVE IInv'
  OBVIOUS
<1> USE DEF IInv
<1>1. /\ pc = "mkdir" /\ pc' = "surplus" /\ cur' = 0 /\ Put(cur, NoRec)
      /\ UNCHANGED <<daemon, want, todo, listed, watchers, workers, unit, dir, jit,
                     assigned, claims, completed, lastGen, restarts, relisted>>
      /\ unit[cur] = 0
  BY DEF MakeDirFails, host, CurInv, StartPCs
<1>2. /\ daemon # "down" /\ cur \in SlotID /\ lastGen \in Gen
      /\ slots[cur].gen = lastGen
      /\ \A w \in watchers : w.gen # lastGen
      /\ \A w \in workers : w.id # cur
  BY <1>1, CurFacts DEF StartPCs
<1>3. reports' \subseteq Gen \X {"stopped", "exited", "failure"}
  BY <1>2 DEF MakeDirFails, TypeOK
<1>4. /\ slots' \in [SlotID -> Record]
      /\ \A j \in SlotID : (slots'[j].state # "none") <=> (slots'[j].gen # 0)
      /\ slots'[cur] = NoRec
      /\ \A j \in SlotID : j # cur => slots'[j] = slots[j]
  BY <1>1, <1>2, NoRecFacts, PutFacts
<1>5. TypeOK'
  BY <1>1, <1>3, <1>4, SlotTableAssumption DEF TypeOK, Tracked, PCs
<1>6. DownInv' /\ CurInv' /\ TodoInv' /\ AdoptInv' /\ TrackInv'
  BY <1>1, <1>2, <1>4 DEF DownInv, CurInv, TodoInv, AdoptInv, AdoptPCs, TrackInv, StartPCs
<1>7. GenInv'
  BY <1>1, <1>2, <1>4, NoRecFacts, SlotTableAssumption DEF GenInv, Gen
<1>8. PendingInv'
  BY <1>1, <1>4, NoRecFacts DEF PendingInv
<1>9. WorkerInv'
  BY <1>1, <1>2, <1>4 DEF WorkerInv, Holds, TypeOK, Worker
<1>10. WatcherInv'
  BY <1>1, <1>2, <1>4, NoRecFacts, GenFacts DEF WatcherInv, Holds, TypeOK, Watcher
<1>11. RunnerKeepsItsFiles' /\ JITHasDirectory'
  BY <1>1 DEF RunnerKeepsItsFiles, JITHasDirectory
<1>12. ClaimedStaysBusy' /\ StartingIsInProgress'
  BY <1>1, <1>4, NoRecFacts DEF ClaimedStaysBusy, StartingIsInProgress
<1> QED BY <1>5, <1>6, <1>7, <1>8, <1>9, <1>10, <1>11, <1>12

LEMMA ProvisionOK == IInv /\ Provision => IInv'
<1> SUFFICES ASSUME IInv, Provision PROVE IInv'
  OBVIOUS
<1> USE DEF IInv
<1>1. /\ pc = "provision" /\ pc' = "launch" /\ jit' = [jit EXCEPT ![cur] = TRUE]
      /\ Put(cur, Named(slots[cur]))
      /\ UNCHANGED <<daemon, want, cur, todo, listed, watchers, workers, unit, dir,
                     assigned, claims, completed, reports, lastGen, restarts, relisted>>
      /\ unit[cur] = 0 /\ dir[cur] = lastGen
  BY DEF Provision, sinks, CurInv, StartPCs
<1>2. /\ daemon # "down" /\ cur \in SlotID /\ lastGen \in Gen /\ lastGen # 0
      /\ slots[cur] \in Record
      /\ slots[cur].gen = lastGen
      /\ slots[cur].state \in {"starting", "busy"}
      /\ \A w \in workers : w.id # cur
  BY <1>1, CurFacts DEF StartPCs
<1>3. /\ slots' \in [SlotID -> Record]
      /\ \A j \in SlotID : (slots'[j].state # "none") <=> (slots'[j].gen # 0)
      /\ slots'[cur] = Named(slots[cur])
      /\ \A j \in SlotID : j # cur => slots'[j] = slots[j]
  BY <1>1, <1>2, NamedFacts, PutFacts
<1>4. \A j \in SlotID :
         /\ slots'[j].state = slots[j].state
         /\ slots'[j].gen = slots[j].gen
         /\ slots'[j].claimed = slots[j].claimed
         /\ slots'[j].cleaning = slots[j].cleaning
         /\ slots'[j].pending = slots[j].pending
  BY <1>2, <1>3, NamedFacts
<1>5. TypeOK'
  BY <1>1, <1>3 DEF TypeOK, Tracked, PCs, StartPCs
<1>6. DownInv' /\ GenInv' /\ CurInv' /\ TodoInv'
  BY <1>1, <1>2, <1>4 DEF DownInv, GenInv, CurInv, TodoInv, StartPCs, TypeOK
<1>7. AdoptInv' /\ TrackInv'
  BY <1>1, <1>4 DEF AdoptInv, AdoptPCs, TrackInv
<1>8. PendingInv'
  BY <1>1, <1>4 DEF PendingInv
<1>10. WorkerInv'
  <2>1. \A w \in workers : w.id \in SlotID /\ w.id # cur /\ slots'[w.id] = slots[w.id]
    BY <1>2, <1>3 DEF TypeOK, Worker
  <2>2. \A w \in workers : jit'[w.id] = jit[w.id]
    BY <1>1, <2>1 DEF TypeOK
  <2> QED BY <1>1, <2>1, <2>2 DEF WorkerInv, Holds
<1>11. WatcherInv'
  BY <1>1, <1>4 DEF WatcherInv, Holds, TypeOK, Watcher
<1>9. /\ RunnerKeepsItsFiles' /\ JITHasDirectory'
      /\ ClaimedStaysBusy' /\ StartingIsInProgress'
  BY <1>1, <1>2, <1>4 DEF RunnerKeepsItsFiles, JITHasDirectory, ClaimedStaysBusy,
     StartingIsInProgress, StartPCs, TypeOK
<1> QED BY <1>5, <1>6, <1>7, <1>8, <1>9, <1>10, <1>11

LEMMA LaunchOK == IInv /\ Launch => IInv'
<1> SUFFICES ASSUME IInv, Launch PROVE IInv'
  OBVIOUS
<1> USE DEF IInv
<1>1. /\ pc = "launch" /\ pc' = "reply" /\ unit' = [unit EXCEPT ![cur] = lastGen]
      /\ dir[cur] = lastGen /\ jit[cur]
      /\ UNCHANGED <<daemon, slots, want, cur, todo, listed, watchers, workers, dir, jit,
                     assigned, claims, completed, reports, lastGen, restarts, relisted>>
  BY DEF Launch, sinks, CurInv, StartPCs
<1>2. /\ daemon # "down" /\ cur \in SlotID /\ lastGen \in 0 .. MaxGen /\ lastGen # 0
      /\ slots[cur].gen = lastGen
      /\ slots[cur].pending = FALSE /\ slots[cur].cleaning = FALSE
      /\ \A w \in watchers : w.gen # lastGen
      /\ \A w \in workers : w.id # cur
  BY <1>1, CurFacts DEF StartPCs, TypeOK
<1>3. TypeOK'
  BY <1>1, <1>2 DEF TypeOK, Tracked, PCs, StartPCs
<1>4. DownInv' /\ GenInv' /\ CurInv' /\ TodoInv'
  BY <1>1, <1>2 DEF DownInv, GenInv, CurInv, TodoInv, StartPCs
<1>5. AdoptInv' /\ TrackInv'
  BY <1>1, <1>2 DEF AdoptInv, AdoptPCs, TrackInv, TypeOK
<1>6. PendingInv' /\ WorkerInv' /\ WatcherInv'
  BY <1>1, <1>2 DEF PendingInv, WorkerInv, WatcherInv, Holds, TypeOK, Worker, Watcher
<1>7. /\ RunnerKeepsItsFiles' /\ JITHasDirectory'
      /\ ClaimedStaysBusy' /\ StartingIsInProgress'
  BY <1>1, <1>2 DEF RunnerKeepsItsFiles, JITHasDirectory, ClaimedStaysBusy,
     StartingIsInProgress, StartPCs, TypeOK
<1> QED BY <1>3, <1>4, <1>5, <1>6, <1>7

LEMMA StartFailsOK == IInv /\ StartFails => IInv'
<1> SUFFICES ASSUME IInv, StartFails PROVE IInv'
  OBVIOUS
<1> USE DEF IInv
<1> DEFINE r == InCleanup(InState(slots[cur], "stopping"))
<1>1. /\ pc \in {"provision", "launch"} /\ pc' = "surplus" /\ cur' = 0 /\ Put(cur, r)
      /\ UNCHANGED <<daemon, want, todo, listed, watchers, unit, dir, jit,
                     assigned, claims, completed, lastGen, restarts, relisted>>
      /\ workers' = workers \cup {WipeOf(RefOf(cur))}
      /\ unit[cur] = 0
  BY DEF StartFails, host, CurInv, StartPCs
<1>2. /\ daemon # "down" /\ cur \in SlotID /\ lastGen \in Gen /\ lastGen # 0
      /\ slots[cur] \in Record /\ slots[cur].gen = lastGen
      /\ \A w \in watchers : w.gen # lastGen
      /\ \A w \in workers : w.id # cur
      /\ Tracked(cur)
  BY <1>1, CurFacts DEF StartPCs, Tracked
<1>3. /\ WipeOf(RefOf(cur)) \in Worker /\ WipeOf(RefOf(cur)).id = cur
      /\ WipeOf(RefOf(cur)).gen = lastGen /\ WipeOf(RefOf(cur)).step = "jit"
  <2>1. RefOf(cur).id = cur /\ RefOf(cur).gen = lastGen
    BY <1>2, RefFacts
  <2> QED BY <1>2, <2>1, WipeOfFacts
<1>4. r \in Record /\ r.state = "stopping" /\ r.gen = lastGen
  <2>1. "stopping" \in States
    BY DEF States
  <2> QED BY <1>2, <2>1, InStateFacts, InCleanupFacts
<1>5. r.cleaning = TRUE
  <2>1. InState(slots[cur], "stopping") \in Record
    BY <1>2, InStateFacts DEF States
  <2> QED BY <2>1, InCleanupFacts
<1>6. r.pending = TRUE
  <2>1. InState(slots[cur], "stopping") \in Record
    BY <1>2, InStateFacts DEF States
  <2> QED BY <2>1, InCleanupFacts
<1>7. /\ slots' \in [SlotID -> Record]
      /\ \A j \in SlotID : (slots'[j].state # "none") <=> (slots'[j].gen # 0)
      /\ slots'[cur] = r
      /\ \A j \in SlotID : j # cur => slots'[j] = slots[j]
  BY <1>1, <1>2, <1>4, PutFacts
<1>8. /\ slots'[cur].state = "stopping" /\ slots'[cur].gen = lastGen
      /\ slots'[cur].cleaning = TRUE /\ slots'[cur].pending = TRUE
  BY <1>4, <1>5, <1>6, <1>7
<1> HIDE DEF r
<1>9. reports' \subseteq Gen \X {"stopped", "exited", "failure"}
  BY <1>2 DEF StartFails, TypeOK
<1>10. TypeOK'
  BY <1>1, <1>3, <1>7, <1>9, SlotTableAssumption DEF TypeOK, Tracked, PCs
<1>11. DownInv' /\ GenInv' /\ CurInv' /\ TodoInv'
  BY <1>1, <1>2, <1>7, <1>8 DEF DownInv, GenInv, CurInv, TodoInv, StartPCs, TypeOK, Gen
<1>12. AdoptInv' /\ TrackInv'
  BY <1>1, <1>7 DEF AdoptInv, AdoptPCs, TrackInv
<1>13. PendingInv'
  BY <1>1, <1>7, <1>8 DEF PendingInv
<1>14. WorkerInv'
  <2>1. \A w \in workers : w.id \in SlotID /\ w.id # cur /\ slots'[w.id] = slots[w.id]
    BY <1>2, <1>7 DEF TypeOK, Worker
  <2> QED BY <1>1, <1>3, <1>8, <2>1 DEF WorkerInv, Holds
<1>15. WatcherInv'
  BY <1>1, <1>2, <1>7, <1>8 DEF WatcherInv, Holds, TypeOK, Watcher
<1>16. RunnerKeepsItsFiles' /\ JITHasDirectory'
  BY <1>1 DEF RunnerKeepsItsFiles, JITHasDirectory
<1>17. ClaimedStaysBusy' /\ StartingIsInProgress'
  BY <1>1, <1>7, <1>8 DEF ClaimedStaysBusy, StartingIsInProgress
<1> QED BY <1>10, <1>11, <1>12, <1>13, <1>14, <1>15, <1>16, <1>17

(* The watcher that a start hands its record to.                            *)
LEMMA WatchFacts ==
  ASSUME NEW i \in SlotID, NEW g \in Gen
  PROVE  /\ Watch(i, g) \in Watcher
         /\ Watch(i, g).id = i /\ Watch(i, g).gen = g /\ Watch(i, g).step = "wait"
  BY DEF Watch, Watcher

(* backend.Start answered, whatever it said: the start is over and watched. *)
LEMMA StartOverFacts ==
  ASSUME IInv, pc \in {"launch", "reply"}, pc' \in {"loop", "surplus"}, cur' = 0,
         NEW r \in Record, Put(cur, r),
         r.state \in {"idle", "busy"}, r.gen = slots[cur].gen,
         r.claimed => r.state = "busy",
         r.pending = FALSE, r.cleaning = FALSE,
         watchers' = watchers \cup {Watch(cur, slots[cur].gen)},
         reports' \subseteq Gen \X {"stopped", "exited", "failure"},
         UNCHANGED <<daemon, want, todo, listed, workers, host, assigned, claims,
                     completed, lastGen, restarts, relisted>>
  PROVE  IInv'
<1> USE DEF IInv
<1>1. /\ daemon # "down" /\ cur \in SlotID /\ lastGen \in Gen /\ lastGen # 0
      /\ slots[cur].gen = lastGen /\ r.gen = lastGen
      /\ \A w \in workers : w.id # cur
  BY CurFacts DEF StartPCs
<1>2. /\ Watch(cur, lastGen) \in Watcher /\ Watch(cur, lastGen).id = cur
      /\ Watch(cur, lastGen).gen = lastGen /\ Watch(cur, lastGen).step = "wait"
      /\ watchers' = watchers \cup {Watch(cur, lastGen)}
  BY <1>1, WatchFacts
<1>3. /\ slots' \in [SlotID -> Record]
      /\ \A j \in SlotID : (slots'[j].state # "none") <=> (slots'[j].gen # 0)
      /\ slots'[cur] = r
      /\ \A j \in SlotID : j # cur => slots'[j] = slots[j]
  BY <1>1, PutFacts
<1>4. TypeOK'
  BY <1>2, <1>3, SlotTableAssumption DEF TypeOK, Tracked, PCs, host
<1>5. GenInv'
  BY <1>1, <1>2, <1>3 DEF GenInv, host, TypeOK, Gen
<1>6. DownInv' /\ CurInv' /\ TodoInv'
  BY <1>1 DEF DownInv, CurInv, TodoInv, StartPCs
<1>7. AdoptInv' /\ TrackInv'
  BY <1>1, <1>3 DEF AdoptInv, AdoptPCs, TrackInv, host
<1>8. PendingInv'
  BY <1>3 DEF PendingInv, host
<1>9. WorkerInv'
  BY <1>1, <1>3 DEF WorkerInv, Holds, TypeOK, Worker, host
<1>10. WatcherInv'
  <2>1. ASSUME NEW w \in watchers' PROVE w.id \in SlotID
    BY <1>2, <2>1, <1>1 DEF TypeOK, Watcher
  <2>2. ASSUME NEW w \in watchers, Holds(w)'
        PROVE  (w.step # "wait" => unit[w.id] = 0) /\ (w.step = "clean" => slots'[w.id].pending)
    <3>1. w.id \in SlotID
      BY DEF TypeOK, Watcher
    <3>2. Holds(w)
      BY <1>1, <1>3, <2>2, <3>1 DEF Holds
    <3>3. w.id # cur
      BY <1>1, <3>2, CurFacts DEF Holds, StartPCs
    <3> QED BY <1>3, <3>1, <3>2, <3>3 DEF WatcherInv
  <2> QED BY <1>2, <2>2 DEF WatcherInv, host
<1>11. RunnerKeepsItsFiles' /\ JITHasDirectory'
  BY DEF RunnerKeepsItsFiles, JITHasDirectory, host
<1>12. ClaimedStaysBusy' /\ StartingIsInProgress'
  BY <1>1, <1>3 DEF ClaimedStaysBusy, StartingIsInProgress
<1> QED BY <1>4, <1>5, <1>6, <1>7, <1>8, <1>9, <1>10, <1>11, <1>12

LEMMA StartOkOK == IInv /\ StartOk => IInv'
<1> SUFFICES ASSUME IInv, StartOk PROVE IInv'
  OBVIOUS
<1>1. /\ pc = "reply" /\ pc \in StartPCs /\ Put(cur, Started(slots[cur]))
  BY DEF StartOk, StartPCs
<1>2. /\ slots[cur] \in Record /\ cur \in SlotID
      /\ slots[cur].state \in {"starting", "busy"}
      /\ slots[cur].claimed => slots[cur].state = "busy"
  BY <1>1, CurFacts DEF ClaimedStaysBusy, IInv
<1>3. slots[cur].pending = FALSE
  BY <1>1, CurFacts
<1>4. slots[cur].cleaning = FALSE
  BY <1>1, CurFacts
<1>5. /\ Started(slots[cur]) \in Record
      /\ Started(slots[cur]).state \in {"idle", "busy"}
      /\ Started(slots[cur]).gen = slots[cur].gen
  BY <1>2, StartedFacts
<1>6. Started(slots[cur]).claimed => Started(slots[cur]).state = "busy"
  BY <1>2, StartedFacts
<1>7. Started(slots[cur]).pending = FALSE
  BY <1>2, <1>3, StartedFacts
<1>8. Started(slots[cur]).cleaning = FALSE
  BY <1>2, <1>4, StartedFacts
<1>9. /\ pc' = "loop" /\ cur' = 0
      /\ watchers' = watchers \cup {Watch(cur, slots[cur].gen)}
      /\ reports' \subseteq Gen \X {"stopped", "exited", "failure"}
      /\ UNCHANGED <<daemon, want, todo, listed, workers, host, assigned, claims,
                     completed, lastGen, restarts, relisted>>
  BY DEF StartOk, sinks, IInv, TypeOK
<1> QED BY <1>1, <1>5, <1>6, <1>7, <1>8, <1>9, StartOverFacts

LEMMA StartUncertainOK == IInv /\ StartUncertain => IInv'
<1> SUFFICES ASSUME IInv, StartUncertain PROVE IInv'
  OBVIOUS
<1>1. /\ pc \in {"launch", "reply"} /\ pc \in StartPCs
      /\ Put(cur, InState(slots[cur], "busy"))
  BY DEF StartUncertain, StartPCs
<1>2. slots[cur] \in Record /\ slots[cur].gen \in Gen
  BY <1>1, CurFacts
<1>3. slots[cur].pending = FALSE
  BY <1>1, CurFacts
<1>4. slots[cur].cleaning = FALSE
  BY <1>1, CurFacts
<1>5. "busy" \in States
  BY DEF States
<1>6. /\ InState(slots[cur], "busy") \in Record
      /\ InState(slots[cur], "busy").state = "busy"
      /\ InState(slots[cur], "busy").gen = slots[cur].gen
  BY <1>2, <1>5, InStateFacts
<1>7. InState(slots[cur], "busy").pending = FALSE
  BY <1>2, <1>3, <1>5, InStateFacts
<1>8. InState(slots[cur], "busy").cleaning = FALSE
  BY <1>2, <1>4, <1>5, InStateFacts
<1>9. /\ pc' = "surplus" /\ cur' = 0
      /\ watchers' = watchers \cup {Watch(cur, slots[cur].gen)}
      /\ reports' \subseteq Gen \X {"stopped", "exited", "failure"}
      /\ UNCHANGED <<daemon, want, todo, listed, workers, host, assigned, claims,
                     completed, lastGen, restarts, relisted>>
  BY <1>2 DEF StartUncertain, IInv, TypeOK
<1> QED BY <1>1, <1>6, <1>7, <1>8, <1>9, StartOverFacts

-----------------------------------------------------------------------------
(* Stopping the surplus *)

LEMMA StopSurplusOK == \A k \in 0 .. MaxGen : IInv /\ StopSurplus(k) => IInv'
<1> SUFFICES ASSUME NEW k \in 0 .. MaxGen, IInv, StopSurplus(k) PROVE IInv'
  OBVIOUS
<1> USE DEF IInv
<1>1. /\ pc = "surplus" /\ pc' \in {"idle", "stop"}
      /\ slots' = [i \in SlotID |-> IF i \in Surplus(k) THEN InState(slots[i], "stopping")
                                                         ELSE slots[i]]
      /\ todo' = {RefOf(i) : i \in Surplus(k)}
      /\ UNCHANGED <<daemon, want, cur, listed, watchers, workers, unit, dir, jit, assigned,
                     claims, completed, reports, lastGen, restarts, relisted>>
  BY DEF StopSurplus, host, sinks
<1>2. \A i \in Surplus(k) : i \in SlotID /\ slots[i].state = "idle"
  BY <1>1 DEF Surplus, Eligible, StartingIsInProgress, StartPCs
<1>3. \A i \in Surplus(k) : RefOf(i) \in Ref /\ RefOf(i).was = "idle"
  BY <1>2, RefFacts DEF Tracked
<1>4. "stopping" \in States
  BY DEF States
<1>5. slots' \in [SlotID -> Record]
  BY <1>1, <1>4, SlotFacts, InStateFacts
<1>6. \A i \in SlotID :
         /\ slots'[i].gen = slots[i].gen
         /\ slots'[i].claimed = slots[i].claimed
         /\ slots'[i].cleaning = slots[i].cleaning
         /\ slots'[i].pending = slots[i].pending
  BY <1>1, <1>4, SlotFacts, InStateFacts
<1>7. \A i \in SlotID :
         IF i \in Surplus(k) THEN slots'[i].state = "stopping" ELSE slots'[i] = slots[i]
  BY <1>1, <1>4, SlotFacts, InStateFacts
<1>8. TypeOK'
  <2>1. \A i \in SlotID : (slots'[i].state # "none") <=> (slots'[i].gen # 0)
    BY <1>2, <1>6, <1>7, SlotFacts
  <2> QED BY <1>1, <1>3, <1>5, <2>1 DEF TypeOK, Tracked, PCs
<1>9. DownInv' /\ GenInv' /\ CurInv'
  BY <1>1, <1>6 DEF DownInv, GenInv, CurInv, StartPCs
<1>10. TodoInv' /\ AdoptInv'
  BY <1>1, <1>3 DEF TodoInv, AdoptInv, AdoptPCs
<1>11. TrackInv'
  BY <1>1, <1>6 DEF TrackInv
<1>12. PendingInv'
  BY <1>1, <1>2, <1>6, <1>7 DEF PendingInv
<1>13. WorkerInv'
  BY <1>1, <1>6 DEF WorkerInv, Holds, TypeOK, Worker
<1>14. WatcherInv'
  BY <1>1, <1>6 DEF WatcherInv, Holds, TypeOK, Watcher
<1>15. RunnerKeepsItsFiles' /\ JITHasDirectory'
  BY <1>1 DEF RunnerKeepsItsFiles, JITHasDirectory
<1>16. ClaimedStaysBusy'
  BY <1>2, <1>6, <1>7 DEF ClaimedStaysBusy
<1>17. StartingIsInProgress'
  BY <1>1, <1>7 DEF StartingIsInProgress, StartPCs
<1> QED BY <1>8, <1>9, <1>10, <1>11, <1>12, <1>13, <1>14, <1>15, <1>16, <1>17

LEMMA StopErrOK == \A v \in todo : IInv /\ StopErr(v) => IInv'
<1> SUFFICES ASSUME NEW v \in todo, IInv, StopErr(v) PROVE IInv'
  OBVIOUS
<1> USE DEF IInv
<1>1. /\ pc = "stopping" /\ pc' \in {"idle", "stop"} /\ todo' = todo \ {v}
      /\ UNCHANGED <<daemon, want, cur, listed, watchers, workers, unit, dir, jit, assigned,
                     claims, completed, reports, lastGen, restarts, relisted>>
      /\ v.id \in SlotID /\ v.gen \in Gen /\ v.was = "idle"
  BY DEF StopErr, StopNext, host, sinks, TodoInv, TypeOK, Ref
<1>2. CASE Restores(v)
  <2>1. /\ Put(v.id, InState(slots[v.id], "idle"))
        /\ slots[v.id] \in Record /\ slots[v.id].gen = v.gen
        /\ slots[v.id].state = "stopping"
        /\ ~slots[v.id].pending /\ ~slots[v.id].cleaning
    BY <1>1, <1>2, SlotFacts DEF StopErr, Restores, Holds
  <2>2. ~slots[v.id].claimed
    BY <1>1, <2>1 DEF ClaimedStaysBusy
  <2>3. "idle" \in States
    BY DEF States
  <2>4. /\ InState(slots[v.id], "idle") \in Record
        /\ InState(slots[v.id], "idle").state = "idle"
        /\ InState(slots[v.id], "idle").gen = v.gen
    BY <2>1, <2>3, InStateFacts
  <2>5. v.gen # 0
    BY <1>1, GenFacts
  <2>6. /\ slots' \in [SlotID -> Record]
        /\ \A j \in SlotID : (slots'[j].state # "none") <=> (slots'[j].gen # 0)
        /\ slots'[v.id] = InState(slots[v.id], "idle")
        /\ \A j \in SlotID : j # v.id => slots'[j] = slots[j]
    BY <1>1, <2>1, <2>4, <2>5, PutFacts
  <2>7. \A j \in SlotID :
           /\ slots'[j].gen = slots[j].gen
           /\ slots'[j].claimed = slots[j].claimed
           /\ slots'[j].cleaning = slots[j].cleaning
           /\ slots'[j].pending = slots[j].pending
    BY <2>1, <2>3, <2>6, InStateFacts
  <2>8. slots'[v.id].state = "idle"
    BY <2>4, <2>6
  <2>9. TypeOK'
    BY <1>1, <2>6 DEF TypeOK, Tracked, PCs
  <2>10. DownInv' /\ GenInv' /\ CurInv' /\ TodoInv'
    BY <1>1, <2>7 DEF DownInv, GenInv, CurInv, TodoInv, StartPCs
  <2>11. AdoptInv' /\ TrackInv'
    BY <1>1, <2>7 DEF AdoptInv, AdoptPCs, TrackInv
  <2>12. PendingInv'
    BY <1>1, <2>1, <2>6, <2>7 DEF PendingInv
  <2>13. WorkerInv'
    BY <1>1, <2>7 DEF WorkerInv, Holds, TypeOK, Worker
  <2>14. WatcherInv'
    BY <1>1, <2>7 DEF WatcherInv, Holds, TypeOK, Watcher
  <2>15. RunnerKeepsItsFiles' /\ JITHasDirectory'
    BY <1>1 DEF RunnerKeepsItsFiles, JITHasDirectory
  <2>16. ClaimedStaysBusy'
    BY <2>2, <2>6, <2>7 DEF ClaimedStaysBusy
  <2>17. StartingIsInProgress'
    BY <1>1, <2>6, <2>8 DEF StartingIsInProgress, StartPCs
  <2> QED BY <2>9, <2>10, <2>11, <2>12, <2>13, <2>14, <2>15, <2>16, <2>17
<1>3. CASE ~Restores(v)
  <2>1. UNCHANGED slots
    BY <1>3 DEF StopErr
  <2>2. todo' \subseteq Ref /\ want' \in 0 .. MaxSlotID /\ cur' \in 0 .. MaxSlotID
        /\ listed' \subseteq SlotID /\ daemon # "down" /\ daemon' \in {"up", "leaving"}
    BY <1>1 DEF TypeOK, DownInv
  <2>3. TodoInv'
    BY <1>1 DEF TodoInv
  <2> QED BY <1>1, <2>1, <2>2, <2>3, ControlFacts DEF host, sinks, PCs, StartPCs, AdoptPCs
<1> QED BY <1>2, <1>3

LEMMA StopOkOK == \A v \in todo : IInv /\ StopOk(v) => IInv'
<1> SUFFICES ASSUME NEW v \in todo, IInv, StopOk(v) PROVE IInv'
  OBVIOUS
<1> USE DEF IInv
<1>1. /\ pc = "stopping" /\ pc' \in {"idle", "stop"} /\ todo' = todo \ {v}
      /\ UNCHANGED <<daemon, want, cur, listed, watchers, unit, dir, jit, assigned,
                     claims, lastGen, restarts, relisted>>
      /\ v.id \in SlotID /\ v.gen \in Gen
      /\ unit[v.id] = 0
      /\ reports' = reports \cup {<<v.gen, "stopped">>}
  BY DEF StopOk, StopNext, host, TypeOK, Ref
<1>2. reports' \subseteq Gen \X {"stopped", "exited", "failure"}
  BY <1>1 DEF TypeOK
<1>3. CASE ObserveRuns(v)
  <2> DEFINE x == Exited(slots[v.id], FALSE)
             r == InCleanup(x)
  <2>1. /\ Put(v.id, r)
        /\ workers' = workers \cup {WipeOf(v)}
        /\ completed' = completed \cup CompletionOf(slots[v.id])
        /\ slots[v.id] \in Record /\ slots[v.id].gen = v.gen
        /\ ~slots[v.id].cleaning
    BY <1>1, <1>3, SlotFacts DEF StopOk, ObserveRuns, Holds
  <2>2. completed' \subseteq Gen
    BY <1>1, <2>1 DEF CompletionOf, TypeOK
  <2>3. /\ WipeOf(v) \in Worker
        /\ WipeOf(v).id = v.id /\ WipeOf(v).gen = v.gen /\ WipeOf(v).step = "jit"
    BY <1>1, WipeOfFacts
  <2>4. x \in Record /\ x.state = "stopping" /\ x.gen = v.gen
    BY <2>1, ExitedFacts
  <2>5. r \in Record /\ r.state = "stopping" /\ r.gen = v.gen
    BY <2>4, InCleanupFacts
  <2>6. r.cleaning = TRUE
    BY <2>4, InCleanupFacts
  <2>7. r.pending = TRUE
    BY <2>4, InCleanupFacts
  <2> HIDE DEF r
  <2>8. v.gen # 0
    BY <1>1, GenFacts
  <2>9. /\ slots' \in [SlotID -> Record]
        /\ \A j \in SlotID : (slots'[j].state # "none") <=> (slots'[j].gen # 0)
        /\ slots'[v.id] = r
        /\ \A j \in SlotID : j # v.id => slots'[j] = slots[j]
    BY <1>1, <2>1, <2>5, <2>8, PutFacts
  <2>10. /\ slots'[v.id].state = "stopping" /\ slots'[v.id].gen = slots[v.id].gen
         /\ slots'[v.id].cleaning = TRUE /\ slots'[v.id].pending = TRUE
    BY <2>1, <2>5, <2>6, <2>7, <2>9
  <2>11. TypeOK'
    BY <1>1, <1>2, <2>1, <2>2, <2>3, <2>9 DEF TypeOK, Tracked, PCs
  <2>12. DownInv' /\ GenInv' /\ CurInv'
    BY <1>1, <2>9, <2>10 DEF DownInv, GenInv, CurInv, StartPCs
  <2>13. AdoptInv' /\ TrackInv' /\ TodoInv'
    BY <1>1, <2>9, <2>10 DEF AdoptInv, AdoptPCs, TrackInv, TodoInv
  <2>14. PendingInv'
    BY <1>1, <2>9, <2>10 DEF PendingInv
  <2>15. WorkerInv'
    <3>1. \A w \in workers : w.id \in SlotID /\ w.id # v.id /\ slots'[w.id] = slots[w.id]
      BY <2>1, <2>9 DEF TypeOK, Worker, WorkerInv
    <3> QED BY <1>1, <2>1, <2>3, <2>10, <3>1 DEF WorkerInv, Holds
  <2>16. WatcherInv'
    BY <1>1, <2>9, <2>10 DEF WatcherInv, Holds, TypeOK, Watcher
  <2>17. RunnerKeepsItsFiles' /\ JITHasDirectory'
    BY <1>1 DEF RunnerKeepsItsFiles, JITHasDirectory
  <2>18. ClaimedStaysBusy' /\ StartingIsInProgress'
    BY <1>1, <2>9, <2>10 DEF ClaimedStaysBusy, StartingIsInProgress, StartPCs
  <2> QED BY <2>11, <2>12, <2>13, <2>14, <2>15, <2>16, <2>17, <2>18
<1>4. CASE ~ObserveRuns(v)
  <2>1. UNCHANGED <<slots, workers, completed>>
    BY <1>4 DEF StopOk
  <2>2. TypeOK'
    BY <1>1, <1>2, <2>1 DEF TypeOK, Tracked, PCs
  <2>3. DownInv' /\ GenInv' /\ CurInv' /\ AdoptInv' /\ TrackInv' /\ TodoInv'
    BY <1>1, <2>1 DEF DownInv, GenInv, CurInv, StartPCs, AdoptInv, AdoptPCs, TrackInv, TodoInv
  <2>4. PendingInv' /\ WorkerInv' /\ WatcherInv'
    BY <1>1, <2>1 DEF PendingInv, WorkerInv, WatcherInv, Holds
  <2>5. /\ RunnerKeepsItsFiles' /\ JITHasDirectory'
        /\ ClaimedStaysBusy' /\ StartingIsInProgress'
    BY <1>1, <2>1 DEF RunnerKeepsItsFiles, JITHasDirectory, ClaimedStaysBusy,
       StartingIsInProgress, StartPCs
  <2> QED BY <2>2, <2>3, <2>4, <2>5
<1> QED BY <1>3, <1>4

-----------------------------------------------------------------------------
(* The daemon's life *)

LEMMA BootOK == IInv /\ Boot => IInv'
<1> SUFFICES ASSUME IInv, Boot PROVE IInv'
  OBVIOUS
<1> USE DEF IInv
<1>1. /\ daemon = "down" /\ daemon' = "up" /\ pc' = "adopt"
      /\ listed' \subseteq SlotID
      /\ \A i \in SlotID : unit[i] # 0 => i \in listed'
      /\ todo' = {[id |-> i, gen |-> dir[i], was |-> "none"] :
                    i \in {j \in SlotID : dir[j] # 0}}
      /\ UNCHANGED <<slots, want, cur, watchers, workers, unit, dir, jit, assigned, claims,
                     completed, reports, lastGen, restarts>>
      /\ relisted' = relisted \cup {dir[i] : i \in Ended(listed')}
      /\ watchers = {} /\ workers = {}
      /\ \A i \in SlotID : slots[i].state = "none"
  BY DEF Boot, host, sinks, DownInv
<1>2. \A i \in SlotID : dir[i] # 0 => [id |-> i, gen |-> dir[i], was |-> "none"] \in Ref
  BY SlotTableAssumption DEF TypeOK, Ref, States, Gen
<1>3. \A e \in todo' : e.id \in SlotID /\ e.gen = dir[e.id] /\ e.was = "none"
                         /\ e = [id |-> e.id, gen |-> dir[e.id], was |-> "none"]
  BY <1>1
<1>4. \A i \in SlotID : dir[i] # 0 => \E e \in todo' : e.id = i
  <2>1. ASSUME NEW i \in SlotID, dir[i] # 0
        PROVE  [id |-> i, gen |-> dir[i], was |-> "none"] \in todo'
    BY <1>1, <2>1
  <2> QED BY <2>1
<1>5. TypeOK'
  <2>1. todo' \subseteq Ref
    BY <1>1, <1>2
  <2>2. relisted' \subseteq Gen
    <3>1. \A i \in SlotID : dir[i] # 0 => dir[i] \in Gen
      BY SlotTableAssumption DEF TypeOK, Gen
    <3>2. \A i \in Ended(listed') : i \in SlotID /\ dir[i] # 0
      BY <1>1 DEF Ended
    <3> QED BY <1>1, <3>1, <3>2 DEF TypeOK
  <2> QED BY <1>1, <2>1, <2>2 DEF TypeOK, Tracked, PCs, AdoptPCs
<1>6. DownInv' /\ GenInv' /\ CurInv' /\ TodoInv'
  BY <1>1 DEF DownInv, GenInv, CurInv, StartPCs, TodoInv
<1>7. AdoptInv'
  BY <1>1, <1>3 DEF AdoptInv, AdoptPCs
<1>8. TrackInv'
  BY <1>1, <1>4 DEF TrackInv, RunnerKeepsItsFiles
<1>9. PendingInv' /\ WorkerInv' /\ WatcherInv'
  BY <1>1 DEF PendingInv, WorkerInv, WatcherInv
<1>10. /\ RunnerKeepsItsFiles' /\ JITHasDirectory'
       /\ ClaimedStaysBusy' /\ StartingIsInProgress'
  BY <1>1 DEF RunnerKeepsItsFiles, JITHasDirectory, ClaimedStaysBusy, StartingIsInProgress
<1> QED BY <1>5, <1>6, <1>7, <1>8, <1>9, <1>10

(* What Adopt knows of the directory it comes to.                           *)
LEMMA EntryFacts ==
  ASSUME IInv, pc = "adopt", NEW e \in todo
  PROVE  /\ daemon # "down"
         /\ e.id \in SlotID /\ e.gen \in Gen /\ e.gen # 0 /\ e.gen \in 0 .. MaxGen
         /\ dir[e.id] = e.gen
         /\ \A w \in watchers : w.id # e.id
         /\ \A w \in workers : w.id # e.id
         /\ \A f \in todo : f.id = e.id => f = e
<1> USE DEF IInv
<1>1. daemon # "down" /\ e.id \in SlotID /\ e.gen \in Gen
  BY DEF DownInv, TypeOK, Ref
<1>2. /\ dir[e.id] = e.gen
      /\ \A w \in watchers : w.id # e.id
      /\ \A f \in todo : f.id = e.id => f = e
      /\ slots[e.id].state = "none"
  BY DEF AdoptInv
<1>3. ~slots[e.id].cleaning
  BY <1>1, <1>2 DEF PendingInv
<1>4. \A w \in workers : w.id # e.id
  BY <1>3 DEF WorkerInv
<1> QED BY <1>1, <1>2, <1>4, GenFacts

(* A record that Adopt makes of a directory keeps everything but what is    *)
(* said of watchers and workers.                                            *)
LEMMA AdoptFacts ==
  ASSUME IInv, pc = "adopt", NEW e \in todo, NEW r \in Record, Put(e.id, r),
         r.gen = e.gen, r.state \in {"busy", "stopping"},
         r.claimed => r.state = "busy" \/ r.pending,
         todo' = todo \ {e},
         UNCHANGED <<daemon, pc, want, cur, listed, host, sinks, lastGen, restarts, relisted>>,
         \A w \in watchers' : w \in watchers \/ w.id = e.id
  PROVE  /\ slots' \in [SlotID -> Record]
         /\ slots'[e.id] = r
         /\ \A j \in SlotID : j # e.id => slots'[j] = slots[j]
         /\ watchers' \subseteq Watcher /\ workers' \subseteq Worker => TypeOK'
         /\ (\A w \in watchers' : w.gen <= lastGen) => GenInv'
         /\ DownInv' /\ CurInv' /\ AdoptInv' /\ TrackInv' /\ TodoInv'
         /\ RunnerKeepsItsFiles' /\ JITHasDirectory'
         /\ ClaimedStaysBusy' /\ StartingIsInProgress'
<1> USE DEF IInv
<1>1. /\ daemon # "down" /\ e.id \in SlotID /\ e.gen \in Gen /\ e.gen # 0
      /\ dir[e.id] = e.gen
      /\ \A f \in todo : f.id = e.id => f = e
  BY EntryFacts
<1>2. /\ slots' \in [SlotID -> Record]
      /\ \A j \in SlotID : (slots'[j].state # "none") <=> (slots'[j].gen # 0)
      /\ slots'[e.id] = r
      /\ \A j \in SlotID : j # e.id => slots'[j] = slots[j]
  BY <1>1, PutFacts
<1>3. watchers' \subseteq Watcher /\ workers' \subseteq Worker => TypeOK'
  BY <1>2 DEF TypeOK, Tracked, host, sinks
<1>4. (\A w \in watchers' : w.gen <= lastGen) => GenInv'
  BY <1>1, <1>2 DEF GenInv, host
<1>5. DownInv' /\ CurInv' /\ TodoInv'
  BY <1>1 DEF DownInv, CurInv, TodoInv, StartPCs
<1>6. AdoptInv'
  <2>1. \A f \in todo' : f \in todo /\ f.id \in SlotID /\ f.id # e.id
    BY <1>1 DEF TypeOK, Ref
  <2> QED BY <1>2, <2>1 DEF AdoptInv, host
<1>7. TrackInv'
  <2>1. ASSUME NEW i \in SlotID, unit[i] # 0
        PROVE  slots'[i].gen = unit[i] \/ \E f \in todo' : f.id = i
    <3>1. CASE i = e.id
      BY <1>1, <1>2, <2>1, <3>1 DEF RunnerKeepsItsFiles
    <3>2. CASE i # e.id
      BY <1>1, <1>2, <2>1, <3>2 DEF TrackInv
    <3> QED BY <3>1, <3>2
  <2> QED BY <2>1 DEF TrackInv, host
<1>8. RunnerKeepsItsFiles' /\ JITHasDirectory'
  BY DEF RunnerKeepsItsFiles, JITHasDirectory, host
<1>9. ClaimedStaysBusy' /\ StartingIsInProgress'
  BY <1>2 DEF ClaimedStaysBusy, StartingIsInProgress, StartPCs
<1> QED BY <1>2, <1>3, <1>4, <1>5, <1>6, <1>7, <1>8, <1>9

(* What is known of the record that Adopt makes of a directory.             *)
LEMMA AdoptedFacts ==
  ASSUME NEW state \in States, NEW e, e.gen \in 0 .. MaxGen, NEW r \in AdoptedAs(state, e)
  PROVE  /\ r \in Record /\ r.state = state /\ r.gen = e.gen
         /\ ~r.claimed /\ ~r.cleaning /\ ~r.pending
<1> DEFINE b == NewRec(state, e.gen)
<1>1. r = b \/ r = Named(b)
  BY DEF AdoptedAs
<1>2. /\ b \in Record /\ b.state = state /\ b.gen = e.gen
      /\ ~b.claimed /\ ~b.cleaning /\ ~b.pending
  BY NewRecFacts
<1> HIDE DEF b
<1>3. r \in Record /\ r.state = state /\ r.gen = e.gen
  BY <1>1, <1>2, NamedFacts
<1>4. Named(b).claimed = b.claimed
  BY <1>2, NamedFacts
<1>5. Named(b).cleaning = b.cleaning
  BY <1>2, NamedFacts
<1>6. Named(b).pending = b.pending
  BY <1>2, NamedFacts
<1> QED BY <1>1, <1>2, <1>3, <1>4, <1>5, <1>6

LEMMA AdoptRunningOK == \A e \in todo : IInv /\ AdoptRunning(e) => IInv'
<1> SUFFICES ASSUME NEW e \in todo, IInv, AdoptRunning(e) PROVE IInv'
  OBVIOUS
<1> USE DEF IInv
<1>1. /\ pc = "adopt" /\ e.id \in SlotID /\ e.gen \in Gen /\ e.gen \in 0 .. MaxGen
      /\ dir[e.id] = e.gen
      /\ \A w \in watchers : w.id # e.id
      /\ \A w \in workers : w.id # e.id
  BY EntryFacts DEF AdoptRunning
<1>2. PICK r \in AdoptedAs("busy", e) : Put(e.id, r)
  BY DEF AdoptRunning
<1>3. /\ r \in Record /\ r.state = "busy" /\ r.gen = e.gen
      /\ ~r.claimed /\ ~r.cleaning /\ ~r.pending
  BY <1>1, <1>2, AdoptedFacts DEF States
<1>9. /\ Watch(e.id, e.gen) \in Watcher /\ Watch(e.id, e.gen).id = e.id
      /\ Watch(e.id, e.gen).gen = e.gen /\ Watch(e.id, e.gen).step = "wait"
      /\ watchers' = watchers \cup {Watch(e.id, e.gen)} /\ UNCHANGED workers
  BY <1>1, WatchFacts DEF AdoptRunning
<1>10. /\ todo' = todo \ {e}
       /\ UNCHANGED <<daemon, pc, want, cur, listed, host, sinks, lastGen, restarts, relisted>>
  BY DEF AdoptRunning
<1>11. /\ slots'[e.id] = r
       /\ \A j \in SlotID : j # e.id => slots'[j] = slots[j]
       /\ watchers' \subseteq Watcher /\ workers' \subseteq Worker => TypeOK'
       /\ (\A w \in watchers' : w.gen <= lastGen) => GenInv'
       /\ DownInv' /\ CurInv' /\ AdoptInv' /\ TrackInv' /\ TodoInv'
       /\ RunnerKeepsItsFiles' /\ JITHasDirectory'
       /\ ClaimedStaysBusy' /\ StartingIsInProgress'
  BY <1>1, <1>2, <1>3, <1>9, <1>10, AdoptFacts
<1>12. TypeOK'
  BY <1>9, <1>11 DEF TypeOK
<1>13. GenInv'
  BY <1>1, <1>9, <1>11 DEF GenInv
<1>14. PendingInv'
  BY <1>3, <1>10, <1>11 DEF PendingInv, host
<1>15. WorkerInv'
  BY <1>1, <1>9, <1>10, <1>11 DEF WorkerInv, Holds, TypeOK, Worker, host
<1>16. WatcherInv'
  BY <1>1, <1>9, <1>10, <1>11 DEF WatcherInv, Holds, TypeOK, Watcher, host
<1> QED BY <1>11, <1>12, <1>13, <1>14, <1>15, <1>16

LEMMA AdoptOrphanOK == \A e \in todo : IInv /\ AdoptOrphan(e) => IInv'
<1> SUFFICES ASSUME NEW e \in todo, IInv, AdoptOrphan(e) PROVE IInv'
  OBVIOUS
<1> USE DEF IInv
<1>1. /\ pc = "adopt" /\ e.id \in SlotID /\ e.gen \in Gen /\ e.gen \in 0 .. MaxGen
      /\ \A w \in watchers : w.id # e.id
      /\ \A w \in workers : w.id # e.id
  BY EntryFacts DEF AdoptOrphan
<1>2. unit[e.id] = 0
  BY <1>1 DEF AdoptOrphan, Runs, AdoptInv, AdoptPCs
<1>3. PICK b \in AdoptedAs("stopping", e) : Put(e.id, InCleanup(b))
  BY DEF AdoptOrphan
<1> DEFINE r == InCleanup(b)
<1>4. b \in Record /\ b.state = "stopping" /\ b.gen = e.gen
  BY <1>1, <1>3, AdoptedFacts DEF States
<1>5. r \in Record /\ r.state = "stopping" /\ r.gen = e.gen
  BY <1>4, InCleanupFacts
<1>6. r.cleaning = TRUE
  BY <1>4, InCleanupFacts
<1>7. r.pending = TRUE
  BY <1>4, InCleanupFacts
<1>8. /\ WipeOf(e) \in Worker /\ WipeOf(e).id = e.id /\ WipeOf(e).gen = e.gen
      /\ WipeOf(e).step = "jit"
      /\ workers' = workers \cup {WipeOf(e)} /\ UNCHANGED watchers
  BY <1>1, WipeOfFacts DEF AdoptOrphan
<1>9. /\ todo' = todo \ {e} /\ Put(e.id, r)
      /\ UNCHANGED <<daemon, pc, want, cur, listed, host, sinks, lastGen, restarts, relisted>>
  BY <1>3 DEF AdoptOrphan
<1> HIDE DEF r
<1>10. /\ slots'[e.id] = r
       /\ \A j \in SlotID : j # e.id => slots'[j] = slots[j]
       /\ watchers' \subseteq Watcher /\ workers' \subseteq Worker => TypeOK'
       /\ (\A w \in watchers' : w.gen <= lastGen) => GenInv'
       /\ DownInv' /\ CurInv' /\ AdoptInv' /\ TrackInv' /\ TodoInv'
       /\ RunnerKeepsItsFiles' /\ JITHasDirectory'
       /\ ClaimedStaysBusy' /\ StartingIsInProgress'
  BY <1>1, <1>5, <1>7, <1>8, <1>9, AdoptFacts
<1>11. TypeOK'
  BY <1>8, <1>10 DEF TypeOK
<1>12. GenInv'
  BY <1>8, <1>10 DEF GenInv
<1>13. PendingInv'
  BY <1>2, <1>5, <1>7, <1>9, <1>10 DEF PendingInv, host
<1>14. WorkerInv'
  <2>1. \A w \in workers : w.id \in SlotID /\ w.id # e.id /\ slots'[w.id] = slots[w.id]
    BY <1>1, <1>10 DEF TypeOK, Worker
  <2> QED BY <1>5, <1>6, <1>8, <1>9, <1>10, <2>1 DEF WorkerInv, Holds, host
<1>15. WatcherInv'
  BY <1>1, <1>8, <1>9, <1>10 DEF WatcherInv, Holds, TypeOK, Watcher, host
<1> QED BY <1>10, <1>11, <1>12, <1>13, <1>14, <1>15

LEMMA AdoptDirsDoneOK == IInv /\ AdoptDirsDone => IInv'
<1> SUFFICES ASSUME IInv, AdoptDirsDone PROVE IInv'
  OBVIOUS
<1> USE DEF IInv
<1>1. /\ pc = "adopt" /\ pc' = "adoptUnits" /\ todo = {}
      /\ UNCHANGED <<daemon, slots, want, cur, todo, listed, watchers, workers, unit, dir, jit,
                     assigned, claims, completed, reports, lastGen, restarts, relisted>>
  BY DEF AdoptDirsDone, host, sinks
<1>2. TypeOK'
  BY <1>1 DEF TypeOK, Tracked, PCs, AdoptPCs
<1>3. DownInv' /\ GenInv' /\ CurInv' /\ AdoptInv' /\ TrackInv' /\ TodoInv'
  BY <1>1 DEF DownInv, GenInv, CurInv, StartPCs, AdoptInv, AdoptPCs, TrackInv, TodoInv
<1>4. PendingInv' /\ WorkerInv' /\ WatcherInv'
  BY <1>1 DEF PendingInv, WorkerInv, WatcherInv, Holds
<1>5. /\ RunnerKeepsItsFiles' /\ JITHasDirectory'
      /\ ClaimedStaysBusy' /\ StartingIsInProgress'
  BY <1>1 DEF RunnerKeepsItsFiles, JITHasDirectory, ClaimedStaysBusy, StartingIsInProgress,
     StartPCs
<1> QED BY <1>2, <1>3, <1>4, <1>5

LEMMA AdoptUnitsDoneOK == IInv /\ AdoptUnitsDone => IInv'
<1> SUFFICES ASSUME IInv, AdoptUnitsDone PROVE IInv'
  OBVIOUS
<1> USE DEF IInv
<1>1. /\ pc = "adoptUnits" /\ pc' = "idle" /\ listed' = {}
      /\ \A i \in SlotID : unit'[i] = IF i \in Stray THEN 0 ELSE unit[i]
      /\ unit' = [i \in SlotID |-> IF i \in Stray THEN 0 ELSE unit[i]]
      /\ UNCHANGED <<daemon, slots, want, cur, todo, watchers, workers, dir, jit,
                     assigned, claims, completed, reports, lastGen, restarts, relisted>>
  BY DEF AdoptUnitsDone, sinks
<1>2. TypeOK'
  BY <1>1, SlotTableAssumption DEF TypeOK, Tracked, PCs
<1>3. DownInv' /\ GenInv' /\ CurInv' /\ AdoptInv' /\ TodoInv'
  BY <1>1 DEF DownInv, GenInv, CurInv, StartPCs, AdoptInv, AdoptPCs, TodoInv
<1>4. TrackInv'
  BY <1>1 DEF TrackInv
<1>5. PendingInv' /\ WorkerInv'
  BY <1>1 DEF PendingInv, WorkerInv, Holds
<1>6. WatcherInv'
  BY <1>1 DEF WatcherInv, Holds, TypeOK, Watcher
<1>7. /\ RunnerKeepsItsFiles' /\ JITHasDirectory'
      /\ ClaimedStaysBusy' /\ StartingIsInProgress'
  BY <1>1 DEF RunnerKeepsItsFiles, JITHasDirectory, ClaimedStaysBusy, StartingIsInProgress,
     StartPCs
<1> QED BY <1>2, <1>3, <1>4, <1>5, <1>6, <1>7

LEMMA DownOK == IInv /\ restarts < MaxRestarts /\ Down => IInv'
<1> SUFFICES ASSUME IInv, restarts < MaxRestarts, Down PROVE IInv'
  OBVIOUS
<1> USE DEF IInv
<1>1. /\ daemon' = "down" /\ restarts' = restarts + 1 /\ pc' = "idle"
      /\ want' = 0 /\ cur' = 0 /\ todo' = {} /\ listed' = {} /\ watchers' = {} /\ workers' = {}
      /\ UNCHANGED <<unit, dir, jit, assigned, claims, completed, reports, lastGen, relisted>>
      /\ slots' = [i \in SlotID |-> NoRec]
  BY DEF Down, host, sinks
<1>2. \A i \in SlotID : slots'[i] = NoRec
  BY <1>1
<1>3. restarts' \in 0 .. MaxRestarts
  BY <1>1, SlotTableAssumption DEF TypeOK
<1>4. TypeOK'
  BY <1>1, <1>3, NoRecFacts, SlotTableAssumption DEF TypeOK, Tracked, PCs
<1>5. DownInv' /\ CurInv' /\ AdoptInv' /\ TrackInv' /\ TodoInv'
  BY <1>1, <1>2, NoRecFacts DEF DownInv, CurInv, StartPCs, AdoptInv, AdoptPCs, TrackInv, TodoInv
<1>6. GenInv'
  <2>1. 0 <= lastGen
    BY SlotTableAssumption DEF TypeOK
  <2> QED BY <1>1, <1>2, <2>1, NoRecFacts DEF GenInv
<1>7. PendingInv' /\ WorkerInv' /\ WatcherInv'
  BY <1>1, <1>2, NoRecFacts DEF PendingInv, WorkerInv, WatcherInv
<1>8. RunnerKeepsItsFiles' /\ JITHasDirectory'
  BY <1>1 DEF RunnerKeepsItsFiles, JITHasDirectory
<1>9. ClaimedStaysBusy' /\ StartingIsInProgress'
  BY <1>2, NoRecFacts DEF ClaimedStaysBusy, StartingIsInProgress
<1> QED BY <1>4, <1>5, <1>6, <1>7, <1>8, <1>9

-----------------------------------------------------------------------------
(* The inductive invariant *)

LEMMA InitOK == Init => IInv
<1> SUFFICES ASSUME Init PROVE IInv
  OBVIOUS
<1>1. \A i \in SlotID : slots[i] = NoRec /\ unit[i] = 0 /\ dir[i] = 0 /\ jit[i] = FALSE
  BY DEF Init
<1>2. TypeOK
  BY <1>1, NoRecFacts, SlotTableAssumption DEF Init, TypeOK, Tracked, PCs
<1>3. DownInv /\ CurInv /\ AdoptInv /\ TrackInv /\ TodoInv
  BY <1>1, NoRecFacts DEF Init, DownInv, CurInv, StartPCs, AdoptInv, AdoptPCs, TrackInv, TodoInv
<1>4. GenInv
  BY <1>1, NoRecFacts DEF Init, GenInv
<1>5. PendingInv /\ WorkerInv /\ WatcherInv
  BY <1>1, NoRecFacts DEF Init, PendingInv, WorkerInv, WatcherInv
<1>6. RunnerKeepsItsFiles /\ JITHasDirectory /\ ClaimedStaysBusy /\ StartingIsInProgress
  BY <1>1, NoRecFacts DEF RunnerKeepsItsFiles, JITHasDirectory, ClaimedStaysBusy,
     StartingIsInProgress
<1> QED BY <1>2, <1>3, <1>4, <1>5, <1>6 DEF IInv

LEMMA StutterOK == IInv /\ UNCHANGED vars => IInv'
<1> SUFFICES ASSUME IInv, UNCHANGED vars PROVE IInv'
  OBVIOUS
<1> USE DEF IInv, vars, memory, host, sinks
<1>1. TypeOK'
  BY DEF TypeOK, Tracked
<1>2. DownInv' /\ GenInv' /\ CurInv' /\ AdoptInv' /\ TrackInv' /\ TodoInv'
  BY DEF DownInv, GenInv, CurInv, AdoptInv, TrackInv, TodoInv, Holds
<1>3. PendingInv' /\ WorkerInv' /\ WatcherInv'
  BY DEF PendingInv, WorkerInv, WatcherInv, Holds
<1>4. /\ RunnerKeepsItsFiles' /\ JITHasDirectory'
      /\ ClaimedStaysBusy' /\ StartingIsInProgress'
  BY DEF RunnerKeepsItsFiles, JITHasDirectory, ClaimedStaysBusy, StartingIsInProgress
<1> QED BY <1>1, <1>2, <1>3, <1>4

LEMMA NextOK == IInv /\ [Next]_vars => IInv'
<1> SUFFICES ASSUME IInv, [Next]_vars PROVE IInv'
  OBVIOUS
<1>1. CASE EnsureBegin \/ RetryDone \/ EnsureCheck
  BY <1>1, EnsureBeginOK, RetryDoneOK, EnsureCheckOK
<1>2. CASE StartStep
  BY <1>2, StartRefusedOK, MakeDirOK, MakeDirFailsOK, ProvisionOK, StartFailsOK, LaunchOK,
     StartOkOK, StartUncertainOK, ReserveOK DEF StartStep
<1>3. CASE StopStep
  BY <1>3, StopCallOK, StopSurplusOK, StopOkOK, StopErrOK DEF StopStep
<1>4. CASE Boot \/ AdoptStep
  BY <1>4, BootOK, AdoptDirsDoneOK, AdoptUnitsDoneOK, AdoptRunningOK, AdoptOrphanOK
     DEF AdoptStep
<1>5. CASE \E v \in todo : RetryCleanup(v)
  BY <1>5, RetryCleanupOK
<1>6. CASE \E w \in watchers : WatcherStep(w)
  BY <1>6, WatcherStepOK
<1>7. CASE \E w \in workers : WorkerStep(w)
  BY <1>7, WorkerStepOK
<1>8. CASE \E i \in SlotID : Claim(i) \/ RunnerExit(i) \/ AssignJob(i)
  BY <1>8, ClaimOK, RunnerExitOK, AssignJobOK
<1>9. CASE BeginShutdown
  BY <1>9, BeginShutdownOK
<1>10. CASE Close \/ Crash
  BY <1>10, DownOK DEF Close, Crash
<1>11. CASE UNCHANGED vars
  BY <1>11, StutterOK
<1> QED BY <1>1, <1>2, <1>3, <1>4, <1>5, <1>6, <1>7, <1>8, <1>9, <1>10, <1>11
        DEF Next, Reconciler

LEMMA Invariance == Spec => []IInv
  BY InitOK, NextOK, PTL DEF Spec

-----------------------------------------------------------------------------
(* What follows from it *)

(* Every variable keeps the type it is declared with, whatever the daemon,  *)
(* its goroutines and the host do.                                          *)
THEOREM TypeCorrect == Spec => []TypeOK
<1>1. IInv => TypeOK
  BY DEF IInv
<1> QED BY <1>1, Invariance, PTL

(* A wipe goroutine of clean works for the record that still reserves its   *)
(* ID, and no second one works on that ID, through retries of the cleanup,  *)
(* watchers that come late and the reuse of IDs.                            *)
THEOREM WipesAreExclusive == Spec => []WorkersOwnTheirSlot
<1>1. IInv => WorkersOwnTheirSlot
  BY DEF IInv, WorkerInv, WorkersOwnTheirSlot
<1> QED BY <1>1, Invariance, PTL

(* No credentials, JIT file or directory is removed under a runner that     *)
(* runs: neither by a wipe under way nor by a watcher about to start one.   *)
THEOREM WipesSpareRunners == Spec => []NoWipeUnderRunner
<1>1. IInv => NoWipeUnderRunner
  <2> SUFFICES ASSUME IInv PROVE NoWipeUnderRunner
    OBVIOUS
  <2>1. ASSUME NEW w \in workers PROVE unit[w.id] = 0
    <3>1. w.id \in SlotID
      BY DEF IInv, TypeOK, Worker
    <3>2. slots[w.id].pending
      BY <3>1 DEF IInv, WorkerInv, PendingInv
    <3> QED BY <3>1, <3>2 DEF IInv, PendingInv
  <2>2. ASSUME NEW w \in watchers, w.step = "clean", Holds(w) PROVE unit[w.id] = 0
    BY <2>2 DEF IInv, WatcherInv
  <2> QED BY <2>1, <2>2 DEF NoWipeUnderRunner
<1> QED BY <1>1, Invariance, PTL

(* As long as a runner runs, its directory and its JIT file are those of    *)
(* its own start, over crashes, restarts and adoption of the daemon.        *)
THEOREM RunnersKeepTheirFiles == Spec => []RunnerKeepsItsFiles
<1>1. IInv => RunnerKeepsItsFiles
  BY DEF IInv
<1> QED BY <1>1, Invariance, PTL

(* After boot adoption no runner of the host is missing from the table, or  *)
(* known there under the record of another start.                           *)
THEOREM NoRunnerIsLost == Spec => []RunnersAreTracked
<1>1. IInv => RunnersAreTracked
  BY DEF IInv, TrackInv, RunnersAreTracked, AdoptPCs
<1> QED BY <1>1, Invariance, PTL

(* The JIT file is gone before the directory that adoption would find it by, *)
(* wherever a crash cuts the wipe.                                           *)
THEOREM NoJITFileIsOrphaned == Spec => []JITHasDirectory
<1>1. IInv => JITHasDirectory
  BY DEF IInv
<1> QED BY <1>1, Invariance, PTL

(* No claim, failed stop or reply of a start makes a record live again after *)
(* its exit was confirmed.                                                   *)
THEOREM ExitIsFinal == Spec => []ExitedIsNotLive
<1>1. IInv => ExitedIsNotLive
  BY DEF IInv, PendingInv, ExitedIsNotLive
<1> QED BY <1>1, Invariance, PTL

(* A claim that made a record busy keeps it busy until its exit is seen: the *)
(* reply of backend.Start and a failed stop respect it.                      *)
THEOREM ClaimsHold == Spec => []ClaimedStaysBusy
<1>1. IInv => ClaimedStaysBusy
  BY DEF IInv
<1> QED BY <1>1, Invariance, PTL

(* Only startOne, while it runs, has a record in the starting state.         *)
THEOREM NoStartIsLeftBehind == Spec => []StartingIsInProgress
<1>1. IInv => StartingIsInProgress
  BY DEF IInv
<1> QED BY <1>1, Invariance, PTL

(***************************************************************************)
(* Part two: what the table tells others of a runner and does to it.       *)
(*                                                                         *)
(* That a stop spares claimed runners, that one end is reported and that a *)
(* job is completed once rest on the life of a record.  LifeOK states it   *)
(* as one step formula that every action satisfies, so that an invariant   *)
(* about generations, reports or completions is proved from that formula,  *)
(* once, and not action by action.                                         *)
(***************************************************************************)

Stops == {"stop", "stopping"}

-----------------------------------------------------------------------------
(* The life of a record *)

(* A failed stop gives the record of i its former state back.               *)
GivenBack(i) == pc = "stopping" /\ \E v \in todo \ todo' : v.id = i /\ Holds(v)

(* It stays the record of one start attempt.  Its exit is confirmed once,   *)
(* and only then an event and a completion are attached to it.              *)
Kept(i) ==
    /\ slots'[i].gen = slots[i].gen
    /\ slots[i].pending => slots'[i].pending
    /\ slots[i].state = "stopping" => slots'[i].state = "stopping" \/ GivenBack(i)
    /\ slots'[i].state \in {"starting", "idle"} =>
          slots[i].state \in {"starting", "idle"} \/ GivenBack(i)
    /\ slots'[i].event # slots[i].event =>
          ~slots[i].pending /\ slots'[i].pending /\ slots[i].state # "stopping"
    /\ slots'[i].sent # slots[i].sent => ~slots[i].pending /\ slots'[i].pending

(* The ID is free again: wiped, never used, or the daemon is gone.          *)
Freed(i) == slots'[i] = NoRec

(* startOne reserves the ID for the next start attempt.                     *)
Reserved(i) ==
    /\ pc = "start" /\ cur' = i
    /\ lastGen' = lastGen + 1
    /\ slots'[i].gen = lastGen'
    /\ ~slots'[i].pending /\ slots'[i].event = "" /\ ~slots'[i].sent
    /\ UNCHANGED <<claims, dir, reports, completed>>

(* Boot adoption makes a record of the directory of an earlier life; it is  *)
(* busy only if the unit was listed.                                        *)
Adopted(i) ==
    /\ pc = "adopt"
    /\ \E e \in todo : e.id = i /\ (slots'[i].pending \/ i \in listed)
    /\ slots'[i].gen = dir[i]
    /\ slots'[i].state \in {"busy", "stopping"}
    /\ slots'[i].event = "" /\ ~slots'[i].sent
    /\ UNCHANGED <<claims, dir, reports, completed>>

RecordsStep ==
    \A i \in SlotID : Kept(i) \/ Freed(i) \/ Reserved(i) \/ Adopted(i)

(* Units and directories appear only for the start in progress.             *)
HostStep ==
    \A i \in SlotID :
        /\ \/ unit'[i] \in {unit[i], 0}
           \/ pc = "launch" /\ i = cur /\ unit'[i] = slots[i].gen
        /\ \/ dir'[i] \in {dir[i], 0}
           \/ pc = "mkdir" /\ i = cur /\ dir'[i] = slots[i].gen /\ UNCHANGED slots

(* A claim is noted for the record in the table, and marks it busy unless   *)
(* it is being stopped.                                                     *)
ClaimStep ==
    \A g \in Gen :
        \/ claims'[g] = claims[g]
        \/ \E i \in SlotID :
              /\ slots[i].gen = g /\ slots'[i].gen = g
              /\ claims'[g] = "marked" =>
                    \/ claims[g] = "marked"
                    \/ slots[i].state # "stopping" /\ slots'[i].state = "busy"

(* The stop loop works off the idle records it took out of the live count;  *)
(* adoption works off the directories it found.                             *)
TodoStep ==
    /\ pc' \in Stops =>
          \/ pc \in Stops /\ todo' \subseteq todo
          \/ /\ pc = "surplus"
             /\ UNCHANGED <<claims, reports>>
             /\ \A v \in todo' :
                   /\ slots[v.id].gen = v.gen /\ slots[v.id].state = "idle"
                   /\ slots'[v.id].state = "stopping" /\ ~slots'[v.id].pending
    /\ pc' = "adopt" =>
          \/ pc = "adopt" /\ todo' \subseteq todo /\ UNCHANGED listed
          \/ /\ UNCHANGED <<unit, dir, reports, completed>>
             /\ \A e \in todo' :
                   /\ e.gen = dir[e.id]
                   /\ e.id \in listed' => unit[e.id] # 0 \/ e.gen \in relisted'

(* What leaves the table, and what is known of the runner at that moment    *)
CompletionStep ==
    \A g \in completed' \ completed :
        \E i \in SlotID :
            /\ slots[i].gen = g /\ slots'[i].gen = g
            /\ ~slots[i].pending /\ slots'[i].pending
            /\ unit[i] = 0 /\ UNCHANGED unit

StoppedStep ==
    \A g \in Gen : <<g, "stopped">> \in reports' \ reports =>
        \E v \in todo \ todo' :
            /\ pc = "stopping" /\ v.gen = g
            /\ unit[v.id] = 0 /\ UNCHANGED unit
            /\ Holds(v) => slots'[v.id].pending /\ slots'[v.id].gen = g

ExitedStep ==
    \A g \in Gen : <<g, "exited">> \in reports' \ reports =>
        \E w \in workers :
            /\ w.step = "release" /\ w.gen = g
            /\ Holds(w) /\ slots[w.id].event = "exited"
            /\ Freed(w.id) /\ UNCHANGED dir

(* The wipe is over only when the directory is gone.                        *)
WipeStep ==
    \A w \in workers' : w \in workers \/ w.step # "release" \/ dir'[w.id] = 0

LifeOK ==
    /\ RecordsStep
    /\ HostStep
    /\ ClaimStep
    /\ TodoStep
    /\ CompletionStep
    /\ StoppedStep
    /\ ExitedStep
    /\ WipeStep
    /\ lastGen <= lastGen'
    /\ completed \subseteq completed' /\ reports \subseteq reports'

-----------------------------------------------------------------------------
(* Event and completion of a record, as the operators on records leave them *)

LEMMA SinkFacts ==
  ASSUME NEW r \in Record, NEW st \in States
  PROVE  /\ InState(r, st).event = r.event /\ InState(r, st).sent = r.sent
         /\ Named(r).event = r.event /\ Named(r).sent = r.sent
         /\ Claimed(r).event = r.event /\ Claimed(r).sent = r.sent
         /\ InCleanup(r).event = r.event /\ InCleanup(r).sent = r.sent
         /\ CleanupOver(r).event = r.event /\ CleanupOver(r).sent = r.sent
         /\ Started(r).event = r.event /\ Started(r).sent = r.sent
  BY DEF InState, Named, Claimed, InCleanup, CleanupOver, Started, Record

LEMMA ExitedEventFacts ==
  ASSUME NEW r \in Record, NEW quick \in BOOLEAN
  PROVE  r.state = "stopping" => Exited(r, quick).event = r.event
  BY DEF Exited, Record

LEMMA NewRecSinkFacts ==
  ASSUME NEW st \in States, NEW g \in 0 .. MaxGen
  PROVE  NewRec(st, g).event = "" /\ NewRec(st, g).sent = FALSE
  BY DEF NewRec

LEMMA KeptSame == \A i \in SlotID : slots'[i] = slots[i] => Kept(i)
  BY DEF Kept

-----------------------------------------------------------------------------
(* Every action keeps to it.  First the steps that write no record.         *)

LEMMA QuietLife ==
  ASSUME IInv, UNCHANGED <<slots, workers, unit, dir, completed, reports, claims, lastGen>>,
         pc' \in Stops => pc \in Stops /\ todo' \subseteq todo,
         pc' = "adopt" => pc = "adopt" /\ todo' \subseteq todo /\ UNCHANGED listed
  PROVE  LifeOK
<1>1. RecordsStep
  BY KeptSame DEF RecordsStep
<1>2. lastGen <= lastGen'
  BY SlotTableAssumption DEF IInv, TypeOK
<1> QED BY <1>1, <1>2 DEF LifeOK, HostStep, ClaimStep, TodoStep, CompletionStep, StoppedStep, ExitedStep,
           WipeStep

LEMMA ControlLife ==
  IInv /\ (EnsureBegin \/ RetryDone \/ EnsureCheck \/ StartRefused \/ StopCall
             \/ BeginShutdown \/ AdoptDirsDone \/ \E i \in SlotID : AssignJob(i)) => LifeOK
<1> SUFFICES ASSUME IInv,
                    EnsureBegin \/ RetryDone \/ EnsureCheck \/ StartRefused \/ StopCall
                      \/ BeginShutdown \/ AdoptDirsDone \/ \E i \in SlotID : AssignJob(i)
             PROVE  LifeOK
  OBVIOUS
<1>1. UNCHANGED <<slots, workers, unit, dir, completed, reports, claims, lastGen>>
  BY DEF EnsureBegin, RetryDone, EnsureCheck, StartRefused, StopCall, BeginShutdown,
         AdoptDirsDone, AssignJob, host, sinks, memory
<1>2. pc' \in Stops => pc \in Stops /\ todo' \subseteq todo
  BY DEF EnsureBegin, RetryDone, EnsureCheck, StartRefused, StopCall, BeginShutdown, Begin,
         AfterRetry, AdoptDirsDone, AssignJob, memory, Stops
<1>3. pc' = "adopt" => pc = "adopt" /\ todo' \subseteq todo /\ UNCHANGED listed
  BY DEF EnsureBegin, RetryDone, EnsureCheck, StartRefused, StopCall, BeginShutdown, Begin,
         AfterRetry, AdoptDirsDone, AssignJob, memory
<1> QED BY <1>1, <1>2, <1>3, QuietLife

-----------------------------------------------------------------------------
(* The steps that write records                                             *)

(* How each operator on records keeps the record of a start attempt         *)
LEMMA KeptFacts ==
  ASSUME TypeOK, NEW i \in SlotID
  PROVE  /\ slots'[i] = Named(slots[i]) => Kept(i)
         /\ slots'[i] = Started(slots[i]) => Kept(i)
         /\ slots'[i] = CleanupOver(slots[i]) => Kept(i)
         /\ slots'[i] = InCleanup(slots[i]) => Kept(i)
         /\ slots'[i] = InState(slots[i], "stopping") => Kept(i)
         /\ slots'[i] = InCleanup(InState(slots[i], "stopping")) => Kept(i)
         /\ slots[i].state # "stopping" =>
               /\ slots'[i] = InState(slots[i], "busy") => Kept(i)
               /\ slots'[i] = Claimed(slots[i]) => Kept(i)
<1>1. slots[i] \in Record
  BY SlotFacts
<1>2. slots'[i] = Named(slots[i]) => Kept(i)
  BY <1>1 DEF Kept, Named, Record
<1>3. slots'[i] = Started(slots[i]) => Kept(i)
  BY <1>1 DEF Kept, Started, InState, Record
<1>4. slots'[i] = CleanupOver(slots[i]) => Kept(i)
  BY <1>1 DEF Kept, CleanupOver, Record
<1>5. slots'[i] = InCleanup(slots[i]) => Kept(i)
  BY <1>1 DEF Kept, InCleanup, Record
<1>6. slots'[i] = InState(slots[i], "stopping") => Kept(i)
  BY <1>1 DEF Kept, InState, Record
<1>7. slots'[i] = InCleanup(InState(slots[i], "stopping")) => Kept(i)
  BY <1>1 DEF Kept, InCleanup, InState, Record
<1>8. slots[i].state # "stopping" /\ slots'[i] = InState(slots[i], "busy") => Kept(i)
  BY <1>1 DEF Kept, InState, Record
<1>9. slots[i].state # "stopping" /\ slots'[i] = Claimed(slots[i]) => Kept(i)
  BY <1>1 DEF Kept, Claimed, Record
<1> QED BY <1>2, <1>3, <1>4, <1>5, <1>6, <1>7, <1>8, <1>9

(* observeExit sees an exit once.                                           *)
LEMMA ObservedFacts ==
  ASSUME TypeOK, NEW i \in SlotID, NEW quick \in BOOLEAN, ~slots[i].pending
  PROVE  /\ slots'[i] = Exited(slots[i], quick) =>
               Kept(i) /\ slots'[i].pending /\ slots'[i].gen = slots[i].gen
         /\ slots'[i] = InCleanup(Exited(slots[i], quick)) =>
               Kept(i) /\ slots'[i].pending /\ slots'[i].gen = slots[i].gen
<1>1. slots[i] \in Record
  BY SlotFacts
<1>2. slots'[i] = Exited(slots[i], quick) =>
        Kept(i) /\ slots'[i].pending /\ slots'[i].gen = slots[i].gen
  BY <1>1 DEF Kept, Exited, Record
<1>3. slots'[i] = InCleanup(Exited(slots[i], quick)) =>
        Kept(i) /\ slots'[i].pending /\ slots'[i].gen = slots[i].gen
  BY <1>1 DEF Kept, Exited, InCleanup, Record
<1> QED BY <1>2, <1>3

LEMMA PutWrites ==
  ASSUME TypeOK, NEW i \in SlotID, NEW r, Put(i, r)
  PROVE  slots'[i] = r /\ \A j \in SlotID : j # i => slots'[j] = slots[j]
  BY DEF TypeOK, Put

LEMMA OneRecord ==
  ASSUME NEW i \in SlotID, \A j \in SlotID : j # i => slots'[j] = slots[j],
         Kept(i) \/ Freed(i) \/ Reserved(i) \/ Adopted(i)
  PROVE  RecordsStep
  BY KeptSame DEF RecordsStep

(* What is left to show of a step that touches neither units, directories   *)
(* nor claims and reports no end.                                           *)
LEMMA LifeFrame ==
  ASSUME IInv, RecordsStep, TodoStep, UNCHANGED <<unit, dir, claims, completed>>,
         reports \subseteq reports',
         \A g \in Gen : /\ <<g, "stopped">> \in reports' => <<g, "stopped">> \in reports
                        /\ <<g, "exited">> \in reports' => <<g, "exited">> \in reports,
         \A w \in workers' : w \in workers \/ w.step # "release",
         lastGen <= lastGen'
  PROVE  LifeOK
  BY DEF LifeOK, HostStep, ClaimStep, CompletionStep, StoppedStep, ExitedStep, WipeStep

LEMMA FrameGen == IInv /\ lastGen' = lastGen => lastGen <= lastGen'
  BY SlotTableAssumption DEF IInv, TypeOK

(* Cleanup keeps every record and adds at most a wipe that begins.          *)
LEMMA CleanLife ==
  ASSUME IInv, NEW v, v.id \in SlotID, v.gen \in Gen, Clean(v)
  PROVE  RecordsStep /\ \A w \in workers' : w \in workers \/ w.step # "release"
<1>1. CASE CleanRuns(v)
  <2>1. /\ slots'[v.id] = InCleanup(slots[v.id])
        /\ \A j \in SlotID : j # v.id => slots'[j] = slots[j]
        /\ workers' = workers \cup {WipeOf(v)} /\ WipeOf(v).step = "jit"
    BY <1>1, PutWrites, WipeOfFacts DEF Clean, IInv
  <2> QED BY <2>1, KeptFacts, OneRecord DEF IInv
<1>2. CASE ~CleanRuns(v)
  BY <1>2, KeptSame DEF Clean, RecordsStep
<1> QED BY <1>1, <1>2

LEMMA RetryCleanupLife == \A v \in todo : IInv /\ RetryCleanup(v) => LifeOK
<1> SUFFICES ASSUME NEW v \in todo, IInv, RetryCleanup(v) PROVE LifeOK
  OBVIOUS
<1>1. v.id \in SlotID /\ v.gen \in Gen /\ Clean(v)
  BY DEF IInv, TypeOK, Ref, RetryCleanup
<1>2. RecordsStep /\ \A w \in workers' : w \in workers \/ w.step # "release"
  BY <1>1, CleanLife
<1>3. /\ UNCHANGED <<unit, dir, claims, completed, reports, lastGen>>
      /\ TodoStep
  BY DEF RetryCleanup, TodoStep, Stops, host, sinks
<1> QED BY <1>2, <1>3, FrameGen, LifeFrame

LEMMA WorkerLife == \A w \in workers : IInv /\ WorkerStep(w) => LifeOK
<1> SUFFICES ASSUME NEW w \in workers, IInv, WorkerStep(w) PROVE LifeOK
  OBVIOUS
<1>1. /\ w \in Worker /\ w.id \in SlotID /\ w.gen \in Gen /\ Holds(w)
      /\ UNCHANGED <<pc, todo, listed, unit, claims, completed, lastGen>>
  BY DEF IInv, TypeOK, Worker, WorkerInv, WorkerStep
<1>2. TodoStep /\ lastGen <= lastGen'
  BY <1>1, FrameGen DEF TodoStep
<1>3. CASE RemoveJIT(w)
  <2>1. UNCHANGED <<slots, reports, dir>> /\ workers' = (workers \ {w}) \cup {AtStep(w, "dir")}
    BY <1>3 DEF RemoveJIT, ToStep
  <2>2. AtStep(w, "dir").step = "dir"
    BY <1>1, WorkerFacts
  <2>3. RecordsStep
    BY <2>1, KeptSame DEF RecordsStep
  <2> QED BY <1>1, <1>2, <2>1, <2>2, <2>3, LifeFrame
<1>4. CASE RemoveDir(w)
  <2>1. /\ UNCHANGED <<slots, reports>> /\ dir' = [dir EXCEPT ![w.id] = 0]
        /\ workers' = (workers \ {w}) \cup {AtStep(w, "release")}
    BY <1>4 DEF RemoveDir, ToStep
  <2>2. AtStep(w, "release").id = w.id
    BY <1>1, WorkerFacts
  <2>3. RecordsStep
    BY <2>1, KeptSame DEF RecordsStep
  <2>4. HostStep /\ WipeStep
    BY <1>1, <2>1, <2>2 DEF HostStep, WipeStep, IInv, TypeOK
  <2> QED BY <1>1, <1>2, <2>1, <2>3, <2>4
          DEF LifeOK, ClaimStep, CompletionStep, StoppedStep, ExitedStep
<1>5. CASE Release(w)
  <2>1. /\ slots'[w.id] = NoRec
        /\ \A j \in SlotID : j # w.id => slots'[j] = slots[j]
        /\ reports' = IF slots[w.id].event = "" THEN reports
                      ELSE reports \cup {<<w.gen, slots[w.id].event>>}
        /\ workers' \subseteq workers /\ dir' = dir /\ w.step = "release"
    BY <1>1, <1>5, PutWrites DEF Release, IInv
  <2>2. RecordsStep
    BY <1>1, <2>1, OneRecord DEF Freed
  <2>3. slots[w.id].event \in {"", "exited"}
    BY <1>1, SlotFacts DEF IInv, Record
  <2>4. StoppedStep
    BY <2>1, <2>3 DEF StoppedStep
  <2>5. ExitedStep
    BY <1>1, <2>1, <2>3 DEF ExitedStep, Freed
  <2> QED BY <1>1, <1>2, <2>1, <2>2, <2>4, <2>5
          DEF LifeOK, HostStep, ClaimStep, CompletionStep, WipeStep
<1>6. CASE WipeFails(w)
  <2>1. /\ slots'[w.id] = CleanupOver(slots[w.id])
        /\ \A j \in SlotID : j # w.id => slots'[j] = slots[j]
        /\ workers' \subseteq workers /\ UNCHANGED <<reports, dir>>
    BY <1>1, <1>6, PutWrites DEF WipeFails, IInv
  <2>2. RecordsStep
    BY <1>1, <2>1, KeptFacts, OneRecord DEF IInv
  <2> QED BY <1>1, <1>2, <2>1, <2>2, LifeFrame
<1> QED BY <1>3, <1>4, <1>5, <1>6 DEF WorkerStep, WipeSucceeds

LEMMA WatcherLife == \A w \in watchers : IInv /\ WatcherStep(w) => LifeOK
<1> SUFFICES ASSUME NEW w \in watchers, IInv, WatcherStep(w) PROVE LifeOK
  OBVIOUS
<1>1. /\ w \in Watcher /\ w.id \in SlotID /\ w.gen \in Gen
      /\ UNCHANGED <<pc, todo, listed, unit, dir, claims, lastGen>>
  BY DEF IInv, TypeOK, Watcher, WatcherStep, host
<1>2. TodoStep /\ lastGen <= lastGen'
  BY <1>1, FrameGen DEF TodoStep
<1>3. CASE WaitReturns(w)
  <2>1. UNCHANGED <<slots, workers, completed, reports>>
    BY <1>3 DEF WaitReturns
  <2>2. RecordsStep
    BY <2>1, KeptSame DEF RecordsStep
  <2> QED BY <1>1, <1>2, <2>1, <2>2, LifeFrame
<1>4. CASE CleanAfterExit(w)
  <2>1. Clean(w) /\ UNCHANGED <<completed, reports>>
    BY <1>4 DEF CleanAfterExit
  <2>2. RecordsStep /\ \A x \in workers' : x \in workers \/ x.step # "release"
    BY <1>1, <2>1, CleanLife
  <2> QED BY <1>1, <1>2, <2>1, <2>2, LifeFrame
<1>5. ASSUME NEW quick \in BOOLEAN, ObserveExit(w, quick) PROVE LifeOK
  <2>1. CASE ObserveRuns(w)
    <3>1. /\ slots'[w.id] = Exited(slots[w.id], quick)
          /\ \A j \in SlotID : j # w.id => slots'[j] = slots[j]
          /\ completed' = completed \cup CompletionOf(slots[w.id])
          /\ reports' = reports \cup FailureOf(slots[w.id], quick)
          /\ workers' = workers /\ w.step = "exited"
          /\ ~slots[w.id].pending /\ slots[w.id].gen = w.gen
      BY <1>1, <1>5, <2>1, PutWrites DEF ObserveExit, ObserveRuns, Holds, IInv
    <3>2. Kept(w.id) /\ slots'[w.id].pending /\ slots'[w.id].gen = w.gen
      BY <1>1, <3>1, ObservedFacts DEF IInv
    <3>3. RecordsStep
      BY <1>1, <3>1, <3>2, OneRecord
    <3>4. unit[w.id] = 0
      BY <3>1 DEF IInv, WatcherInv, Holds
    <3>5. CompletionStep
      BY <1>1, <3>1, <3>2, <3>4 DEF CompletionStep, CompletionOf
    <3>6. StoppedStep /\ ExitedStep /\ completed \subseteq completed' /\ reports \subseteq reports'
      BY <3>1 DEF StoppedStep, ExitedStep, FailureOf
    <3> QED BY <1>1, <1>2, <3>1, <3>3, <3>5, <3>6 DEF LifeOK, HostStep, ClaimStep, WipeStep
  <2>2. CASE ~ObserveRuns(w)
    <3>1. UNCHANGED <<slots, workers, completed, reports>>
      BY <1>5, <2>2 DEF ObserveExit
    <3>2. RecordsStep
      BY <3>1, KeptSame DEF RecordsStep
    <3> QED BY <1>1, <1>2, <3>1, <3>2, LifeFrame
  <2> QED BY <2>1, <2>2
<1> QED BY <1>3, <1>4, <1>5 DEF WatcherStep, WatchSteps

LEMMA ClaimLife == \A i \in SlotID : IInv /\ Claim(i) => LifeOK
<1> SUFFICES ASSUME NEW i \in SlotID, IInv, Claim(i) PROVE LifeOK
  OBVIOUS
<1>1. UNCHANGED <<pc, todo, listed, workers, unit, dir, completed, reports, lastGen>>
  BY DEF Claim, host
<1>2. TodoStep /\ lastGen <= lastGen'
  BY <1>1, FrameGen DEF TodoStep
<1>3. slots[i].gen \in Gen
  BY DEF Claim, IInv, TypeOK
<1>4. RecordsStep /\ ClaimStep
  <2>1. CASE Claimable(slots[i])
    <3>1. /\ slots'[i] = Claimed(slots[i])
          /\ \A j \in SlotID : j # i => slots'[j] = slots[j]
          /\ claims' = [claims EXCEPT ![slots[i].gen] = "marked"]
          /\ slots[i].state # "stopping"
      BY <2>1, PutWrites DEF Claim, Claimable, IInv
    <3>2. Kept(i) /\ slots'[i].gen = slots[i].gen /\ slots'[i].state = "busy"
      BY <3>1, KeptFacts, SlotFacts, ClaimedFacts DEF IInv
    <3>3. RecordsStep
      BY <3>1, <3>2, OneRecord
    <3>4. ClaimStep
      BY <1>3, <3>1, <3>2 DEF ClaimStep, IInv, TypeOK
    <3> QED BY <3>3, <3>4
  <2>2. CASE ~Claimable(slots[i])
    <3>1. /\ slots' = slots
          /\ claims' = [claims EXCEPT ![slots[i].gen] = IF @ = "none" THEN "late" ELSE @]
      BY <2>2 DEF Claim
    <3>2. RecordsStep
      BY <3>1, KeptSame DEF RecordsStep
    <3>3. ClaimStep
      BY <1>3, <3>1 DEF ClaimStep, IInv, TypeOK
    <3> QED BY <3>2, <3>3
  <2> QED BY <2>1, <2>2
<1> QED BY <1>1, <1>2, <1>4 DEF LifeOK, HostStep, CompletionStep, StoppedStep, ExitedStep, WipeStep

(* Starting a runner                                                        *)

LEMMA ReserveLife == \A i \in SlotID : IInv /\ Reserve(i) => LifeOK
<1> SUFFICES ASSUME NEW i \in SlotID, IInv, Reserve(i) PROVE LifeOK
  OBVIOUS
<1>1. /\ pc = "start" /\ pc' = "mkdir" /\ cur' = i /\ lastGen' = lastGen + 1
      /\ UNCHANGED <<workers, unit, dir, claims, completed, reports>>
      /\ lastGen + 1 \in 0 .. MaxGen /\ lastGen <= lastGen'
  BY SlotTableAssumption DEF Reserve, host, sinks, IInv, TypeOK
<1>2. /\ slots'[i] = NewRec("starting", lastGen + 1)
      /\ \A j \in SlotID : j # i => slots'[j] = slots[j]
  BY PutWrites DEF Reserve, IInv
<1>3. /\ slots'[i].gen = lastGen + 1 /\ ~slots'[i].pending
      /\ slots'[i].event = "" /\ ~slots'[i].sent
  <2>1. "starting" \in States
    BY DEF States
  <2>2. NewRec("starting", lastGen + 1).gen = lastGen + 1
    BY <1>1, <2>1, NewRecFacts
  <2>3. NewRec("starting", lastGen + 1).pending = FALSE
    BY <1>1, <2>1, NewRecFacts
  <2>4. /\ NewRec("starting", lastGen + 1).event = ""
        /\ NewRec("starting", lastGen + 1).sent = FALSE
    BY <1>1, <2>1, NewRecSinkFacts
  <2> QED BY <1>2, <2>2, <2>3, <2>4
<1>4. RecordsStep
  BY <1>1, <1>2, <1>3, OneRecord DEF Reserved
<1>5. TodoStep
  BY <1>1 DEF TodoStep, Stops
<1> QED BY <1>1, <1>4, <1>5, LifeFrame

LEMMA MakeDirLife == IInv /\ MakeDir => LifeOK
<1> SUFFICES ASSUME IInv, MakeDir PROVE LifeOK
  OBVIOUS
<1>1. /\ pc = "mkdir" /\ pc' = "provision" /\ dir' = [dir EXCEPT ![cur] = slots[cur].gen]
      /\ UNCHANGED <<slots, workers, unit, claims, completed, reports, lastGen>>
  BY DEF MakeDir, sinks
<1>2. RecordsStep /\ TodoStep /\ lastGen <= lastGen'
  BY <1>1, KeptSame, FrameGen DEF RecordsStep, TodoStep, Stops
<1>3. HostStep
  BY <1>1 DEF HostStep, IInv, TypeOK
<1> QED BY <1>1, <1>2, <1>3
        DEF LifeOK, ClaimStep, CompletionStep, StoppedStep, ExitedStep, WipeStep

LEMMA LaunchLife == IInv /\ Launch => LifeOK
<1> SUFFICES ASSUME IInv, Launch PROVE LifeOK
  OBVIOUS
<1>1. /\ pc = "launch" /\ pc' = "reply" /\ unit' = [unit EXCEPT ![cur] = slots[cur].gen]
      /\ UNCHANGED <<slots, workers, dir, claims, completed, reports, lastGen>>
  BY DEF Launch, sinks
<1>2. RecordsStep /\ TodoStep /\ lastGen <= lastGen'
  BY <1>1, KeptSame, FrameGen DEF RecordsStep, TodoStep, Stops
<1>3. HostStep
  BY <1>1 DEF HostStep, IInv, TypeOK
<1> QED BY <1>1, <1>2, <1>3
        DEF LifeOK, ClaimStep, CompletionStep, StoppedStep, ExitedStep, WipeStep

(* The steps of startOne that write the record of the start in progress     *)
LEMMA CurLife ==
  ASSUME IInv, pc \in StartPCs, NEW r, Put(cur, r), Kept(cur) \/ Freed(cur),
         UNCHANGED <<unit, dir, claims, completed, lastGen>>,
         reports' \in {reports, reports \cup {<<slots[cur].gen, "failure">>}},
         \A w \in workers' : w \in workers \/ w.step # "release",
         pc' \in {"launch", "loop", "surplus"}
  PROVE  LifeOK
<1>1. cur \in SlotID
  BY CurFacts
<1>2. RecordsStep
  BY <1>1, PutWrites, OneRecord DEF IInv
<1>3. TodoStep /\ lastGen <= lastGen'
  BY FrameGen DEF TodoStep, Stops
<1> QED BY <1>2, <1>3, LifeFrame

LEMMA StartLife ==
  IInv /\ (MakeDirFails \/ Provision \/ StartFails \/ StartOk \/ StartUncertain) => LifeOK
<1> SUFFICES ASSUME IInv,
                    MakeDirFails \/ Provision \/ StartFails \/ StartOk \/ StartUncertain
             PROVE  LifeOK
  OBVIOUS
<1>1. pc \in StartPCs
  BY DEF MakeDirFails, Provision, StartFails, StartOk, StartUncertain, StartPCs
<1>2. cur \in SlotID /\ slots[cur].state # "stopping" /\ slots[cur].gen \in Gen
  BY <1>1, CurFacts
<1>3. CASE MakeDirFails
  <2>1. Put(cur, NoRec) /\ Freed(cur)
    BY <1>2, <1>3, PutWrites DEF MakeDirFails, Freed, IInv
  <2> QED BY <1>1, <1>3, <2>1, CurLife DEF MakeDirFails, host
<1>4. CASE Provision
  <2>1. Put(cur, Named(slots[cur])) /\ Kept(cur)
    BY <1>2, <1>4, PutWrites, KeptFacts DEF Provision, IInv
  <2> QED BY <1>1, <1>4, <2>1, CurLife DEF Provision, sinks
<1>5. CASE StartFails
  <2>1. Put(cur, InCleanup(InState(slots[cur], "stopping"))) /\ Kept(cur)
    BY <1>2, <1>5, PutWrites, KeptFacts DEF StartFails, IInv
  <2>2. WipeOf(RefOf(cur)).step = "jit"
    BY DEF WipeOf
  <2>3. /\ workers' = workers \cup {WipeOf(RefOf(cur))}
        /\ UNCHANGED <<unit, dir, claims, completed, lastGen>>
        /\ reports' = reports \cup {<<slots[cur].gen, "failure">>}
        /\ pc' = "surplus"
    BY <1>5 DEF StartFails, host
  <2> QED BY <1>1, <2>1, <2>2, <2>3, CurLife
<1>6. CASE StartOk
  <2>1. Put(cur, Started(slots[cur])) /\ Kept(cur)
    BY <1>2, <1>6, PutWrites, KeptFacts DEF StartOk, IInv
  <2> QED BY <1>1, <1>6, <2>1, CurLife DEF StartOk, host, sinks
<1>7. CASE StartUncertain
  <2>1. Put(cur, InState(slots[cur], "busy")) /\ Kept(cur)
    BY <1>2, <1>7, PutWrites, KeptFacts DEF StartUncertain, IInv
  <2> QED BY <1>1, <1>7, <2>1, CurLife DEF StartUncertain, host
<1> QED BY <1>3, <1>4, <1>5, <1>6, <1>7

(* Stopping runners                                                         *)

LEMMA StopSurplusLife == \A k \in 0 .. MaxGen : IInv /\ StopSurplus(k) => LifeOK
<1> SUFFICES ASSUME NEW k \in 0 .. MaxGen, IInv, StopSurplus(k) PROVE LifeOK
  OBVIOUS
<1>1. /\ pc = "surplus" /\ pc' \in {"idle", "stop"}
      /\ todo' = {RefOf(i) : i \in Surplus(k)}
      /\ UNCHANGED <<workers, unit, dir, claims, completed, reports, lastGen>>
      /\ \A i \in SlotID : slots'[i] = IF i \in Surplus(k) THEN InState(slots[i], "stopping")
                                                            ELSE slots[i]
  BY DEF StopSurplus, host, sinks
<1>2. RecordsStep
  BY <1>1, KeptFacts, KeptSame DEF RecordsStep, IInv
<1>3. ASSUME NEW i \in Surplus(k)
      PROVE  /\ RefOf(i).id = i /\ RefOf(i).gen = slots[i].gen
             /\ slots[i].state = "idle"
             /\ slots'[i].state = "stopping" /\ ~slots'[i].pending
  <2>1. i \in SlotID /\ slots[i].state \in {"idle", "starting"}
    BY DEF Surplus, Eligible
  <2>2. slots[i].state = "idle"
    BY <1>1, <2>1 DEF IInv, StartingIsInProgress, StartPCs
  <2>3. ~slots[i].pending /\ slots[i] \in Record
    BY <2>1, <2>2, SlotFacts DEF IInv, PendingInv
  <2>4. slots'[i] = InState(slots[i], "stopping") /\ "stopping" \in States
    BY <1>1, <2>1 DEF States
  <2>5. slots'[i].state = "stopping"
    BY <2>3, <2>4, InStateFacts
  <2>6. slots'[i].pending = slots[i].pending
    BY <2>3, <2>4, InStateFacts
  <2> QED BY <2>2, <2>3, <2>5, <2>6 DEF RefOf
<1>4. TodoStep
  BY <1>1, <1>3 DEF TodoStep, Stops
<1> QED BY <1>1, <1>2, <1>4, FrameGen, LifeFrame

(* What the stop loop does with one of its records                          *)
LEMMA StopEntryFacts ==
  ASSUME IInv, NEW v \in todo, pc = "stopping", StopNext(v), UNCHANGED listed
  PROVE  /\ v.id \in SlotID /\ v.gen \in Gen /\ v \in todo \ todo'
         /\ TodoStep
<1>1. v.id \in SlotID /\ v.gen \in Gen /\ v \in todo \ todo'
  BY DEF IInv, TypeOK, Ref, StopNext
<1>2. TodoStep
  BY DEF StopNext, TodoStep, Stops
<1> QED BY <1>1, <1>2

LEMMA StopErrLife == \A v \in todo : IInv /\ StopErr(v) => LifeOK
<1> SUFFICES ASSUME NEW v \in todo, IInv, StopErr(v) PROVE LifeOK
  OBVIOUS
<1>1. /\ pc = "stopping" /\ StopNext(v)
      /\ UNCHANGED <<listed, workers, unit, dir, claims, completed, reports, lastGen>>
  BY DEF StopErr, host, sinks
<1>2. v.id \in SlotID /\ v \in todo \ todo' /\ TodoStep
  BY <1>1, StopEntryFacts
<1>3. RecordsStep
  <2>1. CASE Restores(v)
    <3>1. /\ slots'[v.id] = InState(slots[v.id], v.was)
          /\ \A j \in SlotID : j # v.id => slots'[j] = slots[j]
          /\ Holds(v) /\ ~slots[v.id].pending
      BY <1>2, <2>1, PutWrites DEF StopErr, Restores, IInv
    <3>2. GivenBack(v.id)
      BY <1>1, <1>2, <3>1 DEF GivenBack
    <3>3. slots[v.id] \in Record
      BY <1>2, SlotFacts DEF IInv
    <3>4. Kept(v.id)
      BY <3>1, <3>2, <3>3 DEF Kept, InState, Record
    <3> QED BY <1>2, <3>1, <3>4, OneRecord
  <2>2. CASE ~Restores(v)
    BY <2>2, KeptSame DEF StopErr, RecordsStep
  <2> QED BY <2>1, <2>2
<1> QED BY <1>1, <1>2, <1>3, FrameGen, LifeFrame

LEMMA StopOkLife == \A v \in todo : IInv /\ StopOk(v) => LifeOK
<1> SUFFICES ASSUME NEW v \in todo, IInv, StopOk(v) PROVE LifeOK
  OBVIOUS
<1>1. /\ pc = "stopping" /\ StopNext(v) /\ unit[v.id] = 0
      /\ reports' = reports \cup {<<v.gen, "stopped">>}
      /\ UNCHANGED <<listed, unit, dir, claims, lastGen>>
  BY DEF StopOk, host
<1>2. v.id \in SlotID /\ v.gen \in Gen /\ v \in todo \ todo' /\ TodoStep
  BY <1>1, StopEntryFacts
<1>3. /\ RecordsStep /\ CompletionStep /\ completed \subseteq completed'
      /\ \A w \in workers' : w \in workers \/ w.step # "release"
      /\ Holds(v) => slots'[v.id].pending /\ slots'[v.id].gen = v.gen
  <2>1. CASE ObserveRuns(v)
    <3>1. /\ slots'[v.id] = InCleanup(Exited(slots[v.id], FALSE))
          /\ \A j \in SlotID : j # v.id => slots'[j] = slots[j]
          /\ completed' = completed \cup CompletionOf(slots[v.id])
          /\ workers' = workers \cup {WipeOf(v)} /\ WipeOf(v).step = "jit"
          /\ ~slots[v.id].pending /\ slots[v.id].gen = v.gen
      BY <1>2, <2>1, PutWrites, WipeOfFacts DEF StopOk, ObserveRuns, Holds, IInv
    <3>2. Kept(v.id) /\ slots'[v.id].pending /\ slots'[v.id].gen = v.gen
      BY <1>2, <3>1, ObservedFacts DEF IInv
    <3>3. RecordsStep
      BY <1>2, <3>1, <3>2, OneRecord
    <3>4. CompletionStep
      BY <1>1, <1>2, <3>1, <3>2 DEF CompletionStep, CompletionOf
    <3> QED BY <3>1, <3>2, <3>3, <3>4
  <2>2. CASE ~ObserveRuns(v)
    <3>1. UNCHANGED <<slots, workers, completed>>
      BY <2>2 DEF StopOk
    <3>2. RecordsStep /\ CompletionStep
      BY <3>1, KeptSame DEF RecordsStep, CompletionStep
    <3>3. Holds(v) => slots[v.id].pending
      BY <1>2, <2>2 DEF ObserveRuns, IInv, PendingInv
    <3> QED BY <3>1, <3>2, <3>3 DEF Holds
  <2> QED BY <2>1, <2>2
<1>4. StoppedStep
  BY <1>1, <1>2, <1>3 DEF StoppedStep
<1>5. ExitedStep /\ reports \subseteq reports'
  BY <1>1 DEF ExitedStep
<1> QED BY <1>1, <1>2, <1>3, <1>4, <1>5, FrameGen DEF LifeOK, HostStep, ClaimStep, WipeStep

(* The daemon's life and the host                                           *)

(* The record that adoption makes has nothing to report yet.                *)
LEMMA AdoptedSinkFacts ==
  ASSUME NEW state \in States, NEW e, e.gen \in 0 .. MaxGen, NEW r \in AdoptedAs(state, e)
  PROVE  r.event = "" /\ r.sent = FALSE
<1>1. NewRec(state, e.gen) \in Record
  BY NewRecFacts
<1>2. NewRec(state, e.gen).event = "" /\ NewRec(state, e.gen).sent = FALSE
  BY NewRecSinkFacts
<1>3. /\ Named(NewRec(state, e.gen)).event = NewRec(state, e.gen).event
      /\ Named(NewRec(state, e.gen)).sent = NewRec(state, e.gen).sent
  BY <1>1, SinkFacts
<1> QED BY <1>2, <1>3 DEF AdoptedAs

LEMMA BootLife == IInv /\ Boot => LifeOK
<1> SUFFICES ASSUME IInv, Boot PROVE LifeOK
  OBVIOUS
<1>1. /\ pc' = "adopt" /\ UNCHANGED <<slots, workers, unit, dir, claims, completed, reports, lastGen>>
      /\ relisted' = relisted \cup {dir[i] : i \in Ended(listed')}
      /\ todo' = {[id |-> i, gen |-> dir[i], was |-> "none"] : i \in {j \in SlotID : dir[j] # 0}}
  BY DEF Boot, host, sinks
<1>2. RecordsStep
  BY <1>1, KeptSame DEF RecordsStep
<1>3. \A e \in todo' :
         /\ e.gen = dir[e.id]
         /\ e.id \in listed' => unit[e.id] # 0 \/ e.gen \in relisted'
  <2> SUFFICES ASSUME NEW i \in SlotID, dir[i] # 0, i \in listed', unit[i] = 0
               PROVE  dir[i] \in relisted'
    BY <1>1
  <2> QED BY <1>1 DEF Ended
<1>4. TodoStep
  BY <1>1, <1>3 DEF TodoStep, Stops
<1> QED BY <1>1, <1>2, <1>4, FrameGen, LifeFrame

LEMMA AdoptLife == \A e \in todo : IInv /\ (AdoptRunning(e) \/ AdoptOrphan(e)) => LifeOK
<1> SUFFICES ASSUME NEW e \in todo, IInv, AdoptRunning(e) \/ AdoptOrphan(e) PROVE LifeOK
  OBVIOUS
<1>1. /\ pc = "adopt" /\ pc' = "adopt" /\ todo' = todo \ {e}
      /\ UNCHANGED <<listed, unit, dir, claims, completed, reports, lastGen>>
  BY DEF AdoptRunning, AdoptOrphan, host, sinks
<1>2. e.id \in SlotID /\ e.gen \in 0 .. MaxGen /\ dir[e.id] = e.gen /\ e.gen \in Gen
  BY <1>1, EntryFacts
<1>3. TodoStep
  BY <1>1 DEF TodoStep, Stops
<1>4. /\ \A w \in workers' : w \in workers \/ w.step # "release"
      /\ \A j \in SlotID : j # e.id => slots'[j] = slots[j]
      /\ Adopted(e.id)
  <2>1. CASE AdoptRunning(e)
    <3>1. PICK r \in AdoptedAs("busy", e) : Put(e.id, r)
      BY <2>1 DEF AdoptRunning
    <3>2. r.gen = e.gen /\ r.state = "busy" /\ r.event = "" /\ ~r.sent
      BY <1>2, <3>1, AdoptedFacts, AdoptedSinkFacts DEF States
    <3>3. slots'[e.id] = r /\ \A j \in SlotID : j # e.id => slots'[j] = slots[j]
      BY <1>2, <3>1, PutWrites DEF IInv
    <3> QED BY <1>1, <1>2, <2>1, <3>2, <3>3 DEF Adopted, AdoptRunning, Runs
  <2>2. CASE AdoptOrphan(e)
    <3>1. PICK r \in AdoptedAs("stopping", e) : Put(e.id, InCleanup(r))
      BY <2>2 DEF AdoptOrphan
    <3> DEFINE s == InCleanup(r)
    <3>2. s.gen = e.gen /\ s.state = "stopping" /\ s.event = "" /\ ~s.sent /\ s.pending
      <4>1. r \in Record /\ r.gen = e.gen /\ r.state = "stopping" /\ r.event = "" /\ r.sent = FALSE
        BY <1>2, <3>1, AdoptedFacts, AdoptedSinkFacts DEF States
      <4>2. s.gen = r.gen /\ s.state = r.state
        BY <4>1, InCleanupFacts
      <4>3. s.pending = TRUE
        BY <4>1, InCleanupFacts
      <4>4. s.event = r.event /\ s.sent = r.sent
        BY <4>1, SinkFacts DEF States
      <4> QED BY <4>1, <4>2, <4>3, <4>4
    <3> HIDE DEF s
    <3>3. slots'[e.id] = s /\ \A j \in SlotID : j # e.id => slots'[j] = slots[j]
      BY <1>2, <3>1, PutWrites DEF IInv, s
    <3>4. workers' = workers \cup {WipeOf(e)} /\ WipeOf(e).step = "jit"
      BY <1>2, <2>2, WipeOfFacts DEF AdoptOrphan
    <3> QED BY <1>1, <1>2, <3>2, <3>3, <3>4 DEF Adopted
  <2> QED BY <2>1, <2>2
<1>5. RecordsStep
  BY <1>2, <1>4, OneRecord
<1> QED BY <1>1, <1>3, <1>4, <1>5, FrameGen, LifeFrame

LEMMA UnitsLife == IInv /\ (AdoptUnitsDone \/ \E i \in SlotID : RunnerExit(i)) => LifeOK
<1> SUFFICES ASSUME IInv, AdoptUnitsDone \/ \E i \in SlotID : RunnerExit(i) PROVE LifeOK
  OBVIOUS
<1>1. UNCHANGED <<slots, workers, dir, claims, completed, reports, lastGen>>
  BY DEF AdoptUnitsDone, RunnerExit, memory, sinks
<1>2. RecordsStep
  BY <1>1, KeptSame DEF RecordsStep
<1>3. TodoStep
  BY DEF AdoptUnitsDone, RunnerExit, memory, TodoStep, Stops
<1>4. \A i \in SlotID : unit'[i] \in {unit[i], 0}
  BY DEF AdoptUnitsDone, RunnerExit, IInv, TypeOK
<1> QED BY <1>1, <1>2, <1>3, <1>4, FrameGen
        DEF LifeOK, HostStep, ClaimStep, CompletionStep, StoppedStep, ExitedStep, WipeStep

LEMMA DownLife == IInv /\ Down => LifeOK
<1> SUFFICES ASSUME IInv, Down PROVE LifeOK
  OBVIOUS
<1>1. /\ \A i \in SlotID : slots'[i] = NoRec
      /\ pc' = "idle" /\ workers' = {}
      /\ UNCHANGED <<unit, dir, claims, completed, reports, lastGen>>
  BY DEF Down, host, sinks
<1>2. RecordsStep /\ TodoStep
  BY <1>1 DEF RecordsStep, Freed, TodoStep, Stops
<1> QED BY <1>1, <1>2, FrameGen, LifeFrame

(* Every step of the specification keeps to the life of the records.        *)
LEMMA NextLife == IInv /\ [Next]_vars => LifeOK
<1> SUFFICES ASSUME IInv, [Next]_vars PROVE LifeOK
  OBVIOUS
<1>1. CASE EnsureBegin \/ RetryDone \/ EnsureCheck \/ BeginShutdown
  BY <1>1, ControlLife
<1>2. CASE StartStep
  BY <1>2, ControlLife, ReserveLife, MakeDirLife, LaunchLife, StartLife DEF StartStep
<1>3. CASE StopStep
  BY <1>3, ControlLife, StopSurplusLife, StopOkLife, StopErrLife DEF StopStep
<1>4. CASE Boot \/ AdoptStep
  BY <1>4, BootLife, ControlLife, UnitsLife, AdoptLife DEF AdoptStep
<1>5. CASE \E v \in todo : RetryCleanup(v)
  BY <1>5, RetryCleanupLife
<1>6. CASE \E w \in watchers : WatcherStep(w)
  BY <1>6, WatcherLife
<1>7. CASE \E w \in workers : WorkerStep(w)
  BY <1>7, WorkerLife
<1>8. CASE \E i \in SlotID : Claim(i) \/ RunnerExit(i) \/ AssignJob(i)
  BY <1>8, ClaimLife, UnitsLife, ControlLife
<1>9. CASE Close \/ Crash
  BY <1>9, DownLife DEF Close, Crash
<1>10. CASE UNCHANGED vars
  <2>1. /\ UNCHANGED <<slots, workers, unit, dir, completed, reports, claims, lastGen>>
        /\ UNCHANGED <<pc, todo, listed>>
    BY <1>10 DEF vars, memory, host, sinks
  <2> QED BY <2>1, QuietLife
<1> QED BY <1>1, <1>2, <1>3, <1>4, <1>5, <1>6, <1>7, <1>8, <1>9, <1>10
        DEF Next, Reconciler

-----------------------------------------------------------------------------
(* The invariant of identities, claims and the stop loop *)

(* A generation is the identity of one record and of one directory: no two  *)
(* IDs share it.                                                            *)
IdentInv ==
    \A i, j \in SlotID : i # j =>
        /\ slots[i].gen # 0 => slots[j].gen # slots[i].gen
        /\ dir[i] # 0 => dir[j] # dir[i] /\ slots[j].gen # dir[i]

(* Only what was started is claimed, and a claimed record is not idle.      *)
ClaimInv ==
    /\ \A g \in Gen : claims[g] # "none" => g <= lastGen
    /\ \A i \in SlotID : slots[i].state \in {"starting", "idle"} =>
          claims[slots[i].gen] # "marked"

(* What the stop loop holds was never claimed; its records are stopping or  *)
(* gone, and nothing else took their IDs.                                   *)
StopInv ==
    pc \in Stops => \A v \in todo :
        /\ claims[v.gen] # "marked"
        /\ slots[v.id].gen \in {0, v.gen}
        /\ v.gen <= lastGen
        /\ \A i \in SlotID : slots[i].gen = v.gen => i = v.id /\ slots[i].state = "stopping"

(* A wipe that is over has removed the directory.                           *)
WipedInv == \A w \in workers : w.step = "release" => dir[w.id] = 0

(* An event waits for the end of the wipe only once the exit is confirmed.  *)
EventInv == \A i \in SlotID : slots[i].event = "exited" => slots[i].pending

LifeInv ==
    /\ IdentInv
    /\ ClaimInv
    /\ StopInv
    /\ WipedInv
    /\ EventInv

LEMMA FreedFacts ==
  ASSUME NEW i \in SlotID, Freed(i)
  PROVE  /\ slots'[i].state = "none" /\ slots'[i].gen = 0 /\ slots'[i].pending = FALSE
         /\ slots'[i].event = "" /\ slots'[i].sent = FALSE
<1>1. NoRec.event = "" /\ NoRec.sent = FALSE
  BY DEF NoRec, NewRec
<1> QED BY <1>1, NoRecFacts DEF Freed

(* Where the generation of a record and of a directory come from            *)
LEMMA OriginFacts ==
  ASSUME IInv, LifeOK, NEW i \in SlotID
  PROVE  /\ slots'[i].gen # 0 =>
              \/ Kept(i) /\ slots'[i].gen = slots[i].gen
              \/ Reserved(i) /\ slots'[i].gen = lastGen + 1
              \/ Adopted(i) /\ slots'[i].gen = dir[i] /\ dir' = dir
         /\ dir'[i] # 0 =>
              \/ dir'[i] = dir[i]
              \/ pc = "mkdir" /\ i = cur /\ dir'[i] = slots[i].gen /\ slots' = slots
         /\ slots[i].gen \in Nat /\ dir[i] \in Nat /\ lastGen \in Nat
         /\ slots[i].gen <= lastGen /\ dir[i] <= lastGen
<1>1. slots[i].gen \in 0 .. MaxGen /\ dir[i] \in 0 .. MaxGen /\ lastGen \in 0 .. MaxGen
  BY SlotFacts DEF IInv, TypeOK
<1>2. slots[i].gen <= lastGen /\ dir[i] <= lastGen
  BY DEF IInv, GenInv
<1>3. Kept(i) \/ Freed(i) \/ Reserved(i) \/ Adopted(i)
  BY DEF LifeOK, RecordsStep
<1>4. \/ dir'[i] \in {dir[i], 0}
      \/ pc = "mkdir" /\ i = cur /\ dir'[i] = slots[i].gen /\ slots' = slots
  BY DEF LifeOK, HostStep
<1>5. Freed(i) => slots'[i].gen = 0
  BY FreedFacts
<1>6. Kept(i) => slots'[i].gen = slots[i].gen
  BY DEF Kept
<1>7. Reserved(i) => slots'[i].gen = lastGen + 1
  BY DEF Reserved
<1>8. Adopted(i) => slots'[i].gen = dir[i] /\ dir' = dir
  BY DEF Adopted
<1>9. slots[i].gen \in Nat /\ dir[i] \in Nat /\ lastGen \in Nat
  BY <1>1, SlotTableAssumption
<1> QED BY <1>2, <1>3, <1>4, <1>5, <1>6, <1>7, <1>8, <1>9

LEMMA IdentOK == IInv /\ LifeInv /\ LifeOK => IdentInv'
<1> SUFFICES ASSUME IInv, LifeInv, LifeOK, NEW i \in SlotID, NEW j \in SlotID, i # j
             PROVE  /\ slots'[i].gen # 0 => slots'[j].gen # slots'[i].gen
                    /\ dir'[i] # 0 => dir'[j] # dir'[i] /\ slots'[j].gen # dir'[i]
  BY DEF IdentInv
<1>1. /\ slots[i].gen # 0 => slots[j].gen # slots[i].gen
      /\ dir[i] # 0 => dir[j] # dir[i] /\ slots[j].gen # dir[i]
      /\ slots[j].gen # 0 => slots[i].gen # slots[j].gen
      /\ dir[j] # 0 => dir[i] # dir[j] /\ slots[i].gen # dir[j]
  BY DEF LifeInv, IdentInv
<1>2. /\ slots[i].gen \in Nat /\ dir[i] \in Nat /\ lastGen \in Nat
      /\ slots[i].gen <= lastGen /\ dir[i] <= lastGen
      /\ slots[j].gen \in Nat /\ dir[j] \in Nat
      /\ slots[j].gen <= lastGen /\ dir[j] <= lastGen
  BY OriginFacts
<1>3. /\ slots'[i].gen = 0 \/ slots'[i].gen = slots[i].gen
           \/ (Reserved(i) /\ slots'[i].gen = lastGen + 1)
           \/ (Adopted(i) /\ slots'[i].gen = dir[i] /\ dir' = dir)
      /\ slots'[j].gen = 0 \/ slots'[j].gen = slots[j].gen
           \/ (Reserved(j) /\ slots'[j].gen = lastGen + 1)
           \/ (Adopted(j) /\ slots'[j].gen = dir[j] /\ dir' = dir)
  BY OriginFacts
<1>4. /\ ~(Reserved(i) /\ Reserved(j))
      /\ Reserved(i) \/ Reserved(j) => dir' = dir
  BY DEF Reserved
<1>5. slots'[i].gen # 0 => slots'[j].gen # slots'[i].gen
  BY <1>1, <1>2, <1>3, <1>4
<1>6. dir'[i] # 0 =>
        \/ dir'[i] = dir[i]
        \/ pc = "mkdir" /\ i = cur /\ dir'[i] = slots[i].gen /\ slots' = slots
  BY OriginFacts
<1>7. dir'[j] # 0 =>
        \/ dir'[j] = dir[j]
        \/ pc = "mkdir" /\ j = cur /\ dir'[j] = slots[j].gen /\ slots' = slots
  BY OriginFacts
<1>8. dir'[i] # 0 => dir'[j] # dir'[i]
  BY <1>1, <1>6, <1>7
<1>9. dir'[i] # 0 => slots'[j].gen # dir'[i]
  BY <1>1, <1>2, <1>3, <1>6
<1> QED BY <1>5, <1>8, <1>9

(* A record is given back from what the stop loop holds.                    *)
LEMMA GivenBackFacts ==
  ASSUME IInv, LifeInv, NEW i \in SlotID, GivenBack(i)
  PROVE  /\ claims[slots[i].gen] # "marked" /\ slots[i].state = "stopping"
         /\ \E v \in todo \ todo' : v.id = i /\ v.gen = slots[i].gen
  BY DEF GivenBack, LifeInv, StopInv, Stops, Holds

LEMMA ClaimInvOK == IInv /\ IInv' /\ LifeInv /\ LifeOK => ClaimInv'
<1> SUFFICES ASSUME IInv, IInv', LifeInv, LifeOK PROVE ClaimInv'
  OBVIOUS
<1>1. ASSUME NEW g \in Gen, claims'[g] # "none" PROVE g <= lastGen'
  <2>1. g <= lastGen
    BY <1>1, OriginFacts DEF LifeOK, ClaimStep, LifeInv, ClaimInv
  <2> QED BY <2>1, SlotTableAssumption DEF LifeOK, IInv, TypeOK, Gen, Reserved
<1>2. ASSUME NEW i \in SlotID, slots'[i].state \in {"starting", "idle"}
      PROVE  claims'[slots'[i].gen] # "marked"
  <2>1. CASE Kept(i)
    <3>1. slots'[i].gen = slots[i].gen /\ claims[slots[i].gen] # "marked"
      BY <1>2, <2>1, GivenBackFacts DEF Kept, LifeInv, ClaimInv
    <3>2. slots[i].gen \in Gen
      <4>1. slots[i].state # "none"
        BY <1>2, <2>1, GivenBackFacts DEF Kept
      <4> QED BY <4>1, SlotFacts, SlotTableAssumption DEF IInv, Gen
    <3>3. \A j \in SlotID : slots[j].gen = slots[i].gen => j = i
      BY <3>2, GenFacts DEF LifeInv, IdentInv
    <3> QED BY <1>2, <3>1, <3>2, <3>3 DEF LifeOK, ClaimStep
  <2>2. CASE Freed(i)
    BY <1>2, <2>2, FreedFacts
  <2>3. CASE Reserved(i)
    <3>1. slots'[i].gen = lastGen + 1 /\ claims' = claims /\ lastGen \in Nat
      BY <2>3, OriginFacts DEF Reserved
    <3>2. slots'[i].gen \in Gen
      <4>1. slots'[i].gen \in 0 .. MaxGen
        BY DEF IInv, TypeOK, Record
      <4> QED BY <3>1, <4>1, SlotTableAssumption DEF Gen
    <3> QED BY <3>1, <3>2 DEF LifeInv, ClaimInv
  <2>4. CASE Adopted(i)
    BY <1>2, <2>4 DEF Adopted
  <2> QED BY <2>1, <2>2, <2>3, <2>4 DEF LifeOK, RecordsStep
<1> QED BY <1>1, <1>2 DEF ClaimInv

LEMMA StopInvOK == IInv /\ IInv' /\ LifeInv /\ LifeOK => StopInv'
<1> SUFFICES ASSUME IInv, IInv', LifeInv, LifeOK, pc' \in Stops, NEW v \in todo'
             PROVE  /\ claims'[v.gen] # "marked"
                    /\ slots'[v.id].gen \in {0, v.gen}
                    /\ v.gen <= lastGen'
                    /\ \A i \in SlotID :
                          slots'[i].gen = v.gen => i = v.id /\ slots'[i].state = "stopping"
  BY DEF StopInv
<1>1. v \in Ref /\ v.id \in SlotID /\ v.gen \in Gen /\ v.gen # 0
  BY GenFacts DEF IInv, TypeOK, Ref
<1>2. /\ pc' # "adopt" /\ pc' # "mkdir"
      /\ \A i \in SlotID : ~Reserved(i) /\ ~Adopted(i)
  BY DEF LifeOK, TodoStep, Stops, Reserved, Adopted
<1>3. \A i \in SlotID : Kept(i) \/ Freed(i)
  BY <1>2 DEF LifeOK, RecordsStep
<1>4. lastGen <= lastGen' /\ lastGen \in Nat /\ lastGen' \in Nat /\ v.gen \in Nat
  BY <1>1, SlotTableAssumption DEF LifeOK, IInv, TypeOK, Gen
<1>5. CASE pc \in Stops /\ todo' \subseteq todo
  <2>1. /\ v \in todo /\ claims[v.gen] # "marked"
        /\ slots[v.id].gen \in {0, v.gen}
        /\ v.gen <= lastGen
        /\ \A i \in SlotID : slots[i].gen = v.gen => i = v.id /\ slots[i].state = "stopping"
    BY <1>5 DEF LifeInv, StopInv
  <2>2. claims'[v.gen] # "marked"
    BY <1>1, <2>1 DEF LifeOK, ClaimStep
  <2>3. slots'[v.id].gen \in {0, v.gen}
    BY <1>1, <1>3, <2>1, FreedFacts DEF Kept
  <2>4. ASSUME NEW i \in SlotID, slots'[i].gen = v.gen
        PROVE  i = v.id /\ slots'[i].state = "stopping"
    <3>1. Kept(i) /\ slots[i].gen = v.gen /\ i = v.id /\ slots[i].state = "stopping"
      BY <1>1, <1>3, <2>1, <2>4, FreedFacts DEF Kept
    <3>2. ~GivenBack(i)
      <4>1. ASSUME NEW u \in todo \ todo', u.id = i, u.gen = v.gen PROVE FALSE
        <5>1. u \in Ref /\ v \in Ref /\ u.id = v.id /\ u.was = v.was
          BY <1>1, <1>5, <2>1, <3>1, <4>1 DEF IInv, TypeOK, TodoInv, Stops
        <5>2. u = v
          BY <4>1, <5>1 DEF Ref
        <5> QED BY <5>2, <4>1
      <4> QED BY <3>1, <4>1, GivenBackFacts
    <3> QED BY <3>1, <3>2 DEF Kept
  <2> QED BY <1>4, <2>1, <2>2, <2>3, <2>4
<1>6. CASE /\ pc = "surplus"
           /\ UNCHANGED <<claims, reports>>
           /\ \A u \in todo' :
                 /\ slots[u.id].gen = u.gen /\ slots[u.id].state = "idle"
                 /\ slots'[u.id].state = "stopping" /\ ~slots'[u.id].pending
  <2>1. slots[v.id].gen = v.gen /\ slots[v.id].state = "idle" /\ slots'[v.id].state = "stopping"
    BY <1>6
  <2>2. claims'[v.gen] # "marked"
    BY <1>1, <1>6, <2>1 DEF LifeInv, ClaimInv
  <2>3. slots'[v.id].gen \in {0, v.gen} /\ v.gen <= lastGen
    BY <1>1, <1>3, <2>1, FreedFacts DEF Kept, IInv, GenInv
  <2>4. ASSUME NEW i \in SlotID, slots'[i].gen = v.gen PROVE i = v.id
    <3>1. slots[i].gen = v.gen
      BY <1>1, <1>3, <2>4, FreedFacts DEF Kept
    <3> QED BY <1>1, <2>1, <3>1 DEF LifeInv, IdentInv
  <2> QED BY <1>4, <2>1, <2>2, <2>3, <2>4
<1> QED BY <1>5, <1>6 DEF LifeOK, TodoStep

LEMMA WipedInvOK == IInv /\ IInv' /\ LifeInv /\ LifeOK => WipedInv'
<1> SUFFICES ASSUME IInv, IInv', LifeInv, LifeOK, NEW w \in workers', w.step = "release"
             PROVE  dir'[w.id] = 0
  BY DEF WipedInv
<1>1. CASE w \in workers
  <2>1. w.id \in SlotID /\ dir[w.id] = 0 /\ slots[w.id].state = "stopping"
    BY <1>1 DEF IInv, TypeOK, Worker, LifeInv, WipedInv, WorkerInv, PendingInv
  <2>2. ~(pc = "mkdir" /\ w.id = cur)
    BY <2>1 DEF IInv, CurInv, StartPCs
  <2> QED BY <2>1, <2>2 DEF LifeOK, HostStep
<1>2. CASE w \notin workers
  BY <1>2 DEF LifeOK, WipeStep
<1> QED BY <1>1, <1>2

LEMMA EventInvOK == LifeInv /\ LifeOK => EventInv'
<1> SUFFICES ASSUME LifeInv, LifeOK, NEW i \in SlotID, slots'[i].event = "exited"
             PROVE  slots'[i].pending
  BY DEF EventInv
<1>1. Kept(i) \/ Freed(i) \/ Reserved(i) \/ Adopted(i)
  BY DEF LifeOK, RecordsStep
<1>2. Kept(i)
  BY <1>1, FreedFacts DEF Reserved, Adopted
<1> QED BY <1>2 DEF Kept, LifeInv, EventInv

-----------------------------------------------------------------------------
(* The invariant of ends: reports and completions *)

(* The runner of g has ended, and the table knows it or has no record of it. *)
Over(g) ==
    /\ g <= lastGen
    /\ \A i \in SlotID : unit[i] # g /\ (slots[i].gen = g => slots[i].pending)

EndInv ==
    /\ \A g \in completed \ relisted : Over(g)
    /\ \A g \in Gen \ relisted : <<g, "stopped">> \in reports =>
          Over(g) /\ \A i \in SlotID : slots[i].gen = g => slots[i].event # "exited"
    /\ \A g \in Gen : <<g, "exited">> \in reports =>
          g <= lastGen /\ \A i \in SlotID : slots[i].gen # g /\ dir[i] # g
    /\ pc = "adopt" =>
          \A e \in todo : e.id \in listed /\ e.gen \notin relisted =>
              e.gen \notin completed /\ <<e.gen, "stopped">> \notin reports
    /\ pc \in Stops =>
          \A v \in todo : /\ <<v.gen, "exited">> \notin reports
                          /\ Holds(v) => slots[v.id].event # "exited"

(* A runner that is over stays so, unless adoption finds it listed.         *)
LEMMA OverStays ==
  ASSUME IInv, IInv', LifeInv, LifeOK, NEW g \in Gen, Over(g),
         pc = "adopt" => \A e \in todo : e.id \in listed => e.gen # g
  PROVE  Over(g)'
<1>1. g # 0 /\ g \in Nat /\ lastGen \in Nat /\ lastGen' \in Nat /\ g <= lastGen
  BY GenFacts, SlotTableAssumption DEF IInv, TypeOK, Gen, Over
<1>2. g <= lastGen'
  BY <1>1 DEF LifeOK
<1>3. ASSUME NEW i \in SlotID PROVE unit'[i] # g
  <2>1. unit[i] # g
    BY DEF Over
  <2>2. CASE pc = "launch" /\ i = cur /\ unit'[i] = slots[i].gen
    <3>1. ~slots[i].pending
      BY <2>2, CurFacts DEF StartPCs
    <3> QED BY <2>2, <3>1 DEF Over
  <2>3. CASE unit'[i] \in {unit[i], 0}
    BY <1>1, <2>1, <2>3
  <2> QED BY <2>2, <2>3 DEF LifeOK, HostStep
<1>4. ASSUME NEW i \in SlotID, slots'[i].gen = g PROVE slots'[i].pending
  <2>1. CASE Kept(i)
    BY <1>4, <2>1 DEF Kept, Over
  <2>2. CASE Freed(i)
    BY <1>1, <1>4, <2>2, FreedFacts
  <2>3. CASE Reserved(i)
    <3>1. g = lastGen + 1
      BY <1>4, <2>3 DEF Reserved
    <3> QED BY <1>1, <3>1
  <2>4. CASE Adopted(i)
    <3>1. PICK e \in todo : e.id = i /\ (slots'[i].pending \/ i \in listed)
      BY <2>4 DEF Adopted
    <3>2. e.gen = dir[i] /\ slots'[i].gen = dir[i]
      BY <2>4, <3>1 DEF Adopted, IInv, AdoptInv
    <3> QED BY <1>4, <2>4, <3>1, <3>2 DEF Adopted
  <2> QED BY <2>1, <2>2, <2>3, <2>4 DEF LifeOK, RecordsStep
<1> QED BY <1>2, <1>3, <1>4 DEF Over

(* A record whose exit is seen now is over from now on.                     *)
LEMMA OverNow ==
  ASSUME IInv, IInv', LifeInv, LifeOK, NEW i \in SlotID, NEW g \in Gen,
         slots[i].gen = g \/ (slots[i].gen = 0 /\ pc # "adopt"),
         slots[i].gen = g => slots'[i].pending,
         \A j \in SlotID : slots[j].gen = g => j = i,
         g <= lastGen, daemon # "down", unit[i] = 0, UNCHANGED unit
  PROVE  Over(g)'
<1>1. g # 0 /\ g \in Nat /\ lastGen \in Nat /\ lastGen' \in Nat
  BY GenFacts, SlotTableAssumption DEF IInv, TypeOK, Gen
<1>2. g <= lastGen'
  BY <1>1 DEF LifeOK
<1>3. ASSUME NEW j \in SlotID, unit'[j] = g PROVE FALSE
  <2>1. unit[j] = g /\ j # i /\ dir[j] = g
    BY <1>1, <1>3 DEF IInv, RunnerKeepsItsFiles
  <2>2. slots[i].gen # g
    BY <1>1, <2>1 DEF LifeInv, IdentInv
  <2>3. slots[j].gen = g
    BY <1>1, <2>1, <2>2 DEF IInv, TrackInv
  <2> QED BY <2>1, <2>3
<1>4. ASSUME NEW j \in SlotID, slots'[j].gen = g PROVE slots'[j].pending
  <2>1. Kept(j)
    <3>1. ~Freed(j)
      BY <1>1, <1>4, FreedFacts
    <3>2. ~Reserved(j)
      <4>1. Reserved(j) => g = lastGen + 1
        BY <1>4 DEF Reserved
      <4> QED BY <1>1, <4>1
    <3>3. ASSUME Adopted(j) PROVE FALSE
      <4>1. pc = "adopt" /\ dir[j] = g /\ slots[i].gen = g
        BY <1>1, <1>4, <3>3 DEF Adopted
      <4>2. j = i
        BY <1>1, <4>1 DEF LifeInv, IdentInv
      <4>3. PICK e \in todo : e.id = i
        BY <3>3, <4>2 DEF Adopted
      <4>4. slots[i].state = "none"
        BY <4>1, <4>3 DEF IInv, AdoptInv
      <4> QED BY <1>1, <4>1, <4>4, SlotFacts DEF IInv
    <3> QED BY <3>1, <3>2, <3>3 DEF LifeOK, RecordsStep
  <2>2. j = i
    BY <1>4, <2>1 DEF Kept
  <2> QED BY <1>4, <2>1, <2>2 DEF Kept
<1> QED BY <1>2, <1>3, <1>4 DEF Over

(* The completions: only runners that ended are handed over.                *)
LEMMA CompletedOver ==
  ASSUME IInv, IInv', LifeInv, LifeOK, EndInv, NEW g \in completed', g \notin relisted
  PROVE  Over(g)'
<1>1. g \in Gen /\ g # 0
  BY GenFacts DEF IInv, TypeOK
<1>2. CASE g \in completed
  BY <1>1, <1>2, OverStays DEF EndInv
<1>3. CASE g \notin completed
  <2>1. PICK i \in SlotID : /\ slots[i].gen = g /\ slots'[i].gen = g
                            /\ ~slots[i].pending /\ slots'[i].pending
                            /\ unit[i] = 0 /\ UNCHANGED unit
    BY <1>3 DEF LifeOK, CompletionStep
  <2>2. g <= lastGen /\ \A j \in SlotID : slots[j].gen = g => j = i
    BY <1>1, <2>1 DEF IInv, GenInv, LifeInv, IdentInv
  <2>3. daemon # "down"
    BY <1>1, <2>1, SlotFacts DEF IInv, DownInv
  <2>4. i \in SlotID /\ slots[i].gen = g /\ slots'[i].pending /\ unit[i] = 0 /\ unit' = unit
    BY <2>1
  <2> QED BY <1>1, <2>2, <2>3, <2>4, OverNow
<1> QED BY <1>2, <1>3

(* The stops: the runner is gone when its stop is reported.                 *)
LEMMA StoppedOver ==
  ASSUME IInv, IInv', LifeInv, LifeInv', LifeOK, EndInv, NEW g \in Gen \ relisted,
         <<g, "stopped">> \in reports'
  PROVE  Over(g)' /\ \A i \in SlotID : slots'[i].gen = g => slots'[i].event # "exited"
<1>1. g # 0
  BY GenFacts
<1>2. CASE <<g, "stopped">> \in reports
  <2>1. Over(g) /\ \A i \in SlotID : slots[i].gen = g => slots[i].event # "exited"
    BY <1>2 DEF EndInv
  <2>2. Over(g)'
    BY <1>2, <2>1, OverStays DEF EndInv
  <2>3. ASSUME NEW i \in SlotID, slots'[i].gen = g PROVE slots'[i].event # "exited"
    <3>1. Kept(i) => slots[i].gen = g /\ slots[i].pending /\ slots'[i].event = slots[i].event
      BY <2>1, <2>3 DEF Kept, Over
    <3>2. Kept(i) \/ Freed(i) \/ slots'[i].event = ""
      BY DEF LifeOK, RecordsStep, Reserved, Adopted
    <3> QED BY <2>1, <3>1, <3>2, FreedFacts
  <2> QED BY <2>2, <2>3
<1>3. CASE <<g, "stopped">> \notin reports
  <2>1. PICK v \in todo \ todo' : /\ pc = "stopping" /\ v.gen = g
                                  /\ unit[v.id] = 0 /\ UNCHANGED unit
                                  /\ Holds(v) => slots'[v.id].pending /\ slots'[v.id].gen = g
    BY <1>3 DEF LifeOK, StoppedStep
  <2>2. v.id \in SlotID /\ daemon # "down"
    BY <2>1 DEF IInv, TypeOK, Ref, DownInv
  <2>3. /\ slots[v.id].gen \in {0, g} /\ g <= lastGen
        /\ \A i \in SlotID : slots[i].gen = g => i = v.id /\ slots[i].state = "stopping"
    BY <2>1 DEF LifeInv, StopInv, Stops
  <2>4. Over(g)'
    BY <2>1, <2>2, <2>3, OverNow DEF Holds
  <2>5. ASSUME NEW i \in SlotID, slots'[i].gen = g PROVE slots'[i].event # "exited"
    <3>1. Kept(i) => slots'[i].event = slots[i].event /\ slots[i].event # "exited"
      BY <2>1, <2>3, <2>5 DEF Kept, EndInv, Stops, Holds
    <3>2. Kept(i) \/ Freed(i) \/ slots'[i].event = ""
      BY DEF LifeOK, RecordsStep, Reserved, Adopted
    <3> QED BY <3>1, <3>2, FreedFacts
  <2> QED BY <2>4, <2>5
<1> QED BY <1>2, <1>3

(* The exits: nothing is left of the runner when its exit is reported.      *)
LEMMA ExitedGone ==
  ASSUME IInv, IInv', LifeInv, LifeOK, EndInv, NEW g \in Gen, <<g, "exited">> \in reports'
  PROVE  g <= lastGen' /\ \A i \in SlotID : slots'[i].gen # g /\ dir'[i] # g
<1>1. g # 0 /\ g \in Nat /\ lastGen \in Nat /\ lastGen' \in Nat
  BY GenFacts, SlotTableAssumption DEF IInv, TypeOK, Gen
<1>2. /\ g <= lastGen
      /\ \A i \in SlotID : \/ slots[i].gen # g
                           \/ Freed(i) /\ slots[i].gen = g /\ dir' = dir
      /\ \A i \in SlotID : dir[i] # g
  <2>1. CASE <<g, "exited">> \in reports
    BY <2>1 DEF EndInv
  <2>2. CASE <<g, "exited">> \notin reports
    <3>1. PICK w \in workers : /\ w.step = "release" /\ w.gen = g
                               /\ Holds(w) /\ slots[w.id].event = "exited"
                               /\ Freed(w.id) /\ UNCHANGED dir
      BY <2>2 DEF LifeOK, ExitedStep
    <3>2. w.id \in SlotID /\ slots[w.id].gen = g /\ dir[w.id] = 0
      BY <3>1 DEF IInv, TypeOK, Worker, Holds, LifeInv, WipedInv
    <3>3. g <= lastGen
      BY <3>2 DEF IInv, GenInv
    <3>4. \A i \in SlotID : i # w.id => slots[i].gen # g /\ dir[i] # g
      BY <1>1, <3>2 DEF LifeInv, IdentInv
    <3> QED BY <1>1, <3>1, <3>2, <3>3, <3>4
  <2> QED BY <2>1, <2>2
<1>3. ASSUME NEW i \in SlotID PROVE slots'[i].gen # g
  <2>1. Kept(i) /\ ~Freed(i) => slots'[i].gen # g
    BY <1>2 DEF Kept
  <2>2. Freed(i) => slots'[i].gen # g
    BY <1>1, FreedFacts
  <2>3. Reserved(i) => slots'[i].gen # g
    <3>1. Reserved(i) => slots'[i].gen = lastGen + 1
      BY DEF Reserved
    <3> QED BY <1>1, <1>2, <3>1
  <2>4. Adopted(i) => slots'[i].gen # g
    BY <1>2 DEF Adopted
  <2> QED BY <2>1, <2>2, <2>3, <2>4 DEF LifeOK, RecordsStep
<1>4. ASSUME NEW i \in SlotID PROVE dir'[i] # g
  <2>1. dir'[i] = dir[i] \/ dir'[i] = 0 \/ (dir'[i] = slots[i].gen /\ slots' = slots)
    BY DEF LifeOK, HostStep
  <2> QED BY <1>1, <1>2, <1>3, <2>1
<1> QED BY <1>1, <1>2, <1>3, <1>4 DEF LifeOK

(* What boot adoption takes for running is not over, or it was relisted.    *)
LEMMA ListedAlive ==
  ASSUME IInv, IInv', LifeInv, LifeOK, EndInv, relisted \subseteq relisted', pc' = "adopt",
         NEW e \in todo', e.id \in listed', e.gen \notin relisted'
  PROVE  e.gen \notin completed' /\ <<e.gen, "stopped">> \notin reports'
<1>1. e.id \in SlotID /\ e.gen \in Gen /\ e.gen # 0
  BY GenFacts DEF IInv, TypeOK, Ref
<1>2. CASE pc = "adopt" /\ todo' \subseteq todo /\ UNCHANGED listed
  <2>1. /\ e.gen \notin completed /\ <<e.gen, "stopped">> \notin reports
        /\ slots[e.id].state = "none" /\ dir[e.id] = e.gen
    BY <1>2 DEF EndInv, IInv, AdoptInv
  <2>2. slots[e.id].gen = 0
    BY <1>1, <2>1, SlotFacts DEF IInv
  <2>3. \A i \in SlotID : slots[i].gen # e.gen
    BY <1>1, <2>1, <2>2 DEF LifeInv, IdentInv
  <2>4. e.gen \notin completed'
    BY <2>1, <2>3 DEF LifeOK, CompletionStep
  <2>5. <<e.gen, "stopped">> \notin reports'
    BY <1>1, <1>2, <2>1 DEF LifeOK, StoppedStep
  <2> QED BY <2>4, <2>5
<1>3. CASE /\ UNCHANGED <<unit, dir, reports, completed>>
           /\ \A f \in todo' :
                 /\ f.gen = dir[f.id]
                 /\ f.id \in listed' => unit[f.id] # 0 \/ f.gen \in relisted'
  <2>1. unit[e.id] = e.gen
    BY <1>1, <1>3 DEF IInv, RunnerKeepsItsFiles
  <2>2. ~Over(e.gen)
    BY <1>1, <2>1 DEF Over
  <2> QED BY <1>1, <1>3, <2>2 DEF EndInv
<1> QED BY <1>2, <1>3 DEF LifeOK, TodoStep

(* What the stop loop holds has not exited on its own.                      *)
LEMMA StopsUnreported ==
  ASSUME IInv, IInv', LifeInv, LifeInv', LifeOK, EndInv, pc' \in Stops, NEW v \in todo'
  PROVE  /\ <<v.gen, "exited">> \notin reports'
         /\ slots'[v.id].gen = v.gen => slots'[v.id].event # "exited"
<1>1. v.id \in SlotID /\ v.gen \in Gen /\ v.gen # 0
  BY GenFacts DEF IInv, TypeOK, Ref
<1>2. CASE pc \in Stops /\ todo' \subseteq todo
  <2>1. /\ <<v.gen, "exited">> \notin reports
        /\ slots[v.id].gen = v.gen => slots[v.id].event # "exited"
        /\ \A i \in SlotID : slots[i].gen = v.gen => i = v.id /\ slots[i].state = "stopping"
    BY <1>2 DEF EndInv, Holds, LifeInv, StopInv
  <2>2. <<v.gen, "exited">> \notin reports'
    <3> SUFFICES ASSUME <<v.gen, "exited">> \in reports' PROVE FALSE
      OBVIOUS
    <3>1. PICK w \in workers : w.gen = v.gen /\ Holds(w) /\ slots[w.id].event = "exited"
      BY <1>1, <2>1 DEF LifeOK, ExitedStep
    <3>2. w.id \in SlotID /\ slots[w.id].gen = v.gen
      BY <3>1 DEF IInv, TypeOK, Worker, Holds
    <3> QED BY <2>1, <3>1, <3>2
  <2>3. ASSUME slots'[v.id].gen = v.gen PROVE slots'[v.id].event # "exited"
    <3>1. Kept(v.id) \/ Freed(v.id) \/ slots'[v.id].event = ""
      BY <1>1 DEF LifeOK, RecordsStep, Reserved, Adopted
    <3>2. ~Freed(v.id)
      BY <1>1, <2>3, FreedFacts
    <3> QED BY <1>1, <2>1, <2>3, <3>1, <3>2 DEF Kept
  <2> QED BY <2>2, <2>3
<1>3. CASE /\ UNCHANGED <<claims, reports>>
           /\ \A u \in todo' :
                 /\ slots[u.id].gen = u.gen /\ slots[u.id].state = "idle"
                 /\ slots'[u.id].state = "stopping" /\ ~slots'[u.id].pending
  <2>1. <<v.gen, "exited">> \notin reports'
    BY <1>1, <1>3 DEF EndInv
  <2>2. slots'[v.id].event # "exited"
    BY <1>1, <1>3 DEF LifeInv, EventInv
  <2> QED BY <2>1, <2>2
<1> QED BY <1>2, <1>3 DEF LifeOK, TodoStep

LEMMA EndInvOK ==
  IInv /\ IInv' /\ LifeInv /\ LifeInv' /\ LifeOK /\ EndInv /\ relisted \subseteq relisted'
    => EndInv'
<1> SUFFICES ASSUME IInv, IInv', LifeInv, LifeInv', LifeOK, EndInv,
                    relisted \subseteq relisted'
             PROVE  EndInv'
  OBVIOUS
<1>1. \A g \in completed' \ relisted' : Over(g)'
  BY CompletedOver
<1>2. \A g \in Gen \ relisted' : <<g, "stopped">> \in reports' =>
        Over(g)' /\ \A i \in SlotID : slots'[i].gen = g => slots'[i].event # "exited"
  BY StoppedOver
<1>3. \A g \in Gen : <<g, "exited">> \in reports' =>
        g <= lastGen' /\ \A i \in SlotID : slots'[i].gen # g /\ dir'[i] # g
  BY ExitedGone
<1>4. pc' = "adopt" =>
        \A e \in todo' : e.id \in listed' /\ e.gen \notin relisted' =>
            e.gen \notin completed' /\ <<e.gen, "stopped">> \notin reports'
  BY ListedAlive
<1>5. pc' \in Stops =>
        \A v \in todo' : /\ <<v.gen, "exited">> \notin reports'
                         /\ slots'[v.id].gen = v.gen => slots'[v.id].event # "exited"
  BY StopsUnreported
<1> QED BY <1>1, <1>2, <1>3, <1>4, <1>5 DEF EndInv, Over, Holds

(* The reports of a runner's end exclude each other: a wipe that reports the *)
(* exit has a record the stop loop never held, and the other way round.      *)
LEMMA OneEndOK ==
  IInv /\ LifeInv /\ LifeOK /\ EndInv /\ relisted \subseteq relisted' /\ OneEndReported
    => OneEndReported'
<1> SUFFICES ASSUME IInv, LifeInv, LifeOK, EndInv, OneEndReported, NEW g \in Gen \ relisted,
                    <<g, "exited">> \in reports', <<g, "stopped">> \in reports'
             PROVE  FALSE
  BY DEF OneEndReported
<1>1. CASE <<g, "exited">> \in reports /\ <<g, "stopped">> \in reports
  BY <1>1 DEF OneEndReported
<1>2. CASE <<g, "exited">> \notin reports
  <2>1. PICK w \in workers : w.gen = g /\ Holds(w) /\ slots[w.id].event = "exited"
    BY <1>2 DEF LifeOK, ExitedStep
  <2>2. w.id \in SlotID /\ slots[w.id].gen = g
    BY <2>1 DEF IInv, TypeOK, Worker, Holds
  <2>3. <<g, "stopped">> \notin reports
    BY <2>1, <2>2 DEF EndInv
  <2>4. PICK v \in todo \ todo' : pc = "stopping" /\ v.gen = g
    BY <2>3 DEF LifeOK, StoppedStep
  <2>5. w.id = v.id
    BY <2>2, <2>4 DEF LifeInv, StopInv, Stops
  <2> QED BY <2>1, <2>2, <2>4, <2>5 DEF EndInv, Stops, Holds
<1>3. CASE <<g, "exited">> \in reports /\ <<g, "stopped">> \notin reports
  <2>1. PICK v \in todo \ todo' : pc = "stopping" /\ v.gen = g
    BY <1>3 DEF LifeOK, StoppedStep
  <2> QED BY <1>3, <2>1 DEF EndInv, Stops
<1> QED BY <1>1, <1>2, <1>3

-----------------------------------------------------------------------------
(* The theorems *)

LEMMA LifeInvInit == Init => LifeInv /\ EndInv /\ OneEndReported
<1> SUFFICES ASSUME Init PROVE LifeInv /\ EndInv /\ OneEndReported
  OBVIOUS
<1>1. /\ \A i \in SlotID : slots[i] = NoRec /\ dir[i] = 0
      /\ \A g \in Gen : claims[g] = "none"
      /\ pc = "idle" /\ workers = {} /\ completed = {} /\ reports = {}
  BY DEF Init
<1>2. NoRec.event = ""
  BY DEF NoRec, NewRec
<1> QED BY <1>1, <1>2, NoRecFacts
        DEF LifeInv, IdentInv, ClaimInv, StopInv, WipedInv, EventInv, EndInv, OneEndReported, Stops

LEMMA LifeInvOK == IInv /\ LifeInv /\ [Next]_vars => LifeInv'
<1> SUFFICES ASSUME IInv, LifeInv, [Next]_vars PROVE LifeInv'
  OBVIOUS
<1>1. IInv' /\ LifeOK
  BY NextOK, NextLife
<1> QED BY <1>1, IdentOK, ClaimInvOK, StopInvOK, WipedInvOK, EventInvOK DEF LifeInv

LEMMA LifeInvariance == Spec => [](IInv /\ LifeInv)
<1>1. Init => IInv /\ LifeInv
  BY InitOK, LifeInvInit
<1>2. (IInv /\ LifeInv) /\ [Next]_vars => (IInv /\ LifeInv)'
  BY NextOK, LifeInvOK
<1> QED BY <1>1, <1>2, PTL DEF Spec

(* Nothing that was relisted is forgotten: only Boot writes the set.        *)
LEMMA RelistedGrows == [Next]_vars => relisted \subseteq relisted'
<1> SUFFICES ASSUME [Next]_vars PROVE relisted \subseteq relisted'
  OBVIOUS
<1>1. CASE UNCHANGED vars
  BY <1>1 DEF vars
<1>2. CASE EnsureBegin \/ RetryDone \/ EnsureCheck \/ \E v \in todo : RetryCleanup(v)
  BY <1>2 DEF EnsureBegin, RetryDone, EnsureCheck, RetryCleanup
<1>3. CASE StartStep
  BY <1>3 DEF StartStep, StartRefused, MakeDir, MakeDirFails, Provision, StartFails, Launch,
              StartOk, StartUncertain, Reserve
<1>4. CASE StopStep
  BY <1>4 DEF StopStep, StopCall, StopSurplus, StopOk, StopErr
<1>5. CASE Boot
  BY <1>5 DEF Boot
<1>6. CASE AdoptStep
  BY <1>6 DEF AdoptStep, AdoptDirsDone, AdoptUnitsDone, AdoptRunning, AdoptOrphan
<1>7. CASE \E w \in watchers : WatcherStep(w)
  BY <1>7 DEF WatcherStep
<1>8. CASE \E w \in workers : WorkerStep(w)
  BY <1>8 DEF WorkerStep
<1>9. CASE \E i \in SlotID : Claim(i) \/ RunnerExit(i) \/ AssignJob(i)
  BY <1>9 DEF Claim, RunnerExit, AssignJob
<1>10. CASE BeginShutdown \/ Close \/ Crash
  BY <1>10 DEF BeginShutdown, Close, Crash, Down
<1> QED BY <1>1, <1>2, <1>3, <1>4, <1>5, <1>6, <1>7, <1>8, <1>9, <1>10 DEF Next, Reconciler

LEMMA EndInvariance == Spec => [](IInv /\ LifeInv /\ EndInv /\ OneEndReported)
<1>1. Init => IInv /\ LifeInv /\ EndInv /\ OneEndReported
  BY InitOK, LifeInvInit
<1>2. (IInv /\ LifeInv /\ EndInv /\ OneEndReported) /\ [Next]_vars
        => (IInv /\ LifeInv /\ EndInv /\ OneEndReported)'
  BY NextOK, NextLife, LifeInvOK, RelistedGrows, EndInvOK, OneEndOK
<1> QED BY <1>1, <1>2, PTL DEF Spec

(* backend.Stop is called only for a record that no claim has made busy, in *)
(* this life of the daemon or an earlier one, and the unit it names is the  *)
(* runner of that record or already gone.                                   *)
THEOREM StopsSpareClaimed == Spec => StopSparesClaimed
<1> DEFINE Spares == \A v \in todo : (pc = "stop" /\ pc' = "stopping" /\ Oldest(v)) =>
                        /\ claims[v.gen] # "marked"
                        /\ unit[v.id] \in {0, v.gen}
<1>1. IInv /\ LifeInv => Spares
  <2> SUFFICES ASSUME IInv, LifeInv, pc = "stop", NEW v \in todo
               PROVE  claims[v.gen] # "marked" /\ unit[v.id] \in {0, v.gen}
    OBVIOUS
  <2>1. v.id \in SlotID /\ daemon # "down"
    BY DEF IInv, TypeOK, Ref, DownInv
  <2>2. claims[v.gen] # "marked" /\ slots[v.id].gen \in {0, v.gen}
    BY DEF LifeInv, StopInv, Stops
  <2>3. unit[v.id] # 0 => slots[v.id].gen = unit[v.id]
    BY <2>1 DEF IInv, TrackInv
  <2> QED BY <2>2, <2>3
<1>2. (IInv /\ LifeInv) /\ [Next]_vars => [Spares]_vars
  BY <1>1
<1> QED BY <1>2, LifeInvariance, PTL DEF Spec, StopSparesClaimed

(* Nobody hears of one runner both that it exited and that it was stopped,  *)
(* however the watcher, the stop loop, the wipe and a crash with the        *)
(* adoption after it meet, unless the runner had ended when a boot found    *)
(* its unit listed.                                                         *)
THEOREM OneEndIsReported == Spec => []OneEndReported
  BY EndInvariance, PTL

(* The job of a runner is handed to the usage history again only if that    *)
(* runner had ended when a boot found its unit listed.                      *)
THEOREM JobsCompleteOnce == Spec => OneCompletionPerRunner
<1> DEFINE Once == \A i \in SlotID : (slots'[i].sent /\ ~slots[i].sent) =>
                      slots'[i].gen \notin completed \ relisted
<1>1. IInv /\ LifeInv /\ EndInv /\ [Next]_vars => Once
  <2> SUFFICES ASSUME IInv, LifeInv, EndInv, [Next]_vars, NEW i \in SlotID,
                      slots'[i].sent, ~slots[i].sent
               PROVE  slots'[i].gen \notin completed \ relisted
    OBVIOUS
  <2>1. LifeOK
    BY NextLife
  <2>2. Kept(i)
    BY <2>1, FreedFacts DEF LifeOK, RecordsStep, Reserved, Adopted
  <2>3. ~slots[i].pending /\ slots'[i].gen = slots[i].gen
    BY <2>2 DEF Kept
  <2> QED BY <2>3 DEF EndInv, Over
<1>2. (IInv /\ LifeInv /\ EndInv) /\ [Next]_vars => [Once]_vars
  BY <1>1
<1> QED BY <1>2, EndInvariance, PTL DEF Spec, OneCompletionPerRunner
=============================================================================
