---------------------------- MODULE LogshipProofs -----------------------------
(***************************************************************************)
(* Proofs about Logship: its types with the exclusion that diagSem gives,  *)
(* and what an observer of the log directory may find.                     *)
(***************************************************************************)
EXTENDS Logship, FoldProofs

(* Only a Prune in progress has archives to look at, and a victim, which it *)
(* will not look at again.                                                  *)
VictimInv ==
    /\ todo # {} \/ victim # None => \E w \in Worker : pc[w] \in {"prune", "pruneAgain"}
    /\ victim # None => victim.id \in touched \ todo

(* The archive in the making is the last one, out of sight *)
StagingInv ==
    \A w \in Worker :
        /\ pc[w] \in {"copy", "publish"} => ships \in Archive /\ dirs[ships].at = "staging"
        /\ pc[w] = "publish" => dirs[ships].files = dirs[ships].want /\ dirs[ships].marker

(* Where a wipe holds diagSem *)
Holding == {"before", "prune", "ship", "copy", "publish", "after", "pruneAgain", "kept", "failed"}

IInv == TypeOK /\ VictimInv /\ StagingInv /\ PublishedIsWhole /\ NothingStranded

LEMMA Bounds ==
    /\ MaxAge \in Nat /\ MaxBytes \in Nat
    /\ MaxTime \in Nat /\ MaxFiles \in Nat /\ MaxShips \in Nat /\ MaxCrashes \in Nat
BY LogshipAssumption

-----------------------------------------------------------------------------
(* Types *)

LEMMA NoDirTyped ==
    NoDir \in [at : {"none", "staging", "published"}, files : 0..MaxFiles,
               want : 0..MaxFiles, marker : BOOLEAN, born : 0..MaxTime]
BY Bounds DEF NoDir

LEMMA InitTyped == Init => TypeOK
<1> SUFFICES ASSUME Init PROVE TypeOK
    OBVIOUS
<1>1. HostTypeOK
  BY Bounds, NoDirTyped DEF Init, HostTypeOK
<1>2. PruneTypeOK
  BY Bounds DEF Init, PruneTypeOK
<1>3. WipeTypeOK
  BY DEF Init, WipeTypeOK
<1> QED
  BY <1>1, <1>2, <1>3 DEF TypeOK

LEMMA HostTyped == ASSUME TypeOK, VictimInv, StagingInv, [Next]_vars PROVE HostTypeOK'
<1> USE Bounds, NoDirTyped DEF TypeOK, HostTypeOK
<1>1. ASSUME NEW w \in Worker, Stage(w) PROVE HostTypeOK'
  <2>1. PICK diag \in 0..MaxFiles :
            dirs' = [dirs EXCEPT ![ships + 1] = [NoDir EXCEPT !.at = "staging", !.want = diag]]
    BY <1>1 DEF Stage
  <2>2. [NoDir EXCEPT !.at = "staging", !.want = diag] \in
            [at : {"none", "staging", "published"}, files : 0..MaxFiles,
             want : 0..MaxFiles, marker : BOOLEAN, born : 0..MaxTime]
    BY DEF NoDir
  <2>3. dirs' \in [Archive -> [at : {"none", "staging", "published"}, files : 0..MaxFiles,
                               want : 0..MaxFiles, marker : BOOLEAN, born : 0..MaxTime]]
    BY <2>1, <2>2
  <2> QED
    BY <1>1, <2>3 DEF Stage, prune
<1>2. ASSUME NEW w \in Worker, CopyFile(w) PROVE HostTypeOK'
  <2>1. ships \in Archive
    BY <1>2 DEF CopyFile, At, StagingInv
  <2>2. dirs[ships].files + 1 \in 0..MaxFiles
    BY <1>2, <2>1 DEF CopyFile
  <2> QED
    BY <1>2, <2>1, <2>2 DEF CopyFile, prune
<1>3. ASSUME NEW w \in Worker, RemoveFile(w) PROVE HostTypeOK'
  <2>1. victim.id \in Archive
    BY <1>3 DEF RemoveFile, PruneTypeOK, Published
  <2>2. dirs[victim.id].files - 1 \in 0..MaxFiles
    BY <1>3, <2>1 DEF RemoveFile
  <2> QED
    BY <1>3, <2>1, <2>2 DEF RemoveFile, prune
<1>4. ASSUME NEW w \in Worker, RemoveMarker(w) \/ RemoveDir(w) PROVE HostTypeOK'
  <2>1. victim.id \in Archive
    BY <1>4 DEF RemoveMarker, RemoveDir, PruneTypeOK, Published
  <2> QED
    <3>1. CASE RemoveMarker(w)
      BY <3>1, <2>1 DEF RemoveMarker, prune
    <3>2. CASE RemoveDir(w)
      BY <3>2, <2>1 DEF RemoveDir
    <3> QED
      BY <1>4, <3>1, <3>2
<1>5. ASSUME NEW w \in Worker, Mark(w) \/ Publish(w) PROVE HostTypeOK'
  <2>1. CASE Mark(w)
    BY <2>1 DEF Mark, prune
  <2>2. CASE Publish(w)
    BY <2>2 DEF Publish, prune
  <2> QED
    BY <1>5, <2>1, <2>2
<1>6. ASSUME NEW w \in Worker, ShipFails(w) PROVE HostTypeOK'
  BY <1>6 DEF ShipFails, prune
<1>7. ASSUME Tick \/ Crash PROVE HostTypeOK'
  BY <1>7 DEF Tick, Crash, prune
<1>8. ASSUME UNCHANGED <<now, dirs, ships, crashes>> PROVE HostTypeOK'
  BY <1>8
<1> QED
  BY <1>1, <1>2, <1>3, <1>4, <1>5, <1>6, <1>7, <1>8
     DEF Next, Step, vars, prune, Call, Deadline, Acquire, GiveUp, Return, Inventory, Keep, Remove,
         RemoveDirFails, Pruned, PruneFails, NothingToShip

LEMMA WipeTyped == ASSUME TypeOK, [Next]_vars PROVE WipeTypeOK'
<1> USE DEF TypeOK, WipeTypeOK
<1>1. ASSUME NEW w \in Worker, Call(w) \/ GiveUp(w) \/ Deadline(w) PROVE WipeTypeOK'
  BY <1>1 DEF Call, GiveUp, Deadline, At, Goes
<1>2. ASSUME NEW w \in Worker, Acquire(w) PROVE WipeTypeOK'
  BY <1>2 DEF Acquire, At, Goes
<1>3. ASSUME NEW w \in Worker, Return(w) PROVE WipeTypeOK'
  BY <1>3 DEF Return, Released, Goes
<1>4. ASSUME NEW w \in Worker, NEW there \in Holding, pc[w] \in Holding, Goes(w, there),
             UNCHANGED <<late, sem>>
      PROVE WipeTypeOK'
  BY <1>4 DEF Goes, Holding
<1>5. ASSUME UNCHANGED <<pc, late, sem>> PROVE WipeTypeOK'
  BY <1>5
<1>6. ASSUME Crash PROVE WipeTypeOK'
  BY <1>6 DEF Crash
<1>7. ASSUME NEW w \in Worker, Inventory(w) \/ Pruned(w) \/ PruneFails(w) \/ RemoveDirFails(w)
      PROVE WipeTypeOK'
  <2>1. pc[w] \in Holding /\ UNCHANGED <<late, sem>>
    BY <1>7 DEF Inventory, Pruned, PruneFails, RemoveDirFails, Pruning, Holding, prune
  <2>2. \E there \in Holding : Goes(w, there)
    BY <1>7 DEF Inventory, Pruned, PruneFails, RemoveDirFails, Holding
  <2> QED
    BY <2>1, <2>2, <1>4
<1>8. ASSUME NEW w \in Worker, NothingToShip(w) \/ Stage(w) \/ Mark(w) \/ Publish(w) \/ ShipFails(w)
      PROVE WipeTypeOK'
  <2>1. pc[w] \in Holding /\ UNCHANGED <<late, sem>>
    BY <1>8 DEF NothingToShip, Stage, Mark, Publish, ShipFails, At, Holding, prune
  <2>2. \E there \in Holding : Goes(w, there)
    BY <1>8 DEF NothingToShip, Stage, Mark, Publish, ShipFails, Holding
  <2> QED
    BY <2>1, <2>2, <1>4
<1> QED
  BY <1>1, <1>2, <1>3, <1>5, <1>6, <1>7, <1>8
     DEF Next, Step, vars, Tick, Keep, Remove, RemoveFile, RemoveMarker, RemoveDir, CopyFile
(* What holds diagSem is alone *)
LEMMA Alone ==
    ASSUME TypeOK, NEW v \in Worker, NEW w \in Worker, pc[v] \in Holding, pc[w] \in Holding
    PROVE  v = w
<1>1. v \in sem /\ w \in sem
  BY DEF TypeOK, WipeTypeOK, Holding
<1> QED
  BY <1>1 DEF TypeOK, WipeTypeOK

(* Nobody but a Prune goes on while there is something to prune *)
LEMMA NothingToPrune ==
    ASSUME TypeOK, VictimInv, NEW w \in Worker, pc[w] \in Holding \ {"prune", "pruneAgain"}
    PROVE  victim = None /\ todo = {}
BY Alone DEF VictimInv, Holding

LEMMA PruneTyped == ASSUME TypeOK, VictimInv, StagingInv, [Next]_vars PROVE PruneTypeOK'
<1> USE Bounds DEF TypeOK, PruneTypeOK
<1>1. ASSUME NEW w \in Worker, Inventory(w) PROVE PruneTypeOK'
  <2>1. victim = None
    BY <1>1, NothingToPrune DEF Inventory, Holding
  <2> QED
    BY <1>1, <2>1 DEF Inventory, Owned, Published, HostTypeOK
<1>2. ASSUME NEW w \in Worker, NEW i \in Archive, Keep(w, i) \/ Remove(w, i) PROVE PruneTypeOK'
  BY <1>2 DEF Keep, Remove, Published
<1>3. ASSUME NEW w \in Worker, RemoveFile(w) \/ RemoveMarker(w) PROVE PruneTypeOK'
  <2>1. Published' = Published
    BY <1>3 DEF RemoveFile, RemoveMarker, Published, HostTypeOK
  <2> QED
    BY <1>3, <2>1 DEF RemoveFile, RemoveMarker, prune
<1>4. ASSUME NEW w \in Worker, RemoveDir(w) PROVE PruneTypeOK'
  <2>1. Published' = Published \ {victim.id}
    BY <1>4 DEF RemoveDir, Published, HostTypeOK, NoDir
  <2>2. victim.id \notin todo
    BY <1>4 DEF RemoveDir, VictimInv
  <2> QED
    BY <1>4, <2>1, <2>2 DEF RemoveDir
<1>5. ASSUME NEW w \in Worker, Stage(w) \/ CopyFile(w) \/ Mark(w) \/ Publish(w) \/ ShipFails(w)
      PROVE PruneTypeOK'
  <2>1. victim = None /\ todo = {}
    BY <1>5, NothingToPrune DEF Stage, CopyFile, Mark, Publish, ShipFails, At, Holding
  <2> QED
    <3>1. CASE ShipFails(w)
      <4>1. w \in Worker /\ (~At(w, "ship") => ships \in Archive)
        BY <3>1 DEF ShipFails, At, StagingInv
      <4> QED
        BY <3>1, <2>1, <4>1 DEF ShipFails, prune
    <3> QED
      BY <1>5, <2>1, <3>1 DEF Stage, CopyFile, Mark, Publish, At, prune, Published
<1>6. ASSUME UNCHANGED <<dirs, todo, touched, stuck, cutoff, victim>> PROVE PruneTypeOK'
  BY <1>6 DEF Published
<1>7. ASSUME NEW w \in Worker, Return(w) \/ PruneFails(w) PROVE PruneTypeOK'
  BY <1>7 DEF Return, PruneFails, Published
<1>8. ASSUME Crash PROVE PruneTypeOK'
  BY <1>8 DEF Crash, Published
<1>9. ASSUME NEW w \in Worker, RemoveDirFails(w) PROVE PruneTypeOK'
  BY <1>9 DEF RemoveDirFails, Published
<1> QED
  BY <1>1, <1>2, <1>3, <1>4, <1>5, <1>6, <1>7, <1>8, <1>9
     DEF Next, Step, vars, prune, Tick, Call, Deadline, Acquire, GiveUp, Pruned, NothingToShip

-----------------------------------------------------------------------------
(* What a Prune holds, and what is in the making *)

LEMMA VictimStep == ASSUME TypeOK, VictimInv, [Next]_vars PROVE VictimInv'
<1> USE DEF TypeOK, WipeTypeOK, VictimInv
<1>1. ASSUME NEW w \in Worker, Inventory(w) PROVE VictimInv'
  BY <1>1, NothingToPrune DEF Inventory, Goes, Holding
<1>2. ASSUME NEW w \in Worker, NEW i \in Archive, Keep(w, i) \/ Remove(w, i) PROVE VictimInv'
  BY <1>2 DEF Keep, Remove, Pruning, None
<1>3. ASSUME NEW w \in Worker, RemoveFile(w) \/ RemoveMarker(w) PROVE VictimInv'
  BY <1>3 DEF RemoveFile, RemoveMarker, prune
<1>4. ASSUME NEW w \in Worker, RemoveDir(w) PROVE VictimInv'
  BY <1>4 DEF RemoveDir
<1>5. ASSUME NEW w \in Worker, Pruned(w) \/ PruneFails(w) \/ RemoveDirFails(w) PROVE VictimInv'
  BY <1>5 DEF Pruned, PruneFails, RemoveDirFails, Pruning, prune
<1>6. ASSUME NEW w \in Worker, Stage(w) \/ Mark(w) \/ Publish(w) \/ ShipFails(w) \/ NothingToShip(w)
                                  \/ Return(w)
      PROVE VictimInv'
  <2>1. victim = None /\ todo = {}
    BY <1>6, NothingToPrune
       DEF Stage, Mark, Publish, ShipFails, NothingToShip, Return, At, Holding
  <2>2. UNCHANGED <<todo, victim>>
    BY <1>6 DEF Stage, Mark, Publish, ShipFails, NothingToShip, Return, prune
  <2> QED
    BY <2>1, <2>2
<1>7. ASSUME NEW w \in Worker, Call(w) \/ Acquire(w) \/ GiveUp(w) PROVE VictimInv'
  BY <1>7 DEF Call, Acquire, GiveUp, At, Goes, prune
<1>8. ASSUME UNCHANGED <<pc, prune>> PROVE VictimInv'
  BY <1>8 DEF prune
<1>9. ASSUME Crash PROVE VictimInv'
  BY <1>9 DEF Crash
<1> QED
  BY <1>1, <1>2, <1>3, <1>4, <1>5, <1>6, <1>7, <1>8, <1>9
     DEF Next, Step, vars, Tick, Deadline, CopyFile

LEMMA StagingStep == ASSUME TypeOK, VictimInv, StagingInv, [Next]_vars PROVE StagingInv'
<1> USE Bounds DEF TypeOK, WipeTypeOK, HostTypeOK, StagingInv
<1>1. ASSUME NEW w \in Worker, Stage(w) PROVE StagingInv'
  <2>1. ships' \in Archive /\ dirs'[ships'].at = "staging"
    BY <1>1 DEF Stage, Archive, NoDir
  <2>2. \A v \in Worker : v # w => pc[v] \notin {"copy", "publish"}
    BY <1>1, Alone DEF Stage, At, Holding
  <2> QED
    BY <1>1, <2>1, <2>2 DEF Stage, Goes
<1>2. ASSUME NEW w \in Worker, CopyFile(w) PROVE StagingInv'
  <2>1. \A v \in Worker : pc[v] # "publish"
    BY <1>2, Alone DEF CopyFile, At, Holding
  <2> QED
    BY <1>2, <2>1 DEF CopyFile
<1>3. ASSUME NEW w \in Worker, Mark(w) PROVE StagingInv'
  <2>1. \A v \in Worker : v # w => pc[v] \notin {"copy", "publish"}
    BY <1>3, Alone DEF Mark, At, Holding
  <2> QED
    BY <1>3, <2>1 DEF Mark, At, Goes, Complete
<1>4. ASSUME NEW w \in Worker, Publish(w) \/ ShipFails(w) PROVE StagingInv'
  <2>1. \A v \in Worker : v # w => pc[v] \notin {"copy", "publish"}
    BY <1>4, Alone DEF Publish, ShipFails, At, Holding
  <2>2. \A v \in Worker : pc'[v] \notin {"copy", "publish"}
    BY <1>4, <2>1 DEF Publish, ShipFails, Goes
  <2> QED
    BY <2>2
<1>5. ASSUME NEW w \in Worker, RemoveFile(w) \/ RemoveMarker(w) \/ RemoveDir(w) PROVE StagingInv'
  <2>1. \A v \in Worker : pc[v] \notin {"copy", "publish"}
    BY <1>5, NothingToPrune DEF RemoveFile, RemoveMarker, RemoveDir, Holding
  <2> QED
    BY <1>5, <2>1 DEF RemoveFile, RemoveMarker, RemoveDir
<1>6. ASSUME NEW w \in Worker, NEW there \in Holding \cup {"out", "wait"}, there \notin {"copy", "publish"}, Goes(w, there),
             UNCHANGED <<dirs, ships>>
      PROVE StagingInv'
  BY <1>6 DEF Goes
<1>7. ASSUME NEW w \in Worker,
             Call(w) \/ Acquire(w) \/ GiveUp(w) \/ Return(w) \/ Inventory(w) \/ Pruned(w)
                \/ PruneFails(w) \/ RemoveDirFails(w) \/ NothingToShip(w)
      PROVE StagingInv'
  <2>1. \E there \in Holding \cup {"out", "wait"} :
            there \notin {"copy", "publish"} /\ Goes(w, there)
    BY <1>7 DEF Call, Acquire, GiveUp, Return, Inventory, Pruned, PruneFails, RemoveDirFails,
                NothingToShip, Holding
  <2>2. UNCHANGED <<dirs, ships>>
    BY <1>7 DEF Call, Acquire, GiveUp, Return, Inventory, Pruned, PruneFails, RemoveDirFails,
                NothingToShip
  <2> QED
    BY <1>6, <2>1, <2>2
<1>8. ASSUME UNCHANGED <<pc, dirs, ships>> PROVE StagingInv'
  BY <1>8
<1>9. ASSUME Crash PROVE StagingInv'
  BY <1>9 DEF Crash
<1> QED
  BY <1>1, <1>2, <1>3, <1>4, <1>5, <1>7, <1>8, <1>9
     DEF Next, Step, vars, prune, Tick, Deadline, Keep, Remove
-----------------------------------------------------------------------------
(* What is visible *)

LEMMA WholeStep ==
    ASSUME TypeOK, VictimInv, StagingInv, PublishedIsWhole, [Next]_vars PROVE PublishedIsWhole'
<1> USE Bounds DEF TypeOK, HostTypeOK, PublishedIsWhole, Published
<1>1. ASSUME NEW w \in Worker, Stage(w) PROVE PublishedIsWhole'
  BY <1>1 DEF Stage, Archive, NoDir, prune
<1>2. ASSUME NEW w \in Worker, CopyFile(w) \/ Mark(w) PROVE PublishedIsWhole'
  BY <1>2 DEF CopyFile, Mark, At, StagingInv, prune
<1>3. ASSUME NEW w \in Worker, Publish(w) PROVE PublishedIsWhole'
  BY <1>3 DEF Publish, At, StagingInv, prune
<1>4. ASSUME NEW w \in Worker, ShipFails(w) PROVE PublishedIsWhole'
  BY <1>4 DEF ShipFails, At, StagingInv, NoDir, prune
<1>5. ASSUME NEW w \in Worker, RemoveFile(w) \/ RemoveMarker(w) PROVE PublishedIsWhole'
  BY <1>5 DEF RemoveFile, RemoveMarker, VictimInv, prune
<1>6. ASSUME NEW w \in Worker, RemoveDir(w) PROVE PublishedIsWhole'
  BY <1>6 DEF RemoveDir, NoDir
<1>7. ASSUME dirs' = dirs, touched \subseteq touched' PROVE PublishedIsWhole'
  BY <1>7
<1> QED
  BY <1>1, <1>2, <1>3, <1>4, <1>5, <1>6, <1>7
     DEF Next, Step, vars, prune, Tick, Crash, Call, Deadline, Acquire, GiveUp, Return, Inventory,
         Keep, Remove, RemoveDirFails, Pruned, PruneFails, NothingToShip

(* No step but a crash strands a directory whose removal has met no error. *)
LEMMA StrandedKept ==
    ASSUME TypeOK, NothingStranded, crashes' = crashes,
           \A i \in Published' \ Owned' : dirs'[i].files = 0,
           Stranded' \ stuck' \subseteq Stranded \ stuck
    PROVE  NothingStranded'
<1>1. Stranded \ stuck \subseteq Archive
  BY DEF Stranded, Published
<1>2. IsFiniteSet(Stranded \ stuck)
  <2>1. IsFiniteSet(Archive)
    BY Bounds, FS_Interval DEF Archive
  <2> QED
    BY <1>1, <2>1, FS_Subset
<1>3. /\ Cardinality(Stranded' \ stuck') <= Cardinality(Stranded \ stuck)
      /\ Cardinality(Stranded' \ stuck') \in Nat /\ Cardinality(Stranded \ stuck) \in Nat
  BY <1>2, FS_Subset, FS_CardinalityType
<1>4. Cardinality(Stranded \ stuck) <= crashes /\ crashes \in Nat
  BY Bounds DEF NothingStranded, TypeOK, HostTypeOK
<1>5. Cardinality(Stranded' \ stuck') <= crashes'
  BY <1>3, <1>4
<1> QED
  BY <1>5 DEF NothingStranded

LEMMA StrandedStep ==
    ASSUME TypeOK, VictimInv, StagingInv, NothingStranded, [Next]_vars PROVE NothingStranded'
<1> USE Bounds DEF TypeOK, HostTypeOK, WipeTypeOK
<1> DEFINE Empty == \A i \in Published \ Owned : dirs[i].files = 0
           Fewer == Stranded' \ stuck' \subseteq Stranded \ stuck
<1>0. Empty
  BY DEF NothingStranded
<1>1. ASSUME NEW w \in Worker, Stage(w) PROVE NothingStranded'
  <2>1. \A v \in Worker : pc[v] \notin {"copy", "publish"}
    BY <1>1, Alone DEF Stage, At, Holding
  <2>2. PICK diag \in 0..MaxFiles :
            dirs' = [dirs EXCEPT ![ships + 1] = [NoDir EXCEPT !.at = "staging", !.want = diag]]
    BY <1>1 DEF Stage
  <2>3. \A i \in Archive : IF i = ships + 1 THEN dirs'[i].at = "staging" ELSE dirs'[i] = dirs[i]
    BY <2>2 DEF NoDir
  <2>4. pc'[w] = "copy" /\ ships' = ships + 1 /\ UNCHANGED <<victim, stuck, crashes>>
    BY <1>1 DEF Stage, Goes, prune
  <2>5. Empty'
    BY <1>0, <2>3 DEF Published, Owned
  <2>6. Fewer
    BY <2>1, <2>3, <2>4 DEF Stranded, Filling, Published, Owned
  <2> QED
    BY <2>4, <2>5, <2>6, StrandedKept
<1>2. ASSUME NEW w \in Worker, CopyFile(w) \/ Mark(w) PROVE NothingStranded'
  <2>1. Empty' /\ UNCHANGED <<ships, victim, stuck, crashes>>
    BY <1>0, <1>2 DEF CopyFile, Mark, At, StagingInv, prune, Published, Owned
  <2>2. pc[w] \in {"copy", "publish"} /\ pc'[w] \in {"copy", "publish"}
    BY <1>2 DEF CopyFile, Mark, At, Goes
  <2>3. \A i \in Archive : /\ dirs'[i].at = dirs[i].at
                           /\ dirs[i].at = "published" => dirs'[i].marker = dirs[i].marker
    BY <1>2, <2>2 DEF CopyFile, Mark, StagingInv
  <2>4. ASSUME NEW i \in Stranded' \ stuck' PROVE i \in Stranded \ stuck
    <3>0. i \in Archive /\ i \notin stuck
      BY <2>1 DEF Stranded, Published
    <3> DEFINE d == dirs[i]
               e == dirs'[i]
    <3>3. e.at = d.at /\ (d.at = "published" => e.marker = d.marker)
      BY <2>3, <3>0
    <3>1. CASE i \in Published' \ Owned' /\ victim'.id # i
      <4>1. i \in Published \ Owned /\ victim.id # i
        BY <2>1, <3>0, <3>1, <3>3 DEF Published, Owned
      <4> QED
        BY <3>0, <4>1 DEF Stranded
    <3>2. CASE i \in Archive \ Filling' /\ dirs'[i].at = "staging"
      <4>1. i # ships
        BY <2>1, <2>2, <3>2 DEF Filling
      <4>2. i \notin Filling /\ dirs[i].at = "staging"
        BY <3>0, <3>2, <3>3, <4>1 DEF Filling
      <4> QED
        BY <3>0, <4>2 DEF Stranded
    <3> QED
      BY <3>1, <3>2 DEF Stranded
  <2>5. Fewer
    BY <2>4
  <2> QED
    BY <2>1, <2>5, StrandedKept
<1>3. ASSUME NEW w \in Worker, Publish(w) PROVE NothingStranded'
  <2>1. /\ ships \in Archive /\ dirs[ships].marker /\ dirs[ships].at = "staging"
        /\ UNCHANGED <<ships, victim, stuck, crashes>>
        /\ dirs' = [dirs EXCEPT ![ships].at = "published", ![ships].born = now]
    BY <1>3 DEF Publish, At, StagingInv, prune
  <2>2. \A i \in Archive : IF i = ships THEN dirs'[i].at = "published" /\ dirs'[i].marker
                                        ELSE dirs'[i] = dirs[i]
    BY <2>1
  <2>3. Empty'
    BY <1>0, <2>2 DEF Published, Owned
  <2>4. Fewer
    BY <2>1, <2>2 DEF Stranded, Filling, Published, Owned
  <2> QED
    BY <2>1, <2>3, <2>4, StrandedKept
<1>4. ASSUME NEW w \in Worker, ShipFails(w) PROVE NothingStranded'
  <2>1. UNCHANGED <<ships, victim, crashes>>
    BY <1>4 DEF ShipFails, prune
  <2>2. \A v \in Worker : v # w => pc[v] \notin {"copy", "publish"}
    BY <1>4, Alone DEF ShipFails, Holding
  <2>3. CASE At(w, "ship")
    <3>1. UNCHANGED <<dirs, stuck>> /\ \A v \in Worker : pc[v] \notin {"copy", "publish"}
      BY <1>4, <2>2, <2>3 DEF ShipFails, At
    <3>2. Empty'
      BY <1>0, <3>1 DEF Published, Owned
    <3>3. Fewer
      BY <2>1, <3>1 DEF Stranded, Filling, Published, Owned
    <3> QED
      BY <2>1, <3>2, <3>3, StrandedKept
  <2>4. CASE ~At(w, "ship")
    <3>1. ships \in Archive /\ dirs[ships].at = "staging"
      BY <1>4, <2>4 DEF ShipFails, At, StagingInv
    <3>2. \/ dirs' = [dirs EXCEPT ![ships] = NoDir] /\ stuck' = stuck
          \/ dirs' = dirs /\ stuck' = stuck \cup {ships}
      BY <1>4, <2>4 DEF ShipFails
    <3>3. /\ \A i \in Archive : i # ships => dirs'[i] = dirs[i]
          /\ dirs'[ships].at # "published" /\ stuck \subseteq stuck'
          /\ dirs'[ships].at = "staging" => ships \in stuck'
      BY <3>1, <3>2 DEF NoDir
    <3>4. Empty'
      BY <1>0, <3>3 DEF Published, Owned
    <3>5. ASSUME NEW i \in Stranded' \ stuck' PROVE i \in Stranded \ stuck
      <4>1. i \in Archive /\ i # ships /\ dirs'[i] = dirs[i] /\ i \notin Filling /\ i \notin stuck
        BY <3>3 DEF Stranded, Published, Filling
      <4> QED
        BY <2>1, <4>1 DEF Stranded, Published, Owned
    <3>6. Fewer
      BY <3>5
    <3> QED
      BY <2>1, <3>4, <3>6, StrandedKept
  <2> QED
    BY <2>3, <2>4
<1>5. ASSUME NEW w \in Worker, RemoveFile(w) \/ RemoveMarker(w) PROVE NothingStranded'
  <2>1. /\ victim # None /\ victim.id \in Published
        /\ UNCHANGED <<ships, pc, victim, stuck, crashes>>
    BY <1>5 DEF RemoveFile, RemoveMarker, prune, PruneTypeOK
  <2>2. /\ \A i \in Archive : i # victim.id => dirs'[i] = dirs[i]
        /\ dirs'[victim.id].at = "published"
        /\ dirs'[victim.id].files = 0 \/ dirs'[victim.id].marker
    BY <1>0, <1>5, <2>1 DEF RemoveFile, RemoveMarker, OnlyMarker, Published, Owned
  <2>3. Empty'
    BY <1>0, <2>2 DEF Published, Owned
  <2>4. Fewer
    BY <2>1, <2>2 DEF Stranded, Filling, Published, Owned
  <2> QED
    BY <2>1, <2>3, <2>4, StrandedKept
<1>6. ASSUME NEW w \in Worker, RemoveDir(w) PROVE NothingStranded'
  <2>1. /\ victim.id \in Published /\ UNCHANGED <<ships, pc, stuck, crashes>>
        /\ dirs' = [dirs EXCEPT ![victim.id] = NoDir]
    BY <1>6 DEF RemoveDir, PruneTypeOK
  <2>2. \A i \in Archive : IF i = victim.id THEN dirs'[i].at = "none" ELSE dirs'[i] = dirs[i]
    BY <2>1 DEF Published, NoDir
  <2>3. Empty'
    BY <1>0, <2>2 DEF Published, Owned
  <2>4. Fewer
    BY <2>1, <2>2 DEF Stranded, Filling, Published, Owned
  <2> QED
    BY <2>1, <2>3, <2>4, StrandedKept
<1>7. ASSUME UNCHANGED <<dirs, ships, stuck, crashes>>,
             \A v \in Worker : pc'[v] \in {"copy", "publish"} <=> pc[v] \in {"copy", "publish"},
             \/ victim' = victim
             \/ victim = None
             \/ dirs[victim.id].marker
      PROVE NothingStranded'
  <2>1. Empty'
    BY <1>0, <1>7 DEF Published, Owned
  <2>2. 0 \notin Archive
    BY DEF Archive
  <2>3. Fewer
    BY <1>7, <2>2 DEF Stranded, Filling, Published, Owned, None
  <2> QED
    BY <1>7, <2>1, <2>3, StrandedKept
<1>8. ASSUME NEW w \in Worker, Inventory(w) \/ Pruned(w) \/ NothingToShip(w) \/ Return(w) \/ Call(w)
                                  \/ Acquire(w) \/ GiveUp(w) \/ PruneFails(w)
      PROVE NothingStranded'
  <2>1. /\ UNCHANGED <<dirs, ships, stuck, crashes>>
        /\ \/ victim' = victim
           \/ victim = None
           \/ dirs[victim.id].marker
    BY <1>8 DEF Inventory, Pruned, NothingToShip, Return, Call, Acquire, GiveUp, PruneFails, prune
  <2>2. /\ pc[w] \notin {"copy", "publish"} /\ pc'[w] \notin {"copy", "publish"}
        /\ \A v \in Worker : v # w => pc'[v] = pc[v]
    BY <1>8 DEF Inventory, Pruned, NothingToShip, Return, Call, Acquire, GiveUp, PruneFails, Pruning,
                At, Goes
  <2> QED
    BY <1>7, <2>1, <2>2
<1>9. ASSUME NEW w \in Worker, RemoveDirFails(w) PROVE NothingStranded'
  <2>1. /\ victim # None /\ victim.id \in Published /\ UNCHANGED <<dirs, ships, crashes>>
        /\ stuck' = stuck \cup {victim.id}
    BY <1>9 DEF RemoveDirFails, PruneTypeOK
  <2>2. /\ w \in sem /\ pc[w] \in Holding /\ \A v \in Worker : v # w => pc'[v] = pc[v]
    BY <1>9 DEF RemoveDirFails, Goes, Holding
  <2>3. pc[w] \notin {"copy", "publish"}
    BY <2>1, <2>2, NothingToPrune DEF Holding
  <2>4. \A v \in Worker : pc[v] \notin {"copy", "publish"}
    BY <2>2, <2>3, Alone DEF Holding
  <2>5. Empty'
    BY <1>0, <2>1 DEF Published, Owned
  <2>6. Fewer
    BY <2>1, <2>4 DEF Stranded, Filling, Published, Owned
  <2> QED
    BY <2>1, <2>5, <2>6, StrandedKept
<1>10. ASSUME NEW w \in Worker, NEW i \in Archive, Keep(w, i) \/ Remove(w, i) PROVE NothingStranded'
  BY <1>7, <1>10 DEF Keep, Remove, Pruning
<1>11. ASSUME Tick \/ (\E w \in Worker : Deadline(w)) \/ UNCHANGED vars PROVE NothingStranded'
  BY <1>7, <1>11 DEF Tick, Deadline, vars, prune
<1>12. ASSUME Crash PROVE NothingStranded'
  <2> DEFINE x == IF victim # None THEN victim.id ELSE ships
  <2>1. /\ UNCHANGED <<dirs, ships, stuck>> /\ crashes' = crashes + 1 /\ victim' = None
    BY <1>12 DEF Crash
  <2>2. Empty'
    BY <1>0, <2>1 DEF Published, Owned
  <2>3. Stranded' \ stuck' \subseteq (Stranded \ stuck) \cup {x}
    <3>1. CASE victim # None
      <4>1. \A v \in Worker : pc[v] \notin {"copy", "publish"}
        BY <3>1, NothingToPrune DEF Holding
      <4> QED
        BY <2>1, <3>1, <4>1 DEF Stranded, Filling, Published, Owned
    <3>2. CASE victim = None
      <4>1. 0 \notin Archive
        BY DEF Archive
      <4> QED
        BY <2>1, <3>2, <4>1 DEF Stranded, Filling, Published, Owned, None
    <3> QED
      BY <3>1, <3>2
  <2> HIDE DEF x
  <2>4. IsFiniteSet(Stranded \ stuck)
    <3>1. Stranded \ stuck \subseteq Archive
      BY DEF Stranded, Published
    <3>2. IsFiniteSet(Archive)
      BY FS_Interval DEF Archive
    <3> QED
      BY <3>1, <3>2, FS_Subset
  <2>5. /\ IsFiniteSet((Stranded \ stuck) \cup {x})
        /\ Cardinality((Stranded \ stuck) \cup {x}) <= Cardinality(Stranded \ stuck) + 1
        /\ Cardinality((Stranded \ stuck) \cup {x}) \in Nat /\ Cardinality(Stranded \ stuck) \in Nat
    <3>1. /\ IsFiniteSet((Stranded \ stuck) \cup {x})
          /\ \/ Cardinality((Stranded \ stuck) \cup {x}) = Cardinality(Stranded \ stuck)
             \/ Cardinality((Stranded \ stuck) \cup {x}) = Cardinality(Stranded \ stuck) + 1
      BY <2>4, FS_AddElement
    <3>2. Cardinality((Stranded \ stuck) \cup {x}) \in Nat /\ Cardinality(Stranded \ stuck) \in Nat
      BY <2>4, <3>1, FS_CardinalityType
    <3> QED
      BY <3>1, <3>2
  <2>6. /\ Cardinality(Stranded' \ stuck') <= Cardinality((Stranded \ stuck) \cup {x})
        /\ Cardinality(Stranded' \ stuck') \in Nat
    BY <2>3, <2>5, FS_Subset, FS_CardinalityType
  <2>7. Cardinality(Stranded \ stuck) <= crashes /\ crashes \in Nat
    BY DEF NothingStranded
  <2>8. Cardinality(Stranded' \ stuck') <= crashes'
    BY <2>1, <2>5, <2>6, <2>7
  <2> QED
    BY <2>2, <2>8 DEF NothingStranded
<1> QED
  BY <1>1, <1>2, <1>3, <1>4, <1>5, <1>6, <1>8, <1>9, <1>10, <1>11, <1>12 DEF Next, Step

-----------------------------------------------------------------------------
(* What a Prune leaves *)

(* The bytes of archives that are as d says *)
Weight(d, T) == SumFunctionOnSet([i \in Archive |-> d[i].files], T)

(* What a Prune counts are the archives it does not remove, and what its    *)
(* victim had at first; those it has let pass are young enough, and once it *)
(* let one pass the bytes are within the budget.                            *)
AccountInv ==
    (\E w \in Worker : pc[w] \in {"prune", "pruneAgain"}) =>
        /\ todo \subseteq Owned /\ victim.bytes \in Nat
        /\ total = Weight(dirs, Owned \ {victim.id}) + victim.bytes
        /\ \A i \in Owned \ (todo \cup {victim.id}) : dirs[i].born >= cutoff /\ total <= MaxBytes

LEMMA WeightFacts ==
    ASSUME TypeOK
    PROVE  /\ \A T \in SUBSET Archive :
                 /\ Weight(dirs, T) \in Nat /\ (T = {} => Weight(dirs, T) = 0)
                 /\ \A i \in T : Weight(dirs, T) = dirs[i].files + Weight(dirs, T \ {i})
           /\ \A T \in SUBSET Archive : \A U \in SUBSET T :
                 (\A i \in T \ U : dirs[i].files = 0) => Weight(dirs, T) = Weight(dirs, U)
<1> DEFINE f == [i \in Archive |-> dirs[i].files]
<1>1. IsFiniteSet(Archive)
  BY Bounds, FS_Interval DEF Archive
<1>2. \A i \in Archive : f[i] = dirs[i].files /\ f[i] \in Nat
  BY DEF TypeOK, HostTypeOK
<1>3. \A T : Weight(dirs, T) = SumFunctionOnSet(f, T)
  BY DEF Weight
<1> HIDE DEF f
<1>4. \A T \in SUBSET Archive : /\ SumFunctionOnSet(f, T) \in Int
                                /\ T = {} => SumFunctionOnSet(f, T) = 0
                                /\ \A i \in T : SumFunctionOnSet(f, T) = f[i] + SumFunctionOnSet(f, T \ {i})
  <2>1. \A i \in Archive : f[i] \in Int
    BY <1>2
  <2> QED BY <1>1, <2>1, SumAdds
<1>5. ASSUME NEW T \in SUBSET Archive PROVE SumFunctionOnSet(f, T) \in Nat
  <2> DEFINE F == {U \in SUBSET Archive : SumFunctionOnSet(f, U) \in Nat}
  <2>1. {} \in F
    BY <1>4
  <2>2. ASSUME NEW U \in SUBSET Archive, U # {}, \A i \in U : U \ {i} \in F PROVE U \in F
    <3>1. PICK i \in U : TRUE
      BY <2>2
    <3>2. SumFunctionOnSet(f, U) = f[i] + SumFunctionOnSet(f, U \ {i})
      BY <1>4, <3>1
    <3>3. SumFunctionOnSet(f, U \ {i}) \in Nat /\ f[i] \in Nat
      BY <1>2, <2>2, <3>1
    <3>4. SumFunctionOnSet(f, U) \in Nat
      BY <3>2, <3>3
    <3> QED BY <3>4
  <2> HIDE DEF F
  <2>3. \A U \in SUBSET Archive : U \in F
    BY <1>1, <2>1, <2>2, SubsetInduction
  <2> QED BY <2>3 DEF F
<1>6. ASSUME NEW T \in SUBSET Archive, NEW U \in SUBSET T, \A i \in T \ U : dirs[i].files = 0
      PROVE  SumFunctionOnSet(f, T) = SumFunctionOnSet(f, U)
  <2>1. IsFiniteSet(T) /\ (\A i \in T : f[i] \in Int) /\ \A i \in T \ U : f[i] = 0
    BY <1>1, <1>2, <1>6, FS_Subset
  <2> QED BY <2>1, SumOfSome
<1> QED BY <1>2, <1>3, <1>4, <1>5, <1>6

(* What a step does to other archives does not change the sum. *)
LEMMA WeightKept ==
    ASSUME TypeOK, NEW T \in SUBSET Archive, \A i \in T : dirs'[i].files = dirs[i].files
    PROVE  Weight(dirs', T) = Weight(dirs, T)
<1> DEFINE f == [i \in Archive |-> dirs[i].files]
           g == [i \in Archive |-> dirs'[i].files]
<1>1. IsFiniteSet(T)
  <2>1. IsFiniteSet(Archive)
    BY Bounds, FS_Interval DEF Archive
  <2> QED BY <2>1, FS_Subset
<1>2. (\A i \in T : f[i] \in Int) /\ \A i \in T : g[i] = f[i]
  BY DEF TypeOK, HostTypeOK
<1>3. Weight(dirs, T) = SumFunctionOnSet(f, T) /\ Weight(dirs', T) = SumFunctionOnSet(g, T)
  BY DEF Weight
<1> HIDE DEF f, g
<1> QED BY <1>1, <1>2, <1>3, SumSame

LEMMA OwnedFacts ==
    /\ Owned \subseteq Published /\ Published \subseteq Archive
    /\ None.id \notin Archive /\ None.bytes = 0 /\ Owned \ {None.id} = Owned
BY Bounds DEF Owned, Published, Archive, None

(* How a step of a Prune changes its account *)
LEMMA AccountMoves ==
    ASSUME TypeOK, AccountInv, NEW w \in Worker, pc[w] \in {"prune", "pruneAgain"},
           NEW X \in SUBSET Archive, X = Owned \ {victim.id},
           Owned' \ {victim'.id} \subseteq X, \A i \in X : dirs'[i] = dirs[i],
           todo' \subseteq Owned', cutoff' = cutoff, victim'.bytes \in Nat,
           total' = Weight(dirs, Owned' \ {victim'.id}) + victim'.bytes, total' <= total,
           \A i \in Owned' \ (todo' \cup {victim'.id}) :
              i \in Owned \ (todo \cup {victim.id}) \/ (dirs[i].born >= cutoff /\ total' <= MaxBytes)
    PROVE  AccountInv'
<1> DEFINE Y == Owned' \ {victim'.id}
<1>1. Weight(dirs', Y) = Weight(dirs, Y) /\ Weight(dirs, Y) \in Nat /\ Y \in SUBSET Archive
  BY WeightKept, WeightFacts
<1>2. /\ total \in Nat /\ total' \in Nat
      /\ \A i \in Owned \ (todo \cup {victim.id}) : dirs[i].born >= cutoff /\ total <= MaxBytes
  BY <1>1, WeightFacts DEF AccountInv
<1>3. ASSUME NEW i \in Owned' \ (todo' \cup {victim'.id})
      PROVE  dirs'[i].born >= cutoff' /\ total' <= MaxBytes
  <2>1. dirs'[i] = dirs[i]
    OBVIOUS
  <2> QED BY <1>2, <2>1, Bounds
<1> HIDE DEF Y
<1>4. total' = Weight(dirs', Y) + victim'.bytes
  BY <1>1 DEF Y
<1> QED BY <1>3, <1>4 DEF AccountInv, Y

LEMMA AccountStep ==
    ASSUME TypeOK, VictimInv, AccountInv, [Next]_vars PROVE AccountInv'
<1> USE Bounds DEF TypeOK, HostTypeOK
<1>1. ASSUME NEW w \in Worker, Inventory(w) PROVE AccountInv'
  <2>1. victim = None /\ victim' = None /\ dirs' = dirs /\ todo' = Owned /\ total' = Sum(Owned)
    BY <1>1, NothingToPrune DEF Inventory, Holding
  <2>2. Owned' = Owned
    BY <2>1 DEF Owned, Published
  <2>3. total' = Weight(dirs', Owned') /\ total' \in Nat
    BY <2>1, <2>2, WeightFacts, OwnedFacts DEF Sum, Weight, Bytes
  <2>4. Owned' \ {victim'.id} = Owned' /\ victim'.bytes = 0 /\ todo' = Owned'
    BY <2>1, <2>2, OwnedFacts
  <2> QED BY <2>3, <2>4 DEF AccountInv
<1>2. ASSUME NEW w \in Worker, NEW i \in Archive, Keep(w, i) PROVE AccountInv'
  <2> DEFINE X == Owned \ {victim.id}
  <2>1. /\ pc[w] \in {"prune", "pruneAgain"} /\ UNCHANGED <<dirs, total, cutoff, victim>>
        /\ todo' = todo \ {i} /\ ~Excess(i)
    BY <1>2 DEF Keep, Pruning
  <2>2. /\ todo \subseteq Owned /\ victim.bytes \in Nat /\ total = Weight(dirs, X) + victim.bytes
        /\ X \in SUBSET Archive /\ Weight(dirs, X) \in Nat
    BY <2>1, OwnedFacts, WeightFacts DEF AccountInv
  <2>3. dirs[i].born >= cutoff /\ total <= MaxBytes
    BY <2>1, <2>2 DEF Excess, PruneTypeOK
  <2>4. Owned' = Owned
    BY <2>1 DEF Owned, Published
  <2> HIDE DEF X
  <2>5. /\ Owned' \ {victim'.id} \subseteq X /\ \A j \in X : dirs'[j] = dirs[j]
        /\ total' = Weight(dirs, Owned' \ {victim'.id}) + victim'.bytes /\ total' <= total
    BY <2>1, <2>2, <2>4 DEF X
  <2>6. \A j \in Owned' \ (todo' \cup {victim'.id}) :
           j \in Owned \ (todo \cup {victim.id}) \/ (dirs[j].born >= cutoff /\ total' <= MaxBytes)
    BY <2>1, <2>3, <2>4
  <2> QED BY <2>1, <2>2, <2>4, <2>5, <2>6, AccountMoves DEF X
<1>3. ASSUME NEW w \in Worker, NEW i \in Archive, Remove(w, i) PROVE AccountInv'
  <2>1. /\ pc[w] \in {"prune", "pruneAgain"} /\ UNCHANGED <<dirs, total, cutoff>> /\ victim = None
        /\ i \in todo /\ todo' = todo \ {i}
        /\ victim'.id = i /\ victim'.bytes = dirs[i].files
    BY <1>3 DEF Remove, Pruning, Bytes
  <2>2. /\ Owned' = Owned /\ todo \subseteq Owned /\ Owned \ {victim.id} = Owned
        /\ total = Weight(dirs, Owned) /\ Weight(dirs, Owned) \in Nat /\ Owned \in SUBSET Archive
    <3>1. Owned' = Owned
      BY <2>1 DEF Owned, Published
    <3>2. victim.bytes = 0 /\ Owned \ {victim.id} = Owned /\ Owned \in SUBSET Archive
      BY <2>1, OwnedFacts
    <3>3. todo \subseteq Owned /\ total = Weight(dirs, Owned) + 0 /\ Weight(dirs, Owned) \in Nat
      BY <2>1, <3>2, WeightFacts DEF AccountInv
    <3> QED BY <3>1, <3>2, <3>3
  <2>3. Weight(dirs, Owned) = dirs[i].files + Weight(dirs, Owned \ {i})
    BY <2>1, <2>2, WeightFacts
  <2>4. Weight(dirs, Owned \ {i}) \in Nat /\ dirs[i].files \in Nat
    BY <2>2, WeightFacts
  <2>5. /\ total' = Weight(dirs, Owned' \ {victim'.id}) + victim'.bytes /\ total' <= total
        /\ Owned' \ {victim'.id} \subseteq Owned /\ \A j \in Owned : dirs'[j] = dirs[j]
    BY <2>1, <2>2, <2>3, <2>4
  <2>6. \A j \in Owned' \ (todo' \cup {victim'.id}) : j \in Owned \ (todo \cup {victim.id})
    BY <2>1, <2>2
  <2> QED BY <2>1, <2>2, <2>4, <2>5, <2>6, AccountMoves
<1>4. ASSUME NEW w \in Worker, RemoveFile(w) \/ RemoveMarker(w) PROVE AccountInv'
  <2> DEFINE X == Owned \ {victim.id}
  <2>1. /\ victim # None /\ victim.id \in Archive /\ UNCHANGED <<todo, total, cutoff, victim>>
        /\ \A j \in Archive : j # victim.id => dirs'[j] = dirs[j]
    <3>1. victim # None /\ victim.id \in Archive
      BY <1>4 DEF RemoveFile, RemoveMarker, PruneTypeOK, Published
    <3> QED BY <1>4, <3>1 DEF RemoveFile, RemoveMarker, prune
  <2>2. PICK v \in Worker : pc[v] \in {"prune", "pruneAgain"}
    BY <2>1 DEF VictimInv
  <2>3. Owned' \ {victim'.id} = X
    BY <2>1 DEF Owned, Published
  <2>4. /\ todo \subseteq Owned /\ victim.bytes \in Nat /\ total = Weight(dirs, X) + victim.bytes
        /\ X \in SUBSET Archive /\ Weight(dirs, X) \in Nat /\ victim.id \notin todo
    BY <2>1, <2>2, OwnedFacts, WeightFacts DEF AccountInv, VictimInv
  <2> HIDE DEF X
  <2>5. /\ total' = Weight(dirs, Owned' \ {victim'.id}) + victim'.bytes /\ total' <= total
        /\ \A j \in X : dirs'[j] = dirs[j]
    <3>1. \A j \in X : dirs'[j] = dirs[j]
      BY <2>1, <2>4 DEF X
    <3>2. Weight(dirs, Owned' \ {victim'.id}) = Weight(dirs, X)
      BY <2>3, Zenon
    <3>3. total' = Weight(dirs, X) + victim'.bytes /\ total' <= total
      BY <2>1, <2>4
    <3> QED BY <3>1, <3>2, <3>3
  <2>6. todo' \subseteq Owned'
    BY <2>1, <2>3, <2>4 DEF X
  <2>7. \A j \in Owned' \ (todo' \cup {victim'.id}) : j \in Owned \ (todo \cup {victim.id})
    BY <2>1, <2>3 DEF X
  <2> QED BY <2>1, <2>2, <2>3, <2>4, <2>5, <2>6, <2>7, AccountMoves DEF X
<1>5. ASSUME NEW w \in Worker, RemoveDir(w) PROVE AccountInv'
  <2> DEFINE X == Owned \ {victim.id}
  <2>1. /\ victim # None /\ victim.id \in Archive /\ victim' = None
        /\ UNCHANGED <<todo, cutoff>> /\ total' = total - victim.bytes
        /\ \A j \in Archive : j # victim.id => dirs'[j] = dirs[j]
        /\ dirs'[victim.id] = NoDir
    <3>1. victim # None /\ victim.id \in Archive
      BY <1>5 DEF RemoveDir, PruneTypeOK, Published
    <3> QED BY <1>5, <3>1 DEF RemoveDir
  <2>2. PICK v \in Worker : pc[v] \in {"prune", "pruneAgain"}
    BY <2>1 DEF VictimInv
  <2>3. Owned' = X /\ Owned' \ {victim'.id} = X
    <3>1. Owned' = X
      BY <2>1 DEF Owned, Published, NoDir
    <3> QED BY <2>1, <3>1, OwnedFacts
  <2>4. /\ todo \subseteq Owned /\ victim.bytes \in Nat /\ total = Weight(dirs, X) + victim.bytes
        /\ X \in SUBSET Archive /\ Weight(dirs, X) \in Nat /\ victim.id \notin todo
    BY <2>1, <2>2, OwnedFacts, WeightFacts DEF AccountInv, VictimInv
  <2> HIDE DEF X
  <2>5. /\ total' = Weight(dirs, Owned' \ {victim'.id}) + victim'.bytes /\ total' <= total
        /\ victim'.bytes \in Nat
    <3>1. victim'.bytes = 0
      BY <2>1, OwnedFacts
    <3>2. total' = Weight(dirs, X) /\ total' <= total
      BY <2>1, <2>4
    <3>3. Weight(dirs, Owned' \ {victim'.id}) = Weight(dirs, X)
      BY <2>3, Zenon
    <3> QED BY <2>4, <3>1, <3>2, <3>3
  <2>6. todo' \subseteq Owned' /\ \A j \in X : dirs'[j] = dirs[j]
    BY <2>1, <2>3, <2>4 DEF X
  <2>7. \A j \in Owned' \ (todo' \cup {victim'.id}) : j \in Owned \ (todo \cup {victim.id})
    BY <2>1, <2>3 DEF X
  <2> QED BY <2>1, <2>2, <2>3, <2>4, <2>5, <2>6, <2>7, AccountMoves DEF X
<1>6. ASSUME \A w \in Worker : pc'[w] \notin {"prune", "pruneAgain"} PROVE AccountInv'
  BY <1>6 DEF AccountInv
<1>7. ASSUME NEW w \in Worker, pc[w] \in Holding \ {"prune", "pruneAgain"},
             NEW there \in Holding \cup {"out"}, there \notin {"prune", "pruneAgain"}, Goes(w, there)
      PROVE  AccountInv'
  <2>1. \A v \in Worker : pc'[v] \notin {"prune", "pruneAgain"}
    BY <1>7, Alone DEF Goes, Holding, WipeTypeOK
  <2> QED BY <2>1, <1>6
<1>8. ASSUME NEW w \in Worker, Return(w) \/ NothingToShip(w) \/ Stage(w) \/ Mark(w) \/ Publish(w)
                                  \/ ShipFails(w)
      PROVE AccountInv'
  <2>1. pc[w] \in Holding \ {"prune", "pruneAgain"}
    BY <1>8 DEF Return, NothingToShip, Stage, Mark, Publish, ShipFails, At, Holding
  <2>2. \E there \in Holding \cup {"out"} : there \notin {"prune", "pruneAgain"} /\ Goes(w, there)
    BY <1>8 DEF Return, NothingToShip, Stage, Mark, Publish, ShipFails, Holding
  <2> QED BY <2>1, <2>2, <1>7
<1>9. ASSUME NEW w \in Worker, CopyFile(w) PROVE AccountInv'
  <2>1. \A v \in Worker : pc'[v] \notin {"prune", "pruneAgain"}
    BY <1>9, Alone DEF CopyFile, At, Holding
  <2> QED BY <2>1, <1>6
<1>10. ASSUME NEW w \in Worker, Pruned(w) \/ PruneFails(w) \/ RemoveDirFails(w) PROVE AccountInv'
  <2>1. pc[w] \in Holding
    BY <1>10 DEF Pruned, PruneFails, RemoveDirFails, Pruning, Holding, WipeTypeOK
  <2>2. pc'[w] \notin {"prune", "pruneAgain"} /\ \A v \in Worker : v # w => pc'[v] = pc[v]
    BY <1>10 DEF Pruned, PruneFails, RemoveDirFails, Goes, WipeTypeOK
  <2>3. \A v \in Worker : pc'[v] \notin {"prune", "pruneAgain"}
    BY <2>1, <2>2, Alone DEF Holding
  <2> QED BY <2>3, <1>6
<1>11. ASSUME UNCHANGED <<dirs, todo, total, cutoff, victim>>,
              \A w \in Worker : pc'[w] \in {"prune", "pruneAgain"} => pc[w] = pc'[w]
       PROVE  AccountInv'
  <2>1. Owned' = Owned
    BY <1>11 DEF Owned, Published
  <2> QED BY <1>11, <2>1 DEF AccountInv
<1>12. ASSUME NEW w \in Worker, Call(w) \/ Acquire(w) \/ GiveUp(w) PROVE AccountInv'
  BY <1>11, <1>12 DEF Call, Acquire, GiveUp, Goes, prune, WipeTypeOK
<1>13. ASSUME Crash PROVE AccountInv'
  BY <1>6, <1>13 DEF Crash
<1>14. ASSUME Tick \/ (\E w \in Worker : Deadline(w)) \/ UNCHANGED vars PROVE AccountInv'
  BY <1>11, <1>14 DEF Tick, Deadline, vars, prune
<1> QED
  BY <1>1, <1>2, <1>3, <1>4, <1>5, <1>8, <1>9, <1>10, <1>12, <1>13, <1>14 DEF Next, Step

LEMMA RetentionStep ==
    ASSUME TypeOK, VictimInv, NothingStranded, AccountInv, RetentionHolds, [Next]_vars
    PROVE  RetentionHolds'
<1> USE Bounds
<1> DEFINE Kept == {"ship", "kept"}
<1>1. ASSUME NEW w \in Worker, Pruned(w) PROVE RetentionHolds'
  <2>1. /\ pc[w] \in {"prune", "pruneAgain"} /\ victim = None /\ todo = {}
        /\ UNCHANGED <<dirs, cutoff>>
    BY <1>1 DEF Pruned, Pruning, prune
  <2>2. Owned \in SUBSET Published /\ Published \in SUBSET Archive /\ Owned \ {victim.id} = Owned
    BY <2>1, OwnedFacts
  <2>3. /\ total = Weight(dirs, Owned) /\ Weight(dirs, Owned) \in Nat
        /\ \A i \in Owned : dirs[i].born >= cutoff /\ total <= MaxBytes
    <3>1. total = Weight(dirs, Owned) + 0 /\ Weight(dirs, Owned) \in Nat
      BY <2>1, <2>2, OwnedFacts, WeightFacts DEF AccountInv
    <3>2. Owned \ (todo \cup {victim.id}) = Owned
      BY <2>1, <2>2
    <3> QED BY <2>1, <3>1, <3>2 DEF AccountInv
  <2>4. Weight(dirs, Owned) <= MaxBytes
    <3>1. CASE Owned = {}
      BY <3>1, <2>2, WeightFacts
    <3>2. CASE Owned # {}
      BY <3>2, <2>3
    <3> QED BY <3>1, <3>2
  <2>5. Weight(dirs, Published) = Weight(dirs, Owned)
    BY <2>2, WeightFacts DEF NothingStranded
  <2>6. Published' = Published /\ Owned' = Owned
    BY <2>1 DEF Published, Owned
  <2>7. Sum(Published)' = Weight(dirs', Published')
    BY DEF Sum, Weight, Bytes
  <2>8. Sum(Published)' <= MaxBytes /\ \A i \in Owned' : dirs'[i].born >= cutoff'
    BY <2>1, <2>3, <2>4, <2>5, <2>6, <2>7
  <2> QED BY <2>8 DEF RetentionHolds
<1>2. ASSUME \A w \in Worker : pc'[w] \notin Kept PROVE RetentionHolds'
  BY <1>2 DEF RetentionHolds
<1>3. ASSUME UNCHANGED <<dirs, cutoff>>, \A w \in Worker : pc'[w] \in Kept => pc'[w] = pc[w]
      PROVE  RetentionHolds'
  <2>1. /\ Published' = Published /\ Owned' = Owned
        /\ Sum(Published) = Weight(dirs, Published) /\ Sum(Published)' = Weight(dirs', Published')
    BY <1>3 DEF Published, Owned, Sum, Weight, Bytes
  <2> QED BY <1>3, <2>1 DEF RetentionHolds
<1>4. ASSUME NEW w \in Worker, pc[w] \in Holding, pc'[w] \notin Kept,
             \A v \in Worker : v # w => pc'[v] = pc[v]
      PROVE  RetentionHolds'
  <2>1. \A v \in Worker : pc'[v] \notin Kept
    BY <1>4, Alone DEF Holding
  <2> QED BY <2>1, <1>2
<1>5. ASSUME NEW w \in Worker, Inventory(w) \/ PruneFails(w) \/ RemoveDirFails(w) \/ Return(w) \/ NothingToShip(w)
                                  \/ Stage(w) \/ CopyFile(w) \/ Mark(w) \/ Publish(w) \/ ShipFails(w)
      PROVE RetentionHolds'
  <2>1. pc[w] \in Holding
    BY <1>5 DEF Inventory, PruneFails, RemoveDirFails, Return, NothingToShip, Stage, CopyFile, Mark,
                Publish, ShipFails, At, Holding, TypeOK, WipeTypeOK
  <2>2. pc'[w] \notin Kept /\ \A v \in Worker : v # w => pc'[v] = pc[v]
    BY <1>5 DEF Inventory, PruneFails, RemoveDirFails, Return, NothingToShip, Stage, CopyFile, Mark,
                Publish, ShipFails, At, Goes, TypeOK, WipeTypeOK
  <2> QED BY <2>1, <2>2, <1>4
<1>6. ASSUME NEW w \in Worker, RemoveFile(w) \/ RemoveMarker(w) \/ RemoveDir(w) PROVE RetentionHolds'
  <2>1. victim # None /\ pc' = pc
    BY <1>6 DEF RemoveFile, RemoveMarker, RemoveDir
  <2>2. \A v \in Worker : pc'[v] \notin Kept
    BY <2>1, NothingToPrune DEF Holding
  <2> QED BY <2>2, <1>2
<1>7. ASSUME NEW w \in Worker, NEW i \in Archive, Keep(w, i) \/ Remove(w, i) PROVE RetentionHolds'
  BY <1>3, <1>7 DEF Keep, Remove
<1>8. ASSUME NEW w \in Worker, Call(w) \/ Acquire(w) \/ GiveUp(w) PROVE RetentionHolds'
  BY <1>3, <1>8 DEF Call, Acquire, GiveUp, Goes, prune, TypeOK, WipeTypeOK
<1>9. ASSUME Tick \/ (\E w \in Worker : Deadline(w)) \/ UNCHANGED vars PROVE RetentionHolds'
  BY <1>3, <1>9 DEF Tick, Deadline, vars, prune
<1>10. ASSUME Crash PROVE RetentionHolds'
  BY <1>2, <1>10 DEF Crash
<1> QED
  BY <1>1, <1>5, <1>6, <1>7, <1>8, <1>9, <1>10 DEF Next, Step

-----------------------------------------------------------------------------
(* Theorems *)

LEMMA InitHolds == Init => IInv
<1>1. Init => VictimInv /\ StagingInv /\ PublishedIsWhole
  BY DEF Init, VictimInv, StagingInv, PublishedIsWhole, Published, NoDir
<1>2. ASSUME Init PROVE NothingStranded
  <2>1. Published = {} /\ Stranded \ stuck = {} /\ crashes = 0
    BY <1>2 DEF Init, Stranded, Published, NoDir
  <2> QED
    BY <2>1, FS_EmptySet DEF NothingStranded
<1> QED
  BY <1>1, <1>2, InitTyped DEF IInv

LEMMA StepHolds == IInv /\ [Next]_vars => IInv'
<1> SUFFICES ASSUME IInv, [Next]_vars PROVE IInv'
    OBVIOUS
<1>1. TypeOK'
  BY HostTyped, PruneTyped, WipeTyped DEF IInv, TypeOK
<1> QED
  BY <1>1, VictimStep, StagingStep, WholeStep, StrandedStep DEF IInv

LEMMA Holds == Spec => []IInv
BY InitHolds, StepHolds, PTL DEF Spec

(* Every variable keeps its type, and shipDiag's semaphore is held by one   *)
(* wipe at most and given back on every way out, for any number of wipes.   *)
THEOREM TypeCorrect == Spec => []TypeOK
<1>1. IInv => TypeOK
  BY DEF IInv
<1> QED
  BY <1>1, Holds, PTL

(* ShipDiagContext publishes an archive whole and marked or not at all, and *)
(* only a Prune takes something away from it.                               *)
THEOREM ArchivesAreWhole == Spec => []PublishedIsWhole
<1>1. IInv => PublishedIsWhole
  BY DEF IInv
<1> QED
  BY <1>1, Holds, PTL

(* No cancellation, at whatever step of a copy or a removal, strands a      *)
(* directory that no later Prune would recognize, nor does an error of any  *)
(* step but the rmdir of an archive or the RemoveAll of staging; a crash    *)
(* strands one at most, and an archive that lost its marker is empty.       *)
THEOREM NothingIsStranded == Spec => []NothingStranded
<1>1. IInv => NothingStranded
  BY DEF IInv
<1> QED
  BY <1>1, Holds, PTL

(* A Prune that ends without an error leaves neither an expired archive nor *)
(* more bytes than the budget, for any number of archives of any sizes,     *)
(* also when an earlier Prune was cut off in the middle of an archive.      *)
THEOREM RetentionIsKept == Spec => []RetentionHolds
<1> DEFINE Inv == AccountInv /\ RetentionHolds
<1>1. Init => Inv
  BY DEF Init, AccountInv, RetentionHolds
<1>2. IInv /\ IInv' /\ Inv /\ [Next]_vars => Inv'
  BY AccountStep, RetentionStep DEF IInv
<1>3. Inv => RetentionHolds
  OBVIOUS
<1> HIDE DEF Inv
<1> QED
  BY <1>1, <1>2, <1>3, Holds, PTL DEF Spec
=============================================================================
