---------------------------- MODULE PayloadProofs ----------------------------
(***************************************************************************)
(* Proofs about Payload for any versions with any files: whatever is cut   *)
(* short, the template is whole or missing.                                *)
(***************************************************************************)
EXTENDS Payload, TLAPS

(* The files unpacked or copied so far *)
Part(v, missing) == {<<f, v>> : f \in Entries(v) \ missing}

(* Every tree that is not under construction is whole.                     *)
TreesInv ==
    /\ template # {} => IsWhole(template)
    /\ aside # {} => IsWhole(aside) /\ pc \in {"moved", "installed"}
    /\ \A tree \in leftovers : IsWhole(tree)

(* How far Ensure got: what is staged, and what is installed.              *)
StageInv ==
    /\ pc = "unpack" => todo \subseteq Files[want] /\ staging = Part(want, todo \cup {Marker})
    /\ pc \in {"promote", "moved"} => Whole(staging, want)
    /\ pc = "moved" => template = {}
    /\ pc \in {"installed", "ready"} => Whole(template, want)

IInv == TypeOK /\ TreesInv /\ StageInv

-----------------------------------------------------------------------------
(* Trees *)

(* A file is written to the tree that lacks it. *)
LEMMA PutPart ==
    ASSUME NEW v \in Version, NEW missing, NEW f \in missing, f \in Entries(v)
    PROVE  Put(Part(v, missing), f, v) = Part(v, missing \ {f})
BY DEF Put, Part

(* A whole tree is the part that lacks nothing. *)
LEMMA WholeTree ==
    ASSUME NEW v \in Version
    PROVE  /\ Part(v, {}) \in Tree
           /\ \A missing : Part(v, missing) \in Tree
           /\ \A tree : Whole(tree, v) <=> tree = Part(v, {})
           /\ \A tree : Whole(tree, v) => tree # {}
<1>1. Entries(v) \subseteq File
  BY DEF File
<1>2. Marker \in Entries(v)
  BY DEF Entries
<1>3. \A missing : Part(v, missing) \in Tree
  BY <1>1 DEF Part, Tree
<1>4. \A tree : Whole(tree, v) <=> tree = Part(v, {})
  BY DEF Whole, Part
<1>5. \A tree : Whole(tree, v) => tree # {}
  BY <1>2 DEF Whole
<1> QED
  BY <1>3, <1>4, <1>5

(* A marker names the version of a whole tree. *)
LEMMA MarkerTells ==
    ASSUME NEW tree, IsWhole(tree), NEW v \in Version, <<Marker, v>> \in tree
    PROVE  Whole(tree, v)
<1>1. PICK u \in Version : Whole(tree, u)
  BY DEF IsWhole
<1>2. u = v
  BY <1>1 DEF Whole
<1> QED
  BY <1>1, <1>2

(* The files of a version are files. *)
LEMMA MarkerIsFile ==
    ASSUME NEW v \in Version
    PROVE  Marker \in File /\ Files[v] \subseteq File /\ Entries(v) \subseteq File
BY DEF File, Entries

-----------------------------------------------------------------------------
(* Steps *)

(* The directories are empty at first. *)
LEMMA InitInv == Init => IInv
<1> SUFFICES ASSUME Init PROVE IInv
  OBVIOUS
<1>1. TypeOK
  BY DEF Init, TypeOK, Tree, Tarball
<1>2. TreesInv /\ StageInv
  BY DEF Init, TreesInv, StageInv
<1> QED
  BY <1>1, <1>2 DEF IInv

(* A copy leaves the trees alone. *)
LEMMA CopyOK ==
    IInv /\ (CopyStep \/ CopyFails) => IInv'
<1> SUFFICES ASSUME IInv, CopyStep \/ CopyFails PROVE IInv'
  OBVIOUS
<1>1. UNCHANGED <<ensure, cache, trees>>
  BY DEF CopyStep, CopyBegin, CopyDone, CopyFile, CopyFails
<1>2. copy' \in {"none", "running", "done"}
  BY DEF IInv, TypeOK, CopyStep, CopyBegin, CopyDone, CopyFile, CopyFails
<1>3. listed' \subseteq File /\ slot' \in Tree /\ beside' \in BOOLEAN
  BY DEF IInv, TypeOK, Tree, CopyStep, CopyBegin, CopyDone, CopyFile, CopyFails
<1>4. TypeOK'
  BY <1>1, <1>2, <1>3 DEF IInv, TypeOK, ensure, trees
<1>5. TreesInv'
  BY <1>1 DEF IInv, TreesInv, ensure, trees
<1>6. StageInv'
  BY <1>1 DEF IInv, StageInv, ensure, trees
<1> QED
  BY <1>4, <1>5, <1>6 DEF IInv

(* A process that ends leaves whole trees, if it keeps the old one.        *)
LEMMA EndedOK ==
    ASSUME IInv, Ended, cache' \in [Version -> Tarball], staging' \in SUBSET staging,
           template' \in {template, aside} \/ template' = {},
           leftovers' \subseteq leftovers \cup ({aside} \ {{}})
    PROVE  IInv'
<1>1. TypeOK /\ TreesInv
  BY DEF IInv
<1>2. TypeOK'
  BY <1>1 DEF Ended, TypeOK, Tree
<1>3. template' # {} => IsWhole(template')
  BY <1>1 DEF TreesInv
<1>4. \A tree \in leftovers' : IsWhole(tree)
  BY <1>1 DEF TreesInv
<1>5. TreesInv'
  BY <1>3, <1>4 DEF Ended, TreesInv
<1>6. StageInv'
  BY DEF Ended, StageInv
<1> QED
  BY <1>2, <1>5, <1>6 DEF IInv

(* Whatever step goes wrong, or the process ends at. *)
LEMMA TroubleOK == IInv /\ Trouble => IInv'
<1> SUFFICES ASSUME IInv, Trouble PROVE IInv'
  OBVIOUS
<1>1. TypeOK
  BY DEF IInv
<1>2. CASE CopyFails
  BY <1>2, CopyOK
<1>3. CASE Mismatch
  <2>1. cache' \in [Version -> Tarball]
    BY <1>1, <1>3 DEF Mismatch, TypeOK, Tarball
  <2> QED
    BY <1>3, <2>1, EndedOK DEF Mismatch
<1>4. CASE RollBack \/ RollBackFails
  BY <1>1, <1>4, EndedOK DEF RollBack, RollBackFails, Restored, StagingRemoved, KeepAside, TypeOK
<1>5. CASE Fails
  BY <1>1, <1>5, EndedOK DEF Fails, StagingRemoved, TypeOK
<1>6. CASE Crash
  BY <1>1, <1>6, EndedOK DEF Crash, KeepAside, TypeOK
<1> QED
  BY <1>2, <1>3, <1>4, <1>5, <1>6 DEF Trouble

(* Ensure is called where no tree is under construction. *)
LEMMA CallOK == IInv /\ (\E v \in Version : Boot(v) \/ Again(v)) => IInv'
<1> SUFFICES ASSUME IInv, NEW v \in Version, Boot(v) \/ Again(v) PROVE IInv'
  OBVIOUS
<1>1. Call(v) /\ pc \in {"down", "ready"}
  BY DEF Boot, Again
<1>b. beside' \in BOOLEAN
  BY DEF Boot, Again, IInv, TypeOK
<1>2. TypeOK'
  BY <1>1, <1>b DEF IInv, TypeOK, Call, trees, Working
<1>3. TreesInv'
  BY <1>1 DEF IInv, TreesInv, Call, trees
<1>4. StageInv'
  BY <1>1 DEF StageInv, Call
<1> QED
  BY <1>2, <1>3, <1>4 DEF IInv

(* Every step of Ensure, one case per action. *)
LEMMA EnsureOK == IInv /\ EnsureStep => IInv'
<1> SUFFICES ASSUME IInv, EnsureStep PROVE IInv'
  OBVIOUS
<1>1. TypeOK /\ TreesInv /\ StageInv
  BY DEF IInv
<1>w. want \in Version
  BY <1>1 DEF TypeOK
<1>2. CASE Begin
  <2>1. cache' \in [Version -> Tarball] /\ pc' \in {"ready", "verify", "download"}
    BY <1>2 DEF Begin, Evicted
  <2>2. TypeOK'
    BY <1>1, <1>2, <2>1 DEF Begin, TypeOK, Working, trees, copies
  <2>3. TreesInv'
    BY <1>1, <1>2 DEF Begin, TreesInv, trees
  <2>4. pc' = "ready" => Matches
    BY <1>2 DEF Begin
  <2>5. pc' = "ready" => Whole(template, want)
    BY <1>1, <1>w, <2>4, MarkerTells DEF Matches, TreesInv
  <2>6. StageInv'
    BY <1>2, <2>1, <2>5 DEF Begin, StageInv, trees
  <2> QED
    BY <2>2, <2>3, <2>6 DEF IInv
<1>3. CASE Verified \/ Redownload \/ \E tarball \in Tarball : Download(tarball)
  <2>1. cache' \in [Version -> Tarball] /\ attempt' \in {0, 1}
    BY <1>1, <1>3 DEF Verified, Redownload, Download, MayRetry, TypeOK, Tarball
  <2>2. UNCHANGED <<want, todo>> /\ UNCHANGED trees /\ UNCHANGED copies
          /\ pc' \in {"extract", "download", "verify"}
    BY <1>3 DEF Verified, Redownload, Download
  <2>3. TypeOK'
    BY <1>1, <2>1, <2>2 DEF TypeOK, Working, trees, copies
  <2>4. TreesInv'
    BY <1>1, <1>3, <2>2 DEF TreesInv, trees, Verified, Redownload, Download
  <2>5. StageInv'
    BY <2>2 DEF StageInv
  <2> QED
    BY <2>3, <2>4, <2>5 DEF IInv
<1>4. CASE ClearStaging
  <2>1. Files[want] \subseteq File
    BY <1>w, MarkerIsFile
  <2>2. TypeOK'
    BY <1>1, <1>4, <2>1 DEF ClearStaging, Cleared, TypeOK, Working, Tree, copies
  <2>3. TreesInv'
    BY <1>1, <1>4 DEF ClearStaging, TreesInv
  <2>4. Part(want, Files[want] \cup {Marker}) = {}
    BY DEF Part, Entries
  <2>5. StageInv'
    BY <1>4, <2>4 DEF ClearStaging, Cleared, StageInv
  <2> QED
    BY <2>2, <2>3, <2>5 DEF IInv
<1>5. ASSUME NEW f \in todo, Unpack(f) PROVE IInv'
  <2>1. todo \subseteq Files[want] /\ staging = Part(want, todo \cup {Marker}) /\ f # Marker
    BY <1>1, <1>5, <1>w, PayloadAssumption DEF StageInv, Unpack
  <2>2. staging' = Part(want, (todo \cup {Marker}) \ {f})
    <3>1. f \in Entries(want) /\ f \in todo \cup {Marker}
      BY <2>1 DEF Entries
    <3>2. staging' = Put(Part(want, todo \cup {Marker}), f, want)
      BY <1>5, <2>1 DEF Unpack
    <3> QED
      BY <1>w, <3>1, <3>2, PutPart
  <2>3. (todo \cup {Marker}) \ {f} = todo' \cup {Marker}
    BY <1>5, <2>1 DEF Unpack
  <2>4. staging' \in Tree
    BY <1>w, <2>2, WholeTree
  <2>5. TypeOK'
    BY <1>1, <1>5, <2>4 DEF Unpack, TypeOK, copies
  <2>6. TreesInv'
    BY <1>1, <1>5 DEF Unpack, TreesInv
  <2>7. StageInv'
    BY <1>5, <2>1, <2>2, <2>3 DEF Unpack, StageInv
  <2> QED
    BY <2>5, <2>6, <2>7 DEF IInv
<1>6. CASE WriteMarker
  <2>1. staging = Part(want, {Marker})
    BY <1>1, <1>6 DEF WriteMarker, StageInv
  <2>2. staging' = Part(want, {})
    <3>1. Marker \in Entries(want) /\ Marker \in {Marker} /\ {Marker} \ {Marker} = {}
      BY DEF Entries
    <3>2. staging' = Put(Part(want, {Marker}), Marker, want)
      BY <1>6, <2>1 DEF WriteMarker
    <3>3. Put(Part(want, {Marker}), Marker, want) = Part(want, {Marker} \ {Marker})
      BY <1>w, <3>1, PutPart
    <3> QED
      BY <3>1, <3>2, <3>3
  <2>3. Whole(staging', want) /\ staging' \in Tree
    BY <1>w, <2>2, WholeTree
  <2>4. TypeOK'
    BY <1>1, <1>6, <2>3 DEF WriteMarker, TypeOK, Working, copies
  <2>5. TreesInv'
    BY <1>1, <1>6 DEF WriteMarker, TreesInv
  <2>6. StageInv'
    BY <1>6, <2>3 DEF WriteMarker, StageInv
  <2> QED
    BY <2>4, <2>5, <2>6 DEF IInv
<1>7. CASE MoveAside
  <2>1. TypeOK'
    BY <1>1, <1>7 DEF MoveAside, TypeOK, Working, Tree, copies
  <2>2. TreesInv'
    BY <1>1, <1>7 DEF MoveAside, TreesInv
  <2>3. StageInv'
    BY <1>1, <1>7 DEF MoveAside, StageInv
  <2> QED
    BY <2>1, <2>2, <2>3 DEF IInv
<1>8. CASE Install
  <2>1. TypeOK'
    BY <1>1, <1>8 DEF Install, TypeOK, Working, Tree, copies
  <2>2. Whole(template', want) /\ want' = want
    BY <1>1, <1>8 DEF Install, StageInv
  <2>3. TreesInv'
    BY <1>1, <1>8, <1>w, <2>2 DEF Install, TreesInv, IsWhole
  <2>4. StageInv'
    BY <1>8, <2>2 DEF Install, StageInv
  <2> QED
    BY <2>1, <2>3, <2>4 DEF IInv
<1>9. ASSUME NEW rest \in {{}, aside}, DropAside(rest) PROVE IInv'
  <2>1. leftovers' \subseteq leftovers \cup ({aside} \ {{}})
    BY <1>9 DEF DropAside
  <2>2. TypeOK'
    BY <1>1, <1>9, <2>1 DEF DropAside, TypeOK, Tree, copies
  <2>3. TreesInv'
    BY <1>1, <1>9, <2>1 DEF DropAside, TreesInv
  <2>4. StageInv'
    BY <1>1, <1>9 DEF DropAside, StageInv
  <2> QED
    BY <2>2, <2>3, <2>4 DEF IInv
<1> QED
  BY <1>2, <1>3, <1>4, <1>5, <1>6, <1>7, <1>8, <1>9 DEF EnsureStep

(* The invariant is inductive.                                             *)
LEMMA NextOK == IInv /\ [Next]_vars => IInv'
<1>1. IInv /\ Next => IInv'
  BY CallOK, EnsureOK, CopyOK, TroubleOK DEF Next
<1>2. IInv /\ UNCHANGED vars => IInv'
  BY DEF IInv, TypeOK, TreesInv, StageInv, vars, ensure, trees, copies
<1> QED
  BY <1>1, <1>2

-----------------------------------------------------------------------------
(* What holds in every reachable state *)

(* Trees are whole, and what is staged is what Ensure has unpacked so far. *)
THEOREM Invariance == Spec => []IInv
<1> QED
  BY InitInv, NextOK, PTL DEF Spec

(* The type invariant of the manager's state and its directories.          *)
THEOREM TypeCorrect == Spec => []TypeOK
<1>1. IInv => TypeOK
  BY DEF IInv
<1> QED
  BY <1>1, Invariance, PTL

(* At every moment the template is missing or has exactly the files of one *)
(* version: unpacking beside it and two renames keep templateMatches       *)
(* right, wherever Ensure or the process is cut short.                     *)
THEOREM TemplateHolds == Spec => []TemplateIsWhole
<1>1. IInv => TemplateIsWhole
  BY DEF IInv, TreesInv, TemplateIsWhole
<1> QED
  BY <1>1, Invariance, PTL

(* Ensure returns without an error only with the whole template of the     *)
(* version it was called for.                                              *)
THEOREM ReadyHolds == Spec => []ReadyIsWanted
<1>1. IInv => ReadyIsWanted
  BY DEF IInv, StageInv, ReadyIsWanted
<1> QED
  BY <1>1, Invariance, PTL

-----------------------------------------------------------------------------
(* The last whole tree *)

(* A tree that is kept in one of the three places.                         *)
LEMMA KeptTree ==
    ASSUME IInv, SomeTreeWhole, Next
    PROVE  SomeTreeWhole'
<1>1. TreesInv /\ StageInv /\ want \in Version
  BY DEF IInv, TypeOK
<1>2. ~ IsWhole({})
  BY WholeTree DEF IsWhole
<1>3. PICK tree \in {template, aside} \cup leftovers : IsWhole(tree)
  BY DEF SomeTreeWhole
<1>4. SUFFICES \E kept \in {template', aside'} \cup leftovers' : IsWhole(kept)
  BY DEF SomeTreeWhole, IsWhole, Whole, Entries
<1>5. CASE UNCHANGED <<template, aside, leftovers>>
  BY <1>3, <1>5
<1>6. pc \notin {"moved", "installed"} => tree # aside
  BY <1>1, <1>2, <1>3 DEF TreesInv
<1>7. CASE MoveAside
  BY <1>3, <1>6, <1>7 DEF MoveAside
<1>8. CASE Install
  BY <1>1, <1>8 DEF Install, StageInv, IsWhole
<1>9. CASE \E rest \in {{}, aside} : DropAside(rest)
  BY <1>1, <1>9 DEF DropAside, StageInv, IsWhole
<1>10. CASE RollBack
  <2>1. template' = aside /\ leftovers' = leftovers
    BY <1>1, <1>10 DEF RollBack, Restored, StageInv
  <2>2. tree # template
    BY <1>1, <1>2, <1>3, <1>10 DEF RollBack, StageInv
  <2> QED
    BY <1>3, <2>1, <2>2
<1>11. CASE RollBackFails \/ Crash
  <2>1. template' = template /\ leftovers' = leftovers \cup ({aside} \ {{}})
    BY <1>11 DEF RollBackFails, Crash, KeepAside
  <2> QED
    BY <1>2, <1>3, <2>1
<1>12. CASE Mismatch \/ Fails
  <2>1. template' = template /\ leftovers' = leftovers /\ pc \notin {"moved", "installed"}
    BY <1>12 DEF Mismatch, Fails
  <2> QED
    BY <1>3, <1>6, <2>1
<1>13. CASE CopyStep \/ CopyFails
  BY <1>5, <1>13 DEF CopyStep, CopyBegin, CopyDone, CopyFile, CopyFails, trees
<1>14. CASE \E v \in Version : Boot(v) \/ Again(v)
  BY <1>5, <1>14 DEF Boot, Again, Call, trees
<1>15. CASE Begin \/ Verified \/ Redownload \/ \E tarball \in Tarball : Download(tarball)
  BY <1>5, <1>15 DEF Begin, Verified, Redownload, Download, trees
<1>16. CASE ClearStaging \/ (\E f \in todo : Unpack(f)) \/ WriteMarker
  BY <1>5, <1>16 DEF ClearStaging, Unpack, WriteMarker
<1> QED
  BY <1>7, <1>8, <1>9, <1>10, <1>11, <1>12, <1>13, <1>14, <1>15, <1>16
     DEF Next, EnsureStep, Trouble

(* No step, crash or failed rollback loses the last whole tree: promote    *)
(* never removes the old one before the new one is in its place.           *)
THEOREM TreesKept == Spec => TreeSurvives
<1>1. IInv /\ [Next]_vars => [SomeTreeWhole => SomeTreeWhole']_vars
  BY KeptTree
<1> QED
  BY <1>1, Invariance, PTL DEF Spec, TreeSurvives

LEMMA InstalledKept ==
    [Next]_vars /\ Installed' # Installed => pc = "moved" /\ (Install \/ RollBackFails \/ Crash)
<1> SUFFICES ASSUME [Next]_vars, Installed' # Installed
             PROVE  pc = "moved" /\ (Install \/ RollBackFails \/ Crash)
  OBVIOUS
<1> USE DEF Installed
<1>1. CASE \E v \in Version : Boot(v) \/ Again(v)
  BY <1>1 DEF Boot, Again, Call, trees
<1>2. CASE EnsureStep
  <2>1. CASE MoveAside
    BY <2>1 DEF MoveAside
  <2>2. CASE Install
    BY <2>2 DEF Install
  <2>3. ASSUME UNCHANGED template, pc # "moved", pc' # "moved" PROVE FALSE
    BY <2>3
  <2> QED
    BY <1>2, <2>1, <2>2, <2>3 DEF EnsureStep, Begin, Verified, Redownload, Download, ClearStaging,
                                  Unpack, WriteMarker, DropAside, trees
<1>3. CASE CopyStep \/ CopyFails \/ UNCHANGED vars
  BY <1>3 DEF CopyStep, CopyBegin, CopyDone, CopyFile, CopyFails, vars, ensure, trees
<1>4. CASE Mismatch \/ Fails
  BY <1>4 DEF Mismatch, Fails, Ended
<1>5. CASE RollBack
  BY <1>5 DEF RollBack, Restored, Ended
<1>6. CASE RollBackFails \/ Crash
  BY <1>6 DEF RollBackFails, Crash, Ended
<1> QED
  BY <1>1, <1>2, <1>3, <1>4, <1>5, <1>6 DEF Next, Trouble

(* No step between the call of Ensure and the installation, and no error,  *)
(* touches the installed tree, whatever was staged and for any versions.   *)
THEOREM ErrorsKeepTemplate == Spec => ErrorKeepsTemplate
<1>1. [Next]_vars
         => [Installed' # Installed => pc = "moved" /\ (Install \/ RollBackFails \/ Crash)]_vars
  BY InstalledKept
<1> QED
  BY <1>1, PTL DEF Spec, ErrorKeepsTemplate

-----------------------------------------------------------------------------
(* Slots *)

(* A copy runs under the template of the wanted version, unless Ensure is  *)
(* called beside it.                                                       *)
CopyInv ==
    /\ copy = "running" /\ ~beside => /\ pc = "ready"
                                      /\ listed \subseteq Entries(want)
                                      /\ slot = Part(want, listed)
    /\ copy = "done" /\ ~beside => pc = "ready" /\ Whole(slot, want)

(* It stays so.                                                            *)
LEMMA CopyInvOK == IInv /\ CopyInv /\ [Next]_vars => CopyInv'
<1> SUFFICES ASSUME IInv, CopyInv, [Next]_vars PROVE CopyInv'
  OBVIOUS
<1>1. want \in Version
  BY DEF IInv, TypeOK
<1>2. pc = "ready" => Whole(template, want)
  BY DEF IInv, StageInv
<1>3. CASE CopyBegin
  <2>1. template = {<<f, want>> : f \in Entries(want)}
    BY <1>2, <1>3 DEF CopyBegin, Whole
  <2>2. {e[1] : e \in template} = Entries(want)
    <3>1. \A f \in Entries(want) : <<f, want>> \in template /\ <<f, want>>[1] = f
      BY <2>1
    <3>2. \A e \in template : e[1] \in Entries(want)
      BY <2>1
    <3> QED
      BY <3>1, <3>2
  <2>3. listed' = Entries(want)
    BY <1>3, <2>2 DEF CopyBegin
  <2>4. slot' = Part(want, listed')
    BY <1>3, <2>3 DEF CopyBegin, Part
  <2> QED
    BY <1>3, <2>3, <2>4 DEF CopyBegin, CopyInv, ensure
<1>4. ASSUME NEW f \in listed, NEW v \in Version, CopyFile(f, v) PROVE CopyInv'
  <2> SUFFICES ASSUME ~beside PROVE CopyInv'
    BY <1>4 DEF CopyFile, CopyInv
  <2>1. pc = "ready" /\ listed \subseteq Entries(want) /\ slot = Part(want, listed)
    BY <1>4 DEF CopyInv, CopyFile
  <2>2. v = want
    BY <1>2, <1>4, <2>1 DEF CopyFile, Whole
  <2>3. slot' = Part(want, listed')
    BY <1>4, <2>1, <2>2 DEF CopyFile, Part
  <2> QED
    BY <1>4, <2>1, <2>3 DEF CopyFile, CopyInv, ensure
<1>5. CASE CopyDone
  <2> SUFFICES ASSUME ~beside PROVE CopyInv'
    BY <1>5 DEF CopyDone, CopyInv
  <2>1. pc = "ready" /\ slot = Part(want, {})
    BY <1>5 DEF CopyInv, CopyDone
  <2>2. Whole(slot, want)
    BY <1>1, <2>1, WholeTree
  <2> QED
    BY <1>5, <2>1, <2>2 DEF CopyDone, CopyInv, ensure
<1>6. CASE CopyFails
  BY <1>6 DEF CopyFails, CopyInv
<1>7. CASE Ended
  BY <1>7 DEF Ended, CopyInv
<1>8. CASE UNCHANGED copies /\ pc # "ready"
  BY <1>8 DEF copies, CopyInv
<1>9. CASE UNCHANGED vars
  BY <1>9 DEF vars, ensure, copies, CopyInv
<1>10. CASE \E v \in Version : Boot(v) \/ Again(v)
  BY <1>10 DEF Boot, Again, Call, CopyInv
<1>11. CASE EnsureStep
  BY <1>8, <1>11 DEF EnsureStep, Begin, Verified, Redownload, Download, ClearStaging, Unpack,
                     WriteMarker, MoveAside, Install, DropAside
<1>12. CASE Mismatch \/ RollBack \/ RollBackFails \/ Fails \/ Crash
  BY <1>7, <1>12 DEF Mismatch, RollBack, RollBackFails, Fails, Crash
<1> QED
  BY <1>3, <1>4, <1>5, <1>6, <1>9, <1>10, <1>11, <1>12 DEF Next, CopyStep, Trouble

(* Unless Ensure is called beside the copy, a finished copy is the whole   *)
(* template of the wanted version, whichever step failed before.           *)
THEOREM SlotHolds == Spec => []SlotIsWanted
<1>1. Init => CopyInv
  BY DEF Init, CopyInv
<1>2. CopyInv => SlotIsWanted
  BY DEF CopyInv, SlotIsWanted
<1>3. IInv /\ CopyInv /\ [Next]_vars => CopyInv'
  BY CopyInvOK
<1> QED
  BY <1>1, <1>2, <1>3, Invariance, PTL DEF Spec
=============================================================================
