------------------------- MODULE HostSchedulerProofs -------------------------
(***************************************************************************)
(* Proofs about HostScheduler for every number of pools and slots.  That   *)
(* the ceiling holds rests on what the loop remembers while the counts     *)
(* change under it: a count that Ensure was called with leaves room for    *)
(* the other pools, and total covers what lives.                           *)
(***************************************************************************)
EXTENDS HostScheduler, FiniteSetTheorems, TLAPS

(* What the pools other than p have *)
Others(p, slots) == {s \in slots : s[1] # p}

-----------------------------------------------------------------------------
(* Counting *)

(* There are finitely many slots, so every count of slots is a number. *)
LEMMA SlotFinite == IsFiniteSet(Slot)
<1>1. IsFiniteSet(Pool)
  BY FS_Interval, HostSchedulerAssumption DEF Pool
<1>2. IsFiniteSet(1 .. MaxSlotID)
  BY FS_Interval, HostSchedulerAssumption
<1> QED
  BY <1>1, <1>2, FS_Product DEF Slot

(* A smaller set of slots has a smaller count.                          *)
LEMMA CountMono ==
    ASSUME NEW S \in SUBSET Slot, NEW T \in SUBSET S
    PROVE  /\ IsFiniteSet(S) /\ IsFiniteSet(T)
           /\ Cardinality(S) \in Nat
           /\ Cardinality(T) \in Nat
           /\ Cardinality(T) <= Cardinality(S)
<1>1. IsFiniteSet(S)
  BY SlotFinite, FS_Subset
<1>2. IsFiniteSet(T) /\ Cardinality(T) <= Cardinality(S)
  BY <1>1, FS_Subset
<1> QED
  BY <1>1, <1>2, FS_CardinalityType

(* The slots of the host are those of one pool and those of the others. *)
LEMMA CountSplit ==
    ASSUME NEW S \in SUBSET Slot, NEW p
    PROVE  /\ Cardinality(Of(p, S)) \in Nat
           /\ Cardinality(Others(p, S)) \in Nat
           /\ Cardinality(S) = Cardinality(Of(p, S)) + Cardinality(Others(p, S))
<1>1. Of(p, S) \in SUBSET S /\ Others(p, S) \in SUBSET S
  BY DEF Of, Others
<1>2. IsFiniteSet(Of(p, S)) /\ IsFiniteSet(Others(p, S))
  BY <1>1, CountMono
<1>3. S = Of(p, S) \cup Others(p, S) /\ Of(p, S) \cap Others(p, S) = {}
  BY DEF Of, Others
<1>4. Cardinality(Of(p, S)) \in Nat /\ Cardinality(Others(p, S)) \in Nat
  BY <1>1, CountMono
<1>5. Cardinality(Of(p, S) \cup Others(p, S))
        = Cardinality(Of(p, S)) + Cardinality(Others(p, S))
  BY <1>2, <1>3, <1>4, FS_Union, FS_EmptySet
<1> QED
  BY <1>3, <1>4, <1>5

LEMMA OfMono ==
    ASSUME NEW S \in SUBSET Slot, NEW T \in SUBSET S, NEW p
    PROVE  /\ Cardinality(Of(p, T)) \in Nat
           /\ Cardinality(Of(p, S)) \in Nat
           /\ Cardinality(Of(p, T)) <= Cardinality(Of(p, S))
           /\ Cardinality(Others(p, T)) \in Nat
           /\ Cardinality(Others(p, S)) \in Nat
           /\ Cardinality(Others(p, T)) <= Cardinality(Others(p, S))
<1>1. Of(p, S) \in SUBSET Slot /\ Of(p, T) \in SUBSET Of(p, S)
  BY DEF Of
<1>2. Others(p, S) \in SUBSET Slot /\ Others(p, T) \in SUBSET Others(p, S)
  BY DEF Others
<1> QED
  BY <1>1, <1>2, CountMono

LEMMA NextCursorType ==
    ASSUME NEW p \in Pool
    PROVE  NextCursor(p) \in Pool
BY HostSchedulerAssumption DEF NextCursor, Pool

LEMMA ClampRange ==
    ASSUME NEW v \in Nat, NEW lo \in Nat, NEW hi \in Nat, lo <= hi
    PROVE  Clamp(v, lo, hi) \in lo .. hi
BY DEF Clamp

-----------------------------------------------------------------------------
(* The inductive invariant *)

(* Where the loop stands: slots are being stopped only within a scale-down *)
(* of the pool at hand, and turns are taken in the second loop only.       *)
PlaceInv ==
    /\ pc = "grant" => phase = "grant"
    /\ stopping # {} => pc = "stop"
    /\ \A s \in stopping : s[1] = pool

(* The count Ensure converges to leaves the other pools what they have,    *)
(* and is no more than the pool may have.                                  *)
RoomInv ==
    pc \in EnsurePCs =>
        /\ Cardinality(Others(pool, live)) + want <= Bound
        /\ want <= PoolBound(pool)

(* The second loop: total covers what lives, and while a start is granted, *)
(* what lives but for the runner granted.  Nothing is stopped there.       *)
GrantInv ==
    phase = "grant" =>
        /\ pc \in {"grant", "begin", "ensure", "starting", "surplus", "ensured"}
        /\ pc = "grant" => Cardinality(live) <= total
        /\ pc # "grant" =>
              /\ total < HostMax
              /\ want = before + 1
              /\ LiveCount(pool) <= want
              /\ Cardinality(Others(pool, live)) + before <= total

IInv == TypeOK /\ PlaceInv /\ RoomInv /\ GrantInv /\ Ceiling /\ PoolCeiling

-----------------------------------------------------------------------------
(* Types *)

LEMMA InitType == Init => TypeOK
<1> SUFFICES ASSUME Init PROVE TypeOK
  OBVIOUS
<1>1. 0 \in Pool /\ 0 \in 0 .. MaxSlotID
  BY HostSchedulerAssumption DEF Pool
<1>2. desired \in [Pool -> Nat]
         /\ \A p \in Pool : desired[p] \in MinRunners[p] .. MaxRunners[p]
  BY HostSchedulerAssumption DEF Init
<1>3. live \subseteq Slot /\ adopted \in Boots
  BY HostSchedulerAssumption DEF Init
<1> QED
  BY <1>1, <1>2, <1>3 DEF Init, TypeOK, PCs

LEMMA EnvironmentType == TypeOK /\ Environment => TypeOK'
<1> SUFFICES ASSUME TypeOK, Environment PROVE TypeOK'
  OBVIOUS
<1> USE DEF TypeOK
<1>1. ASSUME NEW p \in Pool, PushNudge(p) PROVE TypeOK'
  BY <1>1 DEF PushNudge, tables, demand, wakeups, locals
<1>2. ASSUME NEW p \in Pool, BackoffOver(p) PROVE TypeOK'
  BY <1>2 DEF BackoffOver, tables, demand, wakeups, locals
<1>3. ASSUME NEW p \in Pool, NEW n \in Assigned(p), Push(p, n) PROVE TypeOK'
  <2>1. n \in Nat /\ MinRunners[p] \in Nat /\ MaxRunners[p] \in Nat
          /\ MinRunners[p] <= MaxRunners[p]
    BY HostSchedulerAssumption DEF Assigned
  <2> DEFINE c == Clamp(n, MinRunners[p], MaxRunners[p])
  <2>2. c \in MinRunners[p] .. MaxRunners[p]
    BY <2>1, ClampRange
  <2>3. desired' = [desired EXCEPT ![p] = c]
    BY <1>3 DEF Push
  <2> HIDE DEF c
  <2>4. desired' \in [Pool -> Nat]
    BY <2>1, <2>2, <2>3
  <2>5. \A q \in Pool : desired'[q] \in MinRunners[q] .. MaxRunners[q]
    BY <2>2, <2>3
  <2> QED
    BY <1>3, <2>4, <2>5 DEF Push, tables, wakeups, locals
<1>4. ASSUME NEW s \in live, NEW event \in {"exited", "failure"}, Exit(s, event)
      PROVE  TypeOK'
  <2>1. ended' \subseteq Wipes
    BY <1>4 DEF Exit, Wipes
  <2> QED
    BY <1>4, <2>1 DEF Exit, demand, wakeups, locals
<1>5. ASSUME NEW s \in Slot, ReportFailure(s) PROVE TypeOK'
  <2>1. ended' \subseteq Wipes
    BY <1>5 DEF ReportFailure, Wipes
  <2>2. backoff' \in [Pool -> BOOLEAN]
    BY <1>5 DEF ReportFailure
  <2> QED
    BY <1>5, <2>1, <2>2 DEF ReportFailure, demand, wakeups, locals
<1>6. ASSUME NEW s \in Slot, Wiped(s) PROVE TypeOK'
  BY <1>6 DEF Wiped, demand, locals
<1>7. ASSUME NEW s \in Slot, WipeFails(s) PROVE TypeOK'
  BY <1>7 DEF WipeFails, demand, wakeups, locals
<1> QED
  BY <1>1, <1>2, <1>3, <1>4, <1>5, <1>6, <1>7 DEF Environment

LEMMA LoopType ==
    TypeOK /\ (Prompted \/ WakeByTick \/ Arm) => TypeOK'
BY DEF TypeOK, Prompted, WakeByNudge, WakeByRetry, WakeByTick, Wake, Arm, NeedsTimer, PCs,
       tables, demand, wakeups, locals

LEMMA ReturnType ==
    ASSUME NEW how \in {"done", "cut"}, TypeOK, Return(how), pc # "starting",
           UNCHANGED <<tables, demand, backoff, wakeups, cursor, cur>>
    PROVE  TypeOK'
BY HostSchedulerAssumption DEF TypeOK, Return, PCs, Pool, tables, demand, wakeups

LEMMA ReconcileType ==
    TypeOK /\ (Trim \/ Trimmed \/ Skip \/ Grant \/ Granted \/ Finish \/ Cut) => TypeOK'
<1> SUFFICES ASSUME TypeOK, Trim \/ Trimmed \/ Skip \/ Grant \/ Granted \/ Finish \/ Cut
             PROVE  TypeOK'
  OBVIOUS
<1> USE DEF TypeOK
<1>a. live \in SUBSET Slot /\ live \in SUBSET live
  OBVIOUS
<1>b. \A p \in Pool : LiveCount(p) \in Nat
  BY <1>a, OfMono DEF LiveCount
<1>c. Cardinality(live) \in Nat
  BY <1>a, CountMono
<1>1. CASE Trim
  <2>1. want' \in Nat
    BY <1>1, <1>b DEF Trim, Target, Lesser
  <2> QED
    BY <1>1, <2>1 DEF Trim, PCs, EnsurePCs, tables, demand, wakeups
<1>2. CASE Trimmed
  <2>1. pool' \in Pool
    BY <1>2, HostSchedulerAssumption DEF Trimmed, Pool
  <2>2. total' \in Nat
    BY <1>2, <1>c DEF Trimmed, AllActive
  <2> QED
    BY <1>2, <2>1, <2>2 DEF Trimmed, PCs, tables, demand, wakeups
<1>3. CASE Skip
  <2>1. cursor' \in Pool
    BY <1>3, NextCursorType DEF Skip
  <2> QED
    BY <1>3, <2>1 DEF Skip, tables, demand, wakeups
<1>4. CASE Grant
  <2>1. cursor' \in Pool
    BY <1>4, NextCursorType DEF Grant
  <2>2. before' \in Nat /\ want' \in Nat /\ pool' \in Pool
    BY <1>4, <1>b DEF Grant, InTurn
  <2> QED
    BY <1>4, <2>1, <2>2 DEF Grant, PCs, EnsurePCs, tables, demand, wakeups
<1>5. CASE Granted
  <2>1. LiveCount(pool) \in Nat
    BY <1>b
  <2>2. total' \in Nat /\ idleTurns' \in Nat
    BY <1>5, <2>1 DEF Granted, Charge
  <2>3. 0 \in Pool
    BY HostSchedulerAssumption DEF Pool
  <2> QED
    BY <1>5, <2>2, <2>3 DEF Granted, PCs, tables, demand, wakeups
<1>6. CASE Finish
  BY <1>6, ReturnType DEF Finish
<1>7. CASE Cut
  BY <1>7, ReturnType DEF Cut
<1> QED
  BY <1>1, <1>2, <1>3, <1>4, <1>5, <1>6, <1>7

LEMMA EnsureType == TypeOK /\ EnsureStep => TypeOK'
<1> SUFFICES ASSUME TypeOK, EnsureStep PROVE TypeOK'
  OBVIOUS
<1> USE DEF TypeOK, tables, demand, wakeups, locals
<1>0. EnsurePCs \subseteq PCs
  BY DEF PCs
<1>a. ASSUME NEW s \in Slot, WipesAfter(s) PROVE ended' \subseteq Wipes
  BY <1>a DEF WipesAfter, Wipes
<1>0a. CASE RetryCleanup
  <2>1. WipesOf(pool, unclean) \subseteq unclean
    BY DEF WipesOf
  <2> QED
    BY <1>0a, <1>0, <2>1 DEF RetryCleanup, EnsurePCs
<1>1. CASE EnoughLive \/ StartRefused \/ StartOk
  BY <1>1, <1>0, HostSchedulerAssumption DEF EnoughLive, StartRefused, StartOk, EnsurePCs
<1>2. ASSUME NEW i \in 1 .. MaxSlotID, Reserve(i) PROVE TypeOK'
  <2>1. <<pool, i>> \in Slot
    BY DEF Slot
  <2> QED
    BY <1>2, <1>0, <2>1, HostSchedulerAssumption DEF Reserve, EnsurePCs
<1>3. CASE StartFails \/ StartUncertain
  <2>1. backoff' \in [Pool -> BOOLEAN]
    BY <1>3 DEF StartFails, StartUncertain, AcquireFails
  <2>2. live' \subseteq live /\ pc' \in PCs /\ pc' # "starting" /\ cur' = 0
    BY <1>3, <1>0, HostSchedulerAssumption DEF StartFails, StartUncertain, EnsurePCs
  <2>3. ended' \subseteq Wipes
    <3>1. <<pool, cur>> \in Slot
      BY <1>3 DEF StartFails, StartUncertain, Slot
    <3> QED
      BY <1>3, <1>a, <3>1 DEF StartFails, StartUncertain
  <2> QED
    BY <1>3, <2>1, <2>2, <2>3 DEF StartFails, StartUncertain
<1>4. ASSUME NEW chosen \in SUBSET Of(pool, live), StopSurplus(chosen) PROVE TypeOK'
  BY <1>4, <1>0 DEF StopSurplus, Of, EnsurePCs
<1>5. ASSUME NEW s \in stopping, StopOk(s) \/ StopErr(s) PROVE TypeOK'
  <2>1. ended' \subseteq Wipes
    BY <1>5, <1>a DEF StopOk, StopErr
  <2> QED
    BY <1>5, <1>0, <2>1 DEF StopOk, StopErr, AfterStop, EnsurePCs
<1> QED
  BY <1>0a, <1>1, <1>2, <1>3, <1>4, <1>5 DEF EnsureStep

LEMMA NextType == TypeOK /\ [Next]_vars => TypeOK'
<1> SUFFICES ASSUME TypeOK, [Next]_vars PROVE TypeOK'
  OBVIOUS
<1>1. CASE UNCHANGED vars
  BY <1>1 DEF TypeOK, vars, tables, demand, wakeups, locals
<1> QED
  BY <1>1, EnvironmentType, LoopType, ReconcileType, EnsureType DEF Next, ReconcileStep

-----------------------------------------------------------------------------
(* Facts about the bounds *)

LEMMA BoundFacts ==
    ASSUME TypeOK
    PROVE  /\ Bound \in Nat
           /\ HostMax <= Bound
           /\ Cardinality(adopted) <= Bound
           /\ \A p \in Pool : /\ PoolBound(p) \in Nat
                              /\ MaxRunners[p] <= PoolBound(p)
                              /\ Cardinality(Of(p, adopted)) <= PoolBound(p)
<1>1. adopted \in SUBSET Slot /\ adopted \in SUBSET adopted
  BY HostSchedulerAssumption DEF TypeOK
<1>2. Cardinality(adopted) \in Nat
  BY <1>1, CountMono
<1>3. \A p \in Pool : Cardinality(Of(p, adopted)) \in Nat
  BY <1>1, OfMono
<1>4. HostMax \in Nat /\ \A p \in Pool : MaxRunners[p] \in Nat
  BY HostSchedulerAssumption
<1> QED
  BY <1>2, <1>3, <1>4 DEF Bound, PoolBound, Greater

(* The slots are those that live and those being stopped.               *)
LEMMA TablesType ==
    ASSUME TypeOK
    PROVE  /\ live \in SUBSET Slot
           /\ live \cup stopping \in SUBSET Slot
           /\ live \in SUBSET (live \cup stopping)
BY DEF TypeOK

(* The ceilings hold when no slot is added to the ones that live or are    *)
(* being stopped.                                                          *)
LEMMA CeilingKept ==
    ASSUME TypeOK, TypeOK', Ceiling, PoolCeiling, adopted' = adopted,
           live' \cup stopping' \subseteq live \cup stopping
    PROVE  Ceiling' /\ PoolCeiling'
<1> DEFINE old == live \cup stopping
           new == live' \cup stopping'
<1>1. old \in SUBSET Slot /\ new \in SUBSET old
  BY TablesType
<1>2. Bound' = Bound /\ Bound \in Nat
  BY BoundFacts DEF Bound
<1>3. \A p \in Pool : PoolBound(p)' = PoolBound(p) /\ PoolBound(p) \in Nat
  BY BoundFacts DEF PoolBound
<1>4. Cardinality(old) \in Nat /\ Cardinality(new) \in Nat
        /\ Cardinality(new) <= Cardinality(old)
  BY <1>1, CountMono
<1>5. \A p \in Pool : /\ Cardinality(Of(p, old)) \in Nat
                      /\ Cardinality(Of(p, new)) \in Nat
                      /\ Cardinality(Of(p, new)) <= Cardinality(Of(p, old))
  BY <1>1, OfMono
<1>6. Cardinality(old) <= Bound /\ \A p \in Pool : Cardinality(Of(p, old)) <= PoolBound(p)
  BY DEF Ceiling, PoolCeiling
<1>7. Cardinality(new) <= Bound
  BY <1>2, <1>4, <1>6
<1>8. \A p \in Pool : Cardinality(Of(p, new)) <= PoolBound(p)
  BY <1>3, <1>5, <1>6
<1> QED
  BY <1>2, <1>3, <1>7, <1>8 DEF Ceiling, PoolCeiling

(* RoomInv holds when the pool at hand and its count stay and no other     *)
(* pool gets a slot.                                                       *)
LEMMA RoomKept ==
    ASSUME TypeOK, TypeOK', RoomInv, adopted' = adopted,
           pc' \in EnsurePCs => /\ pc \in EnsurePCs
                               /\ pool' = pool
                               /\ want' = want
                               /\ Others(pool, live') \subseteq Others(pool, live)
    PROVE  RoomInv'
<1> SUFFICES ASSUME pc' \in EnsurePCs
             PROVE  /\ Cardinality(Others(pool', live')) + want' <= Bound'
                    /\ want' <= PoolBound(pool)'
  BY DEF RoomInv
<1>1. Others(pool, live) \in SUBSET Slot /\ Others(pool, live') \in SUBSET Others(pool, live)
  BY TablesType DEF Others
<1>2. /\ Cardinality(Others(pool, live)) \in Nat
      /\ Cardinality(Others(pool, live')) \in Nat
      /\ Cardinality(Others(pool, live')) <= Cardinality(Others(pool, live))
  BY <1>1, CountMono
<1>3. Cardinality(Others(pool, live)) + want <= Bound /\ want <= PoolBound(pool)
  BY DEF RoomInv
<1>4. Bound \in Nat /\ want \in Nat /\ Bound' = Bound /\ PoolBound(pool)' = PoolBound(pool)
  BY BoundFacts DEF TypeOK, Bound, PoolBound
<1> QED
  BY <1>2, <1>3, <1>4

(* GrantInv holds when the loop stays where it is and slots only end.      *)
LEMMA GrantKept ==
    ASSUME TypeOK, TypeOK', GrantInv, live' \subseteq live,
           phase' = phase, pool' = pool, want' = want, before' = before, total' = total,
           phase = "grant" => pc' \in {"grant", "begin", "ensure", "starting", "surplus",
                                       "ensured"}
                                /\ (pc' = "grant" <=> pc = "grant")
    PROVE  GrantInv'
<1> SUFFICES ASSUME phase = "grant"
             PROVE  /\ pc' = "grant" => Cardinality(live') <= total
                    /\ pc' # "grant" =>
                          /\ total < HostMax
                          /\ want = before + 1
                          /\ LiveCount(pool)' <= want
                          /\ Cardinality(Others(pool, live')) + before <= total
  BY DEF GrantInv
<1>1. live \in SUBSET Slot /\ live' \in SUBSET live
  BY TablesType
<1>2. /\ Cardinality(live) \in Nat /\ Cardinality(live') \in Nat
      /\ Cardinality(live') <= Cardinality(live)
  BY <1>1, CountMono
<1>3. /\ LiveCount(pool) \in Nat /\ LiveCount(pool)' \in Nat
      /\ LiveCount(pool)' <= LiveCount(pool)
      /\ Cardinality(Others(pool, live)) \in Nat
      /\ Cardinality(Others(pool, live')) \in Nat
      /\ Cardinality(Others(pool, live')) <= Cardinality(Others(pool, live))
  BY <1>1, OfMono DEF LiveCount
<1>4. total \in Nat /\ want \in Nat /\ before \in Nat
  BY DEF TypeOK
<1> QED
  BY <1>2, <1>3, <1>4 DEF GrantInv

-----------------------------------------------------------------------------
(* Every step preserves the invariant *)

LEMMA InitInv == Init => IInv
<1> SUFFICES ASSUME Init PROVE IInv
  OBVIOUS
<1>1. TypeOK
  BY InitType
<1>2. PlaceInv /\ RoomInv /\ GrantInv
  BY DEF Init, PlaceInv, RoomInv, GrantInv, EnsurePCs
<1>3. live \cup stopping = adopted
  BY DEF Init
<1>4. Ceiling
  BY <1>1, <1>3, BoundFacts DEF Ceiling
<1>5. PoolCeiling
  BY <1>1, <1>3, BoundFacts DEF PoolCeiling
<1> QED
  BY <1>1, <1>2, <1>4, <1>5 DEF IInv

(* Steps that leave the loop where it is: slots may only end.              *)
LEMMA QuietOK ==
    ASSUME IInv, TypeOK', live' \subseteq live, stopping' = stopping, adopted' = adopted,
           UNCHANGED <<pc, locals>>
    PROVE  IInv'
<1> USE DEF locals
<1>1. TypeOK /\ PlaceInv /\ RoomInv /\ GrantInv /\ Ceiling /\ PoolCeiling
  BY DEF IInv
<1>2. PlaceInv'
  BY <1>1 DEF PlaceInv
<1>3. Others(pool, live') \subseteq Others(pool, live)
  BY DEF Others
<1>4. RoomInv'
  BY <1>1, <1>3, RoomKept
<1>5. GrantInv'
  <2>1. phase = "grant" => pc' \in {"grant", "begin", "ensure", "starting", "surplus", "ensured"}
    BY <1>1 DEF GrantInv
  <2> QED
    BY <1>1, <2>1, GrantKept
<1>6. Ceiling' /\ PoolCeiling'
  <2>1. live' \cup stopping' \subseteq live \cup stopping
    OBVIOUS
  <2> QED
    BY <1>1, <2>1, CeilingKept
<1> QED
  BY <1>2, <1>4, <1>5, <1>6 DEF IInv

LEMMA EnvironmentOK == IInv /\ Environment => IInv'
<1> SUFFICES ASSUME IInv, Environment PROVE IInv'
  OBVIOUS
<1>1. TypeOK'
  BY EnvironmentType DEF IInv
<1>2. live' \subseteq live /\ stopping' = stopping /\ adopted' = adopted
  BY DEF Environment, PushNudge, BackoffOver, Push, Exit, ReportFailure, Wiped,
         WipeFails, tables
<1>3. UNCHANGED <<pc, locals>>
  BY DEF Environment, PushNudge, BackoffOver, Push, Exit, ReportFailure, Wiped,
         WipeFails
<1> QED
  BY <1>1, <1>2, <1>3, QuietOK

(* Steps between the calls of Ensure, outside the second loop: the tables  *)
(* stay as they are.                                                       *)
LEMMA BetweenOK ==
    ASSUME IInv, TypeOK', UNCHANGED tables, pc \notin {"stop"},
           pc' \notin EnsurePCs \cup {"grant"}, phase' # "grant"
    PROVE  IInv'
<1> USE DEF tables
<1>1. TypeOK /\ PlaceInv /\ RoomInv /\ GrantInv /\ Ceiling /\ PoolCeiling
  BY DEF IInv
<1>2. PlaceInv'
  BY <1>1 DEF PlaceInv
<1>3. RoomInv' /\ GrantInv'
  BY DEF RoomInv, GrantInv
<1>4. Ceiling' /\ PoolCeiling'
  <2>1. live' \cup stopping' \subseteq live \cup stopping
    OBVIOUS
  <2> QED
    BY <1>1, <2>1, CeilingKept
<1> QED
  BY <1>2, <1>3, <1>4 DEF IInv

LEMMA LoopOK == IInv /\ (Prompted \/ WakeByTick \/ Arm) => IInv'
<1> SUFFICES ASSUME IInv, Prompted \/ WakeByTick \/ Arm PROVE IInv'
  OBVIOUS
<1>1. TypeOK'
  BY LoopType DEF IInv
<1>2. UNCHANGED tables
  BY DEF Prompted, WakeByNudge, WakeByRetry, WakeByTick, Wake, Arm
<1>3. pc \in {"wait", "done", "cut"} /\ pc' \in {"trim", "wait"} /\ phase' = phase
  BY DEF Prompted, WakeByNudge, WakeByRetry, WakeByTick, Wake, Arm, locals
<1>4. phase # "grant"
  BY <1>3 DEF IInv, GrantInv
<1> QED
  BY <1>1, <1>2, <1>3, <1>4, BetweenOK DEF EnsurePCs

LEMMA ReturnOK ==
    ASSUME IInv, NEW how \in {"done", "cut"}, Return(how), pc \notin {"starting", "stop"},
           UNCHANGED <<tables, demand, backoff, wakeups, cursor, cur>>
    PROVE  IInv'
<1>1. TypeOK'
  BY ReturnType DEF IInv
<1>2. UNCHANGED tables
  OBVIOUS
<1>3. pc' \notin EnsurePCs \cup {"grant"} /\ phase' # "grant"
  BY DEF Return, EnsurePCs
<1> QED
  BY <1>1, <1>2, <1>3, BetweenOK

LEMMA TrimOK == IInv /\ Trim => IInv'
<1> SUFFICES ASSUME IInv, Trim PROVE IInv'
  OBVIOUS
<1>1. TypeOK /\ PlaceInv /\ GrantInv /\ Ceiling /\ PoolCeiling /\ TypeOK'
  BY ReconcileType DEF IInv
<1>2. UNCHANGED <<live, stopping, adopted, pool, phase>> /\ pc = "trim" /\ pc' = "begin"
  BY DEF Trim, tables
<1>3. PlaceInv'
  BY <1>1, <1>2 DEF PlaceInv
<1>4. Ceiling' /\ PoolCeiling'
  <2>1. live' \cup stopping' \subseteq live \cup stopping
    BY <1>2
  <2> QED
    BY <1>1, <1>2, <2>1, CeilingKept
<1>5. GrantInv'
  BY <1>1, <1>2 DEF GrantInv
<1>6. live \cup stopping = live
  BY <1>1, <1>2 DEF PlaceInv
<1>7. pool \in Pool /\ live \in SUBSET Slot
  BY <1>1 DEF TypeOK
<1>8. /\ LiveCount(pool) \in Nat
      /\ Cardinality(Others(pool, live)) \in Nat
      /\ Cardinality(live) = LiveCount(pool) + Cardinality(Others(pool, live))
  BY <1>7, CountSplit DEF LiveCount
<1>9. want' \in Nat /\ want' <= LiveCount(pool)
  <2>1. desired[pool] \in Nat
    BY <1>1, <1>7 DEF TypeOK
  <2> QED
    BY <1>8, <2>1 DEF Trim, Target, Lesser
<1>10. RoomInv'
  <2>1. Cardinality(live) <= Bound /\ LiveCount(pool) <= PoolBound(pool)
    BY <1>1, <1>6, <1>7 DEF Ceiling, PoolCeiling, LiveCount
  <2>2. Bound \in Nat /\ PoolBound(pool) \in Nat
    BY <1>1, <1>7, BoundFacts
  <2>3. Bound' = Bound /\ PoolBound(pool)' = PoolBound(pool)
    BY <1>2 DEF Bound, PoolBound
  <2>4. Cardinality(Others(pool, live)) + want' <= Bound /\ want' <= PoolBound(pool)
    BY <1>8, <1>9, <2>1, <2>2
  <2> QED
    BY <1>2, <2>3, <2>4 DEF RoomInv
<1> QED
  BY <1>1, <1>3, <1>4, <1>5, <1>10 DEF IInv

LEMMA TrimmedOK == IInv /\ Trimmed => IInv'
<1> SUFFICES ASSUME IInv, Trimmed PROVE IInv'
  OBVIOUS
<1>1. TypeOK' /\ TypeOK
  BY ReconcileType DEF IInv
<1>2. UNCHANGED tables /\ pc = "ensured" /\ pc' \in {"trim", "grant"}
  BY DEF Trimmed
<1>3. CASE pc' = "trim"
  <2>1. phase' # "grant"
    BY <1>2, <1>3 DEF Trimmed
  <2> QED
    BY <1>1, <1>2, <1>3, <2>1, BetweenOK DEF EnsurePCs
<1>4. CASE pc' = "grant"
  <2>1. PlaceInv /\ Ceiling /\ PoolCeiling
    BY DEF IInv
  <2>2. UNCHANGED <<live, stopping, adopted>>
    BY <1>2 DEF tables
  <2>3. PlaceInv'
    BY <1>2, <1>4, <2>1, <2>2 DEF PlaceInv, Trimmed
  <2>4. RoomInv'
    BY <1>4 DEF RoomInv, EnsurePCs
  <2>5. total' = Cardinality(live)
    BY <1>4 DEF Trimmed, AllActive
  <2>6. Cardinality(live) \in Nat
    BY TablesType, CountMono, <1>1
  <2>7. GrantInv'
    BY <1>4, <2>2, <2>5, <2>6 DEF GrantInv
  <2>8. live' \cup stopping' \subseteq live \cup stopping
    BY <2>2
  <2>9. Ceiling' /\ PoolCeiling'
    BY <1>1, <2>1, <2>2, <2>8, CeilingKept
  <2> QED
    BY <1>1, <2>3, <2>4, <2>7, <2>9 DEF IInv
<1> QED
  BY <1>2, <1>3, <1>4

LEMMA SkipOK == IInv /\ Skip => IInv'
<1> SUFFICES ASSUME IInv, Skip PROVE IInv'
  OBVIOUS
<1>1. TypeOK' /\ TypeOK /\ PlaceInv /\ GrantInv /\ Ceiling /\ PoolCeiling
  BY ReconcileType DEF IInv
<1>2. UNCHANGED <<live, stopping, adopted, pc, phase, total>> /\ pc = "grant"
  BY DEF Skip, tables
<1>3. PlaceInv'
  BY <1>1, <1>2 DEF PlaceInv
<1>4. RoomInv'
  BY <1>2 DEF RoomInv, EnsurePCs
<1>5. GrantInv'
  BY <1>1, <1>2 DEF GrantInv
<1>6. Ceiling' /\ PoolCeiling'
  BY <1>1, <1>2, CeilingKept
<1> QED
  BY <1>1, <1>3, <1>4, <1>5, <1>6 DEF IInv

(* total covers what lives and is below the host's maximum, so one more    *)
(* fits; the pool has less than it desires, so one more fits there too.    *)
LEMMA GrantOK == IInv /\ Grant => IInv'
<1> SUFFICES ASSUME IInv, Grant PROVE IInv'
  OBVIOUS
<1>1. TypeOK' /\ TypeOK /\ PlaceInv /\ GrantInv /\ Ceiling /\ PoolCeiling
  BY ReconcileType DEF IInv
<1>2. /\ UNCHANGED <<live, stopping, adopted, phase, total>>
      /\ pc = "grant" /\ pc' = "begin"
  BY DEF Grant, tables
<1>3. /\ pool' = cursor
      /\ before' = LiveCount(cursor)
      /\ want' = LiveCount(cursor) + 1
      /\ total < HostMax
      /\ LiveCount(cursor) < desired[cursor]
  BY DEF Grant, InTurn, GrantsGoOn, Skips, Unmet
<1>4. cursor \in Pool /\ live \in SUBSET Slot /\ total \in Nat
  BY <1>1 DEF TypeOK
<1>5. /\ LiveCount(cursor) \in Nat
      /\ Cardinality(Others(cursor, live)) \in Nat
      /\ Cardinality(live) = LiveCount(cursor) + Cardinality(Others(cursor, live))
  BY <1>4, CountSplit DEF LiveCount
<1>6. PlaceInv'
  BY <1>1, <1>2 DEF PlaceInv
<1>7. Ceiling' /\ PoolCeiling'
  BY <1>1, <1>2, CeilingKept
<1>8. CASE phase = "grant"
  <2>1. Cardinality(live) <= total
    BY <1>1, <1>2, <1>8 DEF GrantInv
  <2>2. HostMax \in Nat
    BY HostSchedulerAssumption
  <2>3. LiveCount(pool)' = LiveCount(cursor)
    BY <1>2, <1>3 DEF LiveCount
  <2>4. Cardinality(Others(pool', live')) = Cardinality(Others(cursor, live))
    BY <1>2, <1>3
  <2>5. GrantInv'
    BY <1>2, <1>3, <1>4, <1>5, <1>8, <2>1, <2>2, <2>3, <2>4 DEF GrantInv
  <2>6. Bound \in Nat /\ HostMax <= Bound /\ Bound' = Bound
    BY <1>1, <1>2, BoundFacts DEF Bound
  <2>7. /\ PoolBound(cursor) \in Nat
        /\ MaxRunners[cursor] <= PoolBound(cursor)
        /\ PoolBound(pool)' = PoolBound(cursor)
    BY <1>1, <1>2, <1>3, <1>4, BoundFacts DEF PoolBound
  <2>8. /\ MaxRunners[cursor] \in Nat /\ desired[cursor] \in Nat
        /\ desired[cursor] <= MaxRunners[cursor]
    BY <1>1, <1>4, HostSchedulerAssumption DEF TypeOK
  <2>9. Cardinality(Others(pool', live')) + want' <= Bound'
    BY <1>3, <1>4, <1>5, <2>1, <2>2, <2>4, <2>6
  <2>10. want' <= PoolBound(pool)'
    BY <1>3, <1>5, <2>7, <2>8
  <2>11. RoomInv'
    BY <2>9, <2>10 DEF RoomInv
  <2> QED
    BY <1>1, <1>6, <1>7, <2>5, <2>11 DEF IInv
<1>9. phase = "grant"
  BY <1>1, <1>2 DEF PlaceInv
<1> QED
  BY <1>8, <1>9

LEMMA GrantedOK == IInv /\ Granted => IInv'
<1> SUFFICES ASSUME IInv, Granted PROVE IInv'
  OBVIOUS
<1>1. TypeOK' /\ TypeOK /\ PlaceInv /\ GrantInv /\ Ceiling /\ PoolCeiling
  BY ReconcileType DEF IInv
<1>2. /\ UNCHANGED <<live, stopping, adopted, phase>>
      /\ phase = "grant" /\ pc = "ensured" /\ pc' = "grant"
  BY DEF Granted, tables
<1>3. PlaceInv'
  BY <1>1, <1>2 DEF PlaceInv
<1>4. RoomInv'
  BY <1>2 DEF RoomInv, EnsurePCs
<1>5. Ceiling' /\ PoolCeiling'
  BY <1>1, <1>2, CeilingKept
<1>6. /\ LiveCount(pool) \in Nat
      /\ Cardinality(Others(pool, live)) \in Nat
      /\ Cardinality(live) = LiveCount(pool) + Cardinality(Others(pool, live))
  BY <1>1, TablesType, CountSplit DEF LiveCount
<1>7. Cardinality(Others(pool, live)) + before <= total
  BY <1>1, <1>2 DEF GrantInv
<1>8. before \in Nat /\ total \in Nat
  BY <1>1 DEF TypeOK
<1>9. Cardinality(live) <= total'
  <2>1. CASE LiveCount(pool) <= before
    BY <1>6, <1>7, <1>8, <2>1 DEF Granted
  <2>2. CASE ~(LiveCount(pool) <= before)
    <3>1. total' = total + (LiveCount(pool) - before)
      BY <2>2 DEF Granted, Charge
    <3> QED
      BY <1>6, <1>7, <1>8, <3>1
  <2> QED
    BY <2>1, <2>2
<1>10. GrantInv'
  BY <1>2, <1>9 DEF GrantInv
<1> QED
  BY <1>1, <1>3, <1>4, <1>5, <1>10 DEF IInv

LEMMA FinishOrCutOK == IInv /\ (Finish \/ Cut) => IInv'
<1>1. ASSUME IInv, Finish PROVE IInv'
  <2>1. Return("done") /\ pc \notin {"starting", "stop"}
          /\ UNCHANGED <<tables, demand, backoff, wakeups, cursor, cur>>
    BY <1>1 DEF Finish
  <2> QED
    BY <1>1, <2>1, ReturnOK
<1>2. ASSUME IInv, Cut PROVE IInv'
  <2>1. Return("cut") /\ pc \notin {"starting", "stop"}
          /\ UNCHANGED <<tables, demand, backoff, wakeups, cursor, cur>>
    BY <1>2 DEF Cut
  <2> QED
    BY <1>2, <2>1, ReturnOK
<1> QED
  BY <1>1, <1>2

-----------------------------------------------------------------------------
(* The steps of Ensure *)

(* A start that is refused or over: slots may only end.                    *)
LEMMA StartOverOK ==
    IInv /\ (RetryCleanup \/ EnoughLive \/ StartRefused \/ StartOk \/ StartFails
              \/ StartUncertain) => IInv'
<1> SUFFICES ASSUME IInv,
                    RetryCleanup \/ EnoughLive \/ StartRefused \/ StartOk \/ StartFails
                      \/ StartUncertain
             PROVE  IInv'
  OBVIOUS
<1>1. TypeOK /\ PlaceInv /\ RoomInv /\ GrantInv /\ Ceiling /\ PoolCeiling
  BY DEF IInv
<1>2. TypeOK'
  BY <1>1, EnsureType DEF EnsureStep
<1>3. /\ live' \subseteq live /\ stopping' = stopping /\ adopted' = adopted
      /\ UNCHANGED locals
      /\ pc \in {"begin", "ensure", "starting"} /\ pc' \in {"ensure", "surplus"}
  BY DEF RetryCleanup, EnoughLive, StartRefused, StartOk, StartFails, StartUncertain,
         tables
<1>4. PlaceInv'
  BY <1>1, <1>3 DEF PlaceInv, locals
<1>5. RoomInv'
  <2>1. Others(pool, live') \subseteq Others(pool, live)
    BY <1>3 DEF Others
  <2> QED
    BY <1>1, <1>2, <1>3, <2>1, RoomKept DEF locals, EnsurePCs
<1>6. GrantInv'
  BY <1>1, <1>2, <1>3, GrantKept DEF locals
<1>7. Ceiling' /\ PoolCeiling'
  <2>1. live' \cup stopping' \subseteq live \cup stopping
    BY <1>3
  <2> QED
    BY <1>1, <1>2, <1>3, <2>1, CeilingKept
<1> QED
  BY <1>2, <1>4, <1>5, <1>6, <1>7 DEF IInv

(* A start adds one slot to the pool at hand.                              *)
LEMMA ReserveAdds ==
    ASSUME TypeOK, NEW i \in 1 .. MaxSlotID, Reserve(i)
    PROVE  LiveCount(pool) \in Nat /\ LiveCount(pool)' = LiveCount(pool) + 1
<1> DEFINE s == <<pool, i>>
<1>1. live' = live \cup {s} /\ s \notin live /\ s[1] = pool /\ pool' = pool
  BY DEF Reserve, Free, Taken, locals
<1> HIDE DEF s
<1>2. Of(pool, live') = Of(pool, live) \cup {s} /\ s \notin Of(pool, live)
  BY <1>1 DEF Of
<1>3. IsFiniteSet(Of(pool, live)) /\ Cardinality(Of(pool, live)) \in Nat
  <2>1. Of(pool, live) \in SUBSET Slot /\ Of(pool, live) \in SUBSET Of(pool, live)
    BY DEF Of, TypeOK
  <2> QED
    BY <2>1, CountMono
<1>4. Cardinality(Of(pool, live) \cup {s}) = Cardinality(Of(pool, live)) + 1
  BY <1>2, <1>3, FS_AddElement
<1> QED
  BY <1>1, <1>2, <1>3, <1>4 DEF LiveCount

(* There is room for it: the pool has less than Ensure was called for.     *)
LEMMA ReserveOK == IInv /\ (\E i \in 1 .. MaxSlotID : Reserve(i)) => IInv'
<1> SUFFICES ASSUME IInv, NEW i \in 1 .. MaxSlotID, Reserve(i) PROVE IInv'
  OBVIOUS
<1> DEFINE s == <<pool, i>>
<1>1. TypeOK /\ PlaceInv /\ RoomInv /\ GrantInv /\ Ceiling /\ PoolCeiling
  BY DEF IInv
<1>2. TypeOK'
  BY <1>1, EnsureType DEF EnsureStep
<1>3. /\ live' = live \cup {s}
      /\ s \notin live
      /\ s[1] = pool
      /\ UNCHANGED <<stopping, adopted>> /\ UNCHANGED locals
      /\ pc = "ensure" /\ pc' = "starting"
  BY DEF Reserve, Free, Taken
<1> HIDE DEF s
<1>4. stopping = {} /\ stopping' = {}
  BY <1>1, <1>3 DEF PlaceInv
<1>5. live \in SUBSET Slot /\ live' \in SUBSET Slot /\ pool \in Pool
  BY <1>1, <1>2 DEF TypeOK
<1>6. /\ Of(pool, live') = Of(pool, live) \cup {s}
      /\ s \notin Of(pool, live)
      /\ Others(pool, live') = Others(pool, live)
      /\ \A p \in Pool : p # pool => Of(p, live') = Of(p, live)
  BY <1>3 DEF Of, Others
<1>7. LiveCount(pool)' = LiveCount(pool) + 1
  BY <1>1, ReserveAdds
<1>8. /\ LiveCount(pool) \in Nat /\ LiveCount(pool)' \in Nat
      /\ Cardinality(Others(pool, live)) \in Nat
      /\ Cardinality(live') = LiveCount(pool)' + Cardinality(Others(pool, live))
  BY <1>3, <1>5, <1>6, CountSplit DEF LiveCount, locals
<1>9. want \in Nat /\ before \in Nat /\ LiveCount(pool)' <= want
  BY <1>1, <1>7, <1>8 DEF Reserve, Enough, TypeOK
<1>10. /\ Cardinality(Others(pool, live)) + want <= Bound
       /\ want <= PoolBound(pool)
  BY <1>1, <1>3 DEF RoomInv, EnsurePCs
<1>11. /\ Bound' = Bound /\ Bound \in Nat
       /\ \A p \in Pool : PoolBound(p)' = PoolBound(p) /\ PoolBound(p) \in Nat
  BY <1>1, <1>3, BoundFacts DEF Bound, PoolBound
<1>12. PlaceInv'
  BY <1>3, <1>4 DEF PlaceInv
<1>13. RoomInv'
  BY <1>3, <1>5, <1>6, <1>10, <1>11 DEF RoomInv, locals
<1>14. GrantInv'
  <2>1. phase = "grant" => /\ total < HostMax
                           /\ want = before + 1
                           /\ Cardinality(Others(pool, live)) + before <= total
    BY <1>1, <1>3 DEF GrantInv
  <2>2. phase' = phase /\ pool' = pool /\ want' = want /\ before' = before
          /\ total' = total
    BY <1>3 DEF locals
  <2>3. Cardinality(Others(pool', live')) = Cardinality(Others(pool, live))
    BY <1>6, <2>2
  <2> QED
    BY <1>3, <1>9, <2>1, <2>2, <2>3 DEF GrantInv
<1>15. live' \cup stopping' = live'
  BY <1>4
<1>16. Ceiling'
  <2>1. Cardinality(live') <= Bound
    BY <1>8, <1>9, <1>10, <1>11
  <2> QED
    BY <1>11, <1>15, <2>1 DEF Ceiling
<1>17. PoolCeiling'
  <2> SUFFICES ASSUME NEW p \in Pool
               PROVE  Cardinality(Of(p, live')) <= PoolBound(p)'
    BY <1>15 DEF PoolCeiling
  <2>1. CASE p = pool
    <3>1. Cardinality(Of(p, live')) = LiveCount(pool)'
      BY <1>3, <2>1 DEF LiveCount, locals
    <3> QED
      BY <1>5, <1>8, <1>9, <1>10, <1>11, <2>1, <3>1
  <2>2. CASE p # pool
    BY <1>1, <1>4, <1>6, <1>11, <2>2 DEF PoolCeiling
  <2> QED
    BY <2>1, <2>2
<1> QED
  BY <1>2, <1>12, <1>13, <1>14, <1>16, <1>17 DEF IInv

(* What a scale-down stops is no more than the surplus.                    *)
LEMMA SurplusOnly ==
    ASSUME TypeOK, NEW chosen \in SUBSET Of(pool, live), StopSurplus(chosen), chosen # {}
    PROVE  /\ Cardinality(chosen) \in Nat /\ LiveCount(pool) \in Nat /\ want \in Nat
           /\ Cardinality(chosen) + want <= LiveCount(pool)
           /\ want < LiveCount(pool)
           /\ Cardinality(Of(pool, live \ chosen)) = LiveCount(pool) - Cardinality(chosen)
<1>1. Of(pool, live) \in SUBSET Slot
  BY DEF TypeOK, Of
<1>2. /\ IsFiniteSet(chosen) /\ Cardinality(chosen) \in Nat
      /\ IsFiniteSet(Of(pool, live)) /\ LiveCount(pool) \in Nat
  BY <1>1, CountMono DEF LiveCount
<1>3. Cardinality(chosen) + want <= LiveCount(pool)
  BY DEF StopSurplus, FewEnough
<1>4. want \in Nat
  BY DEF TypeOK
<1>5. Cardinality(chosen) # 0
  BY <1>2, FS_EmptySet
<1>6. want < LiveCount(pool)
  BY <1>2, <1>3, <1>4, <1>5
<1>7. Of(pool, live \ chosen) = Of(pool, live) \ chosen
  BY DEF Of
<1>8. Of(pool, live) \cap chosen = chosen
  OBVIOUS
<1>9. Cardinality(Of(pool, live) \ chosen)
        = Cardinality(Of(pool, live)) - Cardinality(Of(pool, live) \cap chosen)
  BY <1>2, FS_Difference
<1> QED
  BY <1>2, <1>3, <1>4, <1>6, <1>7, <1>8, <1>9 DEF LiveCount

(* A granted start leaves no surplus: the second loop stops nothing.       *)
LEMMA GrantStopsNone ==
    ASSUME TypeOK, GrantInv, phase = "grant",
           NEW chosen \in SUBSET Of(pool, live), StopSurplus(chosen)
    PROVE  chosen = {}
<1> SUFFICES ASSUME chosen # {} PROVE FALSE
  OBVIOUS
<1>1. want \in Nat /\ LiveCount(pool) \in Nat /\ want < LiveCount(pool)
  BY SurplusOnly
<1>2. LiveCount(pool) <= want
  BY DEF GrantInv, StopSurplus
<1> QED
  BY <1>1, <1>2

(* A scale-down only takes slots from the ones that live.                  *)
LEMMA StopSurplusOK ==
    IInv /\ (\E chosen \in SUBSET Of(pool, live) : StopSurplus(chosen)) => IInv'
<1> SUFFICES ASSUME IInv, NEW chosen \in SUBSET Of(pool, live), StopSurplus(chosen)
             PROVE  IInv'
  OBVIOUS
<1>1. TypeOK /\ PlaceInv /\ RoomInv /\ GrantInv /\ Ceiling /\ PoolCeiling
  BY DEF IInv
<1>2. TypeOK'
  BY <1>1, EnsureType DEF EnsureStep
<1>3. /\ live' = live \ chosen /\ stopping' = chosen /\ adopted' = adopted
      /\ UNCHANGED locals
      /\ pc = "surplus"
      /\ pc' = IF chosen = {} THEN "ensured" ELSE "stop"
  BY DEF StopSurplus
<1>4. chosen \in SUBSET live /\ \A s \in chosen : s[1] = pool
  BY DEF Of
<1>5. PlaceInv'
  BY <1>3, <1>4 DEF PlaceInv, locals
<1>6. RoomInv'
  <2>1. Others(pool, live') \subseteq Others(pool, live)
    BY <1>3 DEF Others
  <2> QED
    BY <1>1, <1>2, <1>3, <2>1, RoomKept DEF locals, EnsurePCs
<1>7. phase = "grant" => chosen = {}
  BY <1>1, GrantStopsNone
<1>8. GrantInv'
  <2>1. phase = "grant" => pc' = "ensured"
    BY <1>3, <1>7
  <2> QED
    BY <1>1, <1>2, <1>3, <2>1, GrantKept DEF locals
<1>9. Ceiling' /\ PoolCeiling'
  <2>1. live' \cup stopping' \subseteq live \cup stopping
    BY <1>3, <1>4
  <2> QED
    BY <1>1, <1>2, <1>3, <2>1, CeilingKept
<1> QED
  BY <1>2, <1>5, <1>6, <1>8, <1>9 DEF IInv

(* A stop that is over, with success or not                                *)
LEMMA StopOverOK ==
    IInv /\ (\E s \in stopping : StopOk(s) \/ StopErr(s)) => IInv'
<1> SUFFICES ASSUME IInv, NEW s \in stopping, StopOk(s) \/ StopErr(s) PROVE IInv'
  OBVIOUS
<1>1. TypeOK /\ PlaceInv /\ RoomInv /\ GrantInv /\ Ceiling /\ PoolCeiling
  BY DEF IInv
<1>2. TypeOK'
  BY <1>1, EnsureType DEF EnsureStep
<1>3. /\ live' \subseteq live \cup {s} /\ stopping' = stopping \ {s} /\ adopted' = adopted
      /\ UNCHANGED locals
      /\ pc = "stop" /\ pc' = AfterStop(s)
  BY DEF StopOk, StopErr
<1>4. pc' \in {"ensured", "stop"} /\ (stopping' # {} => pc' = "stop")
  BY <1>3 DEF AfterStop
<1>5. s[1] = pool
  BY <1>1 DEF PlaceInv
<1>6. PlaceInv'
  BY <1>1, <1>3, <1>4 DEF PlaceInv, locals
<1>7. RoomInv'
  <2>1. Others(pool, live') \subseteq Others(pool, live)
    BY <1>3, <1>5 DEF Others
  <2> QED
    BY <1>1, <1>2, <1>3, <1>4, <2>1, RoomKept DEF locals, EnsurePCs
<1>8. GrantInv'
  BY <1>1, <1>3 DEF GrantInv, locals
<1>9. Ceiling' /\ PoolCeiling'
  <2>1. live' \cup stopping' \subseteq live \cup stopping
    BY <1>3
  <2> QED
    BY <1>1, <1>2, <1>3, <2>1, CeilingKept
<1> QED
  BY <1>2, <1>6, <1>7, <1>8, <1>9 DEF IInv

LEMMA EnsureOK == IInv /\ EnsureStep => IInv'
<1> SUFFICES ASSUME IInv, EnsureStep PROVE IInv'
  OBVIOUS
<1>1. CASE RetryCleanup \/ EnoughLive \/ StartRefused \/ StartOk \/ StartFails
              \/ StartUncertain
  BY <1>1, StartOverOK
<1>2. CASE \E i \in 1 .. MaxSlotID : Reserve(i)
  BY <1>2, ReserveOK
<1>3. CASE \E chosen \in SUBSET Of(pool, live) : StopSurplus(chosen)
  BY <1>3, StopSurplusOK
<1>4. CASE \E s \in stopping : StopOk(s) \/ StopErr(s)
  BY <1>4, StopOverOK
<1> QED
  BY <1>1, <1>2, <1>3, <1>4 DEF EnsureStep

LEMMA NextOK == IInv /\ [Next]_vars => IInv'
<1> SUFFICES ASSUME IInv, [Next]_vars PROVE IInv'
  OBVIOUS
<1>1. CASE UNCHANGED vars
  <2>1. TypeOK'
    BY <1>1, NextType DEF IInv
  <2>2. live' \subseteq live /\ stopping' = stopping /\ adopted' = adopted
          /\ UNCHANGED <<pc, locals>>
    BY <1>1 DEF vars, tables
  <2> QED
    BY <2>1, <2>2, QuietOK
<1>2. CASE Environment
  BY <1>2, EnvironmentOK
<1>3. CASE Arm \/ Prompted \/ WakeByTick
  BY <1>3, LoopOK
<1>4. CASE ReconcileStep
  <2>1. CASE Trim
    BY <2>1, TrimOK
  <2>2. CASE Trimmed
    BY <2>2, TrimmedOK
  <2>3. CASE Skip
    BY <2>3, SkipOK
  <2>4. CASE Grant
    BY <2>4, GrantOK
  <2>5. CASE Granted
    BY <2>5, GrantedOK
  <2>6. CASE Finish \/ Cut
    BY <2>6, FinishOrCutOK
  <2>7. CASE EnsureStep
    BY <2>7, EnsureOK
  <2> QED
    BY <1>4, <2>1, <2>2, <2>3, <2>4, <2>5, <2>6, <2>7 DEF ReconcileStep
<1> QED
  BY <1>1, <1>2, <1>3, <1>4 DEF Next

(* In every reachable state the loop's memory bounds what the tables may   *)
(* come to hold.                                                           *)
THEOREM Invariance == Spec => []IInv
BY InitInv, NextOK, PTL DEF Spec

-----------------------------------------------------------------------------
(* The properties *)

(* Every variable keeps its type: in particular a desired count is never   *)
(* outside min_runners .. max_runners, whatever the broker assigns.        *)
THEOREM TypeCorrect == Spec => []TypeOK
<1>1. IInv => TypeOK
  BY DEF IInv
<1> QED
  BY <1>1, Invariance, PTL

(* The scheduler never takes the host above capacity.max_runners, or above *)
(* what boot adoption found, for any number of pools and slots.            *)
THEOREM CeilingHolds == Spec => []Ceiling
<1>1. IInv => Ceiling
  BY DEF IInv
<1> QED
  BY <1>1, Invariance, PTL

(* Nor does it take a pool above its own max_runners.                      *)
THEOREM PoolCeilingHolds == Spec => []PoolCeiling
<1>1. IInv => PoolCeiling
  BY DEF IInv
<1> QED
  BY <1>1, Invariance, PTL

(* When the second loop decides on a start, total is at least the number   *)
(* of runners that live.                                                   *)
THEOREM LedgerHolds == Spec => []LedgerCovers
<1>1. IInv => LedgerCovers
  BY DEF IInv, GrantInv, LedgerCovers
<1> QED
  BY <1>1, Invariance, PTL

(* Nothing but startOne takes a slot while Ensure counts.                  *)
LEMMA OnlyReserveStarts ==
    ASSUME Next, Starts
    PROVE  \E i \in 1 .. MaxSlotID : Reserve(i)
<1>1. pc = "ensure" /\ live' # live /\ live \subseteq live'
  BY DEF Starts
<1>2. CASE Environment
  <2>1. live' \subseteq live
    BY <1>2 DEF Environment, PushNudge, BackoffOver, Push, Exit, ReportFailure, Wiped,
         WipeFails, tables
  <2> QED
    BY <1>1, <2>1
<1>3. CASE Arm \/ Prompted \/ WakeByTick
  BY <1>1, <1>3 DEF Arm, Prompted, WakeByNudge, WakeByRetry, WakeByTick, Wake
<1>4. CASE Trim \/ Trimmed \/ Skip \/ Grant \/ Granted \/ Finish \/ Cut
  BY <1>1, <1>4 DEF Trim, Trimmed, Skip, Grant, Granted, Finish, Cut, tables
<1>5. CASE EnsureStep
  <2>1. ~(RetryCleanup \/ EnoughLive \/ StartRefused \/ StartOk \/ StartFails
            \/ StartUncertain)
    BY <1>1 DEF RetryCleanup, EnoughLive, StartRefused, StartOk, StartFails, StartUncertain,
         tables
  <2>2. ~(\E chosen \in SUBSET Of(pool, live) : StopSurplus(chosen))
    BY <1>1 DEF StopSurplus
  <2>3. ~(\E s \in stopping : StopOk(s) \/ StopErr(s))
    BY <1>1 DEF StopOk, StopErr
  <2> QED
    BY <1>5, <2>1, <2>2, <2>3 DEF EnsureStep
<1> QED
  BY <1>2, <1>3, <1>4, <1>5 DEF Next, ReconcileStep

(* A start for a free slot of the host finds fewer runners living than the *)
(* host may have, although total was counted before.                       *)
THEOREM GrantsHold == Spec => GrantsBelowCeiling
<1>1. IInv /\ [Next]_vars
        => [Starts /\ phase = "grant" => Cardinality(live) < HostMax]_vars
  <2> SUFFICES ASSUME IInv, Next, Starts, phase = "grant"
               PROVE  Cardinality(live) < HostMax
    OBVIOUS
  <2>1. TypeOK /\ GrantInv /\ pc = "ensure"
    BY DEF IInv, Starts
  <2>2. LiveCount(pool) < want
    <3>1. PICK i \in 1 .. MaxSlotID : Reserve(i)
      BY OnlyReserveStarts
    <3>2. LiveCount(pool) \in Nat /\ want \in Nat
      BY <2>1, TablesType, CountSplit DEF LiveCount, TypeOK
    <3> QED
      BY <3>1, <3>2 DEF Reserve, Enough
  <2>3. /\ LiveCount(pool) \in Nat
        /\ Cardinality(Others(pool, live)) \in Nat
        /\ Cardinality(live) = LiveCount(pool) + Cardinality(Others(pool, live))
    BY <2>1, TablesType, CountSplit DEF LiveCount
  <2>4. /\ total < HostMax /\ want = before + 1
        /\ Cardinality(Others(pool, live)) + before <= total
    BY <2>1 DEF GrantInv
  <2>5. total \in Nat /\ before \in Nat /\ HostMax \in Nat
    BY <2>1, HostSchedulerAssumption DEF TypeOK
  <2> QED
    BY <2>2, <2>3, <2>4, <2>5
<1> QED
  BY <1>1, Invariance, PTL DEF Spec, GrantsBelowCeiling

-----------------------------------------------------------------------------
(* A scale-down with a stale count *)

(* While Ensure may still find a surplus, the count it was called with is  *)
(* the desired one, or the loop is going to look again.                    *)
StaleInv ==
    (phase = "trim" /\ pc \in {"begin", "ensure", "starting", "surplus"}) =>
        \/ LiveCount(pool) <= want
        \/ desired[pool] <= want
        \/ nudge
        \/ pool \in pushing

(* StaleInv is kept when slots only end and no nudge is lost.              *)
LEMMA StaleKept ==
    ASSUME TypeOK, StaleInv, live' \subseteq live, desired' = desired,
           UNCHANGED locals,
           nudge => nudge',
           pushing \subseteq pushing' \/ nudge',
           pc' \in {"begin", "ensure", "starting", "surplus"}
              => pc \in {"begin", "ensure", "starting", "surplus"}
    PROVE  StaleInv'
<1>1. live \in SUBSET Slot /\ live' \in SUBSET live
  BY DEF TypeOK
<1>2. /\ LiveCount(pool) \in Nat /\ LiveCount(pool)' \in Nat
      /\ LiveCount(pool)' <= LiveCount(pool)
  BY <1>1, OfMono DEF LiveCount, locals
<1>3. want \in Nat
  BY DEF TypeOK
<1> QED
  BY <1>2, <1>3 DEF StaleInv, locals

LEMMA StaleNext == IInv /\ StaleInv /\ [Next]_vars => StaleInv'
<1> SUFFICES ASSUME IInv, StaleInv, [Next]_vars PROVE StaleInv'
  OBVIOUS
<1>1. TypeOK /\ PlaceInv
  BY DEF IInv
<1>2. CASE UNCHANGED vars
  <2>1. live' = live /\ desired' = desired /\ nudge' = nudge /\ pushing' = pushing
          /\ pc' = pc /\ UNCHANGED locals
    BY <1>2 DEF vars, tables, demand, wakeups
  <2> QED
    BY <1>1, <2>1, StaleKept
<1>3. ASSUME NEW p \in Pool, NEW n \in Assigned(p), Push(p, n) PROVE StaleInv'
  <2>1. /\ \A q \in Pool : q # p => desired'[q] = desired[q]
        /\ pushing' = pushing \cup {p}
        /\ live' = live /\ nudge' = nudge /\ pc' = pc
        /\ UNCHANGED locals
    BY <1>1, <1>3 DEF Push, TypeOK, tables, wakeups
  <2>2. LiveCount(pool)' = LiveCount(pool) /\ pool \in Pool
    BY <1>1, <2>1 DEF LiveCount, locals, TypeOK
  <2> QED
    BY <2>1, <2>2 DEF StaleInv, locals
<1>4. ASSUME NEW p \in Pool, PushNudge(p) \/ BackoffOver(p) PROVE StaleInv'
  <2>1. live' = live /\ desired' = desired /\ pc' = pc /\ UNCHANGED locals
    BY <1>4 DEF PushNudge, BackoffOver, tables, demand
  <2>2. (nudge => nudge') /\ (pushing \subseteq pushing' \/ nudge')
    BY <1>4 DEF PushNudge, BackoffOver, demand, wakeups
  <2> QED
    BY <1>1, <2>1, <2>2, StaleKept
<1>5. ASSUME NEW s \in live, NEW event \in {"exited", "failure"}, Exit(s, event)
      PROVE  StaleInv'
  BY <1>1, <1>5, StaleKept DEF Exit, demand, wakeups
<1>6. ASSUME NEW s \in Slot, ReportFailure(s) \/ Wiped(s) \/ WipeFails(s) PROVE StaleInv'
  <2>1. live' = live /\ desired' = desired /\ pushing' = pushing /\ pc' = pc
          /\ UNCHANGED locals
    BY <1>6 DEF ReportFailure, Wiped, WipeFails, demand
  <2>2. nudge => nudge'
    BY <1>6 DEF ReportFailure, Wiped, WipeFails, wakeups
  <2> QED
    BY <1>1, <2>1, <2>2, StaleKept
<1>7. CASE Arm \/ Prompted \/ WakeByTick \/ Trimmed \/ Skip \/ Granted \/ Finish \/ Cut
  <2>1. pc' \notin {"begin", "ensure", "starting", "surplus"}
    BY <1>7 DEF Arm, Prompted, WakeByNudge, WakeByRetry, WakeByTick, Wake, Trimmed, Skip,
                Granted, Finish, Cut, Return
  <2> QED
    BY <2>1 DEF StaleInv
<1>8. CASE Grant
  BY <1>1, <1>8 DEF Grant, PlaceInv, StaleInv
<1>9. CASE Trim
  <2>1. /\ live' = live /\ desired' = desired /\ pool' = pool
        /\ want' = Lesser(LiveCount(pool), desired[pool])
    BY <1>9 DEF Trim, Target, tables, demand
  <2>2. LiveCount(pool) \in Nat /\ LiveCount(pool)' = LiveCount(pool)
    BY <1>1, <2>1, TablesType, CountSplit DEF LiveCount
  <2>3. desired[pool] \in Nat
    BY <1>1 DEF TypeOK
  <2>4. LiveCount(pool) <= want' \/ desired[pool] <= want'
    BY <2>1, <2>2, <2>3 DEF Lesser
  <2> QED
    BY <2>1, <2>2, <2>4 DEF StaleInv
<1>10. CASE RetryCleanup \/ EnoughLive \/ StartRefused \/ StartOk \/ StartFails
               \/ StartUncertain
  <2>1. /\ live' \subseteq live /\ desired' = desired /\ UNCHANGED locals
        /\ nudge' = nudge /\ pushing' = pushing
        /\ pc \in {"begin", "ensure", "starting", "surplus"}
    BY <1>10 DEF RetryCleanup, EnoughLive, StartRefused, StartOk, StartFails,
                 StartUncertain, tables, demand, wakeups
  <2> QED
    BY <1>1, <2>1, StaleKept
<1>11. ASSUME NEW i \in 1 .. MaxSlotID, Reserve(i) PROVE StaleInv'
  <2>1. LiveCount(pool) \in Nat /\ LiveCount(pool)' = LiveCount(pool) + 1
    BY <1>1, <1>11, ReserveAdds
  <2>2. want \in Nat /\ ~(LiveCount(pool) >= want) /\ want' = want
    BY <1>1, <1>11 DEF Reserve, Enough, TypeOK, locals
  <2>3. LiveCount(pool)' <= want'
    BY <2>1, <2>2
  <2> QED
    BY <2>3 DEF StaleInv
<1>12. ASSUME NEW chosen \in SUBSET Of(pool, live), StopSurplus(chosen) PROVE StaleInv'
  BY <1>12 DEF StopSurplus, StaleInv
<1>13. ASSUME NEW s \in stopping, StopOk(s) \/ StopErr(s) PROVE StaleInv'
  BY <1>13 DEF StopOk, StopErr, AfterStop, StaleInv
<1> QED
  BY <1>2, <1>3, <1>4, <1>5, <1>6, <1>7, <1>8, <1>9, <1>10, <1>11, <1>12, <1>13
     DEF Next, ReconcileStep, EnsureStep, Environment

THEOREM StaleInvariance == Spec => []StaleInv
<1>1. Init => StaleInv
  BY DEF Init, StaleInv
<1> QED
  BY <1>1, StaleNext, Invariance, PTL DEF Spec

LEMMA OnlySurplusStops ==
    ASSUME Next, stopping' # {}, stopping = {}
    PROVE  \E chosen \in SUBSET Of(pool, live) : StopSurplus(chosen)
<1>1. CASE Environment
  BY <1>1 DEF Environment, PushNudge, BackoffOver, Push, Exit, ReportFailure, Wiped,
         WipeFails, tables
<1>2. CASE Arm \/ Prompted \/ WakeByTick
  BY <1>2 DEF Arm, Prompted, WakeByNudge, WakeByRetry, WakeByTick, Wake, tables
<1>3. CASE Trim \/ Trimmed \/ Skip \/ Grant \/ Granted \/ Finish \/ Cut
  BY <1>3 DEF Trim, Trimmed, Skip, Grant, Granted, Finish, Cut, tables
<1>4. CASE EnsureStep
  BY <1>4 DEF EnsureStep, RetryCleanup, EnoughLive, StartRefused, StartOk, StartFails,
              StartUncertain, Reserve, tables
<1> QED
  BY <1>1, <1>2, <1>3, <1>4 DEF Next, ReconcileStep

(* A scale-down that overtakes a rise of demand is looked at again: the    *)
(* loop has been nudged, or the listener is about to nudge it.             *)
THEOREM StaleTrimHolds == Spec => StaleTrimIsRevisited
<1> DEFINE Revisited ==
        \A p \in Pool : (stopping' # {} /\ stopping = {} /\ pool = p
                          /\ Cardinality(Of(p, live')) < desired[p])
                             => nudge \/ p \in pushing
<1>1. IInv /\ StaleInv /\ [Next]_vars => [Revisited]_vars
  <2> SUFFICES ASSUME IInv, StaleInv, Next, stopping' # {}, stopping = {},
                      Cardinality(Of(pool, live')) < desired[pool]
               PROVE  nudge \/ pool \in pushing
    OBVIOUS
  <2>1. PICK chosen \in SUBSET Of(pool, live) : StopSurplus(chosen)
    BY OnlySurplusStops
  <2>2. chosen # {} /\ live' = live \ chosen /\ pc = "surplus"
    BY <2>1 DEF StopSurplus
  <2>3. TypeOK /\ GrantInv
    BY DEF IInv
  <2>4. /\ Cardinality(chosen) \in Nat /\ LiveCount(pool) \in Nat /\ want \in Nat
        /\ Cardinality(chosen) + want <= LiveCount(pool)
        /\ want < LiveCount(pool)
        /\ Cardinality(Of(pool, live')) = LiveCount(pool) - Cardinality(chosen)
    BY <2>1, <2>2, <2>3, SurplusOnly
  <2>5. phase = "trim"
    BY <2>1, <2>2, <2>3, GrantStopsNone DEF TypeOK
  <2>6. desired[pool] \in Nat
    BY <2>3 DEF TypeOK
  <2>7. ~(desired[pool] <= want) /\ ~(LiveCount(pool) <= want)
    BY <2>4, <2>6
  <2> QED
    BY <2>2, <2>5, <2>7 DEF StaleInv
<1> QED
  BY <1>1, Invariance, StaleInvariance, PTL DEF Spec, StaleTrimIsRevisited
=============================================================================
