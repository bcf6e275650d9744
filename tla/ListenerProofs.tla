---------------------------- MODULE ListenerProofs ----------------------------
(***************************************************************************)
(* Proofs about Listener: its types, that a pool never has two scale sets, *)
(* when READY=1 is sent, and which sessions an orderly end leaves open.    *)
(***************************************************************************)
EXTENDS Listener, SequenceTheorems, TLAPS

(* What the listener is about to acknowledge is in the queue *)
QueueInv == \A p \in Pool : lst[p] \in {"handleMessage", "delete"} => queue[p] # <<>>

(* The reports of the listeners that have ended, and what Return waits for *)
JoinInv ==
    /\ \A p \in Pool : p \in joined => lst[p] = "over"
    /\ main = "ensure" => \A p \in Pool : lst[p] = "none"
    /\ main = "over" => joined = Pool

(* SessionStarted is reported only for a session *)
UpInv == up \subseteq met

(* Without a failed call a listener opens one session, keeps it until the  *)
(* context is done, and then deletes it.                                   *)
SessionInv ==
    troubles = 0 =>
        \A p \in Pool :
            /\ lst[p] \in {"none", "run", "wait"} => p \notin met
            /\ lst[p] = "ended" => ctx = "done"
            /\ lst[p] = "over" /\ p \in met => ~session[p]

LEMMA Bounds ==
    /\ Min \in [Pool -> Nat] /\ Max \in [Pool -> Nat]
    /\ \A p \in Pool : Min[p] <= Max[p]
    /\ MaxAssigned \in Nat /\ MaxChanges \in Nat /\ MaxTroubles \in Nat
    /\ MaxBoots \in Nat /\ MaxBoots > 0
BY ListenerAssumption

-----------------------------------------------------------------------------
(* Types *)

LEMMA InitTyped == Init => TypeOK
<1> SUFFICES ASSUME Init PROVE TypeOK
    OBVIOUS
<1>1. GitHubTypeOK
  BY Bounds DEF Init, GitHubTypeOK
<1>2. MainTypeOK
  BY DEF Init, MainTypeOK
<1>4. ListenerTypeOK
  <2>1. msg \in [Pool -> 0..MaxAssigned]
    BY Bounds DEF Init
  <2> QED
    BY <2>1 DEF Init, ListenerTypeOK
<1>3. DesiredOK /\ CountsOK
  BY Bounds DEF Init, DesiredOK, CountsOK
<1> QED
  BY <1>1, <1>2, <1>3, <1>4 DEF TypeOK

LEMMA GitHubTyped ==
    ASSUME TypeOK, QueueInv, [Next]_vars PROVE GitHubTypeOK'
<1> USE Bounds DEF github
<1>1. ASSUME NEW p \in Pool, Demand(p) PROVE GitHubTypeOK'
  BY <1>1 DEF TypeOK, GitHubTypeOK, Demand
<1>2. ASSUME NEW p \in Pool, EnsureScaleSet(p) PROVE GitHubTypeOK'
  <2>1. [scaleSets EXCEPT ![p] = IF Missing(p) THEN @ + 1 ELSE @] \in [Pool -> Nat]
    BY DEF TypeOK, GitHubTypeOK
  <2>2. scaleSets' \in [Pool -> Nat]
    BY <1>2, <2>1 DEF TypeOK, GitHubTypeOK, EnsureScaleSet
  <2> QED
    BY <1>2, <2>2 DEF TypeOK, GitHubTypeOK, EnsureScaleSet
<1>3. ASSUME NEW p \in Pool, OpenSession(p) \/ OpenFails(p) \/ EndRun(p) PROVE GitHubTypeOK'
  BY <1>3 DEF TypeOK, GitHubTypeOK, OpenSession, OpenFails, EndRun
<1>4. ASSUME NEW p \in Pool, DeleteMessage(p) \/ ListenerEnds(p) PROVE GitHubTypeOK'
  <2>1. CASE queue' = queue
    BY <1>4, <2>1 DEF TypeOK, GitHubTypeOK, DeleteMessage, ListenerEnds
  <2>2. CASE lst[p] = "delete" /\ queue' = [queue EXCEPT ![p] = Tail(@)]
    <3>1. queue[p] \in Seq(0..MaxAssigned) /\ queue[p] # <<>>
      BY <2>2 DEF TypeOK, GitHubTypeOK, QueueInv
    <3>2. Tail(queue[p]) \in Seq(0..MaxAssigned)
      BY <3>1, HeadTailProperties
    <3> QED
      BY <1>4, <2>2, <3>2 DEF TypeOK, GitHubTypeOK, DeleteMessage, ListenerEnds
  <2> QED
    BY <1>4, <2>1, <2>2 DEF DeleteMessage, ListenerEnds
<1>5. ASSUME UNCHANGED <<scaleSets, session, assigned, queue>> PROVE GitHubTypeOK'
  BY <1>5 DEF TypeOK, GitHubTypeOK
<1> QED
  BY <1>1, <1>2, <1>3, <1>4, <1>5
     DEF Next, Main, Run, vars, Adopt, Cancelled, Shutdown, Return, NotifyReady, Signal, Restart,
         GetMessage, HandleDesired, BackoffEnds

LEMMA MainTyped == ASSUME TypeOK, [Next]_vars PROVE MainTypeOK'
<1> USE DEF TypeOK, MainTypeOK
<1>1. ASSUME NEW p \in Pool, Run(p) PROVE MainTypeOK'
  BY <1>1 DEF Run, OpenSession, OpenFails, GetMessage, HandleDesired, DeleteMessage, ListenerEnds,
              EndRun, BackoffEnds, AfterRun, Joined, Started
<1>2. ASSUME NEW p \in Pool, Demand(p) \/ EnsureScaleSet(p) PROVE MainTypeOK'
  BY <1>2 DEF Demand, EnsureScaleSet
<1>3. ASSUME Adopt \/ Cancelled \/ Shutdown \/ Return \/ NotifyReady \/ Signal \/ Restart
      PROVE MainTypeOK'
  BY <1>3 DEF Adopt, Cancelled, Shutdown, Return, NotifyReady, Signal, Restart
<1>4. ASSUME UNCHANGED vars PROVE MainTypeOK'
  BY <1>4 DEF vars
<1> QED
  BY <1>1, <1>2, <1>3, <1>4 DEF Next, Main

LEMMA ListenerTyped == ASSUME TypeOK, QueueInv, [Next]_vars PROVE ListenerTypeOK'
<1> USE Bounds DEF TypeOK, ListenerTypeOK
<1>1. ASSUME NEW p \in Pool, GetMessage(p) PROVE ListenerTypeOK'
  <2>1. Head(queue[p]) \in 0..MaxAssigned
    BY <1>1 DEF GitHubTypeOK, GetMessage
  <2> QED
    BY <1>1, <2>1 DEF GetMessage
<1>2. ASSUME NEW p \in Pool, OpenSession(p) PROVE ListenerTypeOK'
  BY <1>2 DEF OpenSession, GitHubTypeOK
<1>3. ASSUME NEW p \in Pool,
             OpenFails(p) \/ HandleDesired(p) \/ DeleteMessage(p) \/ ListenerEnds(p) \/ EndRun(p)
                \/ BackoffEnds(p)
      PROVE ListenerTypeOK'
  BY <1>3 DEF OpenFails, HandleDesired, DeleteMessage, ListenerEnds, EndRun, BackoffEnds, AfterRun
<1>4. ASSUME NEW p \in Pool, Demand(p) \/ EnsureScaleSet(p) PROVE ListenerTypeOK'
  BY <1>4 DEF Demand, EnsureScaleSet
<1>5. ASSUME Adopt \/ Cancelled \/ Shutdown \/ Return \/ NotifyReady \/ Signal \/ Restart
      PROVE ListenerTypeOK'
  BY <1>5 DEF Adopt, Cancelled, Shutdown, Return, NotifyReady, Signal, Restart
<1>6. ASSUME UNCHANGED vars PROVE ListenerTypeOK'
  BY <1>6 DEF vars
<1> QED
  BY <1>1, <1>2, <1>3, <1>4, <1>5, <1>6 DEF Next, Main, Run

(* Whatever is reported, what is stored is within the bounds of the pool *)
LEMMA ClampBounds ==
    ASSUME NEW p \in Pool, NEW n \in Nat
    PROVE  Clamp(p, n) \in Nat /\ Min[p] <= Clamp(p, n) /\ Clamp(p, n) <= Max[p]
<1>1. Min[p] \in Nat /\ Max[p] \in Nat /\ Min[p] <= Max[p]
  BY Bounds
<1> QED
  BY <1>1 DEF Clamp

LEMMA DesiredTyped == ASSUME TypeOK, [Next]_vars PROVE DesiredOK'
<1> USE Bounds DEF TypeOK, DesiredOK
<1>1. ASSUME NEW p \in Pool, HandleDesired(p) PROVE DesiredOK'
  <2>1. msg[p] \in Nat
    BY DEF ListenerTypeOK
  <2> QED
    BY <1>1, <2>1, ClampBounds DEF HandleDesired, Reported
<1>2. ASSUME desired' = desired PROVE DesiredOK'
  BY <1>2
<1>3. ASSUME Restart PROVE DesiredOK'
  BY <1>3 DEF Restart
<1> QED
  BY <1>1, <1>2, <1>3
     DEF Next, Main, Run, vars, Adopt, Cancelled, Shutdown, Return, NotifyReady, Signal, Demand,
         EnsureScaleSet, OpenSession, OpenFails, GetMessage, DeleteMessage, ListenerEnds, EndRun,
         BackoffEnds

LEMMA CountsTyped == ASSUME TypeOK, [Next]_vars PROVE CountsOK'
<1> USE Bounds DEF TypeOK, CountsOK, github, Trouble
<1>1. ASSUME NEW p \in Pool, Run(p) PROVE CountsOK'
  <2>1. UNCHANGED <<changes, boots>>
    BY <1>1 DEF Run, OpenSession, OpenFails, GetMessage, HandleDesired, DeleteMessage, ListenerEnds,
                EndRun, BackoffEnds
  <2>2. UNCHANGED troubles \/ (troubles < MaxTroubles /\ troubles' = troubles + 1)
    BY <1>1 DEF Run, OpenSession, OpenFails, GetMessage, HandleDesired, DeleteMessage, ListenerEnds,
                EndRun, BackoffEnds
  <2> QED
    BY <2>1, <2>2
<1>2. ASSUME NEW p \in Pool, Demand(p) \/ EnsureScaleSet(p) PROVE CountsOK'
  BY <1>2 DEF Demand, EnsureScaleSet
<1>3. ASSUME Adopt \/ Cancelled \/ Shutdown \/ Return \/ NotifyReady \/ Signal \/ Restart
      PROVE CountsOK'
  BY <1>3 DEF Adopt, Cancelled, Shutdown, Return, NotifyReady, Signal, Restart
<1>4. ASSUME UNCHANGED vars PROVE CountsOK'
  BY <1>4 DEF vars
<1> QED
  BY <1>1, <1>2, <1>3, <1>4 DEF Next, Main

LEMMA QueueStep == ASSUME TypeOK, QueueInv, [Next]_vars PROVE QueueInv'
<1> USE DEF TypeOK, QueueInv, ListenerTypeOK, GitHubTypeOK, github
<1>1. ASSUME NEW p \in Pool, Demand(p) PROVE QueueInv'
  <2>1. PICK n \in 0..MaxAssigned : queue' = [queue EXCEPT ![p] = Append(@, n)]
    BY <1>1 DEF Demand
  <2>2. queue[p] \in Seq(0..MaxAssigned)
    OBVIOUS
  <2>3. Append(queue[p], n) # <<>>
    BY <2>2, AppendProperties
  <2> QED
    BY <1>1, <2>1, <2>3 DEF Demand
<1>2. ASSUME NEW p \in Pool, Run(p) PROVE QueueInv'
  BY <1>2 DEF Run, OpenSession, OpenFails, GetMessage, HandleDesired, DeleteMessage, ListenerEnds,
              EndRun, BackoffEnds, AfterRun
<1>3. ASSUME UNCHANGED <<queue, lst>> PROVE QueueInv'
  BY <1>3
<1>4. ASSUME Adopt \/ Restart PROVE QueueInv'
  BY <1>4 DEF Adopt, Restart
<1> QED
  BY <1>1, <1>2, <1>3, <1>4
     DEF Next, Main, vars, Cancelled, Shutdown, Return, NotifyReady, Signal, EnsureScaleSet

-----------------------------------------------------------------------------
(* Joining, readiness, sessions, scale sets *)

LEMMA JoinStep == ASSUME TypeOK, JoinInv, [Next]_vars PROVE JoinInv'
<1> USE DEF TypeOK, JoinInv, ListenerTypeOK, MainTypeOK
<1>1. ASSUME NEW p \in Pool, Run(p) PROVE JoinInv'
  BY <1>1 DEF Run, OpenSession, OpenFails, GetMessage, HandleDesired, DeleteMessage, ListenerEnds,
              EndRun, BackoffEnds, AfterRun, Joined
<1>2. ASSUME NEW p \in Pool, Demand(p) \/ EnsureScaleSet(p) PROVE JoinInv'
  BY <1>2 DEF Demand, EnsureScaleSet
<1>3. ASSUME Adopt \/ Cancelled \/ Shutdown \/ Return \/ NotifyReady \/ Signal \/ Restart
      PROVE JoinInv'
  BY <1>3 DEF Adopt, Cancelled, Shutdown, Return, NotifyReady, Signal, Restart
<1>4. ASSUME UNCHANGED vars PROVE JoinInv'
  BY <1>4 DEF vars
<1> QED
  BY <1>1, <1>2, <1>3, <1>4 DEF Next, Main

LEMMA ReadyStep ==
    ASSUME TypeOK, UpInv, ReadyMeansConnected, [Next]_vars PROVE UpInv' /\ ReadyMeansConnected'
<1> USE DEF TypeOK, MainTypeOK, UpInv, ReadyMeansConnected
<1>1. ASSUME NEW p \in Pool, Run(p) PROVE UpInv' /\ ReadyMeansConnected'
  <2>1. \/ UNCHANGED <<up, met>>
        \/ up' = up \cup {p} /\ met' = met \cup {p}
    BY <1>1 DEF Run, OpenSession, OpenFails, GetMessage, HandleDesired, DeleteMessage, ListenerEnds,
                EndRun, BackoffEnds, Started
  <2>2. UNCHANGED ready
    BY <1>1 DEF Run, OpenSession, OpenFails, GetMessage, HandleDesired, DeleteMessage, ListenerEnds,
                EndRun, BackoffEnds
  <2> QED
    BY <2>1, <2>2
<1>2. ASSUME NEW p \in Pool, Demand(p) \/ EnsureScaleSet(p) PROVE UpInv' /\ ReadyMeansConnected'
  BY <1>2 DEF Demand, EnsureScaleSet
<1>3. ASSUME Adopt \/ Cancelled \/ Shutdown \/ Return \/ NotifyReady \/ Signal \/ Restart
      PROVE UpInv' /\ ReadyMeansConnected'
  BY <1>3 DEF Adopt, Cancelled, Shutdown, Return, NotifyReady, Signal, Restart
<1>4. ASSUME UNCHANGED vars PROVE UpInv' /\ ReadyMeansConnected'
  BY <1>4 DEF vars
<1> QED
  BY <1>1, <1>2, <1>3, <1>4 DEF Next, Main
LEMMA SessionStep ==
    ASSUME TypeOK, JoinInv, SessionInv, [Next]_vars PROVE SessionInv'
<1> USE DEF TypeOK, SessionInv, ListenerTypeOK, GitHubTypeOK, MainTypeOK, CountsOK, JoinInv
<1>1. ASSUME NEW p \in Pool, OpenSession(p) PROVE SessionInv'
  BY <1>1 DEF OpenSession
<1>2. ASSUME NEW p \in Pool, OpenFails(p) PROVE SessionInv'
  BY <1>2, Bounds DEF OpenFails, AfterRun, Trouble
<1>3. ASSUME NEW p \in Pool, GetMessage(p) \/ HandleDesired(p) \/ DeleteMessage(p) PROVE SessionInv'
  BY <1>3 DEF GetMessage, HandleDesired, DeleteMessage, github
<1>4. ASSUME NEW p \in Pool, ListenerEnds(p) PROVE SessionInv'
  BY <1>4, Bounds DEF ListenerEnds, Trouble
<1>5. ASSUME NEW p \in Pool, EndRun(p) PROVE SessionInv'
  <2>1. CASE ctx = "done" /\ session' = [session EXCEPT ![p] = FALSE] /\ UNCHANGED troubles
    BY <1>5, <2>1 DEF EndRun, AfterRun
  <2>2. CASE Trouble
    BY <2>2 DEF Trouble
  <2>3. CASE ctx # "done" /\ UNCHANGED <<session, troubles>>
    BY <1>5, <2>3 DEF EndRun, AfterRun
  <2> QED
    BY <1>5, <2>1, <2>2, <2>3 DEF EndRun, Closes
<1>6. ASSUME NEW p \in Pool, BackoffEnds(p) PROVE SessionInv'
  BY <1>6 DEF BackoffEnds, github
<1>7. ASSUME NEW p \in Pool, Demand(p) \/ EnsureScaleSet(p) PROVE SessionInv'
  BY <1>7, Bounds DEF Demand, EnsureScaleSet, Trouble
<1>8. ASSUME Adopt PROVE SessionInv'
  BY <1>8, Bounds DEF Adopt, Trouble, github
<1>9. ASSUME Cancelled \/ Shutdown \/ Return \/ NotifyReady \/ Signal PROVE SessionInv'
  BY <1>9 DEF Cancelled, Shutdown, Return, NotifyReady, Signal, github
<1>10. ASSUME Restart PROVE SessionInv'
  BY <1>10 DEF Restart, github
<1>11. ASSUME UNCHANGED vars PROVE SessionInv'
  BY <1>11 DEF vars, github
<1> QED
  BY <1>1, <1>2, <1>3, <1>4, <1>5, <1>6, <1>7, <1>8, <1>9, <1>10, <1>11 DEF Next, Main, Run

LEMMA ScaleSetStep == ASSUME TypeOK, OneScaleSet, [Next]_vars PROVE OneScaleSet'
<1>1. ASSUME NEW p \in Pool, EnsureScaleSet(p) PROVE OneScaleSet'
  <2> DEFINE resolved == [scaleSets EXCEPT ![p] = IF Missing(p) THEN @ + 1 ELSE @]
  <2>1. scaleSets \in [Pool -> Nat] /\ \A q \in Pool : scaleSets[q] <= 1
    BY DEF TypeOK, GitHubTypeOK, OneScaleSet
  <2>2. \A q \in Pool : resolved[q] <= 1
    BY <2>1 DEF Missing
  <2>3. scaleSets' = scaleSets \/ scaleSets' = resolved
    BY <1>1 DEF EnsureScaleSet
  <2> QED
    BY <2>1, <2>2, <2>3 DEF OneScaleSet
<1>2. ASSUME UNCHANGED scaleSets PROVE OneScaleSet'
  BY <1>2 DEF OneScaleSet
<1> QED
  BY <1>1, <1>2
     DEF Next, Main, Run, vars, github, Adopt, Cancelled, Shutdown, Return, NotifyReady, Signal,
         Restart, Demand, OpenSession, OpenFails, GetMessage, HandleDesired, DeleteMessage,
         ListenerEnds, EndRun, BackoffEnds

-----------------------------------------------------------------------------
(* Theorems *)

IInv == TypeOK /\ QueueInv /\ JoinInv /\ UpInv /\ ReadyMeansConnected /\ SessionInv /\ OneScaleSet

LEMMA InitHolds == Init => IInv
BY InitTyped DEF Init, IInv, QueueInv, JoinInv, UpInv, ReadyMeansConnected, SessionInv, OneScaleSet

LEMMA StepHolds == IInv /\ [Next]_vars => IInv'
<1> SUFFICES ASSUME IInv, [Next]_vars PROVE IInv'
    OBVIOUS
<1>1. TypeOK'
  BY GitHubTyped, MainTyped, ListenerTyped, DesiredTyped, CountsTyped DEF IInv, TypeOK
<1> QED
  BY <1>1, QueueStep, JoinStep, ReadyStep, SessionStep, ScaleSetStep DEF IInv

LEMMA Holds == Spec => []IInv
BY InitHolds, StepHolds, PTL DEF Spec

(* Every variable keeps its type, for any pools, and the desired count that *)
(* HandleDesiredRunnerCount stores stays within the bounds of its pool.     *)
THEOREM TypeCorrect == Spec => []TypeOK
<1>1. IInv => TypeOK
  BY DEF IInv
<1> QED
  BY <1>1, Holds, PTL

(* EnsureScaleSet never makes a second scale set, wherever calls lose their *)
(* answer and the daemon dies.                                              *)
THEOREM ScaleSetsAreSingle == Spec => []OneScaleSet
<1>1. IInv => OneScaleSet
  BY DEF IInv
<1> QED
  BY <1>1, Holds, PTL

(* notifyReady sends READY=1 only when every pool has had its session.      *)
THEOREM ReadyHolds == Spec => []ReadyMeansConnected
<1>1. IInv => ReadyMeansConnected
  BY DEF IInv
<1> QED
  BY <1>1, Holds, PTL

(* A daemon that ends after a signal, without a failed call, has deleted    *)
(* the session of every pool.                                               *)
THEOREM SessionsHold == Spec => []SessionsAreClosed
<1>1. IInv => SessionsAreClosed
  BY DEF IInv, TypeOK, MainTypeOK, JoinInv, SessionInv, SessionsAreClosed
<1> QED
  BY <1>1, Holds, PTL
=============================================================================
