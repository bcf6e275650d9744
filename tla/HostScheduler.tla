---------------------------- MODULE HostScheduler ----------------------------
(***************************************************************************)
(* The host scheduler: the run loop of the daemon (internal/app/app.go),   *)
(* reconcilePools (scheduler.go) and what reaches them from the pools      *)
(* (pool.go): desired counts, events of the slot tables, acquisition       *)
(* failures and their backoff.                                             *)
(*                                                                         *)
(* One goroutine runs the loop.  Everything else runs beside it: the       *)
(* listeners push desired counts, runners exit, their watchers and wipes   *)
(* report, backoffs elapse.  One action stands for one call on a slot      *)
(* table or one read of shared state.                                      *)
(*                                                                         *)
(* A slot table is seen through Active and Ensure: a runner is live or     *)
(* not, and which live runner may be stopped is the table's choice.  A     *)
(* runner that ended keeps its ID until its slot is wiped; a wipe that     *)
(* failed reports nothing and waits for the next Ensure of its pool.  What *)
(* the table does inside is in module SlotTable.                           *)
(*                                                                         *)
(* Operators whose name starts with Bug are deliberately wrong variants of *)
(* the operator that follows them; no specification uses them.             *)
(***************************************************************************)
EXTENDS Naturals, FiniteSets

CONSTANTS
    NumPools,       \* the pools are 0 .. NumPools-1, in the order of the configuration
    MaxSlotID,      \* the slots of a pool are 1 .. MaxSlotID (9999 in the code)
    HostMax,        \* capacity.max_runners
    MinRunners,     \* pools[].capacity.min_runners
    MaxRunners,     \* pools[].capacity.max_runners
    Boots,          \* the sets of runners that boot adoption may leave
    Failing,        \* pools whose runners may fail to acquire
    Dirty,          \* pools whose wipes may fail
    Gated,          \* whether admission control may hold a start
    MaxWipes        \* bound: the slots that wait to be wiped at one time

Pool == 0 .. NumPools - 1
Slot == Pool \X (1 .. MaxSlotID)

ASSUME HostSchedulerAssumption ==
    /\ NumPools \in Nat \ {0}
    /\ MaxSlotID \in Nat \ {0}
    /\ HostMax \in Nat \ {0}
    /\ MinRunners \in [Pool -> Nat]
    /\ MaxRunners \in [Pool -> Nat]
    /\ \A p \in Pool : MinRunners[p] <= MaxRunners[p]
    /\ Boots \subseteq SUBSET Slot
    /\ Failing \subseteq Pool
    /\ Dirty \subseteq Pool
    /\ Gated \in BOOLEAN
    /\ MaxWipes \in Nat

VARIABLES
    (* The slot tables *)
    live,        \* the starting, idle and busy slots: what Active returns
    stopping,    \* slots chosen by stopSurplus, their stop not over
    ended,       \* <<slot, event>>: the slot is being wiped, the event yet to report
    unclean,     \* the same after a wipe that failed: cleanupPending, not cleaning
    adopted,     \* the runners this daemon found at boot
    (* The pools *)
    desired,     \* poolRuntime.desired
    pushing,     \* pools whose listener stored a count and has not nudged yet
    backoff,     \* acquireRetryWait > 0
    (* The run loop *)
    nudge,       \* whether reconCh, of capacity one, is full
    timer,       \* whether the retry timer is set
    pc,          \* where the loop stands
    phase,       \* "trim" or "grant": the two loops of reconcilePools
    pool,        \* the pool at hand
    cursor,      \* scheduleCursor
    want,        \* the count Ensure was called with
    cur,         \* the slot startOne is starting, 0 when it is not running
    before,      \* reconcilePools' before
    total,       \* reconcilePools' total
    idleTurns    \* reconcilePools' withoutProgress

tables  == <<live, stopping, ended, unclean, adopted>>
demand  == <<desired, pushing>>
wakeups == <<nudge, timer>>
locals  == <<phase, pool, want, before, total, idleTurns>>
vars    == <<tables, demand, backoff, wakeups, pc, cursor, cur, locals>>

-----------------------------------------------------------------------------

Of(p, slots) == {s \in slots : s[1] = p}
LiveCount(p) == Cardinality(Of(p, live))

(* The slot of a start in progress: no watcher can see it end *)
Starting == IF pc = "starting" THEN {<<pool, cur>>} ELSE {}

(* "failure" is reported before the wipe and "exited" after it; a runner   *)
(* whose stop or start was reported has nothing left to report.            *)
Wipes == Slot \X {"exited", "failure", "none"}

EnsurePCs == {"begin", "ensure", "starting", "surplus", "stop", "ensured"}
PCs == {"wait", "trim", "grant", "done", "cut"} \cup EnsurePCs

TypeOK ==
    /\ live \subseteq Slot
    /\ stopping \subseteq Slot
    /\ ended \subseteq Wipes
    /\ unclean \subseteq Wipes
    /\ adopted \in Boots
    /\ desired \in [Pool -> Nat]
    /\ \A p \in Pool : desired[p] \in MinRunners[p] .. MaxRunners[p]
    /\ pushing \subseteq Pool
    /\ backoff \in [Pool -> BOOLEAN]
    /\ nudge \in BOOLEAN
    /\ timer \in BOOLEAN
    /\ pc \in PCs
    /\ phase \in {"trim", "grant"}
    /\ pool \in Pool
    /\ cursor \in Pool
    /\ want \in Nat
    /\ cur \in IF pc = "starting" THEN 1 .. MaxSlotID ELSE {0}
    /\ before \in Nat
    /\ total \in Nat
    /\ idleTurns \in Nat

(* run, after boot adoption: the loop has been nudged once *)
Init ==
    /\ live \in Boots
    /\ adopted = live
    /\ stopping = {}
    /\ ended = {}
    /\ unclean = {}
    /\ desired = MinRunners
    /\ pushing = {}
    /\ backoff = [p \in Pool |-> FALSE]
    /\ nudge = TRUE
    /\ timer = FALSE
    /\ pc = "wait"
    /\ phase = "trim"
    /\ pool = 0
    /\ cursor = 0
    /\ want = 0
    /\ cur = 0
    /\ before = 0
    /\ total = 0
    /\ idleTurns = 0

-----------------------------------------------------------------------------
(* Listeners: the Desired event *)

(* reconcile.Clamp *)
Clamp(v, lo, hi) == CASE lo > hi -> hi
                      [] lo <= hi /\ v < lo -> lo
                      [] lo <= hi /\ v > hi -> hi
                      [] OTHER -> v

Lesser(m, n) == IF m < n THEN m ELSE n

(* The statistics of a message: any count, of which only the clamped matters *)
Assigned(p) == 0 .. MaxRunners[p] + 1

Push(p, n) ==
    /\ p \notin pushing
    /\ desired' = [desired EXCEPT ![p] = Clamp(n, MinRunners[p], MaxRunners[p])]
    /\ pushing' = pushing \cup {p}
    /\ UNCHANGED <<tables, backoff, wakeups, pc, cursor, cur, locals>>

BugPushNudge(p) ==              \* the listener stores and does not nudge
    /\ p \in pushing
    /\ pushing' = pushing \ {p}
    /\ UNCHANGED <<tables, desired, backoff, wakeups, pc, cursor, cur, locals>>

(* requestReconcile: a full channel keeps its one nudge *)
PushNudge(p) ==
    /\ p \in pushing
    /\ pushing' = pushing \ {p}
    /\ nudge' = TRUE
    /\ UNCHANGED <<tables, desired, backoff, timer, pc, cursor, cur, locals>>

-----------------------------------------------------------------------------
(* Runners that end by themselves, and the event hook *)

WipesBounded == Cardinality(ended \cup unclean) < MaxWipes

(* observeExit takes the slot out of the live ones; "failure" is an exit   *)
(* within the acquire grace of a runner that never was busy.               *)
Exit(s, event) ==
    /\ s \in live \ Starting
    /\ WipesBounded
    /\ event = "failure" => s[1] \in Failing
    /\ live' = live \ {s}
    /\ ended' = ended \cup {<<s, event>>}
    /\ UNCHANGED <<stopping, unclean, adopted, demand, backoff, wakeups, pc, cursor, cur,
                   locals>>

(* onSlotEvent: a failure only starts the backoff; the wipe goes on *)
ReportFailure(s) ==
    /\ <<s, "failure">> \in ended
    /\ ended' = (ended \ {<<s, "failure">>}) \cup {<<s, "none">>}
    /\ backoff' = [backoff EXCEPT ![s[1]] = TRUE]
    /\ UNCHANGED <<live, stopping, unclean, adopted, demand, wakeups, pc, cursor, cur,
                   locals>>

(* The wipe ends well: the ID is free, and an exit nudges the loop *)
Wiped(s) ==
    /\ \E event \in {"exited", "none"} :
          /\ <<s, event>> \in ended
          /\ ended' = ended \ {<<s, event>>}
          /\ nudge' = (nudge \/ event = "exited")
    /\ UNCHANGED <<live, stopping, unclean, adopted, demand, backoff, timer, pc, cursor,
                   cur, locals>>

(* The wipe fails: nothing is reported, and only retryCleanup takes it up *)
WipeFails(s) ==
    /\ s[1] \in Dirty
    /\ \E event \in {"exited", "none"} :
          /\ <<s, event>> \in ended
          /\ ended' = ended \ {<<s, event>>}
          /\ unclean' = unclean \cup {<<s, event>>}
    /\ UNCHANGED <<live, stopping, adopted, demand, backoff, wakeups, pc, cursor, cur,
                   locals>>

(* retryAfter passes *)
BackoffOver(p) ==
    /\ backoff[p]
    /\ backoff' = [backoff EXCEPT ![p] = FALSE]
    /\ UNCHANGED <<tables, demand, wakeups, pc, cursor, cur, locals>>

-----------------------------------------------------------------------------
(* The run loop waits, and is woken by one of three channels *)

Wake ==
    /\ pc = "wait"
    /\ pc' = "trim"
    /\ UNCHANGED <<tables, demand, backoff, cursor, cur, locals>>

WakeByNudge == nudge /\ nudge' = FALSE /\ UNCHANGED timer /\ Wake
WakeByRetry == timer /\ timer' = FALSE /\ UNCHANGED nudge /\ Wake
WakeByTick  == UNCHANGED wakeups /\ Wake

Unmet(p) == LiveCount(p) < desired[p]

(* nextRetryWait is positive *)
NeedsTimer == \E p \in Pool : Unmet(p) /\ backoff[p]

BugArm ==                       \* takes the nudges of the meantime for served
    /\ pc \in {"done", "cut"}
    /\ timer' = NeedsTimer
    /\ nudge' = FALSE
    /\ pc' = "wait"
    /\ UNCHANGED <<tables, demand, backoff, cursor, cur, locals>>

(* After reconcilePools, with or without an error: resetRetry *)
Arm ==
    /\ pc \in {"done", "cut"}
    /\ timer' = NeedsTimer
    /\ pc' = "wait"
    /\ UNCHANGED <<tables, demand, backoff, nudge, cursor, cur, locals>>

(* reconcilePools returns *)
Return(how) ==
    /\ pc' = how
    /\ phase' = "trim"
    /\ pool' = 0
    /\ want' = 0
    /\ before' = 0
    /\ total' = 0
    /\ idleTurns' = 0

-----------------------------------------------------------------------------
(* reconcilePools, first loop: every pool is trimmed to its desired count *)

(* min(live, desired), read before Ensure is called *)
Target(p) == Lesser(LiveCount(p), desired[p])

Trim ==
    /\ pc = "trim"
    /\ want' = Target(pool)
    /\ pc' = "begin"
    /\ UNCHANGED <<tables, demand, backoff, wakeups, phase, pool, cursor, cur, before,
                   total, idleTurns>>

(* len(allActive()) *)
AllActive == Cardinality(live)

Trimmed ==
    /\ pc = "ensured"
    /\ phase = "trim"
    /\ IF pool < NumPools - 1
       THEN /\ pool' = pool + 1
            /\ pc' = "trim"
            /\ UNCHANGED <<phase, total>>
       ELSE /\ phase' = "grant"
            /\ total' = AllActive
            /\ pc' = "grant"
            /\ pool' = 0
    /\ want' = 0
    /\ UNCHANGED <<tables, demand, backoff, wakeups, cursor, cur, before, idleTurns>>

-----------------------------------------------------------------------------
(* Second loop: the free slots of the host, one at a time in turn *)

BugGrantsGoOn ==                \* one too many
    total <= HostMax /\ idleTurns < NumPools
GrantsGoOn == total < HostMax /\ idleTurns < NumPools

BugNextCursor(p) == p           \* the cursor stays
NextCursor(p) == (p + 1) % NumPools

BugInTurn == idleTurns          \* every reconcile begins with the first pool
(* The cursor outlives the reconcile *)
InTurn == cursor

(* The pool in turn has what it wants, or backs off *)
Skips(p) == ~Unmet(p) \/ backoff[p]

Skip ==
    /\ pc = "grant"
    /\ GrantsGoOn
    /\ Skips(InTurn)
    /\ cursor' = NextCursor(cursor)
    /\ idleTurns' = idleTurns + 1
    /\ UNCHANGED <<tables, demand, backoff, wakeups, pc, phase, pool, want, cur, before,
                   total>>

Grant ==
    /\ pc = "grant"
    /\ GrantsGoOn
    /\ ~Skips(InTurn)
    /\ pool' = InTurn
    /\ cursor' = NextCursor(cursor)
    /\ before' = LiveCount(InTurn)
    /\ want' = LiveCount(InTurn) + 1
    /\ pc' = "begin"
    /\ UNCHANGED <<tables, demand, backoff, wakeups, phase, cur, total, idleTurns>>

BugCharge(after) == total       \* a start is not charged
(* total += after - before, when after exceeds before *)
Charge(after) == total + (after - before)

Granted ==
    /\ pc = "ensured"
    /\ phase = "grant"
    /\ IF LiveCount(pool) <= before
       THEN idleTurns' = idleTurns + 1 /\ UNCHANGED total
       ELSE idleTurns' = 0 /\ total' = Charge(LiveCount(pool))
    /\ pc' = "grant"
    /\ pool' = 0
    /\ want' = 0
    /\ before' = 0
    /\ UNCHANGED <<tables, demand, backoff, wakeups, phase, cursor, cur>>

Finish ==
    /\ pc = "grant"
    /\ ~GrantsGoOn
    /\ Return("done")
    /\ UNCHANGED <<tables, demand, backoff, wakeups, cursor, cur>>

(* The context of the reconcile is over wherever reconcilePools or Ensure  *)
(* look at it: the rest of the reconcile is left.                          *)
Cut ==
    /\ pc \in {"begin", "ensure", "ensured"} \/ (pc = "grant" /\ GrantsGoOn)
    /\ Return("cut")
    /\ UNCHANGED <<tables, demand, backoff, wakeups, cursor, cur>>

-----------------------------------------------------------------------------
(* Ensure of the pool at hand *)

WipesOf(p, wipes) == {e \in wipes : e[1][1] = p}

(* retryCleanup: what a wipe left behind is wiped again.  It waits for the *)
(* wipes up to their deadline only, so they may go on, or fail again at    *)
(* once, as when the context ends.                                         *)
RetryCleanup ==
    /\ pc = "begin"
    /\ unclean' = unclean \ WipesOf(pool, unclean)
    /\ ended' = ended \cup WipesOf(pool, unclean)
    /\ pc' = "ensure"
    /\ UNCHANGED <<live, stopping, adopted, demand, backoff, wakeups, cursor, cur, locals>>

Enough == LiveCount(pool) >= want

EnoughLive ==
    /\ pc = "ensure"
    /\ Enough
    /\ pc' = "surplus"
    /\ UNCHANGED <<tables, demand, backoff, wakeups, cursor, cur, locals>>

Taken == live \cup stopping \cup {e[1] : e \in ended \cup unclean}
Free(p, i) == <<p, i>> \notin Taken

(* startOne starts nothing: the backoff, the gate (which admits the first  *)
(* runner of an idle host), or no free ID                                  *)
Refused == \/ backoff[pool]
           \/ Gated /\ live # {}
           \/ \A i \in 1 .. MaxSlotID : ~Free(pool, i)

StartRefused ==
    /\ pc = "ensure"
    /\ ~Enough
    /\ Refused
    /\ pc' = "surplus"
    /\ UNCHANGED <<tables, demand, backoff, wakeups, cursor, cur, locals>>

(* startOne takes the lowest free ID; from here on the slot is live *)
Reserve(i) ==
    /\ pc = "ensure"
    /\ ~Enough
    /\ ~backoff[pool]
    /\ Free(pool, i)
    /\ \A j \in 1 .. MaxSlotID : j < i => ~Free(pool, j)
    /\ live' = live \cup {<<pool, i>>}
    /\ cur' = i
    /\ pc' = "starting"
    /\ UNCHANGED <<stopping, ended, unclean, adopted, demand, backoff, wakeups, cursor,
                   locals>>

StartOk ==
    /\ pc = "starting"
    /\ pc' = "ensure"
    /\ cur' = 0
    /\ UNCHANGED <<tables, demand, backoff, wakeups, cursor, locals>>

(* EventAcquireFailure, on the loop's own goroutine *)
AcquireFails == backoff' = [backoff EXCEPT ![pool] = TRUE]

(* The wipe that follows the stop or the start of s, for which the loop    *)
(* waits up to a deadline: over already, or still to come to an end.       *)
WipesAfter(s) ==
    \/ UNCHANGED ended
    \/ WipesBounded /\ ended' = ended \cup {<<s, "none">>}

(* The start failed for certain and the slot is given up *)
StartFails ==
    /\ pc = "starting"
    /\ pool \in Failing
    /\ live' = live \ {<<pool, cur>>}
    /\ WipesAfter(<<pool, cur>>)
    /\ AcquireFails
    /\ pc' = "surplus"
    /\ cur' = 0
    /\ UNCHANGED <<stopping, unclean, adopted, demand, wakeups, cursor, locals>>

(* The launch may or may not have happened: the slot is kept, as busy *)
StartUncertain ==
    /\ pc = "starting"
    /\ pool \in Failing
    /\ AcquireFails
    /\ pc' = "surplus"
    /\ cur' = 0
    /\ UNCHANGED <<tables, demand, wakeups, cursor, locals>>

(* No more than the live count exceeds the wanted one *)
FewEnough(chosen) == Cardinality(chosen) + want <= LiveCount(pool)

(* stopSurplus: which of the live slots may be stopped (idle, past their   *)
(* grace) and are the oldest is the table's matter.                        *)
StopSurplus(chosen) ==
    /\ pc = "surplus"
    /\ chosen = {} \/ FewEnough(chosen)
    /\ live' = live \ chosen
    /\ stopping' = chosen
    /\ pc' = IF chosen = {} THEN "ensured" ELSE "stop"
    /\ UNCHANGED <<ended, unclean, adopted, demand, backoff, wakeups, cursor, cur, locals>>

AfterStop(s) == IF stopping = {s} THEN "ensured" ELSE "stop"

(* The stop succeeded: EventStopped *)
StopOk(s) ==
    /\ pc = "stop"
    /\ s \in stopping
    /\ stopping' = stopping \ {s}
    /\ WipesAfter(s)
    /\ nudge' = TRUE
    /\ pc' = AfterStop(s)
    /\ UNCHANGED <<live, unclean, adopted, demand, backoff, timer, cursor, cur, locals>>

(* It failed: the slot is live again, unless its exit was seen meanwhile.  *)
(* Then nothing is reported: an exit of a stopping slot has no event.      *)
StopErr(s) ==
    /\ pc = "stop"
    /\ s \in stopping
    /\ stopping' = stopping \ {s}
    /\ \/ live' = live \cup {s} /\ UNCHANGED ended
       \/ live' = live /\ WipesAfter(s)
    /\ pc' = AfterStop(s)
    /\ UNCHANGED <<unclean, adopted, demand, backoff, wakeups, cursor, cur, locals>>

-----------------------------------------------------------------------------
(* The specification *)

EnsureStep ==
    \/ RetryCleanup \/ EnoughLive \/ StartRefused \/ \E i \in 1 .. MaxSlotID : Reserve(i)
    \/ StartOk \/ StartFails \/ StartUncertain
    \/ \E chosen \in SUBSET Of(pool, live) : StopSurplus(chosen)
    \/ \E s \in stopping : StopOk(s) \/ StopErr(s)

ReconcileStep == Trim \/ Trimmed \/ Skip \/ Grant \/ Granted \/ Finish \/ Cut \/ EnsureStep

Prompted == WakeByNudge \/ WakeByRetry

Environment ==
    \/ \E p \in Pool : PushNudge(p) \/ BackoffOver(p) \/ \E n \in Assigned(p) : Push(p, n)
    \/ \E s \in live, event \in {"exited", "failure"} : Exit(s, event)
    \/ \E s \in Slot : ReportFailure(s) \/ Wiped(s) \/ WipeFails(s)

Next == ReconcileStep \/ Arm \/ Prompted \/ WakeByTick \/ Environment

Spec == Init /\ [][Next]_vars

WipedOne(p) == \E i \in 1 .. MaxSlotID : Wiped(<<p, i>>)

(* The loop runs, listeners end their calls, failures are reported, time   *)
(* passes, and of the wipes of a pool that are begun again and again one   *)
(* succeeds.  Nobody promises that a wipe which failed is begun again:     *)
(* that is a step of Ensure.  Desired counts, exits, failed starts and     *)
(* holds are not fair.                                                     *)
Progress ==
    /\ WF_vars(ReconcileStep)
    /\ WF_vars(Arm)
    /\ WF_vars(Prompted)
    /\ \A p \in Pool : WF_vars(PushNudge(p)) /\ WF_vars(BackoffOver(p))
    /\ \A s \in Failing \X (1 .. MaxSlotID) : WF_vars(ReportFailure(s))
    /\ \A p \in Dirty : SF_vars(WipedOne(p))
    /\ \A s \in (Pool \ Dirty) \X (1 .. MaxSlotID) : WF_vars(Wiped(s))

(* The loop without its safety tick: a tick may come and need not *)
WakeupSpec == Spec /\ Progress

(* The tick comes every 30 seconds *)
Ticking == WF_vars(WakeByTick)

-----------------------------------------------------------------------------
(* Properties *)

Greater(m, n) == IF m < n THEN n ELSE m
Bound     == Greater(HostMax, Cardinality(adopted))
PoolBound(p) == Greater(MaxRunners[p], Cardinality(Of(p, adopted)))

(* The host ceiling: never more runners, those being stopped included,     *)
(* than capacity.max_runners or, if that was more, than boot adoption      *)
(* found, however exits, failed stops and new demand mix with a reconcile. *)
Ceiling == Cardinality(live \cup stopping) <= Bound

(* The ceiling of a pool, its max_runners: a stale desired count or a      *)
(* replaced runner may not take the pool above it.                         *)
PoolCeiling == \A p \in Pool : Cardinality(Of(p, live \cup stopping)) <= PoolBound(p)

(* The ledger: total is never less than what lives when the second loop    *)
(* decides on the next start, whatever happened during the last one.       *)
LedgerCovers == (phase = "grant" /\ pc = "grant") => Cardinality(live) <= total

(* A scale-down works with a desired count it read earlier.  If the demand *)
(* has risen since, so that the pool falls short now, the loop is going to *)
(* look again: a nudge waits in the channel or is about to be sent.        *)
StaleTrimIsRevisited ==
    [][\A p \in Pool : (stopping' # {} /\ stopping = {} /\ pool = p
                         /\ Cardinality(Of(p, live')) < desired[p])
                            => nudge \/ p \in pushing]_vars

(* Starts for the host's free slots are made below the ceiling only: those *)
(* of the second loop.                                                     *)
Starts == live' # live /\ live \subseteq live' /\ pc = "ensure"
GrantsBelowCeiling == [][Starts /\ phase = "grant" => Cardinality(live) < HostMax]_vars

Full == Cardinality(live) >= HostMax
Held == Gated /\ live # {}
StartingFor(p) == pc = "starting" /\ pool = p

(* A pool that falls short of its desired count has a start under way      *)
(* again and again, unless the host is full or admission may hold it.      *)
Served(p) == []<>(~Unmet(p) \/ Full \/ Held \/ StartingFor(p))

(* No reconcile goes on for ever; its context has a deadline *)
ReconcilesEnd == []<>(pc \in {"done", "wait"})
InTime == ReconcilesEnd /\ <>[](pc # "cut")

(* Demand is acted upon, with failures, backoffs and exits at any time, as *)
(* long as reconciles run out of time only finitely often.                 *)
DemandIsServed == Ticking /\ InTime => \A p \in Pool : Served(p)

(* No wipe has failed, and no pool that falls short is out of free IDs,    *)
(* of which there are 9999: neither is reported, and only the next Ensure  *)
(* of the pool looks at it again.                                          *)
Wipeable == unclean = {} /\ \A p \in Pool : Unmet(p) => \E i \in 1 .. MaxSlotID : Free(p, i)

(* The nudges of desired counts, exits and stops are enough without the    *)
(* 30-second tick, as long as no start and no wipe fails and no reconcile  *)
(* runs out of time.                                                       *)
Untroubled == pc # "cut" /\ Wipeable /\ \A p \in Pool : ~backoff[p]
NudgesSuffice == ReconcilesEnd /\ []Untroubled => \A p \in Pool : Served(p)

(* With failed starts the retry timer is to do the same.  In the words of  *)
(* nextRetryWait, zero means no retry timer is needed.                     *)
WakeupsSuffice == ReconcilesEnd /\ [](pc # "cut" /\ Wipeable) => \A p \in Pool : Served(p)

GrantedTo(p) == phase = "grant" /\ pool = p /\ pc = "ensure"
Waiting(p) == Unmet(p) /\ ~backoff[p]

(* Round-robin: while one pool is offered free slots again and again,      *)
(* another that waits without a backoff is offered one too.                *)
NoPoolStarves ==
    \A p \in Pool : \A q \in Pool \ {p} :
        Ticking /\ InTime /\ []<>GrantedTo(q) /\ <>[]Waiting(p) => []<>GrantedTo(p)

(* README, Architecture: "allocates available slots round-robin without    *)
(* starting above `capacity.max_runners`": no start while as many runners  *)
(* live as the host may have.                                              *)
StartsBelowCeiling == [][Starts => Cardinality(live) < HostMax]_vars
=============================================================================
