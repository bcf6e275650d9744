----------------------------- MODULE AdmissionGate -----------------------------
(***************************************************************************)
(* The admission gate of the host, internal/app: queue hints per pool, the *)
(* estimate of the next runner, the gate and the reservation of a start,   *)
(* claims and exits of runners, composed with the usage history their      *)
(* estimates come from.                                                    *)
(*                                                                         *)
(* The host scheduler looks at the live runners, asks for the estimate and *)
(* reserves; every prediction is a reading of its own of the history.      *)
(* Between them the listeners' handlers, the watchers and Append go on,    *)
(* where the locks of the hints and of the table let them.                 *)
(***************************************************************************)
EXTENDS History

CONSTANTS
    Slot,           \* places for runners on the host
    Samplings,      \* what the sampler may find a runner to use
    Limits,         \* what MemAvailable may leave for new growth
    MaxQueuedRefs,  \* maxQueuedRefs
    MaxHints,       \* the cap of one count, 9999
    MaxTroubles     \* bound: crashes, repeated messages and torn lines in all

NextRunner == "next"
NoRef == "none"
GateAssumption ==
    /\ IsFiniteSet(Slot) /\ NextRunner \notin Slot /\ NoRef \notin Ref
    /\ Limits \subseteq Nat /\ Samplings \subseteq Nat
    /\ {MaxQueuedRefs, MaxHints, MaxTroubles} \subseteq Nat
ASSUME GateAssumption

VARIABLES
    jobs,           \* of GitHub: where each job is
    hints,          \* queuedRefs
    consuming,      \* per pool the ref of a claim whose hint is not consumed yet
    slots,          \* the runners in the tables of all pools
    pc,             \* where the host scheduler is
    pool,           \* the pool it starts for
    seen,           \* the runners it has looked at
    place,          \* whom the estimate is for: NextRunner, or the slot it reserves
    asked,          \* the refs it has yet to ask the history about
    quoted,         \* what the history predicted for the others
    needs,          \* what it predicted for busy runners
    limit,          \* the growth that was left to the last start admitted
    since,          \* history variable: the records when the estimate was begun
    repeats,        \* JobAvailable messages delivered again
    crashes

estimate == <<asked, quoted, needs, since>>
starter == <<pc, pool, seen, place, limit, estimate>>
gate == <<jobs, hints, consuming, slots, starter, repeats, crashes>>
vars == <<history, gate>>

Spared == repeats + crashes + tears < MaxTroubles
NoHints == [p \in Pool |-> [r \in Ref |-> 0]]
Runner == [state : {"none", "idle", "busy"}, pool : Pool, ref : Ref, reserved : Nat,
           current : Nat, job : Record \cup {Junk}]
SomePool == CHOOSE p \in Pool : TRUE
NoRunner == [state |-> "none", pool |-> SomePool, ref |-> "", reserved |-> 0, current |-> 0,
             job |-> Junk]
Nobody == [s \in Slot |-> NoRunner]
Live(f) == {s \in Slot : f[s].state # "none"}

Job == Record \ ToSet(OnDisk)
Unread == -1        \* memAvailable has not been read, or fails
NoQuotes == [r \in {} |-> 0]

Init ==
    /\ HistoryInit
    /\ jobs = [j \in Job |-> "new"]
    /\ hints = NoHints
    /\ consuming = [p \in Pool |-> NoRef]
    /\ slots = Nobody
    /\ pc = "look" /\ pool = SomePool /\ seen = Nobody /\ place = NextRunner
    /\ limit = Unread
    /\ asked = {} /\ quoted = NoQuotes /\ needs = NoQuotes /\ since = 0
    /\ repeats = 0 /\ crashes = 0

-----------------------------------------------------------------------------
(* Queue hints *)

Hinted(h) == {r \in Ref : h[r] > 0}

(* expireQueuedLocked: whichever refs are past their ten minutes *)
Expired(h) == {[r \in Ref |-> IF r \in old THEN 0 ELSE h[r]] : old \in SUBSET Hinted(h)}

(* noteQueued, for one ref: a new one is left out at the limit *)
Noted(h, ref) ==
    IF ref = "" \/ (ref \notin Hinted(h) /\ Cardinality(Hinted(h)) >= MaxQueuedRefs) THEN h
    ELSE [h EXCEPT ![ref] = IF @ < MaxHints THEN @ + 1 ELSE @]

BugConsumed(h, ref) == h        \* claims leave the hints alone
(* consumeQueuedRef *)
Consumed(h, ref) == [h EXCEPT ![ref] = IF @ <= 1 THEN 0 ELSE @ - 1]

(* candidateEstimate holds queuedMu while it asks the history *)
Estimating(p) == pc = "quote" /\ pool = p

NoteQueued(j) ==
    /\ ~Estimating(PoolOf[j])
    /\ \E h \in Expired(hints[PoolOf[j]]) : hints' = [hints EXCEPT ![PoolOf[j]] = Noted(h, RefOf[j])]

Listening(p) == pc # "down" /\ consuming[p] = NoRef

(* A JobAvailable message *)
Queue(j) ==
    /\ Listening(PoolOf[j]) /\ jobs[j] = "new"
    /\ jobs' = [jobs EXCEPT ![j] = "queued"]
    /\ NoteQueued(j)
    /\ UNCHANGED <<history, consuming, slots, starter, repeats, crashes>>

(* The same one again *)
QueueAgain(j) ==
    /\ Listening(PoolOf[j]) /\ jobs[j] = "queued" /\ Spared
    /\ repeats' = repeats + 1
    /\ NoteQueued(j)
    /\ UNCHANGED <<history, jobs, consuming, slots, starter, crashes>>

(* It is cancelled while it waits: nothing tells the pool *)
Cancel(j) ==
    /\ jobs[j] = "queued"
    /\ jobs' = [jobs EXCEPT ![j] = "missed"]
    /\ UNCHANGED <<history, hints, consuming, slots, starter, repeats, crashes>>

-----------------------------------------------------------------------------
(* The gate *)

SumOf(f) == FoldFunction(+, 0, f)
Largest(S) == CHOOSE n \in S : \A m \in S : m <= n
AtLeast(m, n) == IF m < n THEN n ELSE m

(* No Append has the lock of the history *)
Unlocked == hpc = "idle"

BugCharged(r, need, p, candidate) == IF r.state = "busy" THEN need ELSE r.reserved
(* What a live runner is expected to need *)
Charged(r, need, p, candidate) ==
    IF r.state = "busy" THEN need
    ELSE IF r.pool = p THEN AtLeast(r.reserved, candidate) ELSE r.reserved

(* MemAvailable already excludes what is resident *)
Growth(need, r) == AtLeast(need - r.current, 0)

Busy == {s \in Slot : seen[s].state = "busy"}
NeedOf(s) == IF s \in DOMAIN needs THEN needs[s] ELSE 0

(* The largest of what was predicted for the hinted refs *)
Candidate == Largest({quoted[r] : r \in DOMAIN quoted})
Used ==
    Candidate + SumOf([s \in Live(seen) |->
                          Growth(Charged(seen[s], NeedOf(s), pool, Candidate), seen[s])])

ToSchedule == <<history, jobs, consuming, repeats, crashes>>
NotLooking ==
    /\ seen' = Nobody /\ place' = NextRunner
    /\ asked' = {} /\ quoted' = NoQuotes /\ needs' = NoQuotes /\ since' = 0

(* No history, no gate; the first runner of an idle host is always admitted *)
Ungated(p) ==
    /\ pc = "look"
    /\ ~open \/ Live(slots) = {}
    /\ pool' = p
    /\ pc' = "reserve"
    /\ UNCHANGED <<ToSchedule, hints, slots, seen, place, limit, estimate>>

(* allActive; the sampler has stored what it found each runner to use *)
Look(p) ==
    /\ pc = "look"
    /\ pool' = p
    /\ \E sample \in [Live(slots) -> Samplings] :
         seen' = [s \in Slot |-> IF s \in Live(slots) THEN [slots[s] EXCEPT !.current = sample[s]]
                                 ELSE slots[s]]
    /\ open /\ Live(slots) # {}
    /\ pc' = "estimate"
    /\ UNCHANGED <<ToSchedule, hints, slots, place, limit, estimate>>

(* candidateEstimate: the hints that are left; without any, the workflow   *)
(* is not known                                                            *)
Estimate(h) ==
    /\ pc = "estimate"
    /\ hints' = [hints EXCEPT ![pool] = h]
    /\ asked' = IF Hinted(h) = {} THEN {""} ELSE Hinted(h)
    /\ since' = Len(acked)
    /\ pc' = "quote"
    /\ UNCHANGED <<ToSchedule, slots, pool, seen, place, limit, quoted, needs>>

With(f, k, n) == [x \in DOMAIN f \cup {k} |-> IF x = k THEN n ELSE f[x]]

Quote(r) ==
    /\ pc = "quote" /\ Unlocked
    /\ r \in asked
    /\ quoted' = With(quoted, r, Predict(pool, r))
    /\ asked' = asked \ {r}
    /\ pc' = IF asked # {r} THEN "quote" ELSE IF place = NextRunner THEN "charge" ELSE "store"
    /\ UNCHANGED <<ToSchedule, hints, slots, pool, seen, place, limit, needs, since>>

(* admissionGate: what each busy runner is expected to need *)
Charge(s) ==
    /\ pc = "charge" /\ Unlocked
    /\ s \in Busy \ DOMAIN needs
    /\ needs' = With(needs, s, Predict(seen[s].pool, seen[s].ref))
    /\ UNCHANGED <<ToSchedule, hints, slots, pc, pool, seen, place, limit, asked, quoted, since>>

AllCharged == pc = "charge" /\ Busy \subseteq DOMAIN needs

(* memAvailable comes last; a limit that cannot be read holds nobody *)
Admit(n) ==
    /\ AllCharged
    /\ n # Unread => Used <= n
    /\ limit' = n
    /\ pc' = "reserve" /\ NotLooking
    /\ UNCHANGED <<ToSchedule, hints, slots, pool>>

Rest ==
    /\ pc' = "look" /\ pool' = SomePool /\ limit' = Unread /\ NotLooking
    /\ UNCHANGED <<ToSchedule, hints>>

(* Held for its memory or, which the model leaves open, for its CPU time *)
Hold ==
    /\ AllCharged
    /\ Rest
    /\ UNCHANGED slots

(* startOne takes the table's lock and an ID, and asks for the estimate    *)
(* again before it lets go of the lock.                                    *)
Reserve(s) ==
    /\ pc = "reserve" /\ s \notin Live(slots)
    /\ pc' = IF open THEN "estimate" ELSE "store"
    /\ place' = s /\ limit' = Unread
    /\ UNCHANGED <<ToSchedule, hints, slots, pool, seen, estimate>>

(* newDaemon may have found no history *)
Store ==
    /\ pc = "store"
    /\ slots' = [slots EXCEPT ![place] = [NoRunner EXCEPT !.state = "idle", !.pool = pool,
                                             !.reserved = IF open THEN Candidate ELSE 0]]
    /\ Rest

(* No free ID, or the start fails *)
GiveUp ==
    /\ pc = "reserve"
    /\ Rest
    /\ UNCHANGED slots

-----------------------------------------------------------------------------
(* Runners *)

(* The reservation has the lock of the pool's table *)
TableFree(p) == ~(place # NextRunner /\ pool = p)

(* A JobStarted message: the runner is busy, ... *)
Claim(s, j) ==
    /\ Listening(PoolOf[j]) /\ TableFree(PoolOf[j]) /\ jobs[j] = "queued"
    /\ slots[s].pool = PoolOf[j] /\ slots[s].state # "none" /\ slots[s].ref = ""
    /\ jobs' = [jobs EXCEPT ![j] = "started"]
    /\ slots' = [slots EXCEPT ![s].state = "busy", ![s].ref = RefOf[j], ![s].job = j]
    /\ consuming' = [consuming EXCEPT ![PoolOf[j]] = RefOf[j]]
    /\ UNCHANGED <<history, hints, starter, repeats, crashes>>

(* ... or has been wiped: Claim is false and the hint is left alone, ... *)
ClaimUnknown(j) ==
    /\ Listening(PoolOf[j]) /\ TableFree(PoolOf[j]) /\ jobs[j] = "queued"
    /\ jobs' = [jobs EXCEPT ![j] = "missed"]
    /\ UNCHANGED <<history, hints, consuming, slots, starter, repeats, crashes>>

(* ... a message may be delivered again, ... *)
ClaimAgain(s) ==
    /\ Listening(slots[s].pool) /\ TableFree(slots[s].pool) /\ slots[s].job # Junk /\ Spared
    /\ repeats' = repeats + 1
    /\ consuming' = [consuming EXCEPT ![slots[s].pool] = slots[s].ref]
    /\ UNCHANGED <<history, jobs, hints, slots, starter, crashes>>

(* ... and after Claim the hint is consumed *)
Consume(p) ==
    /\ consuming[p] # NoRef /\ ~Estimating(p)
    /\ hints' = [hints EXCEPT ![p] = Consumed(@, consuming[p])]
    /\ consuming' = [consuming EXCEPT ![p] = NoRef]
    /\ UNCHANGED <<history, jobs, slots, starter, repeats, crashes>>

(* It ends; a job that was claimed is completed *)
Exit(s) ==
    /\ pc # "down" /\ s \in Live(slots) /\ TableFree(slots[s].pool)
    /\ slots' = [slots EXCEPT ![s] = NoRunner]
    /\ IF slots[s].job # Junk
       THEN /\ Complete(slots[s].job)
            /\ jobs' = [jobs EXCEPT ![slots[s].job] = "done"]
       ELSE UNCHANGED <<history, jobs>>
    /\ UNCHANGED <<hints, consuming, starter, repeats, crashes>>

-----------------------------------------------------------------------------
(* The daemon ends, runners go on, and adoption takes them as busy: their  *)
(* refs are not known.                                                     *)
Crash(left) ==
    /\ pc # "down" /\ Spared
    /\ crashes' = crashes + 1
    /\ Lose
    /\ hints' = NoHints
    /\ consuming' = [p \in Pool |-> NoRef]
    /\ slots' = [s \in Slot |-> IF s \notin left THEN NoRunner
                                 ELSE [NoRunner EXCEPT !.state = "busy", !.pool = slots[s].pool]]
    /\ jobs' = [j \in Job |-> IF jobs[j] = "started" THEN "done" ELSE jobs[j]]
    /\ pc' = "down" /\ pool' = SomePool /\ limit' = Unread /\ NotLooking
    /\ UNCHANGED repeats

Restart ==
    /\ pc = "down"
    /\ Open
    /\ pc' = "look"
    /\ UNCHANGED <<jobs, hints, consuming, slots, pool, seen, place, limit, estimate, repeats,
                   crashes>>

-----------------------------------------------------------------------------
Start ==
    \/ \E p \in Pool : Ungated(p) \/ Look(p)
    \/ \E h \in Expired(hints[pool]) : Estimate(h)
    \/ \E r \in asked : Quote(r)
    \/ \E s \in Slot : Charge(s) \/ Reserve(s)
    \/ \E n \in Limits \cup {Unread} : Admit(n)
    \/ Hold \/ Store \/ GiveUp

Listen ==
    \/ \E j \in Job : Queue(j) \/ QueueAgain(j) \/ Cancel(j) \/ ClaimUnknown(j)
    \/ \E j \in Job : \E s \in Slot : Claim(s, j)
    \/ \E s \in Slot : ClaimAgain(s)
    \/ \E p \in Pool : Consume(p)

Next ==
    \/ Start
    \/ Listen
    \/ \E s \in Slot : Exit(s)
    \/ AppendStep /\ UNCHANGED gate
    \/ \E left \in SUBSET Live(slots) : Crash(left)
    \/ Restart

Spec == Init /\ [][Next]_vars

-----------------------------------------------------------------------------
(* Properties *)

(* Hints follow the queue.  For each workflow they count no more than the  *)
(* jobs that wait for a runner, the one whose claim is being handled, and  *)
(* what the code cannot know better of until the hint expires: jobs that   *)
(* were cancelled, or whose runner's record was gone when they started,    *)
(* and repeated messages.  No count goes below zero or above its cap, and  *)
(* no more workflows are noted than the limit.                             *)
HintsWithinQueue ==
    \A p \in Pool :
        /\ hints[p] \in [Ref -> 0..MaxHints]
        /\ Cardinality(Hinted(hints[p])) <= MaxQueuedRefs
        /\ \A r \in Ref :
              hints[p][r] <=
                  Cardinality({j \in Job : jobs[j] \in {"queued", "missed"}
                                             /\ PoolOf[j] = p /\ RefOf[j] = r})
                  + (IF consuming[p] = r THEN 1 ELSE 0)
                  + repeats

(* README, Scaling semantics: the cost of all live runners plus the        *)
(* incoming one.  Whichever of the workflows that the pool had hints of    *)
(* when the estimate was begun its unclaimed runners and the incoming one  *)
(* are going to take, the predicted growth of the runners that were seen   *)
(* is within the limit when a start is admitted.  The predictions are      *)
(* those the gate has read, one after the other; unless a record was added *)
(* since the first, the history still makes them.                          *)
Unclaimed == {s \in Slot : seen[s].state = "idle" /\ seen[s].pool = pool}
Takes == [Unclaimed \cup {NextRunner} -> DOMAIN quoted]

Need(s, take) ==
    IF s \in Unclaimed THEN quoted[take[s]]
    ELSE IF seen[s].state = "busy" THEN needs[s] ELSE seen[s].reserved

Growths(take) ==
    quoted[take[NextRunner]] + SumOf([s \in Live(seen) |-> Growth(Need(s, take), seen[s])])

Current ==
    /\ \A r \in DOMAIN quoted : quoted[r] = Predict(pool, r)
    /\ \A s \in DOMAIN needs : needs[s] = Predict(seen[s].pool, seen[s].ref)

AdmittedWorkFits ==
    [][pc = "charge" /\ pc' = "reserve"
        => /\ limit' # Unread => \A take \in Takes : Growths(take) <= limit'
           /\ Len(acked) = since => Current]_vars

(* replayTail, in history.go: "a single torn fragment after a crash must   *)
(* not discard the records around it".  As long as no more lines are torn  *)
(* than there were crashes, every record whose Append returned is still in *)
(* the file.                                                               *)
TornLineCostsNothing == tears <= crashes => Lost = {}
=============================================================================
