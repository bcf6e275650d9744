------------------------------- MODULE Listener -------------------------------
(***************************************************************************)
(* The daemon's side of GitHub: boot, one listener per pool with its       *)
(* message session, readiness and shutdown.  daemon.run, runPoolListener   *)
(* and notifyReady of app.go, and the Adapter of scaleset/adapter.go with  *)
(* the listener loop of the library it runs.                               *)
(*                                                                         *)
(* Operators whose name starts with Bug are deliberately wrong variants of *)
(* the operator that follows them.                                         *)
(***************************************************************************)
EXTENDS Naturals, Sequences

CONSTANTS
    Pool,           \* the configured pools
    Min, Max,       \* by pool: capacity.min_runners and max_runners
    MaxAssigned,    \* bound: jobs GitHub assigns to a scale set
    MaxChanges,     \* bound: changes of that number
    MaxTroubles,    \* bound: calls to GitHub that fail
    MaxBoots        \* bound: starts of the daemon

ASSUME ListenerAssumption ==
    /\ Min \in [Pool -> Nat] /\ Max \in [Pool -> Nat]
    /\ \A p \in Pool : Min[p] <= Max[p]
    /\ {MaxAssigned, MaxChanges, MaxTroubles} \subseteq Nat /\ MaxBoots \in Nat \ {0}

VARIABLES
    (* GitHub *)
    scaleSets,      \* by pool: scale sets of its name
    session,        \* by pool: a message session is open
    assigned,       \* by pool: statistics.TotalAssignedJobs
    queue,          \* by pool: messages not yet acknowledged, each with that number
    (* The daemon *)
    ctx,            \* the context of the daemon: "live" or "done"
    main,           \* where daemon.run is
    known,          \* pools whose scaleSetID is set
    lst,            \* by pool: where runPoolListener and Adapter.Run are
    msg,            \* by pool: the number the library is about to report
    desired,        \* by pool: the desired cell
    up,             \* pools whose sessionUp is closed
    ready,          \* READY=1 was sent
    joined,         \* listeners that have reported their end
    (* History *)
    met,            \* pools that had a session since the daemon started
    changes, troubles, boots

github == <<scaleSets, session, assigned, queue, changes>>
vars == <<github, ctx, main, known, lst, msg, desired, up, ready, joined, met, troubles, boots>>

Ensured == {p \in Pool : scaleSets[p] > 0}
Trouble == troubles < MaxTroubles /\ troubles' = troubles + 1
Clamp(p, n) == IF n < Min[p] THEN Min[p] ELSE IF n > Max[p] THEN Max[p] ELSE n

Init ==
    /\ scaleSets \in [Pool -> {0, 1}]
    /\ session = [p \in Pool |-> FALSE]
    /\ assigned = [p \in Pool |-> 0] /\ queue = [p \in Pool |-> <<>>]
    /\ ctx = "live" /\ main = "ensure" /\ known = {}
    /\ lst = [p \in Pool |-> "none"] /\ msg = [p \in Pool |-> 0]
    /\ desired = Min
    /\ up = {} /\ ready = FALSE /\ joined = {} /\ met = {}
    /\ changes = 0 /\ troubles = 0 /\ boots = 1

-----------------------------------------------------------------------------
(* GitHub *)

Demand(p) ==
    /\ changes < MaxChanges /\ changes' = changes + 1
    /\ p \in Ensured
    /\ \E n \in 0..MaxAssigned \ {assigned[p]} :
          /\ assigned' = [assigned EXCEPT ![p] = n]
          /\ queue' = [queue EXCEPT ![p] = Append(@, n)]
    /\ UNCHANGED <<scaleSets, session, ctx, main, known, lst, msg, desired, up, ready, joined, met,
                   troubles, boots>>

-----------------------------------------------------------------------------
(* daemon.run *)

Missing(p) == scaleSets[p] = 0

(* The pools' scale sets are resolved, or created, one after the other.  A *)
(* call that fails may have created one; the error ends the daemon.        *)
EnsureScaleSet(p) ==
    /\ main = "ensure" /\ p \notin known
    /\ LET resolved == [scaleSets EXCEPT ![p] = IF Missing(p) THEN @ + 1 ELSE @]
       IN  \/ /\ scaleSets' = resolved /\ known' = known \cup {p}
              /\ UNCHANGED <<main, troubles>>
           \/ /\ scaleSets' \in {scaleSets, resolved}
              /\ main' = "failed" /\ Trouble
              /\ UNCHANGED known
    /\ UNCHANGED <<session, assigned, queue, changes, ctx, lst, msg, desired, up, ready, joined,
                   met, boots>>

(* Boot adoption; when it fails there are no listeners *)
Adopt ==
    /\ main = "ensure" /\ known = Pool
    /\ \/ main' = "loop" /\ lst' = [p \in Pool |-> "run"] /\ UNCHANGED troubles
       \/ main' = "failed" /\ Trouble /\ UNCHANGED lst
    /\ UNCHANGED <<github, ctx, known, msg, desired, up, ready, joined, met, boots>>

Cancelled ==
    /\ main = "ensure" /\ ctx = "done"
    /\ main' = "failed"
    /\ UNCHANGED <<github, ctx, known, lst, msg, desired, up, ready, joined, met, troubles, boots>>

(* notifyReady has waited for every pool *)
NotifyReady ==
    /\ main \notin {"ensure", "failed", "over"} /\ ~ready
    /\ up = Pool
    /\ ready' = TRUE
    /\ UNCHANGED <<github, ctx, main, known, lst, msg, desired, up, joined, met, troubles, boots>>

(* A signal ends the context *)
Signal ==
    /\ ctx = "live" /\ main \in {"ensure", "loop"}
    /\ ctx' = "done"
    /\ UNCHANGED <<github, main, known, lst, msg, desired, up, ready, joined, met, troubles, boots>>

(* shutdownSlots, bounded by the stop timeout, then the listeners *)
Shutdown ==
    /\ main = "loop" /\ ctx = "done"
    /\ main' = "join"
    /\ UNCHANGED <<github, ctx, known, lst, msg, desired, up, ready, joined, met, troubles, boots>>

Return ==
    /\ main = "join" /\ joined = Pool
    /\ main' = "over"
    /\ UNCHANGED <<github, ctx, known, lst, msg, desired, up, ready, joined, met, troubles, boots>>

(* Restart=on-failure after an error or a kill, an operator otherwise *)
Restart ==
    /\ boots < MaxBoots /\ boots' = boots + 1
    /\ ctx' = "live" /\ main' = "ensure" /\ known' = {}
    /\ lst' = [p \in Pool |-> "none"] /\ msg' = [p \in Pool |-> 0]
    /\ desired' = Min
    /\ up' = {} /\ ready' = FALSE /\ joined' = {} /\ met' = {}
    /\ UNCHANGED <<github, troubles>>

-----------------------------------------------------------------------------
(* Adapter.Run *)

BugJoined(p) == IF lst[p] = "wait" THEN joined ELSE joined \cup {p}   \* one return without it
(* runPoolListener's deferred send *)
Joined(p) == joined \cup {p}

BugAfterRun(p) == lst' = [lst EXCEPT ![p] = "over"] /\ joined' = joined \cup {p}
(* runPoolListener after Adapter.Run: the context tells an end from a retry *)
AfterRun(p) ==
    IF ctx = "done" THEN lst' = [lst EXCEPT ![p] = "over"] /\ joined' = Joined(p)
    ELSE lst' = [lst EXCEPT ![p] = "wait"] /\ UNCHANGED joined

BugStarted(p, ok) == up \cup {p}         \* before the error is looked at
(* SessionStarted, once there is a session *)
Started(p, ok) == IF ok THEN up \cup {p} ELSE up

(* MessageSessionClient replaces a session that was left behind.  When the *)
(* call fails, or the context ends first, GitHub may have opened one.      *)
OpenSession(p) ==
    /\ lst[p] = "run" /\ p \in known /\ ctx = "live"
    /\ session' = [session EXCEPT ![p] = TRUE]
    /\ up' = Started(p, TRUE) /\ met' = met \cup {p}
    /\ msg' = [msg EXCEPT ![p] = assigned[p]]
    /\ lst' = [lst EXCEPT ![p] = "handle"]
    /\ UNCHANGED <<scaleSets, assigned, queue, changes, ctx, main, known, desired, ready, joined,
                   troubles, boots>>

OpenFails(p) ==
    /\ lst[p] = "run"
    /\ \/ Trouble /\ session' \in {session, [session EXCEPT ![p] = TRUE]}
       \/ ctx = "done" /\ UNCHANGED <<troubles, session>>
    /\ up' = Started(p, FALSE)
    /\ AfterRun(p)
    /\ UNCHANGED <<scaleSets, assigned, queue, changes, ctx, main, known, msg, desired, ready, met,
                   boots>>

(* The library asks for the oldest message; HandleDesiredRunnerCount gets  *)
(* its statistics, and the message is acknowledged.                        *)
GetMessage(p) ==
    /\ lst[p] = "poll" /\ queue[p] # <<>> /\ ctx = "live"
    /\ msg' = [msg EXCEPT ![p] = Head(queue[p])]
    /\ lst' = [lst EXCEPT ![p] = "handleMessage"]
    /\ UNCHANGED <<github, ctx, main, known, desired, up, ready, joined, met, troubles, boots>>

BugReported(p) == IF msg[p] > desired[p] THEN Clamp(p, msg[p]) ELSE desired[p]
(* What HandleDesiredRunnerCount stores *)
Reported(p) == Clamp(p, msg[p])

HandleDesired(p) ==
    /\ lst[p] \in {"handle", "handleMessage"}
    /\ desired' = [desired EXCEPT ![p] = Reported(p)]
    /\ lst' = [lst EXCEPT ![p] = IF @ = "handle" THEN "poll" ELSE "delete"]
    /\ UNCHANGED <<github, ctx, main, known, msg, up, ready, joined, met, troubles, boots>>

DeleteMessage(p) ==
    /\ lst[p] = "delete" /\ ctx = "live"
    /\ queue' = [queue EXCEPT ![p] = Tail(@)]
    /\ lst' = [lst EXCEPT ![p] = "poll"]
    /\ UNCHANGED <<scaleSets, session, assigned, changes, ctx, main, known, msg, desired, up, ready,
                   joined, met, troubles, boots>>

(* A call fails or is cancelled; a delete may have taken effect *)
ListenerEnds(p) ==
    /\ lst[p] \in {"poll", "delete"}
    /\ IF ctx = "done" THEN UNCHANGED troubles ELSE Trouble
    /\ queue' \in {queue} \cup
         (IF lst[p] = "delete" THEN {[queue EXCEPT ![p] = Tail(@)]} ELSE {})
    /\ lst' = [lst EXCEPT ![p] = "ended"]
    /\ UNCHANGED <<scaleSets, session, assigned, changes, ctx, main, known, msg, desired, up, ready,
                   joined, met, boots>>

BugCloses == FALSE                  \* an embedded client hides Close
(* The deferred function deletes the session only when the context is done *)
Closes == ctx = "done"

EndRun(p) ==
    /\ lst[p] = "ended"
    /\ \/ Closes /\ session' = [session EXCEPT ![p] = FALSE] /\ UNCHANGED troubles
       \/ Closes /\ Trouble /\ UNCHANGED session        \* the call fails or times out
       \/ ~Closes /\ UNCHANGED <<session, troubles>>
    /\ AfterRun(p)
    /\ UNCHANGED <<scaleSets, assigned, queue, changes, ctx, main, known, msg, desired, up, ready, met,
                   boots>>

(* After the backoff, or because the daemon ends *)
BackoffEnds(p) ==
    /\ lst[p] = "wait"
    /\ IF ctx = "done" THEN lst' = [lst EXCEPT ![p] = "over"] /\ joined' = Joined(p)
       ELSE lst' = [lst EXCEPT ![p] = "run"] /\ UNCHANGED joined
    /\ UNCHANGED <<github, ctx, main, known, msg, desired, up, ready, met, troubles, boots>>

-----------------------------------------------------------------------------
Run(p) ==
    \/ OpenSession(p) \/ OpenFails(p)
    \/ GetMessage(p) \/ HandleDesired(p) \/ DeleteMessage(p)
    \/ ListenerEnds(p) \/ EndRun(p) \/ BackoffEnds(p)

Main == Adopt \/ Cancelled \/ Shutdown \/ Return \/ \E p \in Pool : EnsureScaleSet(p)

Next ==
    \/ Main \/ NotifyReady \/ Signal \/ Restart
    \/ \E p \in Pool : Demand(p) \/ Run(p)

(* Calls end by themselves or with the context, the library polls, and     *)
(* systemd restarts a daemon that failed.  No call has to fail.            *)
Progress(p) ==
    \/ OpenSession(p) \/ GetMessage(p) \/ HandleDesired(p) \/ DeleteMessage(p)
    \/ EndRun(p) \/ BackoffEnds(p)
    \/ ctx = "done" /\ (OpenFails(p) \/ ListenerEnds(p))

Fairness ==
    /\ WF_vars(Main) /\ WF_vars(NotifyReady)
    /\ WF_vars(main = "failed" /\ Restart)
    /\ \A p \in Pool : WF_vars(Progress(p))

Spec == Init /\ [][Next]_vars /\ Fairness

-----------------------------------------------------------------------------
(* Properties *)

GitHubTypeOK ==
    /\ scaleSets \in [Pool -> Nat] /\ session \in [Pool -> BOOLEAN]
    /\ assigned \in [Pool -> 0..MaxAssigned]
    /\ queue \in [Pool -> Seq(0..MaxAssigned)]

MainTypeOK ==
    /\ ctx \in {"live", "done"}
    /\ main \in {"ensure", "loop", "join", "over", "failed"}
    /\ known \subseteq Pool /\ up \subseteq Pool /\ joined \subseteq Pool /\ met \subseteq Pool
    /\ ready \in BOOLEAN

ListenerTypeOK ==
    /\ lst \in [Pool -> {"none", "run", "handle", "poll", "handleMessage", "delete", "ended",
                         "wait", "over"}]
    /\ msg \in [Pool -> 0..MaxAssigned]

DesiredOK ==
    /\ desired \in [Pool -> Nat]
    /\ \A p \in Pool : Min[p] <= desired[p] /\ desired[p] <= Max[p]

CountsOK == changes \in 0..MaxChanges /\ troubles \in 0..MaxTroubles /\ boots \in 0..MaxBoots

(* The variables keep their types, and what the pools are asked for stays  *)
(* between their configured bounds whatever GitHub says.                   *)
TypeOK == GitHubTypeOK /\ MainTypeOK /\ ListenerTypeOK /\ DesiredOK /\ CountsOK

(* However often the daemon dies or loses an answer while it resolves its  *)
(* scale sets, a pool never gets a second one.                             *)
OneScaleSet == \A p \in Pool : scaleSets[p] <= 1

(* READY=1 is sent only after every pool has had a session with GitHub     *)
(* since this start of the daemon, in whatever order they come up.         *)
ReadyMeansConnected == ready => met = Pool

(* A daemon that ends after a signal has deleted the sessions it opened,   *)
(* unless a call to GitHub failed.                                         *)
SessionsAreClosed == main = "over" /\ troubles = 0 => \A p \in met : ~session[p]

(* While the daemon runs, what a pool is asked for becomes what GitHub     *)
(* last said, although sessions end, acknowledgments fail, and a session   *)
(* that is newer than a message reports first.                             *)
DesiredFollows ==
    \A p \in Pool : <>[](main = "loop" /\ ctx = "live")
                       => <>[](desired[p] = Clamp(p, assigned[p]))

(* A daemon that stays up reports READY=1, whatever fails on the way *)
ReadyIsSent == <>[](main = "loop" /\ ctx = "live") => <>[]ready

(* A daemon that got a signal ends, wherever its listeners are *)
ShutdownEnds == ctx = "done" ~> main \in {"over", "failed"} \/ ctx = "live"
=============================================================================
