---------------------------- MODULE BackendsProofs ----------------------------
(***************************************************************************)
(* Proofs about Backends: the process backend has one process group per    *)
(* unit name, and both backends implement RunnerUnit; the systemd backend  *)
(* because the requests its commands have sent, whatever becomes of the    *)
(* commands, lead to what RunnerUnit allows if the manager answers in      *)
(* order.                                                                  *)
(***************************************************************************)
EXTENDS Backends, SequenceTheorems, FiniteSetTheorems, TLAPS

-----------------------------------------------------------------------------
(* The systemd backend *)

Ops == {"stop", "wait", "active"}
Message == [op : S!Request, lives : BOOLEAN]

(* The commands: only one that has been run has a job or a reply, not both, *)
(* and each hears only what its request can be answered with.               *)
CommandInv ==
    /\ call \in [Ops -> {"called", "gone", "there", "error"}]
    /\ asked \subseteq {op \in S!Request : S!Under(op)}
    /\ jobs \subseteq asked \cap {"start", "stop"}
    /\ heard \in [S!Request -> {"none", "ok", "failed", "ended", "gone", "there"}]
    /\ heard["start"] \in {"none", "ok", "failed", "ended"}
    /\ \A op \in Ops : heard[op] \in {"none", "gone", "there", "failed"}
    /\ \A op \in S!Request : heard[op] # "none" => op \in asked \ jobs
    /\ unit \in {"absent", "activating", "active", "deactivating", "ended"}

(* A command that lives and whose request is not read waits for nothing else *)
InboxInv ==
    /\ inbox \in Seq(Message) /\ Len(inbox) <= MaxInbox
    /\ \A i \in 1..Len(inbox) : inbox[i].lives =>
          inbox[i].op \in asked \ jobs /\ heard[inbox[i].op] = "none"
    /\ \A i, j \in 1..Len(inbox) :
          inbox[i].lives /\ inbox[j].lives /\ inbox[i].op = inbox[j].op => i = j

(* There is one request to start at most, of the last Start *)
StartInv ==
    /\ \A i, j \in 1..Len(inbox) : inbox[i].op = "start" /\ inbox[j].op = "start" => i = j
    /\ \A i \in 1..Len(inbox) : inbox[i].op = "start" /\ start = "called" => inbox[i].lives

(* The history of the calls, and that "gone" was true at some moment *)
CallersInv ==
    /\ \A op \in quiet : op \in Ops /\ call[op] = "called"
    /\ \A op \in Ops : call[op] = "called" /\ (~S!Running \/ (op # "stop" /\ start = "called"))
                           => op \in quiet
    /\ after \subseteq Ops
    /\ \A op \in after : call[op] = "called" /\ start # "called"
    /\ \A op \in Ops : heard[op] = "gone" => op \in quiet

(* No request to start comes after one of a call made when Start was over *)
OrderInv ==
    /\ \A op \in after : heard[op] = "gone" \/ op \in jobs => ~S!Queued
    /\ \A i, j \in 1..Len(inbox) :
          i < j /\ inbox[i].lives /\ inbox[i].op \in after => inbox[j].op # "start"

SystemdInv == CommandInv /\ InboxInv /\ StartInv

LEMMA SystemdInit == S!Init => SystemdInv
<1> SUFFICES ASSUME S!Init PROVE SystemdInv
    OBVIOUS
<1>1. inbox = <<>> /\ MaxInbox \in Nat
  BY BackendsAssumption DEF S!Init, S!SystemdAssumption
<1>2. CommandInv
  BY DEF S!Init, CommandInv, Ops, S!Request, S!Under
<1>3. InboxInv /\ StartInv
  BY <1>1 DEF S!Init, InboxInv, StartInv
<1> QED
  BY <1>2, <1>3 DEF SystemdInv

-----------------------------------------------------------------------------
(* The three ways in which the inbox changes *)

LEMMA Sent ==
    ASSUME InboxInv, NEW op \in S!Request, inbox' = Append(inbox, [op |-> op, lives |-> TRUE])
    PROVE  /\ inbox' \in Seq(Message) /\ Len(inbox') = Len(inbox) + 1
           /\ \A i \in 1..Len(inbox) : inbox'[i] = inbox[i]
           /\ inbox'[Len(inbox) + 1] = [op |-> op, lives |-> TRUE]
BY DEF InboxInv, Message

LEMMA LeftBehind ==
    ASSUME InboxInv, NEW ops, S!Abandoned(ops)
    PROVE  /\ inbox' \in Seq(Message) /\ Len(inbox') = Len(inbox)
           /\ \A i \in 1..Len(inbox) :
                 inbox'[i].op = inbox[i].op /\ (inbox'[i].lives <=> inbox[i].lives /\ inbox[i].op \notin ops)
<1> DEFINE f == [i \in 1..Len(inbox) |-> [inbox[i] EXCEPT !.lives = @ /\ inbox[i].op \notin ops]]
<1>1. Len(inbox) \in Nat /\ \A i \in 1..Len(inbox) : inbox[i] \in Message
  BY LenProperties DEF InboxInv
<1>2. \A i \in 1..Len(inbox) :
          f[i] \in Message /\ f[i].op = inbox[i].op /\ (f[i].lives <=> inbox[i].lives /\ inbox[i].op \notin ops)
  BY <1>1 DEF Message
<1>3. f \in [1..Len(inbox) -> Message]
  BY <1>2
<1>4. f \in Seq(Message) /\ Len(f) = Len(inbox)
  BY <1>1, <1>3, SeqDef, LenProperties
<1> QED
  BY <1>2, <1>4 DEF S!Abandoned

LEMMA Without ==
    ASSUME NEW D, NEW s \in Seq(D), NEW i \in 1..Len(s)
    PROVE  LET r == SubSeq(s, 1, i - 1) \o SubSeq(s, i + 1, Len(s))
           IN  /\ r \in Seq(D) /\ Len(r) = Len(s) - 1
               /\ \A k \in 1..(Len(s) - 1) : r[k] = s[IF k < i THEN k ELSE k + 1]
<1> DEFINE a == SubSeq(s, 1, i - 1)
           b == SubSeq(s, i + 1, Len(s))
           n == Len(s)
<1>1. n \in Nat /\ i \in 1..n /\ \A k \in 1..n : s[k] \in D
  BY LenProperties
<1>2. a \in Seq(D) /\ Len(a) = i - 1 /\ \A k \in 1..(i - 1) : a[k] = s[k]
  <2>1. 1 \in Int /\ i - 1 \in Int /\ \A k \in 1..(i - 1) : s[k] \in D
    BY <1>1
  <2>2. /\ a \in Seq(D)
        /\ Len(a) = IF 1 <= i - 1 THEN (i - 1) - 1 + 1 ELSE 0
        /\ \A k \in 1..((i - 1) - 1 + 1) : a[k] = s[1 + k - 1]
    BY <2>1, SubSeqProperties
  <2> QED
    BY <1>1, <2>2
<1>3. b \in Seq(D) /\ Len(b) = n - i /\ \A k \in 1..(n - i) : b[k] = s[i + k]
  <2>1. i + 1 \in Int /\ n \in Int /\ \A k \in (i + 1)..n : s[k] \in D
    BY <1>1
  <2>2. /\ b \in Seq(D)
        /\ Len(b) = IF i + 1 <= n THEN n - (i + 1) + 1 ELSE 0
        /\ \A k \in 1..(n - (i + 1) + 1) : b[k] = s[(i + 1) + k - 1]
    BY <2>1, SubSeqProperties
  <2> QED
    BY <1>1, <2>2
<1> HIDE DEF a, b, n
<1>4. /\ a \o b \in Seq(D) /\ Len(a \o b) = Len(a) + Len(b)
      /\ \A k \in 1..(Len(a) + Len(b)) : (a \o b)[k] = IF k <= Len(a) THEN a[k] ELSE b[k - Len(a)]
  BY <1>2, <1>3, ConcatProperties
<1>5. Len(a) + Len(b) = n - 1
  BY <1>1, <1>2, <1>3
<1>6. ASSUME NEW k \in 1..(n - 1) PROVE (a \o b)[k] = s[IF k < i THEN k ELSE k + 1]
  <2>1. (a \o b)[k] = IF k <= i - 1 THEN a[k] ELSE b[k - (i - 1)]
    BY <1>2, <1>4, <1>5
  <2>2. CASE k < i
    <3>1. k \in 1..(i - 1) /\ k <= i - 1
      BY <1>1, <2>2
    <3> QED
      BY <1>2, <2>1, <2>2, <3>1
  <2>3. CASE ~(k < i)
    <3>1. k - (i - 1) \in 1..(n - i) /\ i + (k - (i - 1)) = k + 1 /\ ~(k <= i - 1)
      BY <1>1, <2>3
    <3>2. b[k - (i - 1)] = s[i + (k - (i - 1))]
      BY <1>3, <3>1
    <3> QED
      BY <2>1, <2>3, <3>1, <3>2
  <2> QED
    BY <2>2, <2>3
<1> QED
  BY <1>4, <1>5, <1>6 DEF a, b, n

LEMMA Read ==
    ASSUME InboxInv, NEW i \in 1..Len(inbox),
           inbox' = SubSeq(inbox, 1, i - 1) \o SubSeq(inbox, i + 1, Len(inbox))
    PROVE  /\ inbox' \in Seq(Message) /\ Len(inbox') = Len(inbox) - 1
           /\ \A k \in 1..(Len(inbox) - 1) : inbox'[k] = inbox[IF k < i THEN k ELSE k + 1]
BY Without DEF InboxInv

-----------------------------------------------------------------------------
(* The commands *)

LEMMA CallsKeepCommands ==
    ASSUME CommandInv, NEW op \in S!Request,
           \/ S!StartCalled \/ S!StartRefused \/ S!PollAgain \/ S!Crash
           \/ (op \in Ops /\ S!Called(op)) \/ S!Run(op) \/ S!Answers(op) \/ S!TimesOut(op)
    PROVE  CommandInv'
<1> USE DEF CommandInv, Ops, S!Request, S!Under
<1>1. CASE S!StartCalled
  BY <1>1 DEF S!StartCalled
<1>2. CASE S!StartRefused
  BY <1>2 DEF S!StartRefused
<1>3. CASE S!PollAgain
  BY <1>3 DEF S!PollAgain
<1>4. CASE S!Crash
  BY <1>4 DEF S!Crash, S!Abandoned
<1>5. CASE op \in Ops /\ S!Called(op)
  BY <1>5 DEF S!Called
<1>6. CASE S!Run(op)
  BY <1>6 DEF S!Run
<1>7. CASE S!Answers(op)
  BY <1>7 DEF S!Answers, S!Told, S!Failure
<1>8. CASE S!TimesOut(op)
  BY <1>8 DEF S!TimesOut, S!Told, S!Abandoned, S!Failure
<1> QED
  BY <1>1, <1>2, <1>3, <1>4, <1>5, <1>6, <1>7, <1>8

LEMMA ManagerKeepsCommands ==
    ASSUME CommandInv, InboxInv, S!Exec \/ S!RunnerEnds \/ S!Collect \/ \E i \in 1..Len(inbox) : S!Serve(i)
    PROVE  CommandInv'
<1> USE DEF CommandInv, Ops, S!Request, S!Under
<1>1. CASE S!Exec
  BY <1>1 DEF S!Exec
<1>2. CASE S!RunnerEnds
  BY <1>2 DEF S!RunnerEnds
<1>3. CASE S!Collect
  BY <1>3 DEF S!Collect
<1>4. ASSUME NEW i \in 1..Len(inbox), S!Serve(i) PROVE CommandInv'
  <2>1. inbox[i] \in Message
    BY DEF InboxInv
  <2>2. inbox[i].lives => inbox[i].op \in asked \ jobs /\ heard[inbox[i].op] = "none"
    BY DEF InboxInv
  <2>3. UNCHANGED <<start, call, asked>>
    BY <1>4 DEF S!Serve
  <2>4. unit' \in {"absent", "activating", "active", "deactivating", "ended"}
    BY <1>4 DEF S!Serve
  <2>5. jobs' \subseteq asked \cap {"start", "stop"}
    BY <1>4, <2>1, <2>2 DEF S!Serve, S!Reply, Message
  <2>6. /\ heard' \in [S!Request -> {"none", "ok", "failed", "ended", "gone", "there"}]
        /\ heard'["start"] \in {"none", "ok", "failed", "ended"}
        /\ \A op \in Ops : heard'[op] \in {"none", "gone", "there", "failed"}
    BY <1>4, <2>1 DEF S!Serve, S!Reply, Message
  <2>7. ASSUME NEW op \in S!Request, heard'[op] # "none" PROVE op \in asked \ jobs'
    BY <1>4, <2>1, <2>2, <2>7 DEF S!Serve, S!Reply, Message
  <2> QED
    BY <2>3, <2>4, <2>5, <2>6, <2>7
<1> QED
  BY <1>1, <1>2, <1>3, <1>4

-----------------------------------------------------------------------------
(* The inbox *)

LEMMA InboxStays ==
    ASSUME SystemdInv, NEW op \in S!Request,
           \/ S!StartCalled \/ S!StartRefused \/ S!PollAgain
           \/ (op \in Ops /\ S!Called(op)) \/ S!Answers(op)
           \/ S!Exec \/ S!RunnerEnds \/ S!Collect
    PROVE  InboxInv' /\ StartInv'
<1> USE DEF SystemdInv, CommandInv, InboxInv, StartInv, Ops, S!Request, S!Under
<1>0. inbox' = inbox /\ \A i \in 1..Len(inbox) : inbox[i] \in Message
  BY DEF S!StartCalled, S!StartRefused, S!PollAgain, S!Called, S!Answers, S!Exec, S!RunnerEnds, S!Collect
<1>1. CASE S!StartCalled
  BY <1>0, <1>1 DEF S!StartCalled, S!Queued
<1>2. CASE S!StartRefused \/ (op \in Ops /\ S!Called(op)) \/ S!Collect
  BY <1>0, <1>2 DEF S!StartRefused, S!Called, S!Collect
<1>3. CASE S!PollAgain
  BY <1>0, <1>3 DEF S!PollAgain
<1>4. CASE S!Answers(op)
  BY <1>0, <1>4 DEF S!Answers, S!Told, S!Failure
<1>5. CASE S!Exec \/ S!RunnerEnds
  BY <1>0, <1>5 DEF S!Exec, S!RunnerEnds, Message
<1> QED
  BY <1>1, <1>2, <1>3, <1>4, <1>5

LEMMA RunKeepsInbox == ASSUME SystemdInv, NEW op \in S!Request, S!Run(op) PROVE InboxInv' /\ StartInv'
<1> USE DEF SystemdInv, CommandInv, InboxInv, StartInv, Ops, S!Request, S!Under
<1>0. Len(inbox) \in Nat /\ MaxInbox \in Nat /\ \A i \in 1..Len(inbox) : inbox[i] \in Message
  BY LenProperties, BackendsAssumption DEF S!SystemdAssumption
<1>1. UNCHANGED <<start, call, jobs>> /\ asked' = asked \cup {op} /\ op \notin asked
  BY DEF S!Run
<1>2. CASE UNCHANGED inbox /\ heard' = [heard EXCEPT ![op] = "failed"]
  BY <1>0, <1>1, <1>2
<1>3. CASE Len(inbox) < MaxInbox /\ inbox' = Append(inbox, [op |-> op, lives |-> TRUE]) /\ UNCHANGED heard
  <2>1. /\ inbox' \in Seq(Message) /\ Len(inbox') = Len(inbox) + 1
        /\ \A i \in 1..Len(inbox) : inbox'[i] = inbox[i]
        /\ inbox'[Len(inbox) + 1] = [op |-> op, lives |-> TRUE]
    BY <1>3, Sent
  <2>2. \A i \in 1..Len(inbox') : i \in 1..Len(inbox) \/ i = Len(inbox) + 1
    BY <1>0, <2>1
  <2>3. \A i \in 1..Len(inbox) : inbox[i].lives => inbox[i].op # op
    BY <1>1
  <2>4. op = "start" => \A i \in 1..Len(inbox) : inbox[i].op # "start"
    BY <1>1, <2>3 DEF S!Run
  <2>5. InboxInv'
    BY <1>0, <1>1, <1>3, <2>1, <2>2, <2>3
  <2>6. StartInv'
    BY <1>0, <1>1, <2>1, <2>2, <2>4
  <2> QED
    BY <2>5, <2>6
<1> QED
  BY <1>2, <1>3 DEF S!Run

LEMMA LeavingKeepsInbox ==
    ASSUME SystemdInv, NEW op \in S!Request, S!TimesOut(op) \/ S!Crash
    PROVE  InboxInv' /\ StartInv'
<1> USE DEF SystemdInv, CommandInv, InboxInv, StartInv, Ops, S!Request, S!Under
<1>0. Len(inbox) \in Nat /\ \A i \in 1..Len(inbox) : inbox[i] \in Message
  BY LenProperties
<1>1. CASE S!TimesOut(op)
  <2>1. /\ inbox' \in Seq(Message) /\ Len(inbox') = Len(inbox)
        /\ \A i \in 1..Len(inbox) :
              inbox'[i].op = inbox[i].op /\ (inbox'[i].lives <=> inbox[i].lives /\ inbox[i].op \notin {op})
    BY <1>1, LeftBehind DEF S!TimesOut
  <2>2. jobs' = jobs \ {op} /\ asked' = asked \ {op} /\ heard' = [heard EXCEPT ![op] = "none"]
    BY <1>1 DEF S!TimesOut, S!Told, S!Abandoned
  <2>3. start' = "called" => start = "called" /\ op # "start"
    BY <1>1 DEF S!TimesOut, S!Told, S!Failure
  <2>4. InboxInv'
    BY <1>0, <2>1, <2>2
  <2>5. StartInv'
    BY <1>0, <2>1, <2>3
  <2> QED
    BY <2>4, <2>5
<1>2. CASE S!Crash
  <2>1. /\ inbox' \in Seq(Message) /\ Len(inbox') = Len(inbox)
        /\ \A i \in 1..Len(inbox) :
              inbox'[i].op = inbox[i].op /\ (inbox'[i].lives <=> inbox[i].lives /\ inbox[i].op \notin S!Request)
    BY <1>2, LeftBehind DEF S!Crash
  <2>2. start' # "called"
    BY <1>2 DEF S!Crash
  <2>3. \A i \in 1..Len(inbox) : inbox[i].op \in S!Request
    BY <1>0 DEF Message
  <2> QED
    BY <1>0, <2>1, <2>2, <2>3
<1> QED
  BY <1>1, <1>2

LEMMA ServeKeepsInbox ==
    ASSUME SystemdInv, NEW i \in 1..Len(inbox), S!Serve(i)
    PROVE  InboxInv' /\ StartInv'
<1> USE DEF SystemdInv, CommandInv, InboxInv, StartInv
<1> DEFINE at(k) == IF k < i THEN k ELSE k + 1
<1>0. Len(inbox) \in Nat /\ MaxInbox \in Nat /\ inbox[i] \in Message
  BY LenProperties, BackendsAssumption DEF S!SystemdAssumption
<1>1. /\ inbox' \in Seq(Message) /\ Len(inbox') = Len(inbox) - 1
      /\ \A k \in 1..(Len(inbox) - 1) : inbox'[k] = inbox[at(k)]
  BY Read DEF S!Serve
<1>2. /\ \A k \in 1..(Len(inbox) - 1) : at(k) \in 1..Len(inbox) /\ at(k) # i
      /\ \A k, l \in 1..(Len(inbox) - 1) : at(k) = at(l) => k = l
  BY <1>0
<1> HIDE DEF at
<1>3. UNCHANGED <<start, call, asked>>
  BY DEF S!Serve
<1>4. ASSUME NEW k \in 1..Len(inbox), k # i, inbox[k].lives
      PROVE  inbox[k].op \in asked \ jobs' /\ heard'[inbox[k].op] = "none"
  <2>1. inbox[k].op \in asked \ jobs /\ heard[inbox[k].op] = "none" /\ inbox[k] \in Message
    BY <1>4
  <2>2. inbox[i].lives => inbox[i].op # inbox[k].op
    BY <1>4
  <2> QED
    BY <2>1, <2>2, <1>0 DEF S!Serve, Message
<1>5. InboxInv'
  BY <1>0, <1>1, <1>2, <1>3, <1>4
<1>6. StartInv'
  BY <1>1, <1>2, <1>3
<1> QED
  BY <1>5, <1>6

LEMMA SystemdKeeps == ASSUME SystemdInv, S!Next PROVE SystemdInv'
<1>1. DOMAIN call = Ops
  BY DEF SystemdInv, CommandInv
<1>2. CommandInv'
  BY <1>1, CallsKeepCommands, ManagerKeepsCommands DEF SystemdInv, S!Next, S!Request, Ops
<1>3. InboxInv' /\ StartInv'
  BY <1>1, InboxStays, RunKeepsInbox, LeavingKeepsInbox, ServeKeepsInbox DEF S!Next, S!Request, Ops
<1> QED
  BY <1>2, <1>3 DEF SystemdInv

LEMMA SystemdTyped == SystemdInv => S!TypeOK
<1> SUFFICES ASSUME SystemdInv PROVE S!TypeOK
    OBVIOUS
<1>1. \A i \in 1..Len(inbox) : inbox[i] \in Message
  BY LenProperties DEF SystemdInv, InboxInv
<1> QED
  BY <1>1 DEF SystemdInv, CommandInv, InboxInv, Message, S!TypeOK

-----------------------------------------------------------------------------
(* The history of the calls *)

Following ==
    /\ kind = "systemd" /\ kind' = "systemd" /\ Unit!Follow
    /\ SystemdInv /\ CallersInv /\ S!Next

LEMMA Follows ==
    ASSUME Following
    PROVE  /\ \A op \in Ops : call'[op] = "called" /\ op \in quiet /\ call[op] = "called" => op \in quiet'
           /\ \A op \in quiet' : op \in Ops /\ call'[op] = "called"
           /\ \A op \in Ops : call'[op] = "called" /\ (~S!Running' \/ (op # "stop" /\ start' = "called"))
                                  => op \in quiet'
           /\ after' \subseteq Ops
           /\ \A op \in after' : /\ call'[op] = "called" /\ start' # "called"
                                 /\ op \in after \/ call[op] # "called"
BY DEF Following, Unit!Follow, Unit!Op, Ops

(* A "gone" is heard when the unit does not run, or was heard before *)
LEMMA GoneIsHeard ==
    ASSUME SystemdInv, S!Next, NEW op \in Ops, heard'[op] = "gone"
    PROVE  ~S!Running' \/ heard[op] = "gone"
<1> USE DEF SystemdInv, CommandInv, Ops, S!Request
<1>1. CASE S!StartCalled \/ S!StartRefused \/ S!Collect \/ S!Exec \/ S!PollAgain \/ S!Crash
           \/ \E o \in DOMAIN call : S!Called(o)
  BY <1>1 DEF S!StartCalled, S!StartRefused, S!Collect, S!Exec, S!PollAgain, S!Crash, S!Called
<1>2. ASSUME NEW o \in S!Request, S!Run(o) \/ S!Answers(o) \/ S!TimesOut(o) PROVE heard[op] = "gone"
  BY <1>2 DEF S!Run, S!Answers, S!TimesOut, S!Told
<1>3. CASE S!RunnerEnds
  BY <1>3 DEF S!RunnerEnds, S!Running
<1>4. ASSUME NEW i \in 1..Len(inbox), S!Serve(i) PROVE ~S!Running' \/ heard[op] = "gone"
  BY <1>4 DEF S!Serve, S!Reply, S!Ended, S!Running
<1> QED
  BY <1>1, <1>2, <1>3, <1>4 DEF S!Next

LEMMA CallersStep == ASSUME Following PROVE CallersInv'
<1>1. SystemdInv /\ SystemdInv' /\ S!Next /\ CallersInv
  BY SystemdKeeps DEF Following
<1>2. ASSUME NEW op \in Ops, heard'[op] = "gone" PROVE op \in quiet'
  <2>1. call'[op] = "called"
    BY <1>1, <1>2 DEF SystemdInv, CommandInv, Ops, S!Request, S!Under
  <2>2. heard[op] = "gone" => op \in quiet /\ call[op] = "called"
    BY <1>1 DEF CallersInv, SystemdInv, CommandInv, Ops, S!Request, S!Under
  <2> QED
    BY <1>1, <1>2, <2>1, <2>2, Follows, GoneIsHeard
<1> QED
  BY <1>2, Follows DEF CallersInv

(* No request to start is sent while a call of after is under way *)
LEMMA NoNewStart ==
    ASSUME SystemdInv, CallersInv, NEW op \in after
    PROVE  "start" \notin asked /\ ~S!Run("start")
BY DEF SystemdInv, CommandInv, CallersInv, S!Request, S!Run, S!Under

LEMMA OrderStep == ASSUME Following, OrderInv, InOrder PROVE OrderInv'
<1>0. SystemdInv /\ SystemdInv' /\ CallersInv /\ CallersInv' /\ S!Next
  BY SystemdKeeps, CallersStep DEF Following
<1> USE DEF Ops, S!Request
<1>1. SUFFICES ASSUME NEW op \in after'
               PROVE  /\ heard'[op] = "gone" \/ op \in jobs' => ~S!Queued'
                      /\ \A i, j \in 1..Len(inbox') :
                            i < j /\ inbox'[i].lives /\ inbox'[i].op = op => inbox'[j].op # "start"
  BY DEF OrderInv
<1>2. op \in Ops /\ call'[op] = "called" /\ start' # "called" /\ (op \in after \/ call[op] # "called")
  BY <1>1, Follows
<1>3. CASE call[op] # "called"
  <2>1. S!Called(op)
    <3>1. ASSUME NEW o \in S!Request, S!Run(o) \/ S!Answers(o) \/ S!TimesOut(o) PROVE FALSE
      BY <1>0, <1>2, <1>3, <3>1
         DEF S!Run, S!Answers, S!Told, S!TimesOut, S!Failure, SystemdInv, CommandInv
    <3>2. ASSUME NEW o \in DOMAIN call, S!Called(o) PROVE o = op
      BY <1>0, <1>2, <1>3, <3>2 DEF S!Called, SystemdInv, CommandInv
    <3>3. ~S!StartCalled /\ ~S!StartRefused /\ ~S!PollAgain /\ ~S!Exec /\ ~S!RunnerEnds /\ ~S!Collect
      BY <1>2, <1>3 DEF S!StartCalled, S!StartRefused, S!PollAgain, S!Exec, S!RunnerEnds, S!Collect
    <3>4. ~S!Crash /\ \A i \in 1..Len(inbox) : ~S!Serve(i)
      BY <1>0, <1>2, <1>3 DEF S!Crash, S!Serve, SystemdInv, CommandInv
    <3> QED
      BY <1>0, <3>1, <3>2, <3>3, <3>4 DEF S!Next
  <2>2. op \notin asked
    BY <1>0, <1>2, <1>3 DEF SystemdInv, CommandInv, S!Under
  <2> QED
    BY <1>0, <1>2, <2>1, <2>2 DEF S!Called, SystemdInv, CommandInv, InboxInv
<1>4. CASE op \in after
  <2>0. /\ call[op] = "called" /\ start # "called" /\ "start" \notin asked /\ ~S!Run("start")
        /\ heard[op] = "gone" \/ op \in jobs => ~S!Queued
        /\ \A i, j \in 1..Len(inbox) :
              i < j /\ inbox[i].lives /\ inbox[i].op = op => inbox[j].op # "start"
    BY <1>0, <1>4, NoNewStart DEF OrderInv, CallersInv
  <2>1. ~S!StartCalled /\ ~S!StartRefused /\ ~S!Crash
    BY <1>0, <1>2, <2>0 DEF S!StartCalled, S!StartRefused, S!Crash, SystemdInv, CommandInv
  <2>2. ASSUME UNCHANGED inbox, heard'[op] = "gone" \/ op \in jobs' => heard[op] = "gone" \/ op \in jobs
        PROVE  /\ heard'[op] = "gone" \/ op \in jobs' => ~S!Queued'
               /\ \A i, j \in 1..Len(inbox') :
                     i < j /\ inbox'[i].lives /\ inbox'[i].op = op => inbox'[j].op # "start"
    BY <2>0, <2>2 DEF S!Queued
  <2>3. CASE S!PollAgain \/ S!Exec \/ S!RunnerEnds \/ S!Collect \/ \E o \in DOMAIN call : S!Called(o)
    <3>1. UNCHANGED inbox
      BY <2>3 DEF S!PollAgain, S!Exec, S!RunnerEnds, S!Collect, S!Called
    <3>2. heard'[op] = "gone" \/ op \in jobs' => heard[op] = "gone" \/ op \in jobs
      BY <1>0, <1>2, <2>3 DEF S!PollAgain, S!Exec, S!RunnerEnds, S!Collect, S!Called, SystemdInv, CommandInv
    <3> QED
      BY <2>2, <3>1, <3>2
  <2>4. ASSUME NEW o \in S!Request, S!Answers(o) \/ (S!Run(o) /\ UNCHANGED inbox)
        PROVE  /\ UNCHANGED inbox
               /\ heard'[op] = "gone" \/ op \in jobs' => heard[op] = "gone" \/ op \in jobs
    BY <1>0, <1>2, <2>4 DEF S!Answers, S!Told, S!Run, SystemdInv, CommandInv
  <2>5. ASSUME NEW o \in S!Request, S!Run(o), inbox' = Append(inbox, [op |-> o, lives |-> TRUE])
        PROVE  /\ heard'[op] = "gone" \/ op \in jobs' => ~S!Queued'
               /\ \A i, j \in 1..Len(inbox') :
                     i < j /\ inbox'[i].lives /\ inbox'[i].op = op => inbox'[j].op # "start"
    <3>1. o # "start"
      BY <2>0, <2>5
    <3>2. /\ Len(inbox) \in Nat /\ Len(inbox') = Len(inbox) + 1
          /\ \A i \in 1..Len(inbox) : inbox'[i] = inbox[i]
          /\ inbox'[Len(inbox) + 1] = [op |-> o, lives |-> TRUE]
      BY <1>0, <2>5, Sent, LenProperties DEF SystemdInv, InboxInv
    <3>3. heard'[op] = "gone" \/ op \in jobs' => heard[op] = "gone" \/ op \in jobs
      BY <1>0, <1>2, <2>5 DEF S!Run, SystemdInv, CommandInv
    <3>4. ASSUME NEW j \in 1..Len(inbox'), inbox'[j].op = "start" PROVE j \in 1..Len(inbox) /\ inbox[j].op = "start"
      BY <3>1, <3>2, <3>4
    <3>5. S!Queued' => S!Queued
      BY <3>4 DEF S!Queued
    <3>6. ASSUME NEW i \in 1..Len(inbox'), NEW j \in 1..Len(inbox'), i < j, inbox'[i].lives, inbox'[i].op = op,
                 inbox'[j].op = "start"
          PROVE  FALSE
      BY <2>0, <3>2, <3>4, <3>6
    <3> QED
      BY <2>0, <3>3, <3>5, <3>6
  <2>6. ASSUME NEW o \in S!Request, S!TimesOut(o)
        PROVE  /\ heard'[op] = "gone" \/ op \in jobs' => ~S!Queued'
               /\ \A i, j \in 1..Len(inbox') :
                     i < j /\ inbox'[i].lives /\ inbox'[i].op = op => inbox'[j].op # "start"
    <3>1. /\ Len(inbox') = Len(inbox)
          /\ \A i \in 1..Len(inbox) :
                inbox'[i].op = inbox[i].op /\ (inbox'[i].lives <=> inbox[i].lives /\ inbox[i].op \notin {o})
      BY <1>0, <2>6, LeftBehind DEF S!TimesOut, SystemdInv
    <3>2. heard'[op] = "gone" \/ op \in jobs' => heard[op] = "gone" \/ op \in jobs
      BY <1>0, <1>2, <2>6 DEF S!TimesOut, S!Told, S!Abandoned, SystemdInv, CommandInv
    <3> QED
      BY <2>0, <3>1, <3>2 DEF S!Queued
  <2>7. ASSUME NEW n \in 1..Len(inbox), S!Serve(n)
        PROVE  /\ heard'[op] = "gone" \/ op \in jobs' => ~S!Queued'
               /\ \A i, j \in 1..Len(inbox') :
                     i < j /\ inbox'[i].lives /\ inbox'[i].op = op => inbox'[j].op # "start"
    <3>1. n = 1
      BY <2>7 DEF S!Serve
    <3>2. /\ Len(inbox) \in Nat /\ Len(inbox') = Len(inbox) - 1
          /\ \A k \in 1..(Len(inbox) - 1) : inbox'[k] = inbox[IF k < n THEN k ELSE k + 1]
      BY <1>0, <2>7, Read, LenProperties DEF S!Serve, SystemdInv, InboxInv
    <3>3. \A k \in 1..Len(inbox') : k + 1 \in 1..Len(inbox) /\ inbox'[k] = inbox[k + 1]
      BY <3>1, <3>2
    <3>4. heard'[op] = "gone" \/ op \in jobs'
            => heard[op] = "gone" \/ op \in jobs \/ (inbox[1].lives /\ inbox[1].op = op)
      BY <1>2, <2>7, <3>1 DEF S!Serve
    <3>5. S!Queued' => S!Queued /\ \E j \in 1..Len(inbox) : 1 < j /\ inbox[j].op = "start"
      BY <3>2, <3>3 DEF S!Queued
    <3>6. heard'[op] = "gone" \/ op \in jobs' => ~S!Queued'
      BY <2>0, <2>7, <3>1, <3>4, <3>5
    <3>7. ASSUME NEW i \in 1..Len(inbox'), NEW j \in 1..Len(inbox'), i < j, inbox'[i].lives, inbox'[i].op = op,
                 inbox'[j].op = "start"
          PROVE  FALSE
      <4>1. i + 1 \in 1..Len(inbox) /\ j + 1 \in 1..Len(inbox) /\ i + 1 < j + 1
        BY <3>2, <3>3, <3>7
      <4>2. inbox[i + 1].lives /\ inbox[i + 1].op = op /\ inbox[j + 1].op = "start"
        BY <3>3, <3>7
      <4> QED
        BY <2>0, <4>1, <4>2
    <3> QED
      BY <3>6, <3>7
  <2>8. CASE \E o \in S!Request : S!Run(o)
    BY <2>2, <2>4, <2>5, <2>8 DEF S!Run
  <2> QED
    BY <1>0, <2>1, <2>2, <2>3, <2>4, <2>6, <2>7, <2>8 DEF S!Next
<1> QED
  BY <1>2, <1>3, <1>4

-----------------------------------------------------------------------------
(* The systemd backend implements RunnerUnit *)

(* What Attempt is, given where the last Start and its request are *)
LEMMA Attempts ==
    ASSUME SystemdInv
    PROVE  /\ start = "called" /\ "start" \notin asked => ~S!Queued /\ S!Attempt = "may"
           /\ "start" \in jobs \/ heard["start"] # "none" => ~S!Queued /\ start = "called" /\ "start" \in asked
           /\ "start" \in jobs \/ heard["start"] \in {"ok", "ended"} => S!Attempt = "launched"
           /\ heard["start"] = "failed" => S!Attempt = "void"
           /\ start # "called" => S!Attempt = IF S!Queued THEN "may" ELSE "void"
           /\ S!Queued => S!Attempt = "may"
<1>1. \A i \in 1..Len(inbox) : inbox[i].op = "start" /\ start = "called" =>
          "start" \in asked \ jobs /\ heard["start"] = "none"
  BY DEF SystemdInv, InboxInv, StartInv
<1>2. /\ start = "called" /\ "start" \notin asked => ~S!Queued
      /\ "start" \in jobs \/ heard["start"] # "none" => ~S!Queued /\ start = "called" /\ "start" \in asked
  BY <1>1 DEF SystemdInv, CommandInv, S!Queued, S!Request, S!Under
<1>3. heard["start"] # "none" => "start" \notin jobs
  BY DEF SystemdInv, CommandInv, S!Request
<1> QED
  BY <1>2, <1>3 DEF S!Attempt

LEMMA SystemdStutter ==
    ASSUME Following, S!Running' = S!Running, S!Attempt' = S!Attempt, UNCHANGED <<start, call>>
    PROVE  UNCHANGED Unit!vars
<1>1. quiet' = quiet /\ after' = after
  BY DEF Following, CallersInv, Unit!Follow, Unit!Op, Ops
<1> QED
  BY <1>1 DEF Unit!vars, Following

LEMMA QueuedStays == ASSUME UNCHANGED inbox PROVE S!Queued' = S!Queued
BY DEF S!Queued

LEMMA StartSteps ==
    ASSUME Following, S!StartCalled \/ S!StartRefused PROVE Unit!Step
<1> USE DEF Following
<1>0. SystemdInv /\ SystemdInv'
  BY SystemdKeeps
<1>1. CASE S!StartCalled
  <2>1. start # "called" /\ start' = "called" /\ "start" \notin asked' /\ S!Attempt # "may"
    BY <1>0, <1>1, Attempts DEF S!StartCalled, SystemdInv, CommandInv, S!Under
  <2>2. S!Attempt' = "may"
    BY <2>1 DEF S!Attempt
  <2>3. Unit!StartCalled
    BY <1>1, <2>1, <2>2 DEF Unit!StartCalled, S!StartCalled, S!Running
  <2> QED
    BY <2>3 DEF Unit!Step
<1>2. CASE S!StartRefused
  <2>1. S!Attempt = "may" /\ ~S!Queued'
    BY <1>0, <1>2, Attempts, QueuedStays DEF S!StartRefused
  <2>2. S!Attempt' = "void"
    BY <1>2, <2>1 DEF S!Attempt, S!StartRefused
  <2>3. Unit!StartAnswers("not_started")
    BY <1>2, <2>1, <2>2 DEF Unit!StartAnswers, S!StartRefused, S!Running
  <2> QED
    BY <2>3 DEF Unit!Step, Unit!StartAnswer
<1> QED
  BY <1>1, <1>2

LEMMA CalledStep == ASSUME Following, NEW op \in Ops, S!Called(op) PROVE Unit!Step
<1>1. S!Running' = S!Running /\ S!Attempt' = S!Attempt
  BY DEF S!Called, S!Running, S!Attempt, S!Queued
<1>2. Unit!Called(op)
  BY <1>1 DEF Unit!Called, S!Called, Following
<1> QED
  BY <1>2 DEF Unit!Step, Unit!Op, Ops

LEMMA RunStep == ASSUME Following, NEW op \in S!Request, S!Run(op) PROVE Unit!Step \/ UNCHANGED Unit!vars
<1> USE DEF Following
<1>0. /\ SystemdInv /\ SystemdInv' /\ op \notin asked /\ asked' = asked \cup {op}
      /\ UNCHANGED <<start, call, jobs, unit>>
  BY SystemdKeeps DEF S!Run
<1>1. ASSUME inbox' = Append(inbox, [op |-> op, lives |-> TRUE]) PROVE S!Queued' <=> (S!Queued \/ op = "start")
  <2>1. /\ Len(inbox) \in Nat /\ Len(inbox') = Len(inbox) + 1
        /\ \A i \in 1..Len(inbox) : inbox'[i] = inbox[i]
        /\ inbox'[Len(inbox) + 1] = [op |-> op, lives |-> TRUE]
    BY <1>0, <1>1, Sent, LenProperties DEF SystemdInv, InboxInv
  <2>2. Len(inbox) + 1 \in 1..Len(inbox') /\ \A i \in 1..Len(inbox) : i \in 1..Len(inbox')
    BY <2>1
  <2>3. \A i \in 1..Len(inbox') : i \in 1..Len(inbox) \/ i = Len(inbox) + 1
    BY <2>1
  <2>4. op = "start" => S!Queued'
    BY <2>1, <2>2 DEF S!Queued
  <2>5. S!Queued => S!Queued'
    BY <2>1, <2>2 DEF S!Queued
  <2>6. S!Queued' => S!Queued \/ op = "start"
    BY <2>1, <2>3 DEF S!Queued
  <2> QED
    BY <2>4, <2>5, <2>6
<1>2. CASE op = "start"
  <2>1. start = "called" /\ S!Attempt = "may" /\ ~S!Queued
    BY <1>0, <1>2, Attempts DEF S!Run, S!Under
  <2>2. CASE inbox' = Append(inbox, [op |-> op, lives |-> TRUE])
    <3>1. S!Attempt' = "may"
      BY <1>0, <1>1, <1>2, <2>2, Attempts DEF S!Attempt
    <3> QED
      BY <1>0, <2>1, <3>1, SystemdStutter DEF S!Running
  <2>3. CASE UNCHANGED inbox /\ heard' = [heard EXCEPT ![op] = "failed"]
    <3>1. heard'["start"] = "failed" /\ "start" \notin jobs' /\ "start" \in asked' /\ ~S!Queued'
      BY <1>0, <1>2, <2>1, <2>3, QueuedStays DEF SystemdInv, CommandInv, S!Request
    <3>2. S!Attempt' = "void"
      BY <3>1 DEF S!Attempt
    <3>3. Unit!Void
      BY <1>0, <2>1, <3>2 DEF Unit!Void, S!Running
    <3> QED
      BY <3>3 DEF Unit!Step
  <2> QED
    BY <2>2, <2>3 DEF S!Run
<1>3. CASE op # "start"
  <2>1. heard'["start"] = heard["start"] /\ (S!Queued' <=> S!Queued)
    BY <1>0, <1>1, <1>3, QueuedStays DEF S!Run, SystemdInv, CommandInv, S!Request
  <2>2. S!Attempt' = S!Attempt
    BY <1>0, <1>3, <2>1 DEF S!Attempt
  <2> QED
    BY <1>0, <2>2, SystemdStutter DEF S!Running
<1> QED
  BY <1>2, <1>3

LEMMA AnswerStep == ASSUME Following, OrderInv, NEW op \in S!Request, S!Answers(op) PROVE Unit!Step
<1> USE DEF Following
<1>0. /\ SystemdInv /\ SystemdInv' /\ CallersInv /\ UNCHANGED <<inbox, jobs, unit>>
      /\ S!Queued' = S!Queued /\ heard[op] # "none" /\ S!Under(op)
  BY SystemdKeeps, QueuedStays DEF S!Answers, S!Told
<1>1. CASE op = "start"
  <2>1. /\ start = "called" /\ ~S!Queued /\ UNCHANGED call
        /\ start' = IF heard["start"] = "ok" THEN "ok" ELSE "uncertain"
    BY <1>0, <1>1, Attempts DEF S!Answers, S!Told, S!Failure, SystemdInv, CommandInv
  <2>2. S!Attempt # "may" /\ (heard["start"] = "ok" => S!Attempt = "launched")
    BY <1>0, <1>1, <2>1, Attempts DEF SystemdInv, CommandInv
  <2>3. S!Attempt' = "void"
    BY <1>0, <2>1 DEF S!Attempt
  <2>4. \E answer \in {"ok", "uncertain"} : Unit!StartAnswers(answer)
    BY <1>0, <2>1, <2>2, <2>3 DEF Unit!StartAnswers, S!Running
  <2> QED
    BY <2>4 DEF Unit!Step, Unit!StartAnswer
<1>2. CASE op # "start"
  <2>1. op \in Ops /\ call[op] = "called" /\ UNCHANGED start /\ asked' = asked \ {op}
        /\ heard' = [heard EXCEPT ![op] = "none"]
        /\ call' = [call EXCEPT ![op] = IF heard[op] = "failed" THEN "error" ELSE heard[op]]
    BY <1>0, <1>2 DEF S!Answers, S!Told, S!Failure, S!Under, S!Request, Ops, SystemdInv, CommandInv
  <2>2. S!Attempt' = S!Attempt
    BY <1>0, <1>2, <2>1 DEF S!Attempt, SystemdInv, CommandInv, S!Request
  <2>3. heard[op] = "gone" => op \in quiet /\ (op \in after => ~S!Queued /\ start # "called")
    BY <1>0, <2>1 DEF OrderInv, CallersInv
  <2>4. heard[op] = "gone" /\ op \in after => S!Attempt = "void"
    BY <2>3 DEF S!Attempt
  <2>5. heard[op] \in {"gone", "there", "failed"}
    BY <1>0, <2>1 DEF SystemdInv, CommandInv
  <2>6. \E answer \in {"gone", "there", "error"} : Unit!Answers(op, answer)
    BY <1>0, <2>1, <2>2, <2>3, <2>4, <2>5 DEF Unit!Answers, S!Running
  <2> QED
    BY <2>1, <2>6 DEF Unit!Step, Unit!Op, Ops
<1> QED
  BY <1>1, <1>2

(* A killed command leaves its request where it is *)
LEMMA StillQueued == ASSUME InboxInv, NEW ops, S!Abandoned(ops) PROVE S!Queued' = S!Queued
<1>1. /\ Len(inbox') = Len(inbox)
      /\ \A i \in 1..Len(inbox) : inbox'[i].op = inbox[i].op
  BY LeftBehind
<1> QED
  BY <1>1 DEF S!Queued

LEMMA DeadlineStep == ASSUME Following, NEW op \in S!Request, S!TimesOut(op) PROVE Unit!Step
<1> USE DEF Following
<1>0. /\ SystemdInv /\ UNCHANGED unit /\ S!Queued' = S!Queued /\ S!Under(op) /\ op \in asked
      /\ asked' = asked \ {op} /\ jobs' = jobs \ {op} /\ heard' = [heard EXCEPT ![op] = "none"]
  BY StillQueued DEF S!TimesOut, S!Told, S!Abandoned, SystemdInv
<1>1. CASE op = "start"
  <2>1. start = "called" /\ "start" \in asked /\ start' = "uncertain" /\ UNCHANGED call
    BY <1>0, <1>1 DEF S!TimesOut, S!Told, S!Failure, S!Under
  <2>2. S!Attempt' = IF S!Queued THEN "may" ELSE "void"
    BY <1>0, <2>1 DEF S!Attempt
  <2>3. S!Attempt = "may" <=> S!Queued
    BY <2>1 DEF S!Attempt
  <2>4. Unit!StartAnswers("uncertain")
    BY <1>0, <2>1, <2>2, <2>3 DEF Unit!StartAnswers, S!Running
  <2> QED
    BY <2>4 DEF Unit!Step, Unit!StartAnswer
<1>2. CASE op # "start"
  <2>1. op \in Ops /\ call[op] = "called" /\ UNCHANGED start /\ call' = [call EXCEPT ![op] = "error"]
    BY <1>0, <1>2 DEF S!TimesOut, S!Told, S!Failure, S!Under, S!Request, Ops
  <2>2. S!Attempt' = S!Attempt
    BY <1>0, <1>2, <2>1 DEF S!Attempt, SystemdInv, CommandInv, S!Request
  <2>3. Unit!Answers(op, "error")
    BY <1>0, <2>1, <2>2 DEF Unit!Answers, S!Running
  <2> QED
    BY <2>1, <2>3 DEF Unit!Step, Unit!Op, Ops
<1> QED
  BY <1>1, <1>2

LEMMA CrashStep == ASSUME Following, S!Crash PROVE Unit!Step
<1> USE DEF Following
<1>0. SystemdInv /\ S!Queued' = S!Queued /\ DOMAIN call = Ops
  BY StillQueued DEF S!Crash, SystemdInv, CommandInv
<1>1. S!Attempt' = IF S!Queued THEN "may" ELSE "void"
  BY <1>0 DEF S!Attempt, S!Crash
<1>2. S!Queued => S!Attempt = "may"
  BY <1>0, Attempts
<1>3. Unit!Crash
  BY <1>0, <1>1, <1>2 DEF Unit!Crash, Unit!Op, Ops, S!Crash, S!Running
<1> QED
  BY <1>3 DEF Unit!Step

LEMMA UnitSteps ==
    ASSUME Following, S!PollAgain \/ S!Exec \/ S!RunnerEnds \/ S!Collect
    PROVE  Unit!Step \/ UNCHANGED Unit!vars
<1> USE DEF Following
<1>0. SystemdInv /\ UNCHANGED <<start, call, inbox>> /\ S!Queued' = S!Queued
  BY QueuedStays DEF S!PollAgain, S!Exec, S!RunnerEnds, S!Collect
<1>1. CASE S!PollAgain \/ S!Collect
  <2>1. S!Attempt' = S!Attempt
    BY <1>0, <1>1 DEF S!Attempt, S!PollAgain, S!Collect, SystemdInv, CommandInv, S!Request
  <2> QED
    BY <1>0, <1>1, <2>1, SystemdStutter DEF S!PollAgain, S!Collect, S!Running
<1>2. CASE S!Exec
  <2>1. S!Attempt' = S!Attempt
    BY <1>0, <1>2 DEF S!Attempt, S!Exec, SystemdInv, CommandInv, S!Request
  <2> QED
    BY <1>0, <1>2, <2>1, SystemdStutter DEF S!Exec, S!Running
<1>3. CASE S!RunnerEnds
  <2>1. S!Attempt' = S!Attempt
    BY <1>0, <1>3 DEF S!Attempt, S!RunnerEnds, SystemdInv, CommandInv, S!Request
  <2>2. Unit!RunnerEnds
    BY <1>0, <1>3, <2>1 DEF Unit!RunnerEnds, S!RunnerEnds, S!Running
  <2> QED
    BY <2>2 DEF Unit!Step
<1> QED
  BY <1>1, <1>2, <1>3

LEMMA ServeStep ==
    ASSUME Following, NEW i \in 1..Len(inbox), S!Serve(i) PROVE Unit!Step \/ UNCHANGED Unit!vars
<1> USE DEF Following
<1>0. /\ SystemdInv /\ SystemdInv' /\ inbox[i] \in Message /\ Len(inbox) \in Nat
      /\ UNCHANGED <<start, call, asked>>
  <2>1. SystemdInv'
    BY SystemdKeeps
  <2>2. inbox[i] \in Message /\ Len(inbox) \in Nat
    BY LenProperties DEF SystemdInv, InboxInv
  <2> QED
    BY <2>1, <2>2 DEF S!Serve
<1>1. /\ Len(inbox') = Len(inbox) - 1
      /\ \A k \in 1..(Len(inbox) - 1) : inbox'[k] = inbox[IF k < i THEN k ELSE k + 1]
  BY <1>0, Read DEF S!Serve, SystemdInv
<1>2. \A k \in 1..Len(inbox') :
          \E l \in 1..Len(inbox) : l # i /\ inbox'[k] = inbox[l]
  BY <1>0, <1>1
<1>3. ASSUME NEW l \in 1..Len(inbox), l # i PROVE \E k \in 1..Len(inbox') : inbox'[k] = inbox[l]
  <2>1. CASE l < i
    <3>1. l \in 1..(Len(inbox) - 1)
      BY <1>0, <2>1
    <3> QED
      BY <1>1, <2>1, <3>1
  <2>2. CASE ~(l < i)
    <3>1. l - 1 \in 1..(Len(inbox) - 1) /\ ~(l - 1 < i) /\ (l - 1) + 1 = l
      BY <1>0, <1>3, <2>2
    <3> QED
      BY <1>1, <3>1
  <2> QED
    BY <2>1, <2>2
<1>4. CASE inbox[i].op = "start"
  <2>1. S!Queued /\ ~S!Queued' /\ S!Attempt = "may"
    BY <1>0, <1>2, <1>4, Attempts DEF S!Queued, SystemdInv, StartInv
  <2>2. start = "called" => inbox[i].lives /\ "start" \in asked /\ "start" \notin jobs
    BY <1>0, <1>4 DEF SystemdInv, InboxInv, StartInv
  <2>3. CASE unit = "absent"
    <3>1. unit' = "activating" /\ (inbox[i].lives => "start" \in jobs')
      BY <1>0, <1>4, <2>3 DEF S!Serve, S!Reply, S!Running
    <3>2. S!Attempt' = IF start = "called" THEN "launched" ELSE "void"
      BY <1>0, <2>1, <2>2, <3>1 DEF S!Attempt
    <3>3. Unit!Launch
      BY <1>0, <2>1, <2>3, <3>1, <3>2 DEF Unit!Launch, S!Running
    <3> QED
      BY <3>3 DEF Unit!Step
  <2>4. CASE unit # "absent"
    <3>1. /\ UNCHANGED unit
          /\ inbox[i].lives => "start" \notin jobs' /\ heard'["start"] = "failed"
      BY <1>0, <1>4, <2>2, <2>4 DEF S!Serve, S!Reply, S!Running, S!Request, SystemdInv, InboxInv
    <3>2. S!Attempt' = "void"
      BY <1>0, <2>1, <2>2, <3>1 DEF S!Attempt
    <3>3. Unit!Void
      BY <1>0, <2>1, <3>1, <3>2 DEF Unit!Void, S!Running
    <3> QED
      BY <3>3 DEF Unit!Step
  <2> QED
    BY <2>3, <2>4
<1>5. CASE inbox[i].op # "start"
  <2>1. S!Queued' <=> S!Queued
    BY <1>2, <1>3, <1>5 DEF S!Queued
  <2>2. S!Running' <=> S!Running
    BY <1>5 DEF S!Serve, S!Running
  <2>3. \/ ("start" \in jobs' <=> "start" \in jobs) /\ heard'["start"] = heard["start"]
        \/ "start" \in jobs /\ "start" \notin jobs' /\ heard'["start"] = "ended"
    BY <1>0, <1>5 DEF S!Serve, S!Request, SystemdInv, CommandInv, Message
  <2>4. S!Attempt' = S!Attempt
    BY <1>0, <2>1, <2>3 DEF S!Attempt
  <2> QED
    BY <1>0, <2>2, <2>4, SystemdStutter DEF S!Running
<1> QED
  BY <1>4, <1>5

LEMMA SystemdSimulates == ASSUME Following, OrderInv PROVE Unit!Step \/ UNCHANGED Unit!vars
<1>1. DOMAIN call = Ops /\ S!Next
  BY DEF Following, SystemdInv, CommandInv
<1> QED
  BY <1>1, StartSteps, CalledStep, RunStep, AnswerStep, DeadlineStep, CrashStep, UnitSteps, ServeStep
     DEF S!Next

-----------------------------------------------------------------------------
(* The invariant of the systemd half, and that its steps are RunnerUnit's *)

SystemdHalf == kind = "systemd" => SystemdInv /\ CallersInv /\ OrderInv

LEMMA HalfInit == Init => SystemdHalf
<1> SUFFICES ASSUME Init, kind = "systemd" PROVE SystemdInv /\ CallersInv /\ OrderInv
    BY DEF SystemdHalf
<1>1. SystemdInv
  BY SystemdInit DEF Init
<1>2. CallersInv /\ OrderInv
  BY DEF Init, S!Init, CallersInv, OrderInv, Ops, S!Request
<1> QED
  BY <1>1, <1>2

LEMMA HalfStep ==
    ASSUME kind = "systemd", InOrder, SystemdHalf, [Next]_vars
    PROVE  SystemdHalf' /\ [Unit!Next]_Unit!vars
<1>1. CASE Next
  <2>1. Following /\ OrderInv
    BY <1>1 DEF Next, Process, Systemd, Following, SystemdHalf
  <2>2. SystemdInv' /\ CallersInv' /\ OrderInv'
    BY <2>1, SystemdKeeps, CallersStep, OrderStep DEF Following
  <2>3. [Unit!Next]_Unit!vars
    BY <2>1, SystemdSimulates DEF Following, Unit!Next
  <2> QED
    BY <2>2, <2>3 DEF SystemdHalf
<1>2. CASE UNCHANGED vars
  <2>1. UNCHANGED <<start, call, quiet, after, asked, inbox, jobs, heard, unit, kind>>
    BY <1>2 DEF vars, systemd
  <2>2. SystemdHalf'
    BY <2>1 DEF SystemdHalf, SystemdInv, CommandInv, InboxInv, StartInv, CallersInv, OrderInv,
                S!Under, S!Queued, S!Running
  <2>3. UNCHANGED Unit!vars
    BY <2>1 DEF Unit!vars, S!Running, S!Attempt, S!Queued
  <2> QED
    BY <2>2, <2>3
<1> QED
  BY <1>1, <1>2

-----------------------------------------------------------------------------
(* The process backend, and the contract of both *)

(* The numbers of processes: which have been forked, which registered *)
GenInv ==
    /\ \A g \in P!Launches : reaper[g] # "none" => g <= gen /\ (spc = "forked" => g # gen)
    /\ spc \in {"called", "held", "prepared"} => gen < MaxLaunches

(* Only the registered process, or the one that is about to be registered,  *)
(* has a group that lives.                                                  *)
LiveInv ==
    /\ \A g \in P!Launches :
          group[g] # {} => (g = entry /\ ~P!Exited(g)) \/ (spc = "forked" /\ g = gen)
    /\ spc \in {"prepared", "forked"} => P!Vacant

(* A Stop that has the semaphore stops the registered process *)
StopInv == stop.at \in {"found", "killed"} => stop.on = entry

ProcessInv == P!TypeOK /\ GenInv /\ LiveInv /\ StopInv

LEMMA LaunchesNat == MaxLaunches \in Nat
BY BackendsAssumption DEF P!LaunchAssumption

LEMMA ProcessInit == P!Init => ProcessInv
<1> SUFFICES ASSUME P!Init PROVE ProcessInv
    OBVIOUS
<1>1. P!TypeOK
  BY LaunchesNat
     DEF P!Init, P!TypeOK, P!CallsTypeOK, P!ProcessesTypeOK, P!CopiesOK, P!Launches, P!Members
<1>2. GenInv /\ LiveInv /\ StopInv
  BY LaunchesNat DEF P!Init, GenInv, LiveInv, StopInv, P!Launches, P!Vacant, P!Exited
<1> QED
  BY <1>1, <1>2 DEF ProcessInv

(* One lemma for each kind of step *)
LEMMA StartKeeps ==
    ASSUME ProcessInv, P!StartCalled \/ P!StartAcquires \/ P!StartRefused
    PROVE  ProcessInv'
<1> USE LaunchesNat DEF ProcessInv, P!TypeOK, P!CallsTypeOK, P!ProcessesTypeOK, P!processes, P!Launches
<1>1. P!CallsTypeOK' /\ P!ProcessesTypeOK'
  BY DEF P!StartCalled, P!StartAcquires, P!StartRefused
<1>2. P!CopiesOK'
  BY DEF P!StartCalled, P!StartAcquires, P!StartRefused, P!Discarded, P!CopiesOK, GenInv
<1>3. GenInv' /\ LiveInv' /\ StopInv'
  BY DEF P!StartCalled, P!StartAcquires, P!StartRefused, GenInv, LiveInv, StopInv, P!Vacant, P!Exited
<1> QED
  BY <1>1, <1>2, <1>3

LEMMA PrepareKeeps == ASSUME ProcessInv, P!Prepare PROVE ProcessInv'
<1> USE LaunchesNat DEF ProcessInv, P!TypeOK, P!CallsTypeOK, P!ProcessesTypeOK, P!processes, P!Launches
<1>1. P!CallsTypeOK' /\ P!ProcessesTypeOK'
  BY DEF P!Prepare
<1>2. P!CopiesOK'
  BY DEF P!Prepare, P!CopiesOK, GenInv
<1>3. GenInv' /\ LiveInv' /\ StopInv'
  BY DEF P!Prepare, GenInv, LiveInv, StopInv, P!Vacant, P!Exited
<1> QED
  BY <1>1, <1>2, <1>3

LEMMA ForkKeeps == ASSUME ProcessInv, P!Fork PROVE ProcessInv'
<1> USE LaunchesNat DEF ProcessInv, P!TypeOK, P!CallsTypeOK, P!ProcessesTypeOK, P!processes, P!Launches
<1>0. spc = "prepared" /\ gen < MaxLaunches
  BY DEF P!Fork, GenInv
<1>1. P!CallsTypeOK'
  BY <1>0 DEF P!Fork
<1>2. P!ProcessesTypeOK'
  BY <1>0 DEF P!Fork, P!Members
<1>3. P!CopiesOK'
  BY <1>0 DEF P!Fork, P!CopiesOK
<1>4. GenInv' /\ LiveInv' /\ StopInv'
  BY DEF P!Fork, GenInv, LiveInv, StopInv, P!Vacant, P!Exited
<1> QED
  BY <1>1, <1>2, <1>3, <1>4

LEMMA RegisterKeeps == ASSUME ProcessInv, P!Register PROVE ProcessInv'
<1> USE LaunchesNat DEF ProcessInv, P!TypeOK, P!CallsTypeOK, P!ProcessesTypeOK, P!processes, P!Launches
<1>1. P!CallsTypeOK'
  BY DEF P!Register
<1>4. P!ProcessesTypeOK'
  <2>1. reaper' \in [P!Launches -> {"none", "waiting", "reaped", "exited"}]
    BY DEF P!Register
  <2>2. entry' = gen /\ UNCHANGED <<gen, group, doomed>>
    BY DEF P!Register
  <2> QED
    BY <2>1, <2>2
<1>2. P!CopiesOK'
  BY DEF P!Register, P!CopiesOK, GenInv
<1>3. GenInv' /\ LiveInv' /\ StopInv'
  BY DEF P!Register, GenInv, LiveInv, StopInv, P!Vacant, P!Exited
<1> QED
  BY <1>1, <1>2, <1>3, <1>4

LEMMA ProcessesKeep ==
    ASSUME ProcessInv, NEW g \in P!Launches,
           P!Spawn(g) \/ P!Reap(g) \/ \E m \in P!Members : P!Dies(g, m)
    PROVE  ProcessInv'
<1> USE LaunchesNat DEF ProcessInv, P!TypeOK, P!CallsTypeOK, P!ProcessesTypeOK, P!processes, P!Launches
<1>1. P!CallsTypeOK'
  BY DEF P!Spawn, P!Reap, P!Dies
<1>2. P!ProcessesTypeOK'
  <2>1. CASE P!Spawn(g)
    BY <2>1 DEF P!Spawn
  <2>2. CASE P!Reap(g)
    BY <2>2 DEF P!Reap, GenInv
  <2>3. CASE \E m \in P!Members : P!Dies(g, m)
    BY <2>3 DEF P!Dies
  <2> QED
    BY <2>1, <2>2, <2>3
<1>3. P!CopiesOK'
  BY DEF P!Spawn, P!Reap, P!Dies, P!CopiesOK
<1>4. GenInv' /\ LiveInv' /\ StopInv'
  BY DEF P!Spawn, P!Reap, P!Dies, GenInv, LiveInv, StopInv, P!Vacant, P!Exited
<1> QED
  BY <1>1, <1>2, <1>3, <1>4

LEMMA ConfirmKeeps == ASSUME ProcessInv, NEW g \in P!Launches, P!Confirm(g) PROVE ProcessInv'
<1> USE LaunchesNat DEF ProcessInv, P!TypeOK, P!CallsTypeOK, P!ProcessesTypeOK, P!processes, P!Launches
<1>1. P!CallsTypeOK' /\ P!ProcessesTypeOK'
  BY DEF P!Confirm
<1>2. P!CopiesOK'
  BY DEF P!Confirm, P!CopiesOK, GenInv
<1>3. GenInv' /\ LiveInv' /\ StopInv'
  BY DEF P!Confirm, P!GroupGone, GenInv, LiveInv, StopInv, P!Vacant, P!Exited
<1> QED
  BY <1>1, <1>2, <1>3

LEMMA StopKeeps ==
    ASSUME ProcessInv,
           P!StopCalled \/ P!StopCancelled \/ P!StopLooks \/ P!StopGone \/ P!StopKills \/ P!StopExpires
    PROVE  ProcessInv'
<1> USE LaunchesNat DEF ProcessInv, P!TypeOK, P!CallsTypeOK, P!ProcessesTypeOK, P!processes, P!Launches
<1>1. P!CallsTypeOK'
  BY DEF P!StopCalled, P!StopCancelled, P!StopLooks, P!StopGone, P!StopKills, P!StopExpires, P!StopAnswers
<1>2. P!ProcessesTypeOK'
  BY DEF P!StopCalled, P!StopCancelled, P!StopLooks, P!StopGone, P!StopKills, P!StopExpires, P!StopAnswers
<1>3. UNCHANGED <<copies, reaper, spc, gen, group, entry>>
  BY DEF P!StopCalled, P!StopCancelled, P!StopLooks, P!StopGone, P!StopKills, P!StopExpires, P!StopAnswers
<1>4. P!CopiesOK' /\ GenInv' /\ LiveInv'
  BY <1>3 DEF P!CopiesOK, GenInv, LiveInv, P!Vacant, P!Exited
<1>5. StopInv'
  BY DEF P!StopCalled, P!StopCancelled, P!StopLooks, P!StopGone, P!StopKills, P!StopExpires,
         P!StopAnswers, StopInv
<1> QED
  BY <1>1, <1>2, <1>4, <1>5

LEMMA QueriesKeep ==
    ASSUME ProcessInv,
           \/ P!WaitCalled \/ \E answer \in {"gone", "error"} : P!WaitAnswers(answer)
           \/ P!ActiveCalled \/ P!ActiveAnswers
    PROVE  ProcessInv'
<1> USE LaunchesNat DEF ProcessInv, P!TypeOK, P!CallsTypeOK, P!ProcessesTypeOK, P!processes, P!Launches
<1>1. UNCHANGED <<spc, sem, gen, entry, group, doomed, reaper, copies, stop>>
  BY DEF P!WaitCalled, P!WaitAnswers, P!ActiveCalled, P!ActiveAnswers
<1>2. waitOn' \in 0..gen
  BY DEF P!WaitCalled, P!WaitAnswers, P!ActiveCalled, P!ActiveAnswers
<1> QED
  BY <1>1, <1>2 DEF P!CopiesOK, GenInv, LiveInv, StopInv, P!Vacant, P!Exited

LEMMA ProcessKeeps == ASSUME ProcessInv, P!Next PROVE ProcessInv'
BY StartKeeps, PrepareKeeps, ForkKeeps, RegisterKeeps, ProcessesKeep, ConfirmKeeps, StopKeeps, QueriesKeep
   DEF P!Next, P!StartStep, P!StopStep

-----------------------------------------------------------------------------
(* The invariant of the processes, whichever backend is configured *)

LEMMA ProcessStep == ASSUME ProcessInv, [Next]_vars PROVE ProcessInv'
<1>1. CASE P!Next
  BY <1>1, ProcessKeeps
<1>2. CASE UNCHANGED process
  BY <1>2 DEF process, ProcessInv, P!TypeOK, P!CallsTypeOK, P!ProcessesTypeOK, P!CopiesOK, GenInv,
              LiveInv, StopInv, P!Vacant, P!Exited
<1> QED
  BY <1>1, <1>2 DEF Next, Process, Systemd, vars

LEMMA ProcessHolds == Spec => []ProcessInv
<1>1. Init => ProcessInv
  BY ProcessInit DEF Init
<1> QED
  BY <1>1, ProcessStep, PTL DEF Spec

(* Start and the reaping goroutine of the process backend never let two     *)
(* groups of one unit name live at a time.                                  *)
THEOREM GroupsAreExclusive == Spec => []OneGroup
<1>1. ProcessInv => OneGroup
  <2> SUFFICES ASSUME ProcessInv PROVE OneGroup
      OBVIOUS
  <2> DEFINE L == {g \in P!Launches : group[g] # {}}
  <2>1. \A g, h \in L : g = h
    BY LaunchesNat DEF ProcessInv, LiveInv, P!Vacant, P!Exited, P!Launches
  <2>2. L = {} \/ \E g \in L : L = {g}
    BY <2>1
  <2>3. Cardinality(L) \in {0, 1}
    BY <2>2, FS_EmptySet, FS_Singleton
  <2> QED
    BY <2>3 DEF OneGroup
<1> QED
  BY <1>1, ProcessHolds, PTL

-----------------------------------------------------------------------------
(* The process backend implements RunnerUnit *)

(* The calls and where they are *)
CallsInv ==
    /\ start = "called" <=> spc # "out"
    /\ call \in [Ops -> {"called", "gone", "there", "error"}]
    /\ call["stop"] = "called" <=> stop.at # "out"

(* What Follow keeps: the history of the calls is up to date *)
FollowInv ==
    /\ \A op \in quiet : op \in Ops /\ call[op] = "called"
    /\ \A op \in Ops : call[op] = "called" /\ (~P!Alive \/ (op # "stop" /\ start = "called"))
                           => op \in quiet
    /\ \A op \in after : op \in Ops /\ call[op] = "called" /\ start # "called"

(* A Wait that has seen no start asks about the registered process *)
WaitInv == call["wait"] = "called" => "wait" \in quiet \/ waitOn = entry

CInv == kind = "process" => CallsInv /\ FollowInv /\ WaitInv

LEMMA ContractInit == Init => CInv
<1> SUFFICES ASSUME Init, kind = "process" PROVE CallsInv /\ FollowInv /\ WaitInv
    BY DEF CInv
<1>1. ~P!Alive
  BY DEF Init, P!Init, P!Alive
<1> QED
  BY <1>1 DEF Init, P!Init, CallsInv, FollowInv, WaitInv, Ops

(* A live group leaves no room for another one, and none is left when the  *)
(* unit is vacant and no start has forked.                                 *)
LEMMA VacantIsDead == ASSUME ProcessInv, P!Vacant, spc # "forked" PROVE ~P!Alive
BY LaunchesNat DEF ProcessInv, LiveInv, P!Vacant, P!Alive, P!Launches, P!Exited

LEMMA FollowKeeps ==
    ASSUME kind = "process", kind' = "process", Unit!Follow PROVE FollowInv'
BY DEF Unit!Follow, Unit!Op, FollowInv, Ops

LEMMA CallsStep == ASSUME ProcessInv, CallsInv, P!Next PROVE CallsInv'
<1> USE DEF CallsInv, Ops, P!processes
<1>1. CASE P!StartCalled \/ P!StartStep
  BY <1>1 DEF P!StartCalled, P!StartStep, P!StartAcquires, P!Prepare, P!Fork, P!Register, P!StartRefused
<1>2. CASE P!StopCalled \/ P!StopCancelled \/ P!StopLooks \/ P!StopStep
  <2>1. CASE P!StopCalled
    BY <2>1 DEF P!StopCalled
  <2>2. ASSUME NEW answer \in {"gone", "error"}, P!StopAnswers(answer) PROVE CallsInv'
    BY <2>2 DEF P!StopAnswers
  <2>3. CASE P!StopLooks
    BY <2>3 DEF P!StopLooks
  <2>4. CASE P!StopKills
    BY <2>4 DEF P!StopKills, ProcessInv, P!TypeOK, P!CallsTypeOK
  <2> QED
    BY <1>2, <2>1, <2>2, <2>3, <2>4 DEF P!StopCancelled, P!StopStep, P!StopGone, P!StopExpires
<1>3. CASE P!WaitCalled \/ (\E answer \in {"gone", "error"} : P!WaitAnswers(answer))
  BY <1>3 DEF P!WaitCalled, P!WaitAnswers
<1>4. CASE P!ActiveCalled \/ P!ActiveAnswers
  BY <1>4 DEF P!ActiveCalled, P!ActiveAnswers
<1>5. CASE \E g \in P!Launches : P!Spawn(g) \/ P!Reap(g) \/ P!Confirm(g)
                                   \/ \E m \in P!Members : P!Dies(g, m)
  BY <1>5 DEF P!Spawn, P!Reap, P!Confirm, P!Dies
<1> QED
  BY <1>1, <1>2, <1>3, <1>4, <1>5 DEF P!Next

LEMMA WaitStep ==
    ASSUME kind = "process", kind' = "process", Unit!Follow, ProcessInv, CallsInv, FollowInv, WaitInv,
           P!Next
    PROVE  WaitInv'
<1> USE DEF WaitInv, Ops, P!processes
<1>0. ASSUME call'["wait"] = "called", call["wait"] = "called", "wait" \in quiet
      PROVE  "wait" \in quiet'
  BY <1>0 DEF Unit!Follow, Unit!Op
<1>1. CASE P!StartCalled \/ P!StartAcquires \/ P!Prepare \/ P!Fork \/ P!StartRefused
  BY <1>0, <1>1 DEF P!StartCalled, P!StartAcquires, P!Prepare, P!Fork, P!StartRefused
<1>2. CASE P!Register
  <2>1. call["wait"] = "called" => "wait" \in quiet
    BY <1>2 DEF P!Register, CallsInv, FollowInv
  <2> QED
    BY <1>0, <1>2, <2>1 DEF P!Register
<1>3. CASE P!StopCalled \/ P!StopCancelled \/ P!StopLooks \/ P!StopStep
  <2>1. UNCHANGED <<waitOn, entry>> /\ call'["wait"] = call["wait"]
    BY <1>3 DEF P!StopCalled, P!StopCancelled, P!StopLooks, P!StopStep, P!StopGone, P!StopKills,
                P!StopExpires, P!StopAnswers, CallsInv
  <2> QED
    BY <1>0, <2>1
<1>4. CASE P!WaitCalled
  BY <1>4 DEF P!WaitCalled
<1>5. CASE \E answer \in {"gone", "error"} : P!WaitAnswers(answer)
  BY <1>5 DEF P!WaitAnswers, CallsInv
<1>6. CASE P!ActiveCalled \/ P!ActiveAnswers
  BY <1>0, <1>6 DEF P!ActiveCalled, P!ActiveAnswers, CallsInv
<1>7. CASE \E g \in P!Launches : P!Spawn(g) \/ P!Reap(g) \/ P!Confirm(g)
                                   \/ \E m \in P!Members : P!Dies(g, m)
  BY <1>0, <1>7 DEF P!Spawn, P!Reap, P!Confirm, P!Dies
<1> QED
  BY <1>1, <1>2, <1>3, <1>4, <1>5, <1>6, <1>7 DEF P!Next, P!StartStep

(* A step that neither calls nor answers, ends nothing and launches nothing *)
LEMMA Stutter ==
    ASSUME kind = "process", kind' = "process", Unit!Follow, FollowInv,
           P!Alive' = P!Alive, P!Attempt' = P!Attempt, UNCHANGED <<start, call>>
    PROVE  UNCHANGED Unit!vars
<1>1. quiet' = quiet
  BY DEF Unit!Follow, Unit!Op, FollowInv, Ops
<1>2. after' = after
  BY DEF Unit!Follow, Unit!Op, FollowInv, Ops
<1> QED
  BY <1>1, <1>2 DEF Unit!vars

(* Each of the others is the step of RunnerUnit of that name *)
LEMMA Simulates ==
    ASSUME kind = "process", kind' = "process", Unit!Follow, ProcessInv, CallsInv, FollowInv, WaitInv,
           P!Next
    PROVE  Unit!Step \/ UNCHANGED Unit!vars
<1> USE DEF P!processes, Ops
<1>1. CASE P!StartCalled
  <2>1. Unit!StartCalled
    BY <1>1 DEF Unit!StartCalled, P!StartCalled, P!Attempt, P!Alive, CallsInv
  <2> QED
    BY <2>1 DEF Unit!Step
<1>2. CASE P!StartRefused
  <2>1. Unit!StartAnswers("not_started")
    BY <1>2 DEF Unit!StartAnswers, P!StartRefused, P!Attempt, P!Alive, CallsInv
  <2> QED
    BY <2>1 DEF Unit!Step, Unit!StartAnswer
<1>3. CASE P!StartAcquires \/ P!Prepare
  BY <1>3, Stutter DEF P!StartAcquires, P!Prepare, P!Attempt, P!Alive
<1>4. CASE P!Fork
  <2>1. ~P!Alive
    BY <1>4, VacantIsDead DEF P!Fork, ProcessInv, LiveInv
  <2>2. P!Alive'
    BY <1>4, LaunchesNat DEF P!Fork, P!Alive, P!Launches, ProcessInv, GenInv, P!TypeOK,
                             P!ProcessesTypeOK
  <2>3. Unit!Launch
    BY <1>4, <2>1, <2>2 DEF Unit!Launch, P!Fork, P!Attempt, CallsInv
  <2> QED
    BY <2>3 DEF Unit!Step
<1>5. CASE P!Register
  <2>1. Unit!StartAnswers("ok")
    BY <1>5 DEF Unit!StartAnswers, P!Register, P!Attempt, P!Alive, CallsInv
  <2> QED
    BY <2>1 DEF Unit!Step, Unit!StartAnswer
<1>6. ASSUME NEW g \in P!Launches, P!Spawn(g) \/ P!Reap(g) \/ P!Confirm(g)
      PROVE  UNCHANGED Unit!vars
  <2>1. P!Alive' = P!Alive
    BY <1>6 DEF P!Spawn, P!Reap, P!Confirm, P!Alive, P!Members, ProcessInv, P!TypeOK, P!ProcessesTypeOK
  <2> QED
    BY <1>6, <2>1, Stutter DEF P!Spawn, P!Reap, P!Confirm, P!Attempt
<1>7. ASSUME NEW g \in P!Launches, NEW m \in P!Members, P!Dies(g, m)
      PROVE  Unit!Step \/ UNCHANGED Unit!vars
  <2>1. P!Alive
    BY <1>7 DEF P!Dies, P!Alive
  <2>2. CASE P!Alive'
    BY <1>7, <2>1, <2>2, Stutter DEF P!Dies, P!Attempt
  <2>3. CASE ~P!Alive'
    <3>1. Unit!RunnerEnds
      BY <1>7, <2>1, <2>3 DEF Unit!RunnerEnds, P!Dies, P!Attempt
    <3> QED
      BY <3>1 DEF Unit!Step
  <2> QED
    BY <2>2, <2>3
<1>8. CASE P!StopCalled \/ P!WaitCalled \/ P!ActiveCalled
  <2>1. \E op \in Ops : Unit!Called(op)
    BY <1>8 DEF Unit!Called, P!StopCalled, P!WaitCalled, P!ActiveCalled, P!Attempt, P!Alive, CallsInv
  <2> QED
    BY <2>1 DEF Unit!Step, Unit!Op
<1>9. CASE P!StopLooks \/ P!StopKills
  BY <1>9, Stutter DEF P!StopLooks, P!StopKills, P!Attempt, P!Alive
(* What is asked for after the last start has answered, finds it settled *)
<1>10. ASSUME NEW op \in Ops, op \in after PROVE P!Attempt = "void"
  BY <1>10 DEF FollowInv, CallsInv, P!Attempt
<1>11. CASE P!StopCancelled \/ P!StopExpires
  <2>1. Unit!Answers("stop", "error")
    BY <1>11 DEF Unit!Answers, P!StopCancelled, P!StopExpires, P!StopAnswers, P!Attempt, P!Alive, CallsInv
  <2> QED
    BY <2>1 DEF Unit!Step, Unit!Op
<1>12. CASE P!StopGone
  <2>1. spc \notin {"held", "prepared", "forked"} /\ stop.on = entry
    BY <1>12 DEF P!StopGone, ProcessInv, P!TypeOK, P!CallsTypeOK, StopInv
  <2>2. ~P!Alive
    BY <1>12, <2>1, VacantIsDead DEF P!StopGone, P!Vacant
  <2>3. "stop" \in quiet /\ call["stop"] = "called"
    BY <1>12, <2>2 DEF P!StopGone, CallsInv, FollowInv
  <2>4. Unit!Answers("stop", "gone")
    BY <1>12, <1>10, <2>3 DEF Unit!Answers, P!StopGone, P!StopAnswers, P!Attempt, P!Alive
  <2> QED
    BY <2>4 DEF Unit!Step, Unit!Op
<1>13. ASSUME P!WaitAnswers("error") PROVE Unit!Step
  <2>1. Unit!Answers("wait", "error")
    BY <1>13 DEF Unit!Answers, P!WaitAnswers, P!Attempt, P!Alive
  <2> QED
    BY <2>1 DEF Unit!Step, Unit!Op
<1>14. ASSUME P!WaitAnswers("gone") PROVE Unit!Step
  <2>1. "wait" \in quiet
    <3> SUFFICES ASSUME "wait" \notin quiet PROVE FALSE
        OBVIOUS
    <3>1. waitOn = entry /\ start # "called"
      BY <1>14 DEF P!WaitAnswers, WaitInv, FollowInv
    <3>2. ~P!Alive
      BY <1>14, <3>1, VacantIsDead DEF P!WaitAnswers, P!Vacant, CallsInv
    <3> QED
      BY <1>14, <3>2 DEF P!WaitAnswers, FollowInv
  <2>2. Unit!Answers("wait", "gone")
    BY <1>14, <1>10, <2>1 DEF Unit!Answers, P!WaitAnswers, P!Attempt, P!Alive
  <2> QED
    BY <2>2 DEF Unit!Step, Unit!Op
<1>15. CASE P!ActiveAnswers
  <2>1. P!Vacant => "active" \in quiet
    BY <1>15, VacantIsDead DEF P!ActiveAnswers, FollowInv, CallsInv
  <2>2. \E answer \in {"gone", "there"} : Unit!Answers("active", answer)
    BY <1>15, <1>10, <2>1 DEF Unit!Answers, P!ActiveAnswers, P!Attempt, P!Alive
  <2> QED
    BY <2>2 DEF Unit!Step, Unit!Op
<1> QED
  BY <1>1, <1>2, <1>3, <1>4, <1>5, <1>6, <1>7, <1>8, <1>9, <1>11, <1>12, <1>13, <1>14, <1>15
     DEF P!Next, P!StartStep, P!StopStep

LEMMA ContractStep ==
    ASSUME kind = "process", ProcessInv, CInv, [Next]_vars
    PROVE  CInv' /\ [Unit!Next]_Unit!vars
<1>1. CASE Next
  <2>1. kind' = "process" /\ P!Next /\ Unit!Follow
    BY <1>1 DEF Next, Process, Systemd
  <2>2. CInv'
    BY <2>1, FollowKeeps, CallsStep, WaitStep DEF CInv
  <2>3. [Unit!Next]_Unit!vars
    BY <2>1, Simulates DEF CInv, Unit!Next
  <2> QED
    BY <2>2, <2>3
<1>2. CASE UNCHANGED vars
  <2>1. CInv'
    BY <1>2 DEF vars, process, systemd, CInv, CallsInv, FollowInv, WaitInv, P!Alive, Ops
  <2>2. UNCHANGED Unit!vars
    BY <1>2 DEF vars, process, systemd, Unit!vars, P!Alive, P!Attempt
  <2> QED
    BY <2>1, <2>2
<1> QED
  BY <1>1, <1>2

-----------------------------------------------------------------------------
(* Both backends *)

(* The one that is not configured is never touched *)
Idle == kind = "process" => /\ asked = {} /\ jobs = {} /\ inbox = <<>> /\ unit = "absent"
                            /\ heard = [op \in S!Request |-> "none"]

LEMMA TypesStep ==
    ASSUME kind \in {"process", "systemd"}, Idle, kind = "systemd" => SystemdInv, [Next]_vars
    PROVE  kind' \in {"process", "systemd"} /\ Idle' /\ (kind' = "systemd" => SystemdInv')
<1>1. kind' = kind
  BY DEF Next, vars
<1>2. Idle'
  BY <1>1 DEF Idle, Next, Process, Systemd, vars, systemd
<1>3. ASSUME kind = "systemd" PROVE SystemdInv'
  <2>1. CASE S!Next
    BY <1>3, <2>1, SystemdKeeps
  <2>2. CASE UNCHANGED <<start, call, systemd>>
    BY <1>3, <2>2 DEF systemd, SystemdInv, CommandInv, InboxInv, StartInv, S!Under
  <2> QED
    BY <1>3, <2>1, <2>2 DEF Next, Process, Systemd, vars
<1> QED
  BY <1>1, <1>2, <1>3

(* Every variable keeps its type, the semaphore of the process backend is   *)
(* held by who is past it, and a copy of a credential lasts exactly as long *)
(* as a start or a process that needs it.                                   *)
THEOREM TypeCorrect == Spec => []TypeOK
<1> DEFINE TInv == /\ kind \in {"process", "systemd"} /\ Idle
                   /\ kind = "systemd" => SystemdInv
<1>1. Init => TInv
  BY SystemdInit DEF Init, Idle, S!Init
<1>2. TInv /\ [Next]_vars => TInv'
  BY TypesStep
<1>3. TInv /\ ProcessInv => TypeOK
  <2> SUFFICES ASSUME TInv, ProcessInv PROVE S!TypeOK
      BY DEF TypeOK, ProcessInv
  <2>1. CASE kind = "systemd"
    BY <2>1, SystemdTyped
  <2>2. CASE kind = "process"
    BY <2>2, BackendsAssumption DEF Idle, S!TypeOK, S!Request, S!SystemdAssumption
  <2> QED
    BY <2>1, <2>2
<1> QED
  <2> HIDE DEF TInv
  <2> QED
    BY <1>1, <1>2, <1>3, ProcessHolds, PTL DEF Spec

(* Both backends keep the promises of the interface Backend: what their     *)
(* Start, Stop, Wait and Active answer is true of the runner, however they  *)
(* overlap with each other, with the reaping of an earlier process, and     *)
(* with what killed commands have asked systemd for - provided that systemd *)
(* answers a query after the requests before it.                            *)
THEOREM ContractIsHonoured == ASSUME InOrder PROVE Spec => HonoursContract
<1> DEFINE IInv == kind \in {"process", "systemd"} /\ CInv /\ SystemdHalf
<1>1. Init => IInv /\ Unit!Init
  <2>1. Init => IInv
    BY ContractInit, HalfInit DEF Init
  <2>2. Init => Unit!Init
    <3>1. ASSUME Init, kind = "process" PROVE Unit!Init
      BY <3>1 DEF Init, P!Init, P!Alive, P!Attempt, Unit!Init, Unit!Op
    <3>2. ASSUME Init, kind = "systemd" PROVE Unit!Init
      <4>1. inbox = <<>> /\ start = "uncertain"
        BY <3>2 DEF Init, S!Init
      <4>2. S!Attempt = "void"
        BY <4>1 DEF S!Attempt, S!Queued
      <4> QED
        BY <3>2, <4>2 DEF Init, S!Init, S!Running, Unit!Init, Unit!Op
    <3> QED
      BY <3>1, <3>2 DEF Init
  <2> QED
    BY <2>1, <2>2
<1>2. IInv /\ ProcessInv /\ [Next]_vars => IInv' /\ [Unit!Next]_Unit!vars
  <2> SUFFICES ASSUME IInv, ProcessInv, [Next]_vars PROVE IInv' /\ [Unit!Next]_Unit!vars
      OBVIOUS
  <2>1. kind' = kind
    BY DEF Next, vars
  <2>2. CASE kind = "process"
    BY <2>1, <2>2, ContractStep DEF SystemdHalf
  <2>3. CASE kind = "systemd"
    BY <2>1, <2>3, HalfStep DEF CInv
  <2> QED
    BY <2>2, <2>3
<1> QED
  <2> HIDE DEF IInv
  <2> QED
    BY <1>1, <1>2, ProcessHolds, PTL DEF Spec, HonoursContract, Unit!Spec
=============================================================================
