------------------------------- MODULE History -------------------------------
(***************************************************************************)
(* The usage history of the host, internal/history: a file of JSON lines,  *)
(* one per finished job, and the moving averages that are computed from    *)
(* it.  Append runs under the store's lock, so only a crash or an error    *)
(* comes between its steps; watchers whose jobs ended wait for the lock.   *)
(*                                                                         *)
(* A line of the file is kept as the record it decodes to, if any, and its *)
(* size in units of 250 bytes.  Of the averages the memory peak stands for *)
(* all: CPU time and wall time are blended in the same way, wall time with *)
(* the records that were not sampled as well.                              *)
(*                                                                         *)
(* Operators whose name starts with Bug are deliberately wrong variants of *)
(* the operator that follows them.                                         *)
(***************************************************************************)
EXTENDS Integers, Sequences, SequencesExt, FiniteSets

CONSTANTS
    Record,         \* finished jobs, numbered from 1
    PoolOf,         \* the pool of a record,
    RefOf,          \* its workflow ref,
    Peak,           \* its peak memory,
    Sampled,        \* whether it was sampled at all,
    Size,           \* and the size of its line
    OnDisk,         \* the records in the file at first
    RotateLines,    \* Store.RotateLines
    ReplayWindow,   \* records replayed on open
    MaxTears        \* bound: writes cut short

HistoryAssumption ==
    /\ Record # {} /\ Record \subseteq Nat \ {0}
    /\ \A r \in Record : Peak[r] \in Nat /\ Sampled[r] \in BOOLEAN /\ Size[r] \in Nat \ {0}
    /\ OnDisk \in Seq(Record) /\ \A i, j \in DOMAIN OnDisk : OnDisk[i] = OnDisk[j] => i = j
    /\ {RotateLines, ReplayWindow, MaxTears} \subseteq Nat
ASSUME HistoryAssumption

VARIABLES
    file,           \* history.jsonl: its lines, and whether the last one has its newline
    tmp,            \* history.jsonl.tmp, while a rotation is under way
    waiting,        \* completions whose Append waits for the lock
    adding,         \* the record of the Append that has it, or Junk
    hpc,            \* where that Append is
    est,            \* the averages in memory
    open,           \* the daemon runs and has its history
    acked,          \* the records whose Append returned nil
    tears,          \* writes that were cut short
    rotated         \* the file was rotated since it was opened

history == <<file, tmp, waiting, adding, hpc, est, open, acked, tears, rotated>>

Junk == 0           \* a line that is not JSON
Unknown == -1       \* no sampled record yet

Line == [rec : Record \cup {Junk}, size : Nat \ {0}]
File == [lines : Seq(Line), ended : BOOLEAN]

FileOf(records) ==
    [lines |-> [i \in DOMAIN records |-> [rec |-> records[i], size |-> Size[records[i]]]],
     ended |-> TRUE]

-----------------------------------------------------------------------------
(* Averages: of a workflow in a pool, of a pool, of the host *)

Pool == {PoolOf[r] : r \in Record}
Ref  == {RefOf[r] : r \in Record} \cup {""}
Key  == (Pool \X Ref) \cup {<<p>> : p \in Pool} \cup {<<>>}

(* uint64(0.25 * x + 0.75 * old + 0.5); the first sample seeds the average *)
Blend(old, x) == IF old = Unknown THEN x ELSE (x + 3 * old + 2) \div 4

Absorb(e, r) ==
    LET p == PoolOf[r]
        touched == {<<p, RefOf[r]>>, <<p>>, <<>>}
    IN [k \in Key |-> IF Sampled[r] /\ k \in touched THEN Blend(e[k], Peak[r]) ELSE e[k]]

(* PredictMem: the workflow's average, else the pool's, else the host's *)
Predict(p, ref) ==
    IF est[<<p, ref>>] # Unknown THEN est[<<p, ref>>]
    ELSE IF est[<<p>>] # Unknown THEN est[<<p>>]
    ELSE IF est[<<>>] # Unknown THEN est[<<>>] ELSE 0

-----------------------------------------------------------------------------
(* Reading and writing the file *)

Newest(n, s) == SubSeq(s, IF Len(s) > n THEN Len(s) - n + 1 ELSE 1, Len(s))

(* replayTail decodes every line, skips what is malformed, and keeps the   *)
(* newest n.                                                               *)
Kept(records, line) == IF line.rec = Junk THEN records ELSE Append(records, line.rec)
Decoded(f) == FoldLeft(Kept, <<>>, f.lines)
ReplayTail(f, n) == Newest(n, Decoded(f))

NoAverages == [k \in Key |-> Unknown]
Averages(records) == FoldLeft(Absorb, NoAverages, records)

(* A write appends to the file.  The whole line, "all", ends with a        *)
(* newline; one cut short leaves "some" of it or its "body".  What comes   *)
(* after a line without its newline continues that line.                   *)
Written(f, r, part) ==
    LET new == [rec  |-> IF part = "some" THEN Junk ELSE r,
                size |-> IF part = "some" THEN 1 ELSE Size[r]]
    IN [lines |-> IF f.ended THEN Append(f.lines, new)
                  ELSE Append(Front(f.lines),
                              [rec |-> Junk, size |-> Last(f.lines).size + new.size]),
        ended |-> part = "all"]

FileSize(f) == FoldLeft(LAMBDA n, l : n + l.size, 0, f.lines)

-----------------------------------------------------------------------------
HistoryInit ==
    /\ file = FileOf(OnDisk)
    /\ tmp = FileOf(<<>>)
    /\ waiting = {}
    /\ adding = Junk
    /\ hpc = "idle"
    /\ est = Averages(Newest(ReplayWindow, OnDisk))
    /\ open = TRUE
    /\ acked = OnDisk
    /\ tears = 0
    /\ rotated = FALSE

(* onCompletion; without a history there is nothing to do *)
Complete(r) ==
    /\ waiting' = IF open THEN waiting \cup {r} ELSE waiting
    /\ UNCHANGED <<file, tmp, adding, hpc, est, open, acked, tears, rotated>>

(* The lock, and the size that rotateLocked looks at *)
AppendBegin(r) ==
    /\ hpc = "idle"
    /\ r \in waiting
    /\ waiting' = waiting \ {r}
    /\ adding' = r
    /\ hpc' = IF RotateLines > 0 /\ FileSize(file) >= RotateLines THEN "rotate" ELSE "write"
    /\ UNCHANGED <<file, tmp, est, open, acked, tears, rotated>>

BugRewrite ==                   \* in place
    /\ hpc = "rotate"
    /\ tmp' = FileOf(ReplayTail(file, RotateLines \div 2))
    /\ file' = FileOf(<<>>)
    /\ hpc' = "rename"
    /\ UNCHANGED <<waiting, adding, est, open, acked, tears, rotated>>

(* rotateLocked: the newest half goes to the temporary file, ... *)
Rewrite ==
    /\ hpc = "rotate"
    /\ tmp' = FileOf(ReplayTail(file, RotateLines \div 2))
    /\ hpc' = "rename"
    /\ UNCHANGED <<file, waiting, adding, est, open, acked, tears, rotated>>

(* ... which takes the place of the old one *)
Rename ==
    /\ hpc = "rename"
    /\ file' = tmp
    /\ tmp' = FileOf(<<>>)
    /\ rotated' = TRUE
    /\ hpc' = "write"
    /\ UNCHANGED <<waiting, adding, est, open, acked, tears>>

(* The line is written and the record absorbed *)
Write ==
    /\ hpc = "write"
    /\ file' = Written(file, adding, "all")
    /\ est' = Absorb(est, adding)
    /\ acked' = Append(acked, adding)
    /\ adding' = Junk
    /\ hpc' = "idle"
    /\ UNCHANGED <<tmp, waiting, open, tears, rotated>>

(* What a write that does not end leaves of its line: nothing, or a part *)
CutShort ==
    \/ UNCHANGED <<file, tears>>
    \/ /\ hpc = "write"
       /\ tears < MaxTears
       /\ tears' = tears + 1
       /\ \E part \in {"some", "body"} : file' = Written(file, adding, part)

BugAppendFails ==               \* the averages go ahead of the file
    /\ hpc # "idle"
    /\ CutShort
    /\ est' = Absorb(est, adding)
    /\ adding' = Junk
    /\ hpc' = "idle"
    /\ tmp' = FileOf(<<>>)
    /\ UNCHANGED <<waiting, open, acked, rotated>>

(* An error of any step: Append returns it and the record is dropped *)
AppendFails ==
    /\ hpc # "idle"
    /\ CutShort
    /\ adding' = Junk
    /\ hpc' = "idle"
    /\ tmp' = FileOf(<<>>)      \* nobody reads what is left of it
    /\ UNCHANGED <<waiting, est, open, acked, rotated>>

(* The daemon ends: completions that wait are lost *)
Lose ==
    /\ CutShort
    /\ tmp' = FileOf(<<>>)
    /\ waiting' = {}
    /\ adding' = Junk
    /\ hpc' = "idle"
    /\ est' = NoAverages
    /\ open' = FALSE
    /\ rotated' = FALSE
    /\ UNCHANGED acked

(* newDaemon: Open replays the file, or fails and leaves no history *)
Open ==
    /\ \/ est' = Averages(ReplayTail(file, ReplayWindow)) /\ open' = TRUE
       \/ UNCHANGED <<est, open>>
    /\ UNCHANGED <<file, tmp, waiting, adding, hpc, acked, tears, rotated>>

AppendStep == (\E r \in Record : AppendBegin(r)) \/ Rewrite \/ Rename \/ Write \/ AppendFails

-----------------------------------------------------------------------------
(* Properties *)

(* The acknowledged records that are missing though no rotation has made   *)
(* room for newer ones                                                     *)
OnFile == ToSet(Decoded(file))
Lost ==
    LET kept == OnFile
    IN {i \in DOMAIN acked : /\ acked[i] \notin kept
                             /\ Cardinality(kept \ {acked[j] : j \in 1..i}) < RotateLines \div 2}

(* A crash or an error at any step of Append, rotation included, costs no  *)
(* acknowledged record, except that a line cut short swallows the one that *)
(* is appended after it: at most one for each.  That one loss is what the  *)
(* code does, and not what replayTail's comment asks for.                  *)
LossIsBounded == Cardinality(Lost) <= tears

(* A restart does not change what the gate predicts: as long as no line    *)
(* was cut short and the file not rotated, the averages in memory are      *)
(* those that a replay would compute, in the same order.                   *)
RestartKeepsEstimates ==
    open /\ tears = 0 /\ ~rotated /\ Len(Decoded(file)) <= ReplayWindow
        => est = Averages(ReplayTail(file, ReplayWindow))
=============================================================================
