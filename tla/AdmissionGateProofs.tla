-------------------------- MODULE AdmissionGateProofs --------------------------
(***************************************************************************)
(* Proofs about AdmissionGate and the History it is composed with, for     *)
(* every value of their constants.                                         *)
(***************************************************************************)
EXTENDS AdmissionGate, FoldProofs, SequenceTheorems

-----------------------------------------------------------------------------
(* Sums, averages and decoding *)

(* A sum of smaller numbers is smaller. *)
LEMMA SumIsMonotone ==
    ASSUME NEW S, IsFiniteSet(S), NEW f \in [S -> Int], NEW g \in [S -> Int],
           \A x \in S : f[x] <= g[x]
    PROVE  SumOf(f) \in Int /\ SumOf(g) \in Int /\ SumOf(f) <= SumOf(g)
<1>0. SumOf(f) = SumFunctionOnSet(f, S) /\ SumOf(g) = SumFunctionOnSet(g, S)
  BY DEF SumOf, FoldFunction, SumFunctionOnSet
<1>1. \A T \in SUBSET S : /\ SumFunctionOnSet(f, T) \in Int
                          /\ T = {} => SumFunctionOnSet(f, T) = 0
                          /\ \A x \in T : SumFunctionOnSet(f, T) = f[x] + SumFunctionOnSet(f, T \ {x})
  BY SumAdds
<1>2. \A T \in SUBSET S : /\ SumFunctionOnSet(g, T) \in Int
                          /\ T = {} => SumFunctionOnSet(g, T) = 0
                          /\ \A x \in T : SumFunctionOnSet(g, T) = g[x] + SumFunctionOnSet(g, T \ {x})
  BY SumAdds
<1> DEFINE F == {T \in SUBSET S : SumFunctionOnSet(f, T) <= SumFunctionOnSet(g, T)}
<1>3. {} \in F
  BY <1>1, <1>2
<1>4. ASSUME NEW T \in SUBSET S, T # {}, \A x \in T : T \ {x} \in F PROVE T \in F
  <2>1. PICK x \in T : TRUE
    BY <1>4
  <2>2. /\ SumFunctionOnSet(f, T) = f[x] + SumFunctionOnSet(f, T \ {x})
        /\ SumFunctionOnSet(g, T) = g[x] + SumFunctionOnSet(g, T \ {x})
        /\ SumFunctionOnSet(f, T \ {x}) \in Int /\ SumFunctionOnSet(g, T \ {x}) \in Int
        /\ SumFunctionOnSet(f, T \ {x}) <= SumFunctionOnSet(g, T \ {x})
    BY <1>1, <1>2, <1>4, <2>1
  <2>3. f[x] \in Int /\ g[x] \in Int /\ f[x] <= g[x]
    OBVIOUS
  <2>4. SumFunctionOnSet(f, T) <= SumFunctionOnSet(g, T)
    BY <2>2, <2>3
  <2> QED BY <2>4
<1> HIDE DEF F
<1>5. \A T \in SUBSET S : T \in F
  BY <1>3, <1>4, SubsetInduction
<1> QED BY <1>0, <1>1, <1>2, <1>5 DEF F

(* Absorb keeps averages averages. *)
LEMMA AbsorbType ==
    ASSUME HistoryAssumption, NEW e \in [Key -> Nat \cup {Unknown}], NEW r \in Record
    PROVE  Absorb(e, r) \in [Key -> Nat \cup {Unknown}]
BY DEF Absorb, Blend, HistoryAssumption, Unknown

(* The averages of a sequence of records absorb one record after the       *)
(* other.                                                                  *)
LEMMA AveragesSteps ==
    ASSUME HistoryAssumption, NEW s \in Seq(Record)
    PROVE  \E a \in [0..Len(s) -> [Key -> Nat \cup {Unknown}]] :
             /\ Averages(s) = a[Len(s)] /\ a[0] = NoAverages
             /\ \A k \in 1..Len(s) : a[k] = Absorb(a[k-1], s[k])
<1> DEFINE n == Len(s)
           S == 1..n
           V == [Key -> Nat \cup {Unknown}]
           c == [t \in SUBSET S |-> Max(t)]
           step == [x \in S |-> [v \in V |-> Absorb(v, s[x])]]
           Fold(it) == it = [t \in SUBSET S |-> IF t = {} THEN NoAverages
                                                ELSE Absorb(it[t \ {Max(t)}], s[Max(t)])]
           it0 == CHOOSE it : Fold(it)
<1> HIDE DEF V
<1>0. n \in Nat /\ IsFiniteSet(S) /\ S = DOMAIN s /\ \A x \in S : s[x] \in Record
  BY FS_Interval
<1> HIDE DEF n
<1>1. \A t \in SUBSET S : t # {} => /\ c[t] \in t /\ c[t] \in S /\ t \ {c[t]} \in SUBSET S
                                    /\ c[t] = Max(t)
  BY <1>0, MaximumOfPositions
<1>2. /\ step \in [S -> [V -> V]] /\ NoAverages \in V
      /\ \A x \in S, v \in V : step[x][v] = Absorb(v, s[x])
  BY <1>0, AbsorbType DEF V, NoAverages
<1>3. \E g \in [SUBSET S -> V] : Iterates(g, S, c, NoAverages, step)
  <2> HIDE DEF step, c, S
  <2> QED BY <1>0, <1>1, <1>2, IterationExists
<1>4. PICK g \in [SUBSET S -> V] : Iterates(g, S, c, NoAverages, step)
  BY <1>3
<1>5. Fold(g)
  <2> SUFFICES ASSUME NEW t \in SUBSET S
               PROVE  g[t] = IF t = {} THEN NoAverages ELSE Absorb(g[t \ {Max(t)}], s[Max(t)])
    BY <1>4
  <2>1. g[t] = IF t = {} THEN NoAverages ELSE step[c[t]][g[t \ {c[t]}]]
    BY <1>4 DEF Iterates
  <2>2. t # {} => g[t \ {c[t]}] \in V
    BY <1>1, <1>4
  <2> HIDE DEF c, step, S
  <2> QED BY <1>1, <1>2, <2>1, <2>2
<1>6. Fold(it0)
  <2> HIDE DEF Fold
  <2> QED BY <1>5
<1>7. Averages(s) = it0[S]
  BY <1>0 DEF Averages, FoldLeft, MapThenFoldSet
<1>8. \A t \in SUBSET S : it0[t] = IF t = {} THEN NoAverages ELSE Absorb(it0[t \ {Max(t)}], s[Max(t)])
  <2>1. it0 = [t \in SUBSET S |-> IF t = {} THEN NoAverages ELSE Absorb(it0[t \ {Max(t)}], s[Max(t)])]
    BY <1>6
  <2> HIDE DEF it0, S
  <2> QED BY <2>1
<1> HIDE DEF it0
<1>9. it0[{}] = NoAverages
  <2>1. {} \in SUBSET S
    OBVIOUS
  <2> QED BY <1>8, <2>1
<1>10. ASSUME NEW t \in SUBSET S, t # {}, it0[t \ {Max(t)}] \in V
       PROVE  it0[t] = step[Max(t)][it0[t \ {Max(t)}]]
  <2> HIDE DEF step
  <2>1. Max(t) \in S
    BY <1>1, <1>10
  <2> QED BY <1>2, <1>8, <1>10, <2>1
<1> HIDE DEF step
<1>11. PICK a \in [0..n -> V] :
a[n] = it0[1..n] /\ Steps(a, n, NoAverages, step)
  <2>1. step \in [1..n -> [V -> V]] /\ n \in Nat /\ NoAverages \in V
    BY <1>0, <1>2
  <2>2. Unfolds(it0, n, V, NoAverages, step)
    BY <1>9, <1>10 DEF Unfolds
  <2> HIDE DEF S
  <2> QED BY <2>1, <2>2, LeftFoldSteps
<1>12. ASSUME NEW k \in 1..n PROVE a[k] = Absorb(a[k-1], s[k])
  <2>1. k - 1 \in 0..n /\ k \in S
    BY <1>0
  <2>2. a[k-1] \in V
    BY <1>11, <2>1
  <2> QED BY <1>2, <1>11, <2>1, <2>2 DEF Steps
<1> QED BY <1>7, <1>11, <1>12 DEF n, V, Steps

(* The averages of a longer sequence absorb its last record. *)
LEMMA AveragesAppend ==
    ASSUME HistoryAssumption, NEW s \in Seq(Record), NEW r \in Record
    PROVE  /\ Averages(s) \in [Key -> Nat \cup {Unknown}]
           /\ Averages(Append(s, r)) = Absorb(Averages(s), r)
<1> DEFINE w == Append(s, r)
           n == Len(s)
<1>1. w \in Seq(Record) /\ Len(w) = n + 1 /\ w[n+1] = r /\ n \in Nat /\ \A k \in 1..n : w[k] = s[k]
  OBVIOUS
<1>2. PICK a \in [0..n -> [Key -> Nat \cup {Unknown}]] :
             /\ Averages(s) = a[n] /\ a[0] = NoAverages
             /\ \A k \in 1..n : a[k] = Absorb(a[k-1], s[k])
  BY AveragesSteps
<1> HIDE DEF w
<1>3. PICK b \in [0..Len(w) -> [Key -> Nat \cup {Unknown}]] :
             /\ Averages(w) = b[Len(w)] /\ b[0] = NoAverages
             /\ \A k \in 1..Len(w) : b[k] = Absorb(b[k-1], w[k])
  BY <1>1, AveragesSteps
<1> HIDE DEF n
<1> DEFINE F == {k \in Nat : k <= n => a[k] = b[k]}
<1>4. 0 \in F
  BY <1>2, <1>3
<1>5. ASSUME NEW k \in Nat, k \in F PROVE k + 1 \in F
  <2> SUFFICES ASSUME k + 1 <= n PROVE a[k+1] = b[k+1]
    OBVIOUS
  <2>1. k + 1 \in 1..n /\ k + 1 \in 1..Len(w) /\ (k + 1) - 1 = k
    BY <1>1
  <2>2. a[k] = b[k]
    BY <1>1, <1>5
  <2> QED BY <1>1, <1>2, <1>3, <2>1, <2>2
<1> HIDE DEF F
<1>6. \A k \in Nat : k \in F
  BY <1>4, <1>5, NumberInduction
<1>7. a[n] = b[n]
  BY <1>1, <1>6 DEF F
<1>8. b[n+1] = Absorb(b[n], r)
  <2>1. n + 1 \in 1..Len(w) /\ (n + 1) - 1 = n
    BY <1>1
  <2> QED BY <1>1, <1>3, <2>1
<1>9. a[n] \in [Key -> Nat \cup {Unknown}]
  BY <1>1, <1>2
<1> QED BY <1>1, <1>2, <1>3, <1>7, <1>8, <1>9 DEF w

(* Decoding yields records. *)
LEMMA KeptType ==
    ASSUME NEW e \in Seq(Record), NEW l \in Line
    PROVE  Kept(e, l) \in Seq(Record)
BY DEF Kept, Line

(* A file is decoded line by line. *)
LEMMA DecodedSteps ==
    ASSUME HistoryAssumption, NEW f, f.lines \in Seq(Line)
    PROVE  \E a \in [0..Len(f.lines) -> Seq(Record)] :
             /\ Decoded(f) = a[Len(f.lines)] /\ a[0] = <<>>
             /\ \A k \in 1..Len(f.lines) : a[k] = Kept(a[k-1], f.lines[k])
<1> DEFINE n == Len(f.lines)
           S == 1..n
           V == Seq(Record)
           c == [t \in SUBSET S |-> Max(t)]
           step == [x \in S |-> [v \in V |-> Kept(v, f.lines[x])]]
           Fold(it) == it = [t \in SUBSET S |-> IF t = {} THEN <<>>
                                                ELSE Kept(it[t \ {Max(t)}], f.lines[Max(t)])]
           it0 == CHOOSE it : Fold(it)
<1> HIDE DEF V
<1>0. n \in Nat /\ IsFiniteSet(S) /\ S = DOMAIN f.lines /\ \A x \in S : f.lines[x] \in Line
  <2>1. n \in Nat /\ S = DOMAIN f.lines /\ \A x \in S : f.lines[x] \in Line
    OBVIOUS
  <2> HIDE DEF n
  <2>2. n \in Nat
    BY <2>1
  <2>3. IsFiniteSet(1..n)
    BY <2>2, FS_Interval
  <2> QED BY <2>1, <2>3
<1> HIDE DEF n
<1>1. \A t \in SUBSET S : t # {} => /\ c[t] \in t /\ c[t] \in S /\ t \ {c[t]} \in SUBSET S
                                    /\ c[t] = Max(t)
  BY <1>0, MaximumOfPositions
<1>2. /\ step \in [S -> [V -> V]] /\ <<>> \in V
      /\ \A x \in S, v \in V : step[x][v] = Kept(v, f.lines[x])
  <2>1. \A x \in S, v \in V : Kept(v, f.lines[x]) \in V
    BY <1>0, KeptType DEF V
  <2>2. <<>> \in V
    BY DEF V
  <2> HIDE DEF S
  <2> QED BY <2>1, <2>2
<1>3. \E g \in [SUBSET S -> V] : Iterates(g, S, c, <<>>, step)
  <2> HIDE DEF step, c, S
  <2> QED BY <1>0, <1>1, <1>2, IterationExists
<1>4. PICK g \in [SUBSET S -> V] : Iterates(g, S, c, <<>>, step)
  BY <1>3
<1>5. Fold(g)
  <2> SUFFICES ASSUME NEW t \in SUBSET S
               PROVE  g[t] = IF t = {} THEN <<>> ELSE Kept(g[t \ {Max(t)}], f.lines[Max(t)])
    BY <1>4
  <2>1. g[t] = IF t = {} THEN <<>> ELSE step[c[t]][g[t \ {c[t]}]]
    BY <1>4 DEF Iterates
  <2>2. t # {} => g[t \ {c[t]}] \in V
    BY <1>1, <1>4
  <2> HIDE DEF c, step, S
  <2> QED BY <1>1, <1>2, <2>1, <2>2
<1>6. Fold(it0)
  <2> HIDE DEF Fold
  <2> QED BY <1>5
<1>7. Decoded(f) = it0[S]
  BY <1>0 DEF Decoded, FoldLeft, MapThenFoldSet
<1>8. \A t \in SUBSET S : it0[t] = IF t = {} THEN <<>> ELSE Kept(it0[t \ {Max(t)}], f.lines[Max(t)])
  <2>1. it0 = [t \in SUBSET S |-> IF t = {} THEN <<>> ELSE Kept(it0[t \ {Max(t)}], f.lines[Max(t)])]
    BY <1>6
  <2> HIDE DEF it0, S
  <2> QED BY <2>1
<1> HIDE DEF it0
<1>9. it0[{}] = <<>>
  <2>1. {} \in SUBSET S
    OBVIOUS
  <2> QED BY <1>8, <2>1
<1>10. ASSUME NEW t \in SUBSET S, t # {}, it0[t \ {Max(t)}] \in V
       PROVE  it0[t] = step[Max(t)][it0[t \ {Max(t)}]]
  <2> HIDE DEF step
  <2>1. Max(t) \in S
    BY <1>1, <1>10
  <2> QED BY <1>2, <1>8, <1>10, <2>1
<1> HIDE DEF step
<1>11. PICK a \in [0..n -> V] :
a[n] = it0[1..n] /\ Steps(a, n, <<>>, step)
  <2>1. step \in [1..n -> [V -> V]] /\ n \in Nat /\ <<>> \in V
    BY <1>0, <1>2
  <2>2. Unfolds(it0, n, V, <<>>, step)
    BY <1>9, <1>10 DEF Unfolds
  <2> HIDE DEF S
  <2> QED BY <2>1, <2>2, LeftFoldSteps
<1>12. ASSUME NEW k \in 1..n PROVE a[k] = Kept(a[k-1], f.lines[k])
  <2>1. k - 1 \in 0..n /\ k \in S
    BY <1>0
  <2>2. a[k-1] \in V
    BY <1>11, <2>1
  <2> QED BY <1>2, <1>11, <2>1, <2>2 DEF Steps
<1> QED BY <1>7, <1>11, <1>12 DEF n, V, Steps

(* One line more is decoded after the others. *)
LEMMA DecodedAppend ==
    ASSUME HistoryAssumption, NEW f, f.lines \in Seq(Line), NEW l \in Line,
           NEW g, g.lines = Append(f.lines, l)
    PROVE  /\ Decoded(f) \in Seq(Record)
           /\ Decoded(g) = Kept(Decoded(f), l)
<1> DEFINE w == g.lines
           n == Len(f.lines)
<1>1. w \in Seq(Line) /\ Len(w) = n + 1 /\ w[n+1] = l /\ n \in Nat /\ \A k \in 1..n : w[k] = f.lines[k]
  OBVIOUS
<1>2. PICK a \in [0..n -> Seq(Record)] :
             /\ Decoded(f) = a[n] /\ a[0] = <<>>
             /\ \A k \in 1..n : a[k] = Kept(a[k-1], f.lines[k])
  BY DecodedSteps
<1> HIDE DEF w
<1>3. PICK b \in [0..Len(w) -> Seq(Record)] :
             /\ Decoded(g) = b[Len(w)] /\ b[0] = <<>>
             /\ \A k \in 1..Len(w) : b[k] = Kept(b[k-1], w[k])
  BY <1>1, DecodedSteps DEF w
<1> HIDE DEF n
<1> DEFINE F == {k \in Nat : k <= n => a[k] = b[k]}
<1>4. 0 \in F
  BY <1>2, <1>3
<1>5. ASSUME NEW k \in Nat, k \in F PROVE k + 1 \in F
  <2> SUFFICES ASSUME k + 1 <= n PROVE a[k+1] = b[k+1]
    OBVIOUS
  <2>1. k + 1 \in 1..n /\ k + 1 \in 1..Len(w) /\ (k + 1) - 1 = k
    BY <1>1
  <2>2. a[k] = b[k]
    BY <1>1, <1>5
  <2> QED BY <1>1, <1>2, <1>3, <2>1, <2>2
<1> HIDE DEF F
<1>6. \A k \in Nat : k \in F
  BY <1>4, <1>5, NumberInduction
<1>7. a[n] = b[n]
  BY <1>1, <1>6 DEF F
<1>8. b[n+1] = Kept(b[n], l)
  <2>1. n + 1 \in 1..Len(w) /\ (n + 1) - 1 = n
    BY <1>1
  <2> QED BY <1>1, <1>3, <2>1
<1>9. a[n] \in Seq(Record)
  BY <1>1, <1>2
<1> QED BY <1>1, <1>2, <1>3, <1>7, <1>8, <1>9 DEF w

(* A file of whole lines holds what was written to it. *)
LEMMA DecodedFileOf ==
    ASSUME HistoryAssumption, NEW s \in Seq(Record)
    PROVE  FileOf(s).lines \in Seq(Line) /\ Decoded(FileOf(s)) = s
<1> DEFINE f == FileOf(s)
           n == Len(s)
<1>1. /\ f.lines \in Seq(Line) /\ Len(f.lines) = n /\ n \in Nat
      /\ \A k \in 1..n : f.lines[k].rec = s[k] /\ s[k] \in Record /\ s[k] # Junk
  <2>1. Len(s) \in Nat /\ DOMAIN s = 1..Len(s) /\ \A k \in 1..n : s[k] \in Record
    OBVIOUS
  <2>2. f.lines = [k \in 1..n |-> [rec |-> s[k], size |-> Size[s[k]]]]
    BY <2>1 DEF FileOf
  <2>3. \A k \in 1..n : [rec |-> s[k], size |-> Size[s[k]]] \in Line
    BY <2>1 DEF HistoryAssumption, Line
  <2>4. \A k \in 1..n : f.lines[k].rec = s[k] /\ f.lines[k] \in Line
    BY <2>2, <2>3
  <2>5. f.lines \in Seq(Line) /\ Len(f.lines) = n
    <3> HIDE DEF f
    <3> QED BY <2>1, <2>2, <2>4
  <2>6. \A k \in 1..n : s[k] # Junk
    BY <2>1 DEF HistoryAssumption, Junk
  <2> QED BY <2>1, <2>4, <2>5, <2>6
<1> HIDE DEF f
<1>2. PICK a \in [0..Len(f.lines) -> Seq(Record)] :
             /\ Decoded(f) = a[Len(f.lines)] /\ a[0] = <<>>
             /\ \A k \in 1..Len(f.lines) : a[k] = Kept(a[k-1], f.lines[k])
  BY <1>1, DecodedSteps
<1> DEFINE F == {k \in Nat : k <= n => a[k] = SubSeq(s, 1, k)}
<1>3. 0 \in F
  BY <1>2
<1>4. ASSUME NEW k \in Nat, k \in F PROVE k + 1 \in F
  <2> SUFFICES ASSUME k + 1 <= n PROVE a[k+1] = SubSeq(s, 1, k+1)
    OBVIOUS
  <2>1. k + 1 \in 1..n /\ (k + 1) - 1 = k
    BY <1>1
  <2>2. a[k] = SubSeq(s, 1, k)
    BY <1>1, <1>4
  <2>3. a[k+1] = Append(SubSeq(s, 1, k), s[k+1])
    BY <1>1, <1>2, <2>1, <2>2 DEF Kept
  <2>4. Append(SubSeq(s, 1, k), s[k+1]) = SubSeq(s, 1, k+1)
    BY <2>1
  <2> QED BY <2>3, <2>4
<1> HIDE DEF F, n
<1>5. \A k \in Nat : k \in F
  BY <1>3, <1>4, NumberInduction
<1>6. a[n] = SubSeq(s, 1, n)
  BY <1>1, <1>5 DEF F
<1>7. SubSeq(s, 1, n) = s
  BY DEF n
<1> QED BY <1>1, <1>2, <1>6, <1>7 DEF f

(* Types *)
Average == Nat \cup {Unknown}
Ended(f) == f \in File /\ (~f.ended => f.lines # <<>>)

HistoryTypes ==
    /\ Ended(file) /\ tmp \in File /\ tmp.ended
    /\ waiting \subseteq Record /\ adding \in Record \cup {Junk}
    /\ hpc \in {"idle", "rotate", "rename", "write"} /\ (hpc # "idle" => adding \in Record)
    /\ est \in [Key -> Average]
    /\ open \in BOOLEAN /\ acked \in Seq(Record) /\ tears \in Nat /\ rotated \in BOOLEAN

GateTypes ==
    /\ jobs \in [Job -> {"new", "queued", "started", "done", "missed"}]
    /\ hints \in [Pool -> [Ref -> 0..MaxHints]]
    /\ consuming \in [Pool -> Ref \cup {NoRef}]
    /\ slots \in [Slot -> Runner] /\ seen \in [Slot -> Runner]
    /\ pc \in {"look", "estimate", "quote", "charge", "reserve", "store", "down"} /\ pool \in Pool
    /\ limit \in Nat \cup {Unread}
    /\ repeats \in Nat /\ crashes \in Nat

EstimateTypes ==
    /\ place \in Slot \cup {NextRunner}
    /\ asked \subseteq Ref
    /\ DOMAIN quoted \subseteq Ref /\ quoted \in [DOMAIN quoted -> Nat]
    /\ DOMAIN needs \subseteq Busy /\ needs \in [DOMAIN needs -> Nat]
    /\ since \in Nat

(* There is a pool, and records have pools and refs. *)
LEMMA RecordFields ==
    ASSUME HistoryAssumption
    PROVE  /\ \A r \in Record : PoolOf[r] \in Pool /\ RefOf[r] \in Ref
           /\ SomePool \in Pool /\ "" \in Ref /\ Junk \notin Record
           /\ {RotateLines, ReplayWindow, RotateLines \div 2} \subseteq Nat
<1>1. /\ \A r \in Record : PoolOf[r] \in Pool /\ RefOf[r] \in Ref
      /\ "" \in Ref
  BY DEF Pool, Ref
<1>2. \E p \in Pool : TRUE
  BY <1>1 DEF HistoryAssumption
<1>3. SomePool \in Pool
  BY <1>2 DEF SomePool
<1>4. RotateLines \in Nat /\ ReplayWindow \in Nat /\ Junk \notin Record
  BY DEF HistoryAssumption, Junk
<1>5. RotateLines \div 2 \in Nat
  BY <1>4
<1> QED BY <1>1, <1>3, <1>4, <1>5

(* A new file is well formed, ... *)
LEMMA FileOfType ==
    ASSUME HistoryAssumption, NEW s \in Seq(Record)
    PROVE  Ended(FileOf(s)) /\ FileOf(s) \in File /\ FileOf(s).ended
<1>1. FileOf(s).lines \in Seq(Line)
  BY DecodedFileOf
<1>2. FileOf(s).ended = TRUE /\ FileOf(s) = [lines |-> FileOf(s).lines, ended |-> TRUE]
  BY DEF FileOf
<1> QED BY <1>1, <1>2 DEF Ended, File

(* ... its replay yields records, all of them if they are few, ... *)
LEMMA ReplayTailType ==
    ASSUME HistoryAssumption, NEW f \in File, NEW n \in Nat
    PROVE  /\ Decoded(f) \in Seq(Record) /\ ReplayTail(f, n) \in Seq(Record)
           /\ Len(Decoded(f)) <= n => ReplayTail(f, n) = Decoded(f)
<1>1. f.lines \in Seq(Line)
  BY DEF File
<1>2. PICK a \in [0..Len(f.lines) -> Seq(Record)] : Decoded(f) = a[Len(f.lines)]
  BY <1>1, DecodedSteps
<1>3. Decoded(f) \in Seq(Record)
  BY <1>1, <1>2
<1>4. ASSUME NEW s \in Seq(Record)
      PROVE  Newest(n, s) \in Seq(Record) /\ (Len(s) <= n => Newest(n, s) = s)
  <2>1. CASE Len(s) > n
    <3>1. Newest(n, s) = SubSeq(s, Len(s) - n + 1, Len(s))
      BY <2>1 DEF Newest
    <3>2. Len(s) - n + 1 \in 1..(Len(s) + 1) /\ Len(s) \in Nat
      BY <2>1
    <3>3. SubSeq(s, Len(s) - n + 1, Len(s)) \in Seq(Record)
      BY <3>2, SubSeqProperties
    <3> QED BY <2>1, <3>1, <3>3
  <2>2. CASE ~(Len(s) > n)
    <3>1. Newest(n, s) = SubSeq(s, 1, Len(s))
      BY <2>2 DEF Newest
    <3>2. SubSeq(s, 1, Len(s)) = s
      OBVIOUS
    <3> QED BY <3>1, <3>2
  <2> QED BY <2>1, <2>2
<1> QED BY <1>3, <1>4 DEF ReplayTail

(* ... and averages are numbers or unknown. *)
LEMMA AveragesType ==
    ASSUME HistoryAssumption, NEW s \in Seq(Record)
    PROVE  Averages(s) \in [Key -> Average]
<1>1. PICK a \in [0..Len(s) -> [Key -> Nat \cup {Unknown}]] : Averages(s) = a[Len(s)]
  BY AveragesSteps
<1> QED BY <1>1 DEF Average

(* A write leaves a well formed file, ... *)
LEMMA WrittenType ==
    ASSUME HistoryAssumption, NEW f, Ended(f), NEW r \in Record, NEW part \in {"all", "some", "body"}
    PROVE  Ended(Written(f, r, part)) /\ (Written(f, r, part).ended <=> part = "all")
<1> DEFINE new == [rec  |-> IF part = "some" THEN Junk ELSE r,
                   size |-> IF part = "some" THEN 1 ELSE Size[r]]
           longer == [rec |-> Junk, size |-> Last(f.lines).size + new.size]
           w == Written(f, r, part)
<1>1. new \in Line /\ new.size \in Nat \ {0}
  BY DEF Line, HistoryAssumption
<1>2. f.lines \in Seq(Line) /\ f.ended \in BOOLEAN
  BY DEF Ended, File
<1>3. CASE f.ended
  <2>1. w = [lines |-> Append(f.lines, new), ended |-> part = "all"]
    BY <1>3 DEF Written
  <2> HIDE DEF new, w
  <2>2. Append(f.lines, new) \in Seq(Line) /\ Append(f.lines, new) # <<>>
    BY <1>1, <1>2
  <2>5. w.lines = Append(f.lines, new) /\ w.ended = (part = "all")
    BY <2>1
  <2>6. w = [lines |-> w.lines, ended |-> w.ended] /\ w.ended \in BOOLEAN
    BY <2>1
  <2>7. w \in File
    BY <2>2, <2>5, <2>6 DEF File
  <2> QED BY <2>2, <2>5, <2>7 DEF Ended, w
<1>4. CASE ~f.ended
  <2>1. w = [lines |-> Append(Front(f.lines), longer), ended |-> part = "all"]
    BY <1>4 DEF Written
  <2>2. Len(f.lines) \in Nat \ {0} /\ Last(f.lines) \in Line /\ Front(f.lines) \in Seq(Line)
    BY <1>2, <1>4 DEF Ended, Last, Front
  <2> HIDE DEF new, w
  <2>3. longer \in Line
    BY <1>1, <2>2 DEF Line
  <2> HIDE DEF longer
  <2>4. Append(Front(f.lines), longer) \in Seq(Line) /\ Append(Front(f.lines), longer) # <<>>
    BY <2>2, <2>3
  <2>5. w.lines = Append(Front(f.lines), longer) /\ w.ended = (part = "all")
    BY <2>1
  <2>6. w = [lines |-> w.lines, ended |-> w.ended] /\ w.ended \in BOOLEAN
    BY <2>1
  <2>7. w \in File
    BY <2>4, <2>5, <2>6 DEF File
  <2> QED BY <2>4, <2>5, <2>7 DEF Ended, w
<1> QED BY <1>2, <1>3, <1>4

(* ... and so does one that is cut short. *)
LEMMA CutShortType ==
    ASSUME HistoryAssumption, HistoryTypes, hpc # "idle", CutShort
    PROVE  Ended(file') /\ tears' \in Nat /\ ((tears' = tears /\ file' = file) \/ tears' > 0)
<1>1. CASE UNCHANGED <<file, tears>>
  BY <1>1 DEF HistoryTypes
<1>2. CASE /\ tears' = tears + 1
           /\ \E part \in {"some", "body"} : file' = Written(file, adding, part)
  BY <1>2, WrittenType DEF HistoryTypes
<1> QED BY <1>1, <1>2 DEF CutShort

(* The steps of the history keep its types. *)
LEMMA HistoryTypesStep ==
    ASSUME HistoryAssumption, HistoryTypes,
           UNCHANGED history \/ (\E r \in Record : Complete(r)) \/ AppendStep \/ Lose \/ Open
    PROVE  HistoryTypes'
<1> USE DEF HistoryTypes
<1>1. CASE UNCHANGED history
  BY <1>1 DEF history, Ended
<1>2. ASSUME NEW r \in Record, Complete(r) PROVE HistoryTypes'
  BY <1>2 DEF Complete, Ended
<1>3. ASSUME NEW r \in Record, AppendBegin(r) PROVE HistoryTypes'
  BY <1>3 DEF AppendBegin, Ended
<1>4. CASE Rewrite
  <2>1. ReplayTail(file, RotateLines \div 2) \in Seq(Record)
    BY ReplayTailType, RecordFields DEF Ended
  <2> QED BY <1>4, <2>1, FileOfType DEF Rewrite, Ended
<1>5. CASE Rename
  <2>1. <<>> \in Seq(Record)
    OBVIOUS
  <2> QED BY <1>5, <2>1, FileOfType DEF Rename, Ended
<1>6. CASE Write
  <2>1. adding \in Record /\ Ended(file') /\ Absorb(est, adding) \in [Key -> Average]
    BY <1>6, WrittenType, AbsorbType DEF Write, Average
  <2>2. Append(acked, adding) \in Seq(Record)
    BY <2>1
  <2> QED BY <1>6, <2>1, <2>2 DEF Write
<1>7. CASE AppendFails
  <2>1. <<>> \in Seq(Record)
    OBVIOUS
  <2>2. Ended(file') /\ tears' \in Nat
    BY <1>7, CutShortType DEF AppendFails
  <2> QED BY <1>7, <2>1, <2>2, FileOfType DEF AppendFails
<1>8. CASE Lose
  <2>1. <<>> \in Seq(Record)
    OBVIOUS
  <2>2. Ended(file') /\ tears' \in Nat
    <3>1. CASE hpc = "idle"
      BY <1>8, <3>1 DEF Lose, CutShort
    <3> QED BY <1>8, <3>1, CutShortType DEF Lose
  <2>3. NoAverages \in [Key -> Average]
    BY DEF NoAverages, Average
  <2> QED BY <1>8, <2>1, <2>2, <2>3, FileOfType DEF Lose
<1>9. CASE Open
  <2>1. Averages(ReplayTail(file, ReplayWindow)) \in [Key -> Average]
    BY ReplayTailType, RecordFields, AveragesType DEF Ended
  <2> QED BY <1>9, <2>1 DEF Open, Ended
<1> QED BY <1>1, <1>2, <1>3, <1>4, <1>5, <1>6, <1>7, <1>8, <1>9 DEF AppendStep

(* What a step of the composition does to the history *)
LEMMA GateTypesToHistory ==
    ASSUME HistoryAssumption, GateTypes, [Next]_vars
    PROVE  UNCHANGED history \/ (\E r \in Record : Complete(r)) \/ AppendStep \/ Lose \/ Open
<1>1. ASSUME NEW s \in Slot, Exit(s) PROVE UNCHANGED history \/ \E r \in Record : Complete(r)
  <2>1. slots[s].job \in Record \cup {Junk}
    BY DEF GateTypes, Runner
  <2> QED BY <1>1, <2>1 DEF Exit
<1>2. CASE Start
  BY <1>2 DEF Start, Ungated, Look, Estimate, Quote, Charge, Admit, Hold, Reserve, Store, GiveUp, Rest,
              ToSchedule
<1>3. CASE Listen
  BY <1>3 DEF Listen, Queue, QueueAgain, Cancel, Claim, ClaimUnknown, ClaimAgain, Consume
<1>4. ASSUME NEW left \in SUBSET Live(slots), Crash(left) PROVE Lose
  BY <1>4 DEF Crash
<1>5. CASE Restart
  BY <1>5 DEF Restart
<1>6. CASE UNCHANGED vars
  BY <1>6 DEF vars
<1> QED BY <1>1, <1>2, <1>3, <1>4, <1>5, <1>6 DEF Next

(* Queue hints *)
Hints == [Ref -> 0..MaxHints]

(* Expiry takes hints away. *)
LEMMA ExpiredHints ==
    ASSUME GateAssumption, NEW h \in Hints, NEW g \in Expired(h)
    PROVE  g \in Hints /\ (\A r \in Ref : g[r] <= h[r]) /\ Hinted(g) \subseteq Hinted(h)
<1>1. PICK old \in SUBSET Hinted(h) : g = [r \in Ref |-> IF r \in old THEN 0 ELSE h[r]]
  BY DEF Expired
<1>2. \A r \in Ref : h[r] \in 0..MaxHints /\ MaxHints \in Nat /\ 0 \in 0..MaxHints
  BY DEF Hints, GateAssumption
<1>3. g \in Hints /\ \A r \in Ref : g[r] <= h[r]
  BY <1>1, <1>2 DEF Hints
<1> QED BY <1>2, <1>3 DEF Hinted, Hints

(* Noting a job adds one hint at most, and a new workflow only below the   *)
(* limit.                                                                  *)
LEMMA NotedHints ==
    ASSUME GateAssumption, NEW h \in Hints, NEW ref \in Ref
    PROVE  /\ Noted(h, ref) \in Hints
           /\ \A r \in Ref : Noted(h, ref)[r] <= h[r] + (IF r = ref THEN 1 ELSE 0)
           /\ Hinted(Noted(h, ref)) \subseteq Hinted(h) \cup {ref}
           /\ \/ Noted(h, ref) = h
              \/ ref \in Hinted(h)
              \/ ~(Cardinality(Hinted(h)) >= MaxQueuedRefs)
<1>1. \A r \in Ref : h[r] \in 0..MaxHints /\ MaxHints \in Nat
  BY DEF Hints, GateAssumption
<1>2. CASE Noted(h, ref) = h
  BY <1>1, <1>2
<1>3. CASE Noted(h, ref) # h
  <2>1. /\ Noted(h, ref) = [h EXCEPT ![ref] = IF h[ref] < MaxHints THEN h[ref] + 1 ELSE h[ref]]
        /\ ref \in Hinted(h) \/ ~(Cardinality(Hinted(h)) >= MaxQueuedRefs)
    BY <1>3 DEF Noted
  <2>2. (IF h[ref] < MaxHints THEN h[ref] + 1 ELSE h[ref]) \in 0..MaxHints
    BY <1>1
  <2> DEFINE n == IF h[ref] < MaxHints THEN h[ref] + 1 ELSE h[ref]
  <2>3. n \in 0..MaxHints /\ n <= h[ref] + 1 /\ Noted(h, ref) = [h EXCEPT ![ref] = n]
    BY <1>1, <2>1, <2>2
  <2> HIDE DEF n
  <2>4. Noted(h, ref) \in Hints /\ Noted(h, ref)[ref] = n /\ \A r \in Ref : r # ref => Noted(h, ref)[r] = h[r]
    BY <2>3 DEF Hints
  <2>5. \A r \in Ref : Noted(h, ref)[r] <= h[r] + (IF r = ref THEN 1 ELSE 0)
    BY <1>1, <2>3, <2>4
  <2>6. Hinted(Noted(h, ref)) \subseteq Hinted(h) \cup {ref}
    BY <2>4 DEF Hinted
  <2> QED BY <2>1, <2>4, <2>5, <2>6
<1> QED BY <1>2, <1>3

(* Consuming a hint takes one away. *)
LEMMA ConsumedHints ==
    ASSUME GateAssumption, NEW h \in Hints, NEW ref \in Ref
    PROVE  /\ Consumed(h, ref) \in Hints /\ Hinted(Consumed(h, ref)) \subseteq Hinted(h)
           /\ \A r \in Ref : r # ref => Consumed(h, ref)[r] = h[r]
           /\ Consumed(h, ref)[ref] = 0 \/ Consumed(h, ref)[ref] = h[ref] - 1
           /\ h[ref] <= 1 => Consumed(h, ref)[ref] = 0
<1>1. h[ref] \in 0..MaxHints /\ MaxHints \in Nat
  BY DEF Hints, GateAssumption
<1> DEFINE n == IF h[ref] <= 1 THEN 0 ELSE h[ref] - 1
<1>2. Consumed(h, ref) = [h EXCEPT ![ref] = n]
  BY DEF Consumed
<1>3. n \in 0..MaxHints /\ (n > 0 => h[ref] > 0) /\ (n = 0 \/ n = h[ref] - 1) /\ (h[ref] <= 1 => n = 0)
  BY <1>1
<1> HIDE DEF n
<1>4. /\ Consumed(h, ref) \in Hints /\ Consumed(h, ref)[ref] = n
      /\ \A r \in Ref : r # ref => Consumed(h, ref)[r] = h[r]
  BY <1>2, <1>3 DEF Hints
<1> QED BY <1>3, <1>4 DEF Hinted

(* What the limit of workflows promises of the hints of a pool *)
Bounded(h) == IsFiniteSet(Hinted(h)) /\ Cardinality(Hinted(h)) <= MaxQueuedRefs
HintsBounded == \A p \in Pool : Bounded(hints[p])

(* Fewer hints are bounded, too, ... *)
LEMMA FewerHints ==
    ASSUME GateAssumption, NEW g, NEW h, Hinted(g) \subseteq Hinted(h), Bounded(h)
    PROVE  Bounded(g)
<1>1. /\ IsFiniteSet(Hinted(g)) /\ Cardinality(Hinted(g)) <= Cardinality(Hinted(h))
      /\ Cardinality(Hinted(g)) \in Nat /\ Cardinality(Hinted(h)) \in Nat
  BY FS_Subset, FS_CardinalityType DEF Bounded
<1> QED BY <1>1 DEF Bounded, GateAssumption

(* ... and so are those with one job more. *)
LEMMA BoundedNoted ==
    ASSUME GateAssumption, NEW h \in Hints, NEW ref \in Ref, Bounded(h)
    PROVE  Bounded(Noted(h, ref))
<1>1. CASE Hinted(Noted(h, ref)) \subseteq Hinted(h)
  BY <1>1, FewerHints
<1>2. CASE ~(Hinted(Noted(h, ref)) \subseteq Hinted(h))
  <2>1. ref \notin Hinted(h) /\ ~(Cardinality(Hinted(h)) >= MaxQueuedRefs)
    BY <1>2, NotedHints
  <2>2. /\ IsFiniteSet(Hinted(h)) /\ IsFiniteSet(Hinted(h) \cup {ref})
        /\ Cardinality(Hinted(h) \cup {ref}) = Cardinality(Hinted(h)) + 1
        /\ Cardinality(Hinted(h)) \in Nat /\ MaxQueuedRefs \in Nat
    BY <2>1, FS_AddElement, FS_CardinalityType DEF Bounded, GateAssumption
  <2>3. Hinted(Noted(h, ref)) \subseteq Hinted(h) \cup {ref}
    BY NotedHints
  <2>4. /\ IsFiniteSet(Hinted(Noted(h, ref)))
        /\ Cardinality(Hinted(Noted(h, ref))) <= Cardinality(Hinted(h) \cup {ref})
        /\ Cardinality(Hinted(Noted(h, ref))) \in Nat
    BY <2>2, <2>3, FS_Subset, FS_CardinalityType
  <2> QED BY <2>1, <2>2, <2>4 DEF Bounded
<1> QED BY <1>1, <1>2

(* A prediction is a number. *)
LEMMA PredictType ==
    ASSUME est \in [Key -> Average], NEW p \in Pool, NEW ref \in Ref
    PROVE  Predict(p, ref) \in Nat
<1>1. <<p, ref>> \in Key /\ <<p>> \in Key /\ <<>> \in Key
  BY DEF Key
<1>2. \A k \in Key : est[k] # Unknown => est[k] \in Nat
  BY DEF Average
<1> QED BY <1>1, <1>2 DEF Predict

(* The estimate of the next runner covers every workflow that was asked    *)
(* about.                                                                  *)
LEMMA CandidateBounds ==
    ASSUME quoted \in [DOMAIN quoted -> Nat], IsFiniteSet(DOMAIN quoted), DOMAIN quoted # {}
    PROVE  Candidate \in Nat /\ \A r \in DOMAIN quoted : quoted[r] <= Candidate
<1> DEFINE S == {quoted[r] : r \in DOMAIN quoted}
<1>1. \A r \in DOMAIN quoted : quoted[r] \in Nat
  OBVIOUS
<1>2. IsFiniteSet(S)
  <2>1. S = Range(quoted) /\ quoted \in Surjection(DOMAIN quoted, S)
    BY DEF Surjection, Range
  <2> HIDE DEF S
  <2> QED BY <2>1, FS_Surjection
<1>3. S \in SUBSET Int /\ S # {}
  BY <1>1
<1> HIDE DEF S
<1>4. \E n \in S : \A m \in S : m <= n
  BY <1>2, <1>3, FiniteMaximum
<1>5. Largest(S) \in S /\ \A m \in S : m <= Largest(S)
  BY <1>4 DEF Largest
<1>6. Candidate = Largest(S)
  BY DEF Candidate, S
<1> QED BY <1>1, <1>5, <1>6 DEF S

(* Where the host scheduler is with its estimate.  Finitely many workflows *)
(* are asked about, and at least one before the estimate is used; unless a *)
(* record was added since it was begun, the history still makes the        *)
(* predictions it was given.                                               *)
EstimateInv ==
    /\ EstimateTypes
    /\ IsFiniteSet(asked) /\ IsFiniteSet(DOMAIN quoted)
    /\ pc = "charge" => place = NextRunner
    /\ pc = "store" => place \in Slot
    /\ pc = "charge" \/ (pc = "store" /\ open) => DOMAIN quoted # {}
    /\ pc \in {"look", "estimate", "reserve", "down"} => DOMAIN quoted = {} /\ DOMAIN needs = {}
    /\ since <= Len(acked)
    /\ Len(acked) = since => Current

(* Runners the model makes *)
LEMMA RunnerFacts ==
    ASSUME HistoryAssumption
    PROVE  /\ NoRunner \in Runner /\ Nobody \in [Slot -> Runner]
           /\ \A r \in Runner, n \in Nat : [r EXCEPT !.current = n] \in Runner
<1>1. NoRunner \in Runner
  BY RecordFields DEF NoRunner, Runner
<1>2. ASSUME NEW r \in Runner, NEW n \in Nat PROVE [r EXCEPT !.current = n] \in Runner
  BY DEF Runner
<1> QED BY <1>1, <1>2 DEF Nobody

(* Every step keeps the types of the gate; a reservation is a number       *)
(* because hints are finitely many.                                        *)
LEMMA GateTypesStep ==
    ASSUME HistoryAssumption, GateAssumption, HistoryTypes, GateTypes, HintsBounded, EstimateInv,
           [Next]_vars
    PROVE  GateTypes'
<1> USE DEF GateTypes, gate, starter, estimate, ToSchedule
<1>1. \A j \in Job : j \in Record /\ PoolOf[j] \in Pool /\ RefOf[j] \in Ref
  BY RecordFields DEF Job
<1>2. SomePool \in Pool /\ Nobody \in [Slot -> Runner] /\ NoRunner \in Runner
  BY RecordFields, RunnerFacts
<1>3. \A p \in Pool : hints[p] \in Hints
  BY DEF Hints
<1>4. \A p \in Pool, h \in Hints : [hints EXCEPT ![p] = h] \in [Pool -> [Ref -> 0..MaxHints]]
  BY DEF Hints
<1>5. \A h \in Expired(hints[pool]) :
          h \in Hints /\ Bounded(h) /\ [hints EXCEPT ![pool] = h] \in [Pool -> [Ref -> 0..MaxHints]]
  BY <1>3, <1>4, ExpiredHints, FewerHints DEF HintsBounded
<1>6. ASSUME NEW j \in Job, NoteQueued(j) PROVE hints' \in [Pool -> [Ref -> 0..MaxHints]]
  <2>1. PICK h \in Expired(hints[PoolOf[j]]) : hints' = [hints EXCEPT ![PoolOf[j]] = Noted(h, RefOf[j])]
    BY <1>6 DEF NoteQueued
  <2>2. h \in Hints
    BY <1>1, <1>3, ExpiredHints
  <2>3. Noted(h, RefOf[j]) \in Hints
    BY <1>1, <2>2, NotedHints
  <2> QED BY <1>1, <1>4, <2>1, <2>3
<1>7. ASSUME NEW j \in Job, Queue(j) PROVE GateTypes'
  BY <1>6, <1>7 DEF Queue
<1>8. ASSUME NEW j \in Job, QueueAgain(j) PROVE GateTypes'
  BY <1>6, <1>8 DEF QueueAgain
<1>9. ASSUME NEW p \in Pool, Ungated(p) \/ Look(p) PROVE GateTypes'
  <2>1. CASE Ungated(p)
    BY <2>1 DEF Ungated
  <2>2. CASE Look(p)
    <3>1. PICK sample \in [Live(slots) -> Samplings] :
            seen' = [s \in Slot |-> IF s \in Live(slots) THEN [slots[s] EXCEPT !.current = sample[s]]
                                    ELSE slots[s]]
      BY <2>2 DEF Look
    <3>2. \A s \in Live(slots) : sample[s] \in Nat
      BY DEF GateAssumption
    <3>3. ASSUME NEW s \in Slot, s \in Live(slots) PROVE [slots[s] EXCEPT !.current = sample[s]] \in Runner
      BY <3>2, <3>3, RunnerFacts
    <3>4. seen' \in [Slot -> Runner]
      BY <3>1, <3>3
    <3> QED BY <2>2, <3>4 DEF Look
  <2> QED BY <1>9, <2>1, <2>2
<1>10. ASSUME NEW h \in Expired(hints[pool]), Estimate(h) PROVE GateTypes'
  BY <1>5, <1>10 DEF Estimate
<1>11. ASSUME NEW r \in asked, Quote(r) PROVE GateTypes'
  BY <1>11 DEF Quote
<1>12. ASSUME NEW n \in Limits \cup {Unread}, Admit(n) PROVE GateTypes'
  <2>1. limit' \in Nat \cup {Unread} /\ pc' = "reserve" /\ seen' = Nobody
    BY <1>12 DEF Admit, NotLooking, GateAssumption
  <2> QED BY <1>2, <1>12, <2>1 DEF Admit
<1>13. CASE Start
  <2>1. ASSUME NEW s \in Slot, Charge(s) \/ Reserve(s) PROVE GateTypes'
    BY <2>1 DEF Charge, Reserve
  <2>2. CASE Hold \/ GiveUp
    BY <1>2, <2>2 DEF Hold, GiveUp, Rest, NotLooking
  <2>3. CASE Store
    <3> DEFINE n == IF open THEN Candidate ELSE 0
               new == [NoRunner EXCEPT !.state = "idle", !.pool = pool, !.reserved = n]
    <3>1. n \in Nat
      BY <2>3, CandidateBounds DEF Store, EstimateInv, EstimateTypes
    <3>2. slots' = [slots EXCEPT ![place] = new]
      BY <2>3 DEF Store
    <3> HIDE DEF n
    <3>3. new \in Runner
      BY <3>1, <1>2 DEF NoRunner, Runner
    <3> HIDE DEF new
    <3>4. slots' \in [Slot -> Runner]
      BY <3>2, <3>3
    <3> QED BY <1>2, <2>3, <3>4 DEF Store, Rest, NotLooking
  <2> QED BY <1>9, <1>10, <1>11, <1>12, <1>13, <2>1, <2>2, <2>3 DEF Start
<1>14. ASSUME NEW s \in Slot, NEW j \in Job, Claim(s, j) PROVE GateTypes'
  <2> DEFINE new == [slots[s] EXCEPT !.state = "busy", !.ref = RefOf[j], !.job = j]
  <2>1. slots' = [slots EXCEPT ![s] = new]
    BY <1>14 DEF Claim
  <2>2. new \in Runner
    BY <1>1 DEF Runner
  <2> HIDE DEF new
  <2>3. slots' \in [Slot -> Runner]
    BY <2>1, <2>2
  <2>4. consuming' \in [Pool -> Ref \cup {NoRef}]
    BY <1>1, <1>14 DEF Claim
  <2> QED BY <1>14, <2>3, <2>4 DEF Claim
<1>15. ASSUME NEW s \in Slot, ClaimAgain(s) PROVE GateTypes'
  <2>1. slots[s].pool \in Pool /\ slots[s].ref \in Ref
    BY DEF Runner
  <2>2. consuming' \in [Pool -> Ref \cup {NoRef}]
    BY <1>15, <2>1 DEF ClaimAgain
  <2> QED BY <1>15, <2>2 DEF ClaimAgain
<1>16. ASSUME NEW p \in Pool, Consume(p) PROVE GateTypes'
  <2>1. consuming[p] \in Ref
    BY <1>16 DEF Consume
  <2>2. Consumed(hints[p], consuming[p]) \in Hints
    BY <1>3, <2>1, ConsumedHints
  <2>3. hints' = [hints EXCEPT ![p] = Consumed(hints[p], consuming[p])]
    BY <1>16 DEF Consume
  <2>4. hints' \in [Pool -> [Ref -> 0..MaxHints]]
    BY <1>4, <2>2, <2>3
  <2> QED BY <1>16, <2>4 DEF Consume
<1>17. ASSUME NEW s \in Slot, Exit(s) PROVE GateTypes'
  BY <1>2, <1>17 DEF Exit
<1>18. ASSUME NEW left \in SUBSET Live(slots), Crash(left) PROVE GateTypes'
  <2>1. \A s \in Slot : [NoRunner EXCEPT !.state = "busy", !.pool = slots[s].pool] \in Runner
    BY <1>2 DEF NoRunner, Runner
  <2>2. slots' \in [Slot -> Runner]
    BY <1>2, <1>18, <2>1 DEF Crash
  <2>3. hints' \in [Pool -> [Ref -> 0..MaxHints]]
    <3>1. 0 \in 0..MaxHints
      BY DEF GateAssumption
    <3>2. NoHints \in [Pool -> [Ref -> 0..MaxHints]]
      BY <3>1 DEF NoHints
    <3> QED BY <1>18, <3>2 DEF Crash
  <2>4. jobs' \in [Job -> {"new", "queued", "started", "done", "missed"}]
    BY <1>18 DEF Crash
  <2>5. consuming' \in [Pool -> Ref \cup {NoRef}] /\ seen' \in [Slot -> Runner]
    BY <1>2, <1>18 DEF Crash, NotLooking
  <2>6. /\ crashes' = crashes + 1 /\ repeats' = repeats
        /\ pc' = "down" /\ pool' = SomePool /\ limit' = Unread
    BY <1>18 DEF Crash, NotLooking
  <2>7. crashes' \in Nat /\ repeats' \in Nat /\ pool' \in Pool
    BY <1>2, <2>6
  <2> QED BY <2>2, <2>3, <2>4, <2>5, <2>6, <2>7
<1>19. CASE Restart
  BY <1>19 DEF Restart
<1>20. CASE UNCHANGED gate
  BY <1>20
<1>21. ASSUME NEW j \in Job, Cancel(j) \/ ClaimUnknown(j) PROVE GateTypes'
  BY <1>21 DEF Cancel, ClaimUnknown
<1>22. CASE Listen
  BY <1>7, <1>8, <1>14, <1>15, <1>16, <1>21, <1>22 DEF Listen
<1> QED BY <1>13, <1>17, <1>18, <1>19, <1>20, <1>22 DEF Next, vars

(* An estimate that nobody touches stays what it is: predictions change    *)
(* only with a record that is added.                                       *)
LEMMA EstimateKept ==
    ASSUME HistoryTypes, EstimateInv, UNCHANGED <<pool, seen, place, estimate>>,
           pc' = pc, open' = open \/ pc # "store",
           \/ UNCHANGED <<est, acked>>
           \/ \E r \in Record : acked' = Append(acked, r)
    PROVE  EstimateInv'
<1> USE DEF estimate
<1>1. /\ EstimateTypes' /\ IsFiniteSet(asked') /\ IsFiniteSet(DOMAIN quoted')
      /\ pc' = "charge" => place' = NextRunner
      /\ pc' = "store" => place' \in Slot
      /\ pc' = "charge" \/ (pc' = "store" /\ open') => DOMAIN quoted' # {}
      /\ pc' \in {"look", "estimate", "reserve", "down"} => DOMAIN quoted' = {} /\ DOMAIN needs' = {}
  BY DEF EstimateInv, EstimateTypes, Busy
<1>2. CASE UNCHANGED <<est, acked>>
  BY <1>1, <1>2 DEF EstimateInv, Current, Predict
<1>3. ASSUME NEW r \in Record, acked' = Append(acked, r) PROVE EstimateInv'
  <2>1. Len(acked') = Len(acked) + 1 /\ Len(acked) \in Nat /\ since \in Nat /\ since <= Len(acked)
    BY <1>3 DEF HistoryTypes, EstimateInv, EstimateTypes
  <2>2. since' <= Len(acked') /\ Len(acked') # since'
    BY <2>1
  <2> QED BY <1>1, <2>2 DEF EstimateInv
<1> QED BY <1>2, <1>3

(* Every step of the estimate keeps what is known of it. *)
LEMMA EstimateStep ==
    ASSUME HistoryAssumption, GateAssumption, HistoryTypes, GateTypes, HintsBounded, EstimateInv,
           [Next]_vars
    PROVE  EstimateInv'
<1> USE DEF gate, starter, estimate, ToSchedule
<1>1. acked \in Seq(Record) /\ Len(acked) \in Nat
  BY DEF HistoryTypes
<1>2. ASSUME NotLooking, UNCHANGED acked, pc' \notin {"charge", "store"} PROVE EstimateInv'
  <2>1. /\ place' = NextRunner /\ asked' = {} /\ quoted' = NoQuotes /\ needs' = NoQuotes
        /\ since' = 0 /\ DOMAIN NoQuotes = {}
    BY <1>2 DEF NotLooking, NoQuotes
  <2>2. quoted' \in [DOMAIN quoted' -> Nat] /\ needs' \in [DOMAIN needs' -> Nat]
    BY <2>1 DEF NoQuotes
  <2>3. EstimateTypes'
    BY <2>1, <2>2 DEF EstimateTypes
  <2>4. IsFiniteSet(asked') /\ IsFiniteSet(DOMAIN quoted')
    BY <2>1, FS_EmptySet
  <2>5. since' <= Len(acked') /\ Current'
    BY <1>1, <1>2, <2>1 DEF Current
  <2> QED BY <1>2, <2>1, <2>3, <2>4, <2>5 DEF EstimateInv
<1>3. ASSUME NEW p \in Pool, Ungated(p) \/ Look(p) PROVE EstimateInv'
  <2>1. /\ UNCHANGED <<place, asked, quoted, needs, since, est, acked>> /\ pc = "look"
        /\ pc' \in {"reserve", "estimate"}
    BY <1>3 DEF Ungated, Look, history
  <2>2. DOMAIN quoted = {} /\ DOMAIN needs = {}
    BY <2>1 DEF EstimateInv
  <2>3. EstimateTypes' /\ Current'
    BY <2>1, <2>2 DEF EstimateInv, EstimateTypes, Current
  <2> QED BY <2>1, <2>2, <2>3 DEF EstimateInv
<1>4. ASSUME NEW h \in Expired(hints[pool]), Estimate(h) PROVE EstimateInv'
  <2>1. hints[pool] \in Hints /\ Bounded(hints[pool])
    BY DEF GateTypes, Hints, HintsBounded
  <2>2. IsFiniteSet(Hinted(h)) /\ Hinted(h) \subseteq Ref /\ IsFiniteSet({""})
    <3>1. Hinted(h) \subseteq Hinted(hints[pool])
      BY <2>1, ExpiredHints
    <3>2. IsFiniteSet({""})
      BY FS_Singleton
    <3> QED BY <2>1, <3>1, <3>2, FewerHints DEF Bounded, Hinted
  <2>3. /\ UNCHANGED <<pool, seen, place, quoted, needs, est, acked>> /\ pc = "estimate"
        /\ pc' = "quote" /\ since' = Len(acked) /\ asked' \in {{""}, Hinted(h)}
    BY <1>4 DEF Estimate, history
  <2>4. asked' \subseteq Ref /\ IsFiniteSet(asked')
    BY <2>2, <2>3, RecordFields
  <2>5. DOMAIN quoted = {} /\ DOMAIN needs = {}
    BY <2>3 DEF EstimateInv
  <2>6. EstimateTypes'
    BY <1>1, <2>3, <2>4, <2>5 DEF EstimateInv, EstimateTypes, Busy
  <2>7. Current' /\ since' <= Len(acked')
    <3>1. DOMAIN quoted' = {} /\ DOMAIN needs' = {}
      BY <2>3, <2>5
    <3>2. since' = Len(acked) /\ Len(acked') = Len(acked)
      BY <2>3
    <3>3. since' <= Len(acked')
      BY <1>1, <3>2
    <3> QED BY <3>1, <3>3 DEF Current
  <2> QED BY <2>3, <2>4, <2>5, <2>6, <2>7 DEF EstimateInv
<1>5. ASSUME NEW r \in asked, Quote(r) PROVE EstimateInv'
  <2>1. /\ UNCHANGED <<pool, seen, place, needs, since, est, acked, open>>
        /\ quoted' = With(quoted, r, Predict(pool, r)) /\ asked' = asked \ {r}
        /\ pc' \in {"quote", "charge", "store"}
        /\ pc' = "charge" => place = NextRunner
        /\ pc' = "store" => place # NextRunner
    BY <1>5 DEF Quote, history
  <2>2. /\ r \in Ref /\ Predict(pool, r) \in Nat
        /\ quoted \in [DOMAIN quoted -> Nat] /\ DOMAIN quoted \subseteq Ref
    BY PredictType DEF EstimateInv, EstimateTypes, HistoryTypes, GateTypes
  <2>3. /\ DOMAIN quoted' = DOMAIN quoted \cup {r} /\ quoted' \in [DOMAIN quoted' -> Nat]
        /\ \A x \in DOMAIN quoted' : quoted'[x] = IF x = r THEN Predict(pool, r) ELSE quoted[x]
    BY <2>1, <2>2 DEF With
  <2>4. IsFiniteSet(asked') /\ IsFiniteSet(DOMAIN quoted')
    <3>1. IsFiniteSet(asked) /\ IsFiniteSet(DOMAIN quoted)
      BY DEF EstimateInv
    <3>2. IsFiniteSet(asked \ {r}) /\ IsFiniteSet(DOMAIN quoted \cup {r})
      BY <3>1, FS_AddElement, FS_RemoveElement
    <3> QED BY <2>1, <2>3, <3>2
  <2>5. EstimateTypes'
    BY <2>1, <2>2, <2>3 DEF EstimateInv, EstimateTypes, Busy
  <2>6. Len(acked') = since' => Current'
    <3>1. SUFFICES ASSUME Len(acked) = since PROVE Current'
      BY <2>1
    <3>2. Current
      BY <3>1 DEF EstimateInv
    <3> QED BY <2>1, <2>3, <3>2 DEF Current, Predict
  <2> QED BY <2>1, <2>3, <2>4, <2>5, <2>6 DEF EstimateInv, EstimateTypes
<1>6. ASSUME NEW s \in Slot, Charge(s) PROVE EstimateInv'
  <2>1. /\ UNCHANGED <<pc, pool, seen, place, asked, quoted, since, est, acked, open>>
        /\ s \in Busy /\ pc = "charge"
        /\ needs' = With(needs, s, Predict(seen[s].pool, seen[s].ref))
    BY <1>6 DEF Charge, history
  <2>2. /\ needs \in [DOMAIN needs -> Nat] /\ DOMAIN needs \subseteq Busy
        /\ Predict(seen[s].pool, seen[s].ref) \in Nat
    BY PredictType DEF EstimateInv, EstimateTypes, HistoryTypes, GateTypes, Runner
  <2>3. /\ DOMAIN needs' = DOMAIN needs \cup {s} /\ needs' \in [DOMAIN needs' -> Nat]
        /\ \A x \in DOMAIN needs' : needs'[x] = IF x = s THEN Predict(seen[s].pool, seen[s].ref)
                                               ELSE needs[x]
    BY <2>1, <2>2 DEF With
  <2>4. EstimateTypes'
    BY <2>1, <2>2, <2>3 DEF EstimateInv, EstimateTypes, Busy
  <2>5. Len(acked') = since' => Current'
    <3>1. SUFFICES ASSUME Len(acked) = since PROVE Current'
      BY <2>1
    <3>2. Current
      BY <3>1 DEF EstimateInv
    <3> QED BY <2>1, <2>3, <3>2 DEF Current, Predict
  <2> QED BY <2>1, <2>4, <2>5 DEF EstimateInv
<1>7. ASSUME NEW s \in Slot, Reserve(s) PROVE EstimateInv'
  <2>1. /\ UNCHANGED <<pool, seen, asked, quoted, needs, since, est, acked, open>>
        /\ pc = "reserve" /\ place' = s
        /\ pc' = "estimate" \/ (pc' = "store" /\ ~open)
    BY <1>7 DEF Reserve, history
  <2>2. EstimateTypes' /\ (Len(acked') = since' => Current')
    BY <2>1 DEF EstimateInv, EstimateTypes, Current, Predict, Busy
  <2> QED BY <2>1, <2>2 DEF EstimateInv
<1>8. CASE Start
  <2>1. ASSUME NEW n \in Limits \cup {Unread}, Admit(n) PROVE EstimateInv'
    BY <1>2, <2>1 DEF Admit, history
  <2>2. CASE Hold \/ Store \/ GiveUp
    BY <1>2, <2>2 DEF Hold, Store, GiveUp, Rest, history
  <2> QED BY <1>3, <1>4, <1>5, <1>6, <1>7, <1>8, <2>1, <2>2 DEF Start
<1>9. CASE Listen
  <2>1. UNCHANGED <<pool, seen, place, estimate, pc, open, est, acked>>
    BY <1>9 DEF Listen, Queue, QueueAgain, Cancel, Claim, ClaimUnknown, ClaimAgain, Consume, history
  <2> QED BY <2>1, EstimateKept
<1>10. ASSUME NEW s \in Slot, Exit(s) PROVE EstimateInv'
  <2>1. UNCHANGED <<pool, seen, place, estimate, pc, open, est, acked>>
    BY <1>10 DEF Exit, Complete, history
  <2> QED BY <2>1, EstimateKept
<1>11. CASE AppendStep /\ UNCHANGED gate
  <2>1. UNCHANGED <<pool, seen, place, estimate, pc, open>>
    BY <1>11 DEF AppendStep, AppendBegin, Rewrite, Rename, Write, AppendFails
  <2>2. UNCHANGED <<est, acked>> \/ acked' = Append(acked, adding)
    BY <1>11 DEF AppendStep, AppendBegin, Rewrite, Rename, Write, AppendFails
  <2>3. UNCHANGED <<est, acked>> \/ adding \in Record
    BY <1>11 DEF AppendStep, AppendBegin, Rewrite, Rename, Write, AppendFails, HistoryTypes
  <2> QED BY <2>1, <2>2, <2>3, EstimateKept
<1>12. ASSUME NEW left \in SUBSET Live(slots), Crash(left) PROVE EstimateInv'
  BY <1>2, <1>12 DEF Crash, Lose
<1>13. CASE Restart
  <2>1. /\ UNCHANGED <<pool, seen, place, asked, quoted, needs, since, acked>>
        /\ pc = "down" /\ pc' = "look"
    BY <1>13 DEF Restart, Open
  <2>2. DOMAIN quoted = {} /\ DOMAIN needs = {}
    BY <2>1 DEF EstimateInv
  <2>3. EstimateTypes' /\ Current'
    BY <2>1, <2>2 DEF EstimateInv, EstimateTypes, Current, Busy
  <2> QED BY <2>1, <2>2, <2>3 DEF EstimateInv
<1>14. CASE UNCHANGED vars
  BY <1>14, EstimateKept DEF vars, history
<1> QED BY <1>8, <1>9, <1>10, <1>11, <1>12, <1>13, <1>14 DEF Next

(* Hints follow the queue *)
Waits == {"queued", "missed"}
Waiting(p, r) == {j \in Job : jobs[j] \in Waits /\ PoolOf[j] = p /\ RefOf[j] = r}
Handled(p, r) == IF consuming[p] = r THEN 1 ELSE 0

QueueInv ==
    /\ IsFiniteSet({j \in Job : jobs[j] \in Waits})
    /\ \A s \in Slot : slots[s].job \in Job => jobs[slots[s].job] \notin {"new", "queued", "missed"}
HintsFollow ==
    \A p \in Pool : \A r \in Ref :
        hints[p][r] <= Cardinality(Waiting(p, r)) + Handled(p, r) + repeats

Typed == HistoryTypes /\ GateTypes /\ HintsBounded /\ EstimateInv

(* Finitely many jobs wait. *)
LEMMA WaitingIsFinite ==
    ASSUME QueueInv, NEW p \in Pool, NEW r \in Ref
    PROVE  IsFiniteSet(Waiting(p, r)) /\ Cardinality(Waiting(p, r)) \in Nat
<1>1. Waiting(p, r) \in SUBSET {j \in Job : jobs[j] \in Waits}
  BY DEF Waiting
<1> QED BY <1>1, FS_Subset, FS_CardinalityType DEF QueueInv

(* No step notes more workflows than the limit. *)
LEMMA BoundedStep ==
    ASSUME HistoryAssumption, GateAssumption, Typed, [Next]_vars
    PROVE  HintsBounded'
<1> USE DEF gate, starter, estimate, ToSchedule
<1>1. \A j \in Job : PoolOf[j] \in Pool /\ RefOf[j] \in Ref
  BY RecordFields DEF Job
<1>2. hints \in [Pool -> Hints] /\ pool \in Pool
  BY DEF Typed, GateTypes, Hints
<1>3. \A p \in Pool : hints[p] \in Hints /\ Bounded(hints[p])
  BY <1>2 DEF Typed, HintsBounded
<1>4. ASSUME NEW p \in Pool, NEW h, Bounded(h), hints' = [hints EXCEPT ![p] = h] PROVE HintsBounded'
  <2>1. \A q \in Pool : hints'[q] = h \/ hints'[q] = hints[q]
    BY <1>2, <1>4
  <2>2. \A q \in Pool : Bounded(hints'[q])
    BY <1>3, <1>4, <2>1
  <2> QED BY <2>2 DEF HintsBounded, Bounded, Hinted
<1>5. CASE UNCHANGED hints
  BY <1>3, <1>5 DEF HintsBounded, Bounded, Hinted
<1>6. ASSUME NEW j \in Job, NoteQueued(j) PROVE HintsBounded'
  <2>1. PICK h \in Expired(hints[PoolOf[j]]) : hints' = [hints EXCEPT ![PoolOf[j]] = Noted(h, RefOf[j])]
    BY <1>6 DEF NoteQueued
  <2>2. h \in Hints /\ Bounded(h)
    BY <1>1, <1>3, ExpiredHints, FewerHints
  <2>3. Bounded(Noted(h, RefOf[j]))
    BY <1>1, <2>2, BoundedNoted
  <2> QED BY <1>1, <1>4, <2>1, <2>3
<1>7. ASSUME NEW h \in Expired(hints[pool]), Estimate(h) PROVE HintsBounded'
  <2>1. Bounded(h)
    BY <1>2, <1>3, ExpiredHints, FewerHints
  <2> QED BY <1>2, <1>4, <1>7, <2>1 DEF Estimate
<1>8. CASE Start
  BY <1>5, <1>7, <1>8 DEF Start, Ungated, Look, Quote, Charge, Admit, Hold, Reserve, Store, GiveUp, Rest
<1>9. ASSUME NEW p \in Pool, Consume(p) PROVE HintsBounded'
  <2>1. consuming[p] \in Ref
    BY <1>9 DEF Consume, Typed, GateTypes
  <2>2. Bounded(Consumed(hints[p], consuming[p]))
    BY <1>3, <2>1, ConsumedHints, FewerHints
  <2> QED BY <1>4, <1>9, <2>2 DEF Consume
<1>10. CASE Listen
  BY <1>5, <1>6, <1>9, <1>10 DEF Listen, Queue, QueueAgain, Cancel, Claim, ClaimUnknown, ClaimAgain
<1>11. ASSUME NEW left \in SUBSET Live(slots), Crash(left) PROVE HintsBounded'
  <2>1. hints' = NoHints
    BY <1>11 DEF Crash
  <2>2. \A p \in Pool : Hinted(hints'[p]) = {}
    BY <2>1 DEF NoHints, Hinted
  <2>3. \A p \in Pool : Bounded(hints'[p])
    BY <2>2, FS_EmptySet DEF Bounded, GateAssumption
  <2> QED BY <2>3 DEF HintsBounded, Bounded, Hinted
<1> QED BY <1>5, <1>8, <1>10, <1>11 DEF Next, vars, Exit, Restart

(* A runner's job is never one that waits. *)
LEMMA QueueStep ==
    ASSUME HistoryAssumption, GateAssumption, Typed, QueueInv, [Next]_vars
    PROVE  QueueInv'
<1> USE DEF gate, starter, estimate, ToSchedule, Waits
<1> DEFINE Queued == {j \in Job : jobs[j] \in Waits}
<1>1. /\ jobs \in [Job -> {"new", "queued", "started", "done", "missed"}] /\ slots \in [Slot -> Runner]
      /\ IsFiniteSet(Queued) /\ Junk \notin Job /\ NoRunner.job = Junk
      /\ \A s \in Slot : slots[s].job \in Job => jobs[slots[s].job] \notin {"new", "queued", "missed"}
  BY RecordFields DEF Typed, GateTypes, QueueInv, Job, NoRunner
<1>2. ASSUME UNCHANGED jobs, \A s \in Slot : slots'[s].job \in Job => slots'[s].job = slots[s].job
      PROVE QueueInv'
  BY <1>1, <1>2 DEF QueueInv
<1>3. CASE UNCHANGED <<jobs, slots>>
  BY <1>2, <1>3
<1>4. ASSUME NEW j \in Job, Queue(j) PROVE QueueInv'
  <2>1. jobs[j] = "new" /\ jobs' = [jobs EXCEPT ![j] = "queued"] /\ slots' = slots
    BY <1>4 DEF Queue
  <2>2. Queued' = Queued \cup {j}
    BY <1>1, <2>1
  <2>3. IsFiniteSet(Queued \cup {j})
    BY <1>1, FS_AddElement
  <2>4. \A s \in Slot : slots'[s].job \in Job => jobs'[slots'[s].job] \notin {"new", "queued", "missed"}
    BY <1>1, <2>1
  <2> QED BY <2>2, <2>3, <2>4 DEF QueueInv
<1>5. CASE Start
  <2>1. CASE Store
    <3> DEFINE new == [NoRunner EXCEPT !.state = "idle", !.pool = pool,
                                       !.reserved = IF open THEN Candidate ELSE 0]
    <3>1. jobs' = jobs /\ slots' = [slots EXCEPT ![place] = new]
      BY <2>1 DEF Store, Rest
    <3>2. new.job = Junk
      BY DEF NoRunner
    <3> HIDE DEF new
    <3> QED BY <1>1, <1>2, <3>1, <3>2
  <2> QED BY <1>3, <1>5, <2>1 DEF Start, Ungated, Look, Estimate, Quote, Charge, Admit, Hold, Reserve,
                                 GiveUp, Rest
<1>6. ASSUME NEW s \in Slot, NEW j \in Job, Claim(s, j) PROVE QueueInv'
  <2>1. /\ jobs[j] = "queued" /\ jobs' = [jobs EXCEPT ![j] = "started"]
        /\ slots' = [slots EXCEPT ![s].state = "busy", ![s].ref = RefOf[j], ![s].job = j]
    BY <1>6 DEF Claim
  <2>2. Queued' = Queued \ {j}
    BY <1>1, <2>1
  <2>3. IsFiniteSet(Queued \ {j})
    BY <1>1, FS_RemoveElement
  <2>4. \A t \in Slot : slots'[t].job = IF t = s THEN j ELSE slots[t].job
    BY <1>1, <2>1 DEF Runner
  <2>5. \A t \in Slot : slots'[t].job \in Job => jobs'[slots'[t].job] \notin {"new", "queued", "missed"}
    BY <1>1, <2>1, <2>4
  <2> QED BY <2>2, <2>3, <2>5 DEF QueueInv
<1>7. CASE Listen
  <2>1. ASSUME NEW j \in Job, Cancel(j) \/ ClaimUnknown(j) PROVE QueueInv'
    <3>1. jobs[j] = "queued" /\ jobs' = [jobs EXCEPT ![j] = "missed"] /\ slots' = slots
      BY <2>1 DEF Cancel, ClaimUnknown
    <3>2. Queued' = Queued
      BY <1>1, <3>1
    <3>3. \A s \in Slot : slots'[s].job \in Job => jobs'[slots'[s].job] \notin {"new", "queued", "missed"}
      BY <1>1, <3>1
    <3> QED BY <1>1, <3>2, <3>3 DEF QueueInv
  <2> QED BY <1>3, <1>4, <1>6, <1>7, <2>1 DEF Listen, QueueAgain, ClaimAgain, Consume
<1>8. ASSUME NEW s \in Slot, Exit(s) PROVE QueueInv'
  <2>1. slots' = [slots EXCEPT ![s] = NoRunner]
    BY <1>8 DEF Exit
  <2>2. jobs' = jobs \/ jobs' = [jobs EXCEPT ![slots[s].job] = "done"]
    BY <1>8 DEF Exit
  <2>3. Queued' = Queued
    BY <1>1, <2>2
  <2>4. \A t \in Slot : slots'[t].job \in Job => slots'[t].job = slots[t].job
    BY <1>1, <2>1
  <2>5. \A t \in Slot : slots'[t].job \in Job => jobs'[slots'[t].job] \notin {"new", "queued", "missed"}
    BY <1>1, <2>2, <2>4
  <2> QED BY <1>1, <2>3, <2>5 DEF QueueInv
<1>9. ASSUME NEW left \in SUBSET Live(slots), Crash(left) PROVE QueueInv'
  <2>1. /\ jobs' = [j \in Job |-> IF jobs[j] = "started" THEN "done" ELSE jobs[j]]
        /\ slots' = [s \in Slot |-> IF s \notin left THEN NoRunner
                                 ELSE [NoRunner EXCEPT !.state = "busy", !.pool = slots[s].pool]]
    BY <1>9 DEF Crash
  <2>2. Queued' = Queued
    BY <1>1, <2>1
  <2>3. \A s \in Slot : slots'[s].job = Junk
    BY <2>1 DEF NoRunner
  <2> QED BY <1>1, <2>2, <2>3 DEF QueueInv
<1>10. CASE Restart \/ (AppendStep /\ UNCHANGED gate) \/ UNCHANGED vars
  BY <1>3, <1>10 DEF Restart, vars
<1> QED BY <1>5, <1>7, <1>8, <1>9, <1>10 DEF Next

(* No step makes the hints overtake the queue and the repeated messages:   *)
(* a claim moves one job from those that wait to the one that is    *)
(* being handled, and its hint goes last.                                  *)
LEMMA FollowStep ==
    ASSUME HistoryAssumption, GateAssumption, Typed, QueueInv, HintsFollow, [Next]_vars
    PROVE  HintsFollow'
<1> USE DEF gate, starter, estimate, ToSchedule, Waits
<1>1. \A j \in Job : PoolOf[j] \in Pool /\ RefOf[j] \in Ref
  BY RecordFields DEF Job
<1>2. /\ hints \in [Pool -> Hints] /\ pool \in Pool /\ consuming \in [Pool -> Ref \cup {NoRef}]
      /\ jobs \in [Job -> {"new", "queued", "started", "done", "missed"}] /\ repeats \in Nat /\ MaxHints \in Nat
      /\ NoRef \notin Ref
  BY DEF Typed, GateTypes, Hints, GateAssumption
<1>3. \A p \in Pool : hints[p] \in Hints /\ \A r \in Ref : hints[p][r] \in Nat
  BY <1>2 DEF Hints
<1>4. \A p \in Pool, r \in Ref : IsFiniteSet(Waiting(p, r)) /\ Cardinality(Waiting(p, r)) \in Nat
  BY WaitingIsFinite
<1>5. ASSUME \A p \in Pool, r \in Ref : hints'[p][r] <= hints[p][r] /\ hints'[p][r] \in Nat,
             UNCHANGED <<consuming, repeats>>, \A p \in Pool, r \in Ref : Waiting(p, r)' = Waiting(p, r)
      PROVE HintsFollow'
  <2> SUFFICES ASSUME NEW p \in Pool, NEW r \in Ref
               PROVE  hints'[p][r] <= Cardinality(Waiting(p, r)') + Handled(p, r)' + repeats'
    BY <1>5 DEF HintsFollow
  <2>1. hints[p][r] <= Cardinality(Waiting(p, r)) + Handled(p, r) + repeats
    BY DEF HintsFollow
  <2>2. Handled(p, r)' = Handled(p, r) /\ Handled(p, r) \in Nat
    BY <1>5 DEF Handled
  <2> QED BY <1>2, <1>3, <1>4, <1>5, <2>1, <2>2
<1>7. CASE UNCHANGED <<hints, consuming, repeats, jobs>>
  BY <1>3, <1>5, <1>7 DEF Waiting
<1>8. ASSUME NEW h \in Expired(hints[pool]), Estimate(h), UNCHANGED <<consuming, repeats, jobs>>
      PROVE  HintsFollow'
  <2>1. h \in Hints /\ \A r \in Ref : h[r] <= hints[pool][r] /\ h[r] \in Nat
    BY <1>2, <1>3, ExpiredHints DEF Hints
  <2>2. \A p \in Pool, r \in Ref : hints'[p][r] <= hints[p][r] /\ hints'[p][r] \in Nat
    <3>1. hints' = [hints EXCEPT ![pool] = h]
      BY <1>8 DEF Estimate
    <3>2. \A p \in Pool : hints'[p] = IF p = pool THEN h ELSE hints[p]
      BY <1>2, <3>1
    <3> QED BY <1>3, <2>1, <3>2
  <2> QED BY <1>5, <1>8, <2>2 DEF Waiting
<1>9. CASE Start
  BY <1>7, <1>8, <1>9 DEF Start, Ungated, Look, Estimate, Quote, Charge, Admit, Hold, Reserve, Store,
                          GiveUp, Rest
<1>10. ASSUME NEW j \in Job, Queue(j) PROVE HintsFollow'
  <2> DEFINE p == PoolOf[j]
             ref == RefOf[j]
  <2>1. PICK h \in Expired(hints[p]) : hints' = [hints EXCEPT ![p] = Noted(h, ref)]
    BY <1>10 DEF Queue, NoteQueued
  <2>2. /\ h \in Hints /\ \A r \in Ref : h[r] <= hints[p][r] /\ h[r] \in Nat
        /\ Noted(h, ref) \in Hints
        /\ \A r \in Ref : Noted(h, ref)[r] <= h[r] + (IF r = ref THEN 1 ELSE 0)
    BY <1>1, <1>3, ExpiredHints, NotedHints DEF Hints
  <2>3. /\ jobs[j] = "new" /\ jobs' = [jobs EXCEPT ![j] = "queued"]
        /\ UNCHANGED <<consuming, repeats>>
    BY <1>10 DEF Queue
  <2> SUFFICES ASSUME NEW q \in Pool, NEW r \in Ref
               PROVE  hints'[q][r] <= Cardinality(Waiting(q, r)') + Handled(q, r)' + repeats'
    BY DEF HintsFollow
  <2>4. hints[q][r] <= Cardinality(Waiting(q, r)) + Handled(q, r) + repeats
    BY <1>10 DEF HintsFollow
  <2>5. Handled(q, r)' = Handled(q, r) /\ Handled(q, r) \in Nat
    BY <2>3 DEF Handled
  <2>6. CASE q = p /\ r = ref
    <3>1. Waiting(q, r)' = Waiting(q, r) \cup {j} /\ j \notin Waiting(q, r)
      BY <1>2, <2>3, <2>6 DEF Waiting
    <3>2. Cardinality(Waiting(q, r)') = Cardinality(Waiting(q, r)) + 1
      BY <1>4, <3>1, FS_AddElement
    <3>3. hints'[q][r] = Noted(h, ref)[r] /\ Noted(h, ref)[r] <= h[r] + 1
      BY <1>2, <2>1, <2>2, <2>6
    <3>4. Noted(h, ref)[r] \in Nat /\ h[r] \in Nat /\ h[r] <= hints[q][r]
      BY <1>2, <2>2, <2>6 DEF Hints
    <3> HIDE DEF p, ref
    <3> QED BY <1>2, <1>3, <1>4, <2>3, <2>4, <2>5, <3>2, <3>3, <3>4
  <2>7. CASE ~(q = p /\ r = ref)
    <3>1. Waiting(q, r)' = Waiting(q, r)
      BY <1>2, <2>3, <2>7 DEF Waiting
    <3>2. hints'[q][r] <= hints[q][r] /\ hints'[q][r] \in Nat
      <4>1. CASE q = p
        <5>1. hints'[q] = Noted(h, ref) /\ r # ref
          BY <1>2, <2>1, <2>7, <4>1
        <5>2. Noted(h, ref)[r] <= h[r] + 0 /\ Noted(h, ref)[r] \in Nat
          BY <1>2, <2>2, <5>1 DEF Hints
        <5> QED BY <1>3, <2>2, <4>1, <5>1, <5>2
      <4>2. CASE q # p
        BY <1>2, <1>3, <2>1, <4>2
      <4> QED BY <4>1, <4>2
    <3> QED BY <1>2, <1>3, <1>4, <2>3, <2>4, <2>5, <3>1, <3>2
  <2> QED BY <2>6, <2>7
<1>11. ASSUME NEW j \in Job, QueueAgain(j) PROVE HintsFollow'
  <2> DEFINE p == PoolOf[j]
             ref == RefOf[j]
  <2>1. PICK h \in Expired(hints[p]) : hints' = [hints EXCEPT ![p] = Noted(h, ref)]
    BY <1>11 DEF QueueAgain, NoteQueued
  <2>2. /\ h \in Hints /\ \A r \in Ref : h[r] <= hints[p][r] /\ h[r] \in Nat
        /\ Noted(h, ref) \in Hints
        /\ \A r \in Ref : Noted(h, ref)[r] <= h[r] + (IF r = ref THEN 1 ELSE 0)
    BY <1>1, <1>3, ExpiredHints, NotedHints DEF Hints
  <2>3. UNCHANGED <<jobs, consuming>> /\ repeats' = repeats + 1
    BY <1>11 DEF QueueAgain
  <2> SUFFICES ASSUME NEW q \in Pool, NEW r \in Ref
               PROVE  hints'[q][r] <= Cardinality(Waiting(q, r)') + Handled(q, r)' + repeats'
    BY DEF HintsFollow
  <2>4. hints[q][r] <= Cardinality(Waiting(q, r)) + Handled(q, r) + repeats
    BY DEF HintsFollow
  <2>5. Handled(q, r)' = Handled(q, r) /\ Handled(q, r) \in Nat /\ Waiting(q, r)' = Waiting(q, r)
    BY <2>3 DEF Handled, Waiting
  <2>6. hints'[q][r] <= hints[q][r] + 1 /\ hints'[q][r] \in Nat
    <3>1. CASE q = p
      <4>1. hints'[q] = Noted(h, ref)
        BY <1>2, <2>1, <3>1
      <4>2. Noted(h, ref)[r] <= h[r] + 1 /\ Noted(h, ref)[r] \in Nat
        BY <1>2, <2>2 DEF Hints
      <4> QED BY <1>3, <2>2, <3>1, <4>1, <4>2
    <3>2. CASE q # p
      BY <1>2, <1>3, <2>1, <3>2
    <3> QED BY <3>1, <3>2
  <2> QED BY <1>2, <1>3, <1>4, <2>3, <2>4, <2>5, <2>6
<1>12. ASSUME NEW s \in Slot, ClaimAgain(s) PROVE HintsFollow'
  <2>1. /\ UNCHANGED <<jobs, hints>> /\ repeats' = repeats + 1
        /\ consuming[slots[s].pool] = NoRef
        /\ consuming' = [consuming EXCEPT ![slots[s].pool] = slots[s].ref]
    BY <1>12 DEF ClaimAgain, Listening
  <2> SUFFICES ASSUME NEW q \in Pool, NEW r \in Ref
               PROVE  hints'[q][r] <= Cardinality(Waiting(q, r)') + Handled(q, r)' + repeats'
    BY DEF HintsFollow
  <2>2. hints[q][r] <= Cardinality(Waiting(q, r)) + Handled(q, r) + repeats
    BY DEF HintsFollow
  <2>3. Waiting(q, r)' = Waiting(q, r)
    BY <2>1 DEF Waiting
  <2>4. Handled(q, r) <= 1 /\ Handled(q, r) \in Nat /\ Handled(q, r)' \in Nat
    BY DEF Handled
  <2> QED BY <1>2, <1>3, <1>4, <2>1, <2>2, <2>3, <2>4
<1>13. ASSUME NEW s \in Slot, NEW j \in Job, Claim(s, j) PROVE HintsFollow'
  <2>1. /\ jobs[j] = "queued" /\ jobs' = [jobs EXCEPT ![j] = "started"]
        /\ consuming[PoolOf[j]] = NoRef /\ consuming' = [consuming EXCEPT ![PoolOf[j]] = RefOf[j]]
        /\ hints' = hints /\ repeats' = repeats
    BY <1>13 DEF Claim, Listening
  <2> SUFFICES ASSUME NEW q \in Pool, NEW r \in Ref
               PROVE  hints[q][r] <= Cardinality(Waiting(q, r)') + Handled(q, r)' + repeats
    BY <2>1 DEF HintsFollow
  <2>2. hints[q][r] <= Cardinality(Waiting(q, r)) + Handled(q, r) + repeats
    BY <1>13 DEF HintsFollow
  <2>3. CASE q = PoolOf[j] /\ r = RefOf[j]
    <3>1. Waiting(q, r)' = Waiting(q, r) \ {j} /\ j \in Waiting(q, r)
      BY <1>2, <2>1, <2>3 DEF Waiting
    <3>2. Cardinality(Waiting(q, r)') = Cardinality(Waiting(q, r)) - 1
      BY <1>4, <3>1, FS_RemoveElement
    <3>3. Handled(q, r) = 0 /\ Handled(q, r)' = 1
      BY <1>1, <1>2, <2>1, <2>3 DEF Handled
    <3> QED BY <1>2, <1>3, <1>4, <2>2, <3>2, <3>3
  <2>4. CASE ~(q = PoolOf[j] /\ r = RefOf[j])
    <3>1. Waiting(q, r)' = Waiting(q, r)
      BY <1>2, <2>1, <2>4 DEF Waiting
    <3>2. Handled(q, r)' = Handled(q, r)
      BY <1>1, <1>2, <2>1, <2>4 DEF Handled
    <3> QED BY <2>2, <3>1, <3>2
  <2> QED BY <2>3, <2>4
<1>14. ASSUME NEW p \in Pool, Consume(p) PROVE HintsFollow'
  <2> DEFINE ref == consuming[p]
             h == Consumed(hints[p], ref)
  <2>1. /\ ref \in Ref /\ hints' = [hints EXCEPT ![p] = h]
        /\ consuming' = [consuming EXCEPT ![p] = NoRef] /\ jobs' = jobs /\ repeats' = repeats
    BY <1>2, <1>14 DEF Consume
  <2>2. /\ h \in Hints /\ \A r \in Ref : r # ref => h[r] = hints[p][r]
        /\ h[ref] = 0 \/ h[ref] = hints[p][ref] - 1
    BY <1>3, <2>1, ConsumedHints
  <2> HIDE DEF h
  <2> SUFFICES ASSUME NEW q \in Pool, NEW r \in Ref
               PROVE  hints'[q][r] <= Cardinality(Waiting(q, r)) + Handled(q, r)' + repeats
    BY <2>1 DEF HintsFollow, Waiting
  <2>3. hints[q][r] <= Cardinality(Waiting(q, r)) + Handled(q, r) + repeats
    BY <1>14 DEF HintsFollow
  <2>4. CASE q = p
    <3>1. Handled(q, r)' = 0 /\ Handled(q, r) = IF r = ref THEN 1 ELSE 0
      BY <1>2, <2>1, <2>4 DEF Handled
    <3>2. hints'[q] = h
      BY <1>2, <2>1, <2>4
    <3>3. h[r] = 0 \/ h[r] = hints[q][r] - Handled(q, r)
      BY <1>3, <2>2, <2>4, <3>1
    <3> QED BY <1>2, <1>3, <1>4, <2>3, <3>1, <3>2, <3>3
  <2>5. CASE q # p
    <3>1. Handled(q, r)' = Handled(q, r) /\ hints'[q] = hints[q]
      BY <1>2, <2>1, <2>5 DEF Handled
    <3> QED BY <2>3, <3>1
  <2> QED BY <2>4, <2>5
<1>15. CASE Listen
  <2>1. ASSUME NEW j \in Job, Cancel(j) \/ ClaimUnknown(j) PROVE HintsFollow'
    <3>1. /\ UNCHANGED <<hints, consuming, repeats>>
          /\ jobs[j] = "queued" /\ jobs' = [jobs EXCEPT ![j] = "missed"]
      BY <2>1 DEF Cancel, ClaimUnknown
    <3>2. \A p \in Pool, r \in Ref : Waiting(p, r)' = Waiting(p, r)
      BY <1>2, <3>1 DEF Waiting
    <3> QED BY <1>3, <1>5, <3>1, <3>2
  <2> QED BY <1>10, <1>11, <1>12, <1>13, <1>14, <1>15, <2>1 DEF Listen
<1>16. ASSUME NEW s \in Slot, Exit(s) PROVE HintsFollow'
  <2>1. UNCHANGED <<hints, consuming, repeats>>
    BY <1>16 DEF Exit
  <2>2. jobs' = jobs \/ (slots[s].job # Junk /\ jobs' = [jobs EXCEPT ![slots[s].job] = "done"])
    BY <1>16 DEF Exit
  <2>3. slots[s].job \in Job => jobs[slots[s].job] \notin Waits
    BY DEF QueueInv
  <2>4. \A k \in Job : jobs'[k] \in Waits <=> jobs[k] \in Waits
    BY <1>2, <2>2, <2>3
  <2>5. \A p \in Pool, r \in Ref : Waiting(p, r)' = Waiting(p, r)
    BY <2>4 DEF Waiting
  <2> QED BY <1>3, <1>5, <2>1, <2>5
<1>17. ASSUME NEW left \in SUBSET Live(slots), Crash(left) PROVE HintsFollow'
  <2>1. /\ jobs' = [j \in Job |-> IF jobs[j] = "started" THEN "done" ELSE jobs[j]]
        /\ hints' = NoHints /\ repeats' = repeats
    BY <1>17 DEF Crash
  <2>2. \A p \in Pool, r \in Ref : Waiting(p, r)' = Waiting(p, r) /\ hints'[p][r] = 0
    BY <1>2, <2>1 DEF Waiting, NoHints
  <2>3. \A p \in Pool, r \in Ref : hints'[p][r] <= Cardinality(Waiting(p, r)') + Handled(p, r)' + repeats'
    BY <1>2, <1>4, <2>1, <2>2 DEF Handled
  <2> QED BY <2>3 DEF HintsFollow
<1>18. CASE Restart \/ (AppendStep /\ UNCHANGED gate) \/ UNCHANGED vars
  BY <1>7, <1>18 DEF Restart, vars
<1> QED BY <1>9, <1>15, <1>16, <1>17, <1>18 DEF Next

(* The inductive invariant *)
IInv == Typed /\ QueueInv /\ HintsFollow

(* It holds at first, ... *)
LEMMA InitIInv ==
    ASSUME HistoryAssumption, GateAssumption, Init
    PROVE  IInv
<1>1. HistoryTypes
  <2>1. OnDisk \in Seq(Record) /\ <<>> \in Seq(Record)
    BY DEF HistoryAssumption
  <2>2. Ended(file) /\ tmp \in File /\ tmp.ended
    BY <2>1, FileOfType DEF Init, HistoryInit
  <2>3. Newest(ReplayWindow, OnDisk) \in Seq(Record)
    <3>1. FileOf(OnDisk) \in File /\ ReplayWindow \in Nat /\ Decoded(FileOf(OnDisk)) = OnDisk
      BY <2>1, FileOfType, DecodedFileOf, RecordFields
    <3>2. ReplayTail(FileOf(OnDisk), ReplayWindow) \in Seq(Record)
      BY <3>1, ReplayTailType
    <3> QED BY <3>1, <3>2 DEF ReplayTail
  <2>4. est \in [Key -> Average]
    BY <2>3, AveragesType DEF Init, HistoryInit
  <2> QED BY <2>1, <2>2, <2>4 DEF Init, HistoryInit, HistoryTypes
<1>2. GateTypes
  <2>1. 0 \in 0..MaxHints
    BY DEF GateAssumption
  <2> QED BY <2>1, RecordFields, RunnerFacts DEF Init, GateTypes, NoHints
<1>3. \A p \in Pool, r \in Ref : hints[p][r] = 0
  BY DEF Init, NoHints
<1>4. HintsBounded
  <2>1. \A p \in Pool : Hinted(hints[p]) = {}
    BY <1>3 DEF Hinted
  <2> QED BY <2>1, FS_EmptySet DEF HintsBounded, Bounded, GateAssumption
<1>5. QueueInv
  <2>1. \A j \in Job : jobs[j] = "new"
    BY DEF Init
  <2>2. {j \in Job : jobs[j] \in Waits} = {}
    BY <2>1 DEF Waits
  <2>3. \A s \in Slot : slots[s].job = Junk
    BY DEF Init, Nobody, NoRunner
  <2>4. Junk \notin Job
    BY RecordFields DEF Job
  <2> QED BY <2>2, <2>3, <2>4, FS_EmptySet DEF QueueInv
<1>6. HintsFollow
  <2>1. \A p \in Pool, r \in Ref : Cardinality(Waiting(p, r)) \in Nat
    BY <1>5, WaitingIsFinite
  <2> QED BY <1>3, <2>1 DEF HintsFollow, Handled, Init
<1>7. EstimateInv
  <2>1. /\ place = NextRunner /\ asked = {} /\ quoted = NoQuotes /\ needs = NoQuotes /\ since = 0
        /\ pc = "look" /\ DOMAIN NoQuotes = {} /\ NoQuotes \in [DOMAIN NoQuotes -> Nat]
    BY DEF Init, NoQuotes
  <2>2. Len(acked) \in Nat
    BY <1>1 DEF HistoryTypes
  <2> QED BY <2>1, <2>2, FS_EmptySet DEF EstimateInv, EstimateTypes, Current
<1> QED BY <1>1, <1>2, <1>4, <1>5, <1>6, <1>7 DEF IInv, Typed

(* ... every step keeps it, ... *)
LEMMA IInvStep ==
    ASSUME HistoryAssumption, GateAssumption, IInv, [Next]_vars
    PROVE  IInv'
<1>1. Typed /\ QueueInv /\ HintsFollow
  BY DEF IInv
<1>2. HistoryTypes'
  BY <1>1, GateTypesToHistory, HistoryTypesStep DEF Typed
<1>3. GateTypes'
  BY <1>1, GateTypesStep DEF Typed
<1>4. HintsBounded'
  BY <1>1, BoundedStep
<1>5. QueueInv' /\ HintsFollow'
  BY <1>1, QueueStep, FollowStep
<1>6. EstimateInv'
  BY <1>1, EstimateStep DEF Typed
<1> QED BY <1>2, <1>3, <1>4, <1>5, <1>6 DEF IInv, Typed

(* ... and so it always holds. *)
LEMMA GateInvariant == Spec => []IInv
<1>1. Init => IInv
  BY InitIInv, HistoryAssumption, GateAssumption
<1>2. IInv /\ [Next]_vars => IInv'
  BY IInvStep, HistoryAssumption, GateAssumption
<1> QED BY <1>1, <1>2, PTL DEF Spec

(* Type correctness: every variable of the history and of the gate keeps   *)
(* its type; in particular a file whose last line has no newline has a     *)
(* last line, and averages and reservations are numbers.                   *)
THEOREM TypesHold == Spec => [](HistoryTypes /\ GateTypes /\ EstimateTypes)
<1>1. IInv => HistoryTypes /\ GateTypes /\ EstimateTypes
  BY DEF IInv, Typed, EstimateInv
<1> QED BY <1>1, GateInvariant, PTL

(* The hints of noteQueued and consumeQueuedRef follow the queue: no more  *)
(* workflows than maxQueuedRefs, no count out of its bounds, and none      *)
(* above the jobs that wait or were missed, the claim that is being        *)
(* handled, and the repeated messages.                                     *)
THEOREM HintsFollowTheQueue == Spec => []HintsWithinQueue
<1>1. IInv => HintsWithinQueue
  BY DEF IInv, Typed, GateTypes, HintsBounded, Bounded, HintsFollow, HintsWithinQueue, Waiting, Handled,
         Waits
<1> QED BY <1>1, GateInvariant, PTL

-----------------------------------------------------------------------------
(* Replay *)
(* As long as nothing was torn the file ends with a newline, so the next   *)
(* line is a line of its own.                                              *)
ReplayInv ==
    /\ tears = 0 => file.ended
    /\ RestartKeepsEstimates

(* A record that is written whole is decoded last. *)
LEMMA DecodedWritten ==
    ASSUME HistoryAssumption, NEW f \in File, f.ended, NEW r \in Record
    PROVE  Decoded(f) \in Seq(Record) /\ Decoded(Written(f, r, "all")) = Append(Decoded(f), r)
<1> DEFINE l == [rec |-> r, size |-> Size[r]]
           w == Written(f, r, "all")
<1>1. l \in Line /\ f.lines \in Seq(Line)
  BY DEF Line, File, HistoryAssumption
<1>2. w.lines = Append(f.lines, l)
  BY DEF Written
<1>3. l.rec = r /\ r # Junk
  BY RecordFields
<1> HIDE DEF l, w
<1>4. Decoded(f) \in Seq(Record) /\ Decoded(w) = Kept(Decoded(f), l)
  BY <1>1, <1>2, DecodedAppend
<1> QED BY <1>3, <1>4 DEF Kept, w

(* The averages in memory and the file change together. *)
LEMMA ReplayStep ==
    ASSUME HistoryAssumption, GateAssumption, HistoryTypes, GateTypes, ReplayInv, [Next]_vars
    PROVE  ReplayInv'
<1>1. /\ file \in File /\ tmp \in File /\ tmp.ended /\ tears \in Nat /\ ReplayWindow \in Nat
      /\ est \in [Key -> Average]
  BY RecordFields DEF HistoryTypes, Ended
<1>2. CASE UNCHANGED <<file, est, open, tears, rotated>>
  BY <1>2 DEF ReplayInv, RestartKeepsEstimates
<1>3. CASE tears' # 0
  BY <1>3 DEF ReplayInv, RestartKeepsEstimates
<1>4. CASE Write
  <2>1. adding \in Record /\ file' = Written(file, adding, "all") /\ est' = Absorb(est, adding)
    BY <1>4 DEF Write, HistoryTypes
  <2>2. UNCHANGED <<open, tears, rotated>>
    BY <1>4 DEF Write
  <2>3. file'.ended
    BY <2>1, WrittenType DEF HistoryTypes
  <2>4. file' \in File
    BY <2>1, WrittenType DEF HistoryTypes, Ended
  <2> SUFFICES ASSUME open, tears = 0, ~rotated, Len(Decoded(file')) <= ReplayWindow
               PROVE  est' = Averages(ReplayTail(file', ReplayWindow))
    BY <2>2, <2>3 DEF ReplayInv, RestartKeepsEstimates
  <2>5. file.ended
    BY DEF ReplayInv
  <2>6. Decoded(file) \in Seq(Record) /\ Decoded(file') = Append(Decoded(file), adding)
    BY <1>1, <2>1, <2>5, DecodedWritten
  <2>7. Len(Decoded(file)) <= ReplayWindow
    BY <1>1, <2>6
  <2>8. /\ ReplayTail(file, ReplayWindow) = Decoded(file)
        /\ ReplayTail(file', ReplayWindow) = Decoded(file')
    BY <1>1, <2>4, <2>7, ReplayTailType
  <2>9. est = Averages(Decoded(file))
    BY <2>7, <2>8 DEF ReplayInv, RestartKeepsEstimates
  <2> QED BY <2>1, <2>6, <2>8, <2>9, AveragesAppend
<1>5. CASE Rename
  BY <1>1, <1>5 DEF Rename, ReplayInv, RestartKeepsEstimates
<1>6. ASSUME AppendFails PROVE ReplayInv'
  <2>1. (tears' = tears /\ file' = file) \/ tears' > 0
    BY <1>6, CutShortType DEF AppendFails
  <2> QED BY <1>2, <1>3, <1>6, <2>1 DEF AppendFails
<1>7. ASSUME Lose PROVE ReplayInv'
  <2>1. (tears' = tears /\ file' = file) \/ tears' # 0
    BY <1>1, <1>7, CutShortType DEF Lose, CutShort
  <2>2. open' = FALSE
    BY <1>7 DEF Lose
  <2> QED BY <1>3, <2>1, <2>2 DEF ReplayInv, RestartKeepsEstimates
<1>8. CASE Open
  BY <1>8 DEF Open, ReplayInv, RestartKeepsEstimates
<1>9. CASE AppendStep
  BY <1>2, <1>4, <1>5, <1>6, <1>9 DEF AppendStep, AppendBegin, Rewrite
<1> QED
  <2>1. UNCHANGED history \/ (\E r \in Record : Complete(r)) \/ AppendStep \/ Lose \/ Open
    BY GateTypesToHistory
  <2> QED BY <1>2, <1>7, <1>8, <1>9, <2>1 DEF history, Complete

(* A restart changes no prediction: the averages in memory are those that  *)
(* Open computes from the file, whatever records are appended, fail or are *)
(* lost on the way.                                                        *)
THEOREM ReplayAgrees == Spec => []RestartKeepsEstimates
<1>1. Init => ReplayInv
  <2> SUFFICES ASSUME Init PROVE ReplayInv
    OBVIOUS
  <2>1. OnDisk \in Seq(Record)
    BY HistoryAssumption DEF HistoryAssumption
  <2>2. file = FileOf(OnDisk) /\ est = Averages(Newest(ReplayWindow, OnDisk))
    BY DEF Init, HistoryInit
  <2>3. file.ended /\ Decoded(file) = OnDisk
    BY <2>1, <2>2, HistoryAssumption, DecodedFileOf DEF FileOf
  <2> QED BY <2>2, <2>3 DEF ReplayInv, RestartKeepsEstimates, ReplayTail
<1>2. IInv /\ ReplayInv /\ [Next]_vars => ReplayInv'
  BY ReplayStep, HistoryAssumption, GateAssumption DEF IInv, Typed
<1>3. ReplayInv => RestartKeepsEstimates
  BY DEF ReplayInv
<1> QED BY <1>1, <1>2, <1>3, GateInvariant, PTL DEF Spec

-----------------------------------------------------------------------------
(* Admission *)
(* The gate charges each runner for at least what any of the workflows it  *)
(* asked about needs.                                                      *)
LEMMA AdmissionCovers ==
    ASSUME GateAssumption, GateTypes, EstimateInv, AllCharged,
           NEW n \in Nat, Used <= n, NEW take \in Takes
    PROVE  Growths(take) <= n
<1> DEFINE cand == Candidate
           L == Live(seen)
           f == [s \in L |-> Growth(Need(s, take), seen[s])]
           g == [s \in L |-> Growth(Charged(seen[s], NeedOf(s), pool, cand), seen[s])]
<1>1. pool \in Pool /\ seen \in [Slot -> Runner] /\ quoted \in [DOMAIN quoted -> Nat]
  BY DEF GateTypes, EstimateInv, EstimateTypes
<1>2. cand \in Nat /\ \A r \in DOMAIN quoted : quoted[r] <= cand
  BY CandidateBounds DEF EstimateInv, EstimateTypes, AllCharged
<1> HIDE DEF cand
<1>3. take \in [Unclaimed \cup {NextRunner} -> DOMAIN quoted]
  BY DEF Takes
<1>4. \A s \in Unclaimed \cup {NextRunner} : quoted[take[s]] \in Nat /\ quoted[take[s]] <= cand
  BY <1>1, <1>2, <1>3
<1>5. L \in SUBSET Slot /\ IsFiniteSet(L)
  BY FS_Subset DEF Live, GateAssumption
<1>6. ASSUME NEW s \in L PROVE f[s] \in Int /\ g[s] \in Int /\ f[s] <= g[s]
  <2>1. /\ seen[s].current \in Nat /\ seen[s].reserved \in Nat /\ s \in Slot
        /\ seen[s].state \in {"idle", "busy"}
    BY <1>1 DEF Live, Runner
  <2>2. /\ Need(s, take) \in Nat /\ Charged(seen[s], NeedOf(s), pool, cand) \in Nat
        /\ Need(s, take) <= Charged(seen[s], NeedOf(s), pool, cand)
    <3>1. CASE seen[s].state = "busy"
      <4>1. s \notin Unclaimed /\ s \in DOMAIN needs
        BY <2>1, <3>1 DEF Unclaimed, AllCharged, Busy
      <4>2. needs[s] \in Nat
        BY <4>1 DEF EstimateInv, EstimateTypes
      <4> QED BY <3>1, <4>1, <4>2 DEF Need, Charged, NeedOf
    <3>2. CASE seen[s].state = "idle" /\ seen[s].pool = pool
      <4>1. s \in Unclaimed
        BY <2>1, <3>2 DEF Unclaimed
      <4> QED BY <1>2, <1>4, <2>1, <3>2, <4>1 DEF Need, Charged, AtLeast
    <3>3. CASE seen[s].state = "idle" /\ seen[s].pool # pool
      <4>1. s \notin Unclaimed
        BY <3>3 DEF Unclaimed
      <4> QED BY <2>1, <3>3, <4>1 DEF Need, Charged
    <3> QED BY <2>1, <3>1, <3>2, <3>3
  <2> QED BY <2>1, <2>2 DEF Growth, AtLeast
<1>7. f \in [L -> Int] /\ g \in [L -> Int] /\ \A s \in L : f[s] <= g[s]
  BY <1>6
<1> HIDE DEF f, g, L
<1>8. SumOf(f) \in Int /\ SumOf(g) \in Int /\ SumOf(f) <= SumOf(g)
  BY <1>5, <1>7, SumIsMonotone
<1>9. Growths(take) = quoted[take[NextRunner]] + SumOf(f)
  BY DEF Growths, f, L
<1>10. Used = cand + SumOf(g)
  BY DEF Used, g, L, cand
<1>11. quoted[take[NextRunner]] \in Nat /\ quoted[take[NextRunner]] <= cand
  BY <1>4
<1> QED BY <1>2, <1>8, <1>9, <1>10, <1>11

(* A start that the gate admits fits: whichever of the workflows the gate  *)
(* asked about the unclaimed runners of the pool and the new one take, the *)
(* growth it was told of for all runners it saw is within the limit; and   *)
(* unless a record was added meanwhile, the history still says so.         *)
THEOREM AdmissionIsConservative == Spec => AdmittedWorkFits
<1>1. ASSUME IInv, [Next]_vars, pc = "charge", pc' = "reserve"
      PROVE  /\ limit' # Unread => \A take \in Takes : Growths(take) <= limit'
             /\ Len(acked) = since => Current
  <2>1. PICK n \in Limits \cup {Unread} : Admit(n)
    BY <1>1 DEF Next, Start, Listen, Ungated, Look, Estimate, Quote, Charge, Admit, Hold, Reserve, Store,
                GiveUp, Rest, Queue, QueueAgain, Cancel, Claim, ClaimUnknown, ClaimAgain, Consume, Exit,
                Crash, Restart, vars, gate, starter
  <2>2. AllCharged /\ limit' = n /\ (n # Unread => n \in Nat /\ Used <= n)
    BY <2>1, GateAssumption DEF Admit, GateAssumption
  <2>3. GateTypes /\ EstimateInv
    BY <1>1 DEF IInv, Typed
  <2>4. limit' # Unread => \A take \in Takes : Growths(take) <= limit'
    BY <2>2, <2>3, AdmissionCovers, GateAssumption
  <2> QED BY <2>3, <2>4 DEF EstimateInv
<1>2. IInv /\ [Next]_vars =>
          (pc = "charge" /\ pc' = "reserve"
              => /\ limit' # Unread => \A take \in Takes : Growths(take) <= limit'
                 /\ Len(acked) = since => Current)
  BY <1>1
<1> QED BY <1>2, GateInvariant, PTL DEF Spec, AdmittedWorkFits

-----------------------------------------------------------------------------
(* Loss *)

(* What a rotation keeps *)
Half == RotateLines \div 2
(* Every record is on file once. *)
NoneTwice(s) == \A p, q \in DOMAIN s : s[p] = s[q] => p = q
(* Acknowledged records are on file in the order of their                  *)
(* acknowledgements.                                                       *)
InOrder(a, s) ==
    \A i, j \in DOMAIN a, p, q \in DOMAIN s : a[i] = s[p] /\ a[j] = s[q] /\ i <= j => p <= q
(* Everything acknowledged up to i is gone, and as many records as a       *)
(* rotation keeps have come since: i made room.                            *)
Past(a, s, i) == Len(s) >= Half /\ \A k \in 1..i : a[k] \notin ToSet(s)
(* What is missing without having made room, of the acknowledged records   *)
(* a, from the lines s                                                     *)
Gone(a, s) == {i \in DOMAIN a : a[i] \notin ToSet(s) /\ ~Past(a, s, i)}

(* A record that is new is appended last, ... *)
LEMMA AppendedRecord ==
    ASSUME NEW a \in Seq(Record), NEW s \in Seq(Record), NEW r \in Record, r \notin ToSet(s)
    PROVE  /\ ToSet(Append(s, r)) = ToSet(s) \cup {r} /\ ToSet(s) \subseteq Record
           /\ NoneTwice(s) => NoneTwice(Append(s, r))
           /\ InOrder(a, s) => InOrder(Append(a, r), s)
           /\ r \notin ToSet(a) /\ InOrder(a, s)
                => InOrder(a, Append(s, r)) /\ InOrder(Append(a, r), Append(s, r))
<1> DEFINE w == Append(s, r)
           b == Append(a, r)
<1>1. /\ Len(w) = Len(s) + 1 /\ w[Len(s) + 1] = r /\ \A p \in DOMAIN s : w[p] = s[p]
      /\ DOMAIN w = 1..(Len(s) + 1) /\ DOMAIN s = 1..Len(s) /\ Len(s) \in Nat
  OBVIOUS
<1>2. /\ b[Len(a) + 1] = r /\ \A p \in DOMAIN a : b[p] = a[p]
      /\ DOMAIN b = 1..(Len(a) + 1) /\ DOMAIN a = 1..Len(a) /\ Len(a) \in Nat
  OBVIOUS
<1>3. \A p \in DOMAIN s : s[p] # r /\ s[p] \in Record
  BY DEF ToSet
<1> HIDE DEF w, b
<1>4. ToSet(w) = ToSet(s) \cup {r} /\ ToSet(s) \subseteq Record
  BY <1>1, <1>3 DEF ToSet
<1>5. NoneTwice(s) => NoneTwice(w)
  BY <1>1, <1>3 DEF NoneTwice
<1>6. InOrder(a, s) => InOrder(b, s)
  BY <1>2, <1>3 DEF InOrder
<1>7. ASSUME r \notin ToSet(a), InOrder(a, s) PROVE InOrder(a, w) /\ InOrder(b, w)
  <2>1. \A i \in DOMAIN a : a[i] # r
    BY <1>7 DEF ToSet
  <2>2. \A i \in DOMAIN a, p \in DOMAIN w : a[i] = w[p] => p \in DOMAIN s /\ a[i] = s[p]
    BY <1>1, <2>1
  <2>3. InOrder(a, w)
    BY <1>7, <2>2 DEF InOrder
  <2>4. \A p \in DOMAIN w : w[p] = r => p = Len(s) + 1
    BY <1>1, <1>3
  <2>5. ASSUME NEW i \in DOMAIN b, NEW j \in DOMAIN b, NEW p \in DOMAIN w, NEW q \in DOMAIN w,
               b[i] = w[p], b[j] = w[q], i <= j
        PROVE  p <= q
    <3>1. CASE j = Len(a) + 1
      BY <1>1, <1>2, <2>4, <2>5, <3>1
    <3>2. CASE j # Len(a) + 1
      BY <1>2, <2>3, <2>5, <3>2 DEF InOrder
    <3> QED BY <3>1, <3>2
  <2> QED BY <2>3, <2>5 DEF InOrder
<1> QED BY <1>4, <1>5, <1>6, <1>7 DEF w, b

(* ... a rotation keeps the last ones, ... *)
LEMMA NewestRecords ==
    ASSUME HistoryAssumption, NEW s \in Seq(Record), NEW w, w = Newest(Half, s)
    PROVE  /\ w \in Seq(Record) /\ Half \in Nat
           /\ Len(w) = IF Len(s) > Half THEN Half ELSE Len(s)
           /\ \A q \in DOMAIN w : /\ q + (Len(s) - Len(w)) \in DOMAIN s
                                  /\ w[q] = s[q + (Len(s) - Len(w))]
           /\ \A p \in DOMAIN s : p > Len(s) - Len(w) => s[p] \in ToSet(w)
           /\ ToSet(w) \subseteq ToSet(s)
<1>0. Half \in Nat /\ Len(s) \in Nat /\ DOMAIN s = 1..Len(s) /\ \A i \in DOMAIN s : s[i] \in Record
  <2>1. Half \in Nat
    BY RecordFields DEF Half
  <2> QED BY <2>1
<1> DEFINE m == IF Len(s) > Half THEN Len(s) - Half + 1 ELSE 1
<1>1. w = SubSeq(s, m, Len(s)) /\ m \in Int /\ m >= 1 /\ m <= Len(s) + 1
      /\ Len(s) - m + 1 = IF Len(s) > Half THEN Half ELSE Len(s)
  BY <1>0 DEF Newest
<1> HIDE DEF m
<1>2. \A i \in m..Len(s) : s[i] \in Record
  BY <1>0, <1>1
<1>3. /\ w \in Seq(Record) /\ Len(w) = IF m <= Len(s) THEN Len(s) - m + 1 ELSE 0
      /\ \A i \in 1..(Len(s) - m + 1) : w[i] = s[m + i - 1]
  BY <1>0, <1>1, <1>2, SubSeqProperties
<1>4. Len(w) = Len(s) - m + 1 /\ DOMAIN w = 1..Len(w) /\ Len(w) \in Nat
  BY <1>0, <1>1, <1>3
<1>5. ASSUME NEW q \in DOMAIN w
      PROVE  q + (Len(s) - Len(w)) \in DOMAIN s /\ w[q] = s[q + (Len(s) - Len(w))]
  <2>1. q \in 1..(Len(s) - m + 1) /\ m + q - 1 = q + (Len(s) - Len(w)) /\ m + q - 1 \in 1..Len(s)
    BY <1>0, <1>1, <1>4
  <2> QED BY <1>0, <1>3, <2>1
<1>6. ASSUME NEW p \in DOMAIN s, p > Len(s) - Len(w) PROVE s[p] \in ToSet(w)
  <2>1. p - (Len(s) - Len(w)) \in DOMAIN w
    BY <1>0, <1>4, <1>6
  <2>2. w[p - (Len(s) - Len(w))] = s[p]
    <3>1. p \in Int /\ Len(s) \in Int /\ Len(w) \in Int
      BY <1>0, <1>4
    <3>2. (p - (Len(s) - Len(w))) + (Len(s) - Len(w)) = p
      BY <3>1
    <3> QED BY <1>5, <2>1, <3>2
  <2> QED BY <2>1, <2>2 DEF ToSet
<1>7. ToSet(w) \subseteq ToSet(s)
  BY <1>5 DEF ToSet
<1> QED BY <1>0, <1>1, <1>3, <1>4, <1>5, <1>6, <1>7

(* ... and keeps them in order. *)
LEMMA NewestKeepsOrder ==
    ASSUME HistoryAssumption, NEW a \in Seq(Record), NEW s \in Seq(Record)
    PROVE  /\ NoneTwice(s) => NoneTwice(Newest(Half, s))
           /\ InOrder(a, s) => InOrder(a, Newest(Half, s))
<1> DEFINE w == Newest(Half, s)
           d == Len(s) - Len(w)
<1>1. /\ \A q \in DOMAIN w : q + d \in DOMAIN s /\ w[q] = s[q + d]
      /\ w \in Seq(Record)
  BY NewestRecords
<1>2. d \in Int /\ \A q \in DOMAIN w : q \in Int
  BY <1>1
<1> HIDE DEF w, d
<1>3. NoneTwice(s) => NoneTwice(w)
  <2> SUFFICES ASSUME NoneTwice(s), NEW p \in DOMAIN w, NEW q \in DOMAIN w, w[p] = w[q] PROVE p = q
    BY DEF NoneTwice
  <2>1. p + d = q + d
    BY <1>1 DEF NoneTwice
  <2> QED BY <1>2, <2>1
<1>4. InOrder(a, s) => InOrder(a, w)
  <2> SUFFICES ASSUME InOrder(a, s), NEW i \in DOMAIN a, NEW j \in DOMAIN a,
                      NEW p \in DOMAIN w, NEW q \in DOMAIN w, a[i] = w[p], a[j] = w[q], i <= j
               PROVE  p <= q
    BY DEF InOrder
  <2>1. p + d <= q + d
    BY <1>1 DEF InOrder
  <2> QED BY <1>2, <2>1
<1> QED BY <1>3, <1>4 DEF w

(* s is what is solid of d *)
Prefix(s, d) == d = s \/ \E r \in Record : d = Append(s, r)

(* What is solid is on file. *)
LEMMA PrefixFacts ==
    ASSUME NEW a \in Seq(Record), NEW s \in Seq(Record), NEW d, Prefix(s, d)
    PROVE  /\ d \in Seq(Record) /\ Len(s) <= Len(d) /\ ToSet(s) \subseteq ToSet(d)
           /\ NoneTwice(d) => NoneTwice(s)
<1>1. CASE d = s
  BY <1>1
<1>2. ASSUME NEW r \in Record, d = Append(s, r)
      PROVE  /\ d \in Seq(Record) /\ Len(s) <= Len(d) /\ ToSet(s) \subseteq ToSet(d)
             /\ NoneTwice(d) => NoneTwice(s)
  <2>1. /\ d \in Seq(Record) /\ Len(s) <= Len(d) /\ DOMAIN s \subseteq DOMAIN d
        /\ \A p \in DOMAIN s : d[p] = s[p]
    BY <1>2
  <2> QED BY <2>1 DEF ToSet, NoneTwice
<1> QED BY <1>1, <1>2 DEF Prefix

(* A record that is appended takes nothing away; one that is swallowed is  *)
(* one more.                                                               *)
LEMMA GoneAfterAppend ==
    ASSUME NEW a \in Seq(Record), NEW s \in Seq(Record), NEW r \in Record, Half \in Nat,
           r \notin ToSet(a), r \notin ToSet(s)
    PROVE  /\ Gone(Append(a, r), Append(s, r)) \subseteq Gone(a, s)
           /\ Gone(Append(a, r), s) \subseteq Gone(a, s) \cup {Len(a) + 1}
<1> DEFINE w == Append(s, r)
           b == Append(a, r)
<1>1. /\ b[Len(a) + 1] = r /\ \A p \in DOMAIN a : b[p] = a[p] /\ a[p] # r
      /\ DOMAIN b = 1..(Len(a) + 1) /\ DOMAIN a = 1..Len(a) /\ Len(a) \in Nat
  BY DEF ToSet
<1>2. ToSet(w) = ToSet(s) \cup {r} /\ Len(w) = Len(s) + 1 /\ Len(s) \in Nat
  BY AppendedRecord
<1> HIDE DEF w, b
<1>3. ASSUME NEW i \in DOMAIN a
      PROVE  Past(a, s, i) => Past(b, s, i) /\ Past(b, w, i)
  <2>1. \A k \in 1..i : k \in DOMAIN a
    BY <1>1
  <2> QED BY <1>1, <1>2, <2>1 DEF Past
<1>4. Gone(b, w) \subseteq Gone(a, s)
  <2> SUFFICES ASSUME NEW i \in Gone(b, w) PROVE i \in Gone(a, s)
    OBVIOUS
  <2>1. i \in DOMAIN b /\ b[i] \notin ToSet(w) /\ ~Past(b, w, i)
    BY DEF Gone
  <2>2. i \in DOMAIN a
    BY <1>1, <1>2, <2>1
  <2> QED BY <1>1, <1>2, <1>3, <2>1, <2>2 DEF Gone
<1>5. Gone(b, s) \subseteq Gone(a, s) \cup {Len(a) + 1}
  <2> SUFFICES ASSUME NEW i \in Gone(b, s), i # Len(a) + 1 PROVE i \in Gone(a, s)
    OBVIOUS
  <2>1. i \in DOMAIN b /\ b[i] \notin ToSet(s) /\ ~Past(b, s, i)
    BY DEF Gone
  <2>2. i \in DOMAIN a
    BY <1>1, <2>1
  <2> QED BY <1>1, <1>3, <2>1, <2>2 DEF Gone
<1> QED BY <1>4, <1>5 DEF w, b

(* What a rotation drops has made room: everything acknowledged before it  *)
(* is dropped, too.                                                        *)
LEMMA GoneAfterRotation ==
    ASSUME HistoryAssumption, NEW a \in Seq(Record), NEW s \in Seq(Record), NEW d, Prefix(s, d),
           InOrder(a, d), \A i \in DOMAIN a : a[i] \in ToSet(d) => a[i] \in ToSet(s)
    PROVE  Gone(a, Newest(Half, d)) \subseteq Gone(a, s)
<1> DEFINE w == Newest(Half, d)
           x == Len(d) - Len(w)
<1>1. /\ d \in Seq(Record) /\ Len(s) <= Len(d) /\ ToSet(s) \subseteq ToSet(d)
      /\ Len(d) \in Nat /\ Len(s) \in Nat /\ DOMAIN a = 1..Len(a) /\ Len(a) \in Nat
  BY PrefixFacts
<1>2. /\ w \in Seq(Record) /\ Half \in Nat /\ Len(w) = IF Len(d) > Half THEN Half ELSE Len(d)
      /\ \A q \in DOMAIN w : q + x \in DOMAIN d /\ w[q] = d[q + x] /\ q + x > x
      /\ \A p \in DOMAIN d : p > x => d[p] \in ToSet(w)
      /\ ToSet(w) \subseteq ToSet(d)
  <2>1. /\ w \in Seq(Record) /\ Half \in Nat /\ Len(w) = IF Len(d) > Half THEN Half ELSE Len(d)
        /\ \A q \in DOMAIN w : q + x \in DOMAIN d /\ w[q] = d[q + x]
        /\ \A p \in DOMAIN d : p > x => d[p] \in ToSet(w)
        /\ ToSet(w) \subseteq ToSet(d)
    BY <1>1, NewestRecords
  <2>2. x \in Int /\ \A q \in DOMAIN w : q \in Int /\ q > 0
    BY <1>1, <2>1
  <2> HIDE DEF x, w
  <2>3. \A q \in DOMAIN w : q + x > x
    BY <2>2
  <2> QED BY <2>1, <2>3
<1>3. x \in Int /\ (x > 0 => Len(w) >= Half) /\ \A p \in DOMAIN d : p \in Int /\ p > 0
  BY <1>1, <1>2
<1> HIDE DEF w, x
<1> SUFFICES ASSUME NEW i \in DOMAIN a, a[i] \notin ToSet(w), a[i] \in ToSet(s) \/ Past(a, s, i)
             PROVE  Past(a, w, i)
  BY DEF Gone, w
<1>4. CASE a[i] \in ToSet(s)
  <2>1. PICK p \in DOMAIN d : d[p] = a[i]
    BY <1>1, <1>4 DEF ToSet
  <2>2. p <= x
    BY <1>2, <1>3, <2>1
  <2>3. Len(w) >= Half
    BY <1>3, <2>1, <2>2
  <2>4. ASSUME NEW k \in 1..i, a[k] \in ToSet(w) PROVE FALSE
    <3>1. PICK q \in DOMAIN w : w[q] = a[k]
      BY <2>4 DEF ToSet
    <3>2. q + x \in DOMAIN d /\ d[q + x] = a[k] /\ q + x > x
      BY <1>2, <3>1
    <3>3. k \in DOMAIN a /\ k <= i
      BY <1>1
    <3>4. q + x <= p
      BY <2>1, <3>2, <3>3 DEF InOrder
    <3> QED BY <1>3, <2>1, <2>2, <3>2, <3>4
  <2> QED BY <2>3, <2>4 DEF Past
<1>5. CASE Past(a, s, i)
  <2>1. \A k \in 1..i : k \in DOMAIN a
    BY <1>1
  <2>2. \A k \in 1..i : a[k] \notin ToSet(w)
    BY <1>2, <1>5, <2>1 DEF Past
  <2>3. Len(w) >= Half
    BY <1>1, <1>2, <1>5 DEF Past
  <2> QED BY <2>2, <2>3 DEF Past
<1> QED BY <1>4, <1>5

(* The part of a file that no append can spoil: without the last line, if  *)
(* that has no newline                                                     *)
Solid(f) == IF f.ended THEN f ELSE [lines |-> Front(f.lines), ended |-> TRUE]

(* What is on file, and what is there to stay *)
Kpt == Decoded(file)
Safe == Decoded(Solid(file))

(* On file is what is solid, and one record more at most. *)
LEMMA SolidType ==
    ASSUME HistoryAssumption, NEW f, Ended(f)
    PROVE  /\ f \in File /\ Solid(f) \in File /\ Solid(f).ended
           /\ Decoded(Solid(f)) \in Seq(Record) /\ Decoded(f) \in Seq(Record)
           /\ f.ended => Solid(f) = f
           /\ Prefix(Decoded(Solid(f)), Decoded(f))
<1>1. CASE f.ended
  <2>1. Solid(f) = f /\ f \in File
    BY <1>1 DEF Solid, Ended
  <2>2. Decoded(f) \in Seq(Record)
    BY <2>1, RecordFields, ReplayTailType
  <2> QED BY <1>1, <2>1, <2>2 DEF Prefix
<1>2. CASE ~f.ended
  <2>1. f \in File /\ f.lines \in Seq(Line) /\ f.lines # <<>>
    BY <1>2 DEF Ended, File
  <2>2. /\ Front(f.lines) \in Seq(Line) /\ Last(f.lines) \in Line
        /\ f.lines = Append(Front(f.lines), Last(f.lines))
    BY <2>1 DEF Front, Last
  <2>3. Solid(f) = [lines |-> Front(f.lines), ended |-> TRUE] /\ Solid(f).lines = Front(f.lines)
    BY <1>2 DEF Solid
  <2>4. Solid(f) \in File /\ Solid(f).ended
    BY <2>2, <2>3 DEF File
  <2>5. /\ Decoded(Solid(f)) \in Seq(Record)
        /\ Decoded(f) = Kept(Decoded(Solid(f)), Last(f.lines))
    BY <2>2, <2>3, DecodedAppend
  <2>6. Prefix(Decoded(Solid(f)), Decoded(f))
    BY <2>2, <2>5 DEF Kept, Prefix, Line
  <2>7. Decoded(f) \in Seq(Record)
    BY <2>1, RecordFields, ReplayTailType
  <2> QED BY <1>2, <2>1, <2>4, <2>5, <2>6, <2>7
<1> QED BY <1>1, <1>2 DEF Ended, File

(* What a write leaves: a whole line makes its record solid, unless it     *)
(* continues a torn one and both are spoilt; a line cut short leaves what  *)
(* was solid, and its record on file at most.                              *)
LEMMA SolidWritten ==
    ASSUME HistoryAssumption, NEW f, Ended(f), NEW r \in Record, NEW part \in {"all", "some", "body"},
           NEW w, w = Written(f, r, part)
    PROVE  /\ part = "all" /\ f.ended => Decoded(w) = Append(Decoded(Solid(f)), r) /\ Solid(w) = w
           /\ part = "all" /\ ~f.ended => Decoded(w) = Decoded(Solid(f)) /\ Solid(w) = w
           /\ part # "all" => /\ Solid(w) = Solid(f)
                              /\ \/ Decoded(w) = Decoded(Solid(f))
                                 \/ Decoded(w) = Append(Decoded(Solid(f)), r)
<1> DEFINE new == [rec  |-> IF part = "some" THEN Junk ELSE r,
                   size |-> IF part = "some" THEN 1 ELSE Size[r]]
           longer == [rec |-> Junk, size |-> Last(f.lines).size + new.size]
           last == IF f.ended THEN new ELSE longer
           g == Solid(f)
<1>1. new \in Line /\ new.size \in Nat \ {0}
  BY DEF Line, HistoryAssumption
<1>2. longer \in Line \/ f.ended
  <2>1. ASSUME ~f.ended PROVE Last(f.lines) \in Line
    BY <2>1 DEF Ended, File, Last
  <2>2. ASSUME ~f.ended PROVE Last(f.lines).size + new.size \in Nat \ {0}
    <3> HIDE DEF new
    <3> QED BY <1>1, <2>1, <2>2 DEF Line
  <2> QED BY <2>2 DEF Line
<1>3. last.rec = IF ~f.ended \/ part = "some" THEN Junk ELSE r
  OBVIOUS
<1>4. w = [lines |-> Append(g.lines, last), ended |-> part = "all"]
  BY DEF Written, Solid
<1>5. last \in Line
  BY <1>1, <1>2
<1>6. g \in File /\ g.ended /\ g.lines \in Seq(Line) /\ g = [lines |-> g.lines, ended |-> TRUE]
  <2>1. g \in File /\ g.ended
    BY SolidType
  <2> QED BY <2>1 DEF File
<1> HIDE DEF last, new, longer, g
<1>7. Decoded(w) = Kept(Decoded(g), last) /\ Decoded(g) \in Seq(Record)
  <2>1. w.lines = Append(g.lines, last)
    BY <1>4
  <2> QED BY <1>5, <1>6, <2>1, DecodedAppend
<1>8. r # Junk
  BY RecordFields
<1>9. w.ended = (part = "all")
  BY <1>4
<1>10. part = "all" => Solid(w) = w
  BY <1>9 DEF Solid
<1>11. part # "all" => Solid(w) = g
  <2>1. Front(Append(g.lines, last)) = g.lines
    BY <1>5, <1>6 DEF Front
  <2>2. w.lines = Append(g.lines, last)
    BY <1>4
  <2>3. part # "all" => Solid(w) = [lines |-> Front(w.lines), ended |-> TRUE]
    BY <1>9 DEF Solid
  <2> QED BY <1>6, <2>1, <2>2, <2>3
<1> QED BY <1>3, <1>7, <1>8, <1>10, <1>11 DEF Kept, g

(* The file: a torn line is never one that was acknowledged, and the       *)
(* rotated file is the newest half of the one it replaces, which nobody    *)
(* wrote to since.                                                         *)
OrderInv ==
    /\ NoneTwice(Kpt) /\ InOrder(acked, Kpt)
    /\ \A i \in DOMAIN acked : acked[i] \in ToSet(Kpt) => acked[i] \in ToSet(Safe)
    /\ hpc = "rename" => tmp = FileOf(ReplayTail(file, Half))

(* The runners: no two have the same job, and theirs are not done. *)
SlotsInv ==
    /\ \A s \in Slot : slots[s].job # Junk => slots[s].job \in Job /\ jobs[slots[s].job] = "started"
    /\ \A s, t \in Slot : slots[s].job # Junk /\ slots[s].job = slots[t].job => s = t

(* The completions: a record reaches the file once, because its job is     *)
(* done once and one Append has it.                                        *)
KnownInv ==
    /\ waiting \subseteq Job /\ adding \in Job \cup {Junk} /\ adding \notin waiting
    /\ \A r \in Job : r \in waiting \/ r = adding => r \notin ToSet(acked) /\ r \notin ToSet(Kpt)
    /\ \A r \in Job : \/ r \in ToSet(acked) \/ r \in ToSet(Kpt)
                      \/ r \in waiting \/ r = adding
                      => jobs[r] = "done"

(* A torn line is paid for in advance: the record that it will swallow is  *)
(* not yet gone.                                                           *)
Torn == IF file.ended THEN 0 ELSE 1
LossInv == Cardinality(Gone(acked, Safe)) + Torn <= tears

-----------------------------------------------------------------------------
(* What a step of the history does to its file: nothing, a line, a torn    *)
(* line, or a rotation                                                     *)
Stays == UNCHANGED <<file, acked, tears>>
Appends == /\ adding \in Record /\ hpc = "write" /\ hpc' = "idle"
           /\ file' = Written(file, adding, "all") /\ acked' = Append(acked, adding) /\ tears' = tears
Tears == /\ adding \in Record /\ hpc = "write" /\ hpc' = "idle"
         /\ \E part \in {"some", "body"} : file' = Written(file, adding, part)
         /\ tears' = tears + 1 /\ acked' = acked
Rotates == hpc = "rename" /\ hpc' = "write" /\ file' = tmp /\ UNCHANGED <<acked, tears>>

(* Every step does one of these. *)
LEMMA FileMoves ==
    ASSUME HistoryAssumption, HistoryTypes,
           UNCHANGED history \/ (\E r \in Record : Complete(r)) \/ AppendStep \/ Lose \/ Open
    PROVE  Stays \/ Appends \/ Tears \/ Rotates
<1> USE DEF Stays, Appends, Tears, Rotates
<1>1. CASE UNCHANGED history
  BY <1>1 DEF history
<1>2. ASSUME NEW r \in Record, Complete(r) PROVE Stays
  BY <1>2 DEF Complete
<1>3. ASSUME CutShort, acked' = acked, hpc' = "idle" PROVE Stays \/ Tears
  BY <1>3 DEF CutShort, HistoryTypes
<1>4. CASE AppendStep
  BY <1>3, <1>4 DEF AppendStep, AppendBegin, Rewrite, Rename, Write, AppendFails, HistoryTypes
<1>5. CASE Lose
  BY <1>3, <1>5 DEF Lose
<1>6. CASE Open
  BY <1>6 DEF Open
<1> QED BY <1>1, <1>2, <1>4, <1>5, <1>6

(* Between rewrite and rename the file does not change, for the Append     *)
(* that rotates has the lock.                                              *)
LEMMA RenameStep ==
    ASSUME HistoryAssumption, HistoryTypes, OrderInv,
           UNCHANGED history \/ (\E r \in Record : Complete(r)) \/ AppendStep \/ Lose \/ Open
    PROVE  hpc' = "rename" => tmp' = FileOf(ReplayTail(file', Half))
BY DEF OrderInv, history, Complete, AppendStep, AppendBegin, Rewrite, Rename, Write, AppendFails,
       Lose, Open, Half

(* What these do to the records on file *)
LEMMA KeptMoves ==
    ASSUME HistoryAssumption, HistoryTypes, OrderInv
    PROVE  /\ Stays => UNCHANGED <<Kpt, Safe, acked, file, tears>>
           /\ Appends => /\ adding \in Record /\ acked' = Append(acked, adding) /\ tears' = tears
                         /\ \/ /\ file.ended /\ file'.ended /\ Safe = Kpt
                               /\ Kpt' = Append(Safe, adding) /\ Safe' = Append(Safe, adding)
                            \/ ~file.ended /\ file'.ended /\ Kpt' = Safe /\ Safe' = Safe
           /\ Tears => /\ adding \in Record /\ acked' = acked /\ tears' = tears + 1 /\ ~file'.ended
                       /\ Safe' = Safe /\ (Kpt' = Safe \/ Kpt' = Append(Safe, adding))
           /\ Rotates => /\ acked' = acked /\ tears' = tears /\ file'.ended
                         /\ Kpt' = Newest(Half, Kpt) /\ Safe' = Kpt'
           /\ Prefix(Safe, Kpt) /\ Safe \in Seq(Record) /\ Kpt \in Seq(Record)
<1> USE DEF Kpt, Safe
<1>1. Ended(file) /\ file.ended \in BOOLEAN
  BY DEF HistoryTypes, Ended, File
<1>2. /\ file.ended => Solid(file) = file
      /\ Prefix(Safe, Kpt) /\ Safe \in Seq(Record) /\ Kpt \in Seq(Record)
  BY <1>1, SolidType
<1>3. ASSUME Appends
      PROVE  \/ /\ file.ended /\ file'.ended /\ Safe = Kpt
                /\ Kpt' = Append(Safe, adding) /\ Safe' = Append(Safe, adding)
             \/ ~file.ended /\ file'.ended /\ Kpt' = Safe /\ Safe' = Safe
  <2>1. adding \in Record /\ file' = Written(file, adding, "all")
    BY <1>3 DEF Appends
  <2>2. file'.ended
    BY <1>1, <2>1, WrittenType
  <2>3. /\ file.ended => Decoded(file') = Append(Decoded(Solid(file)), adding) /\ Solid(file') = file'
        /\ ~file.ended => Decoded(file') = Decoded(Solid(file)) /\ Solid(file') = file'
    BY <1>1, <2>1, SolidWritten
  <2> QED BY <1>2, <2>2, <2>3
<1>4. ASSUME Tears PROVE ~file'.ended /\ Safe' = Safe /\ (Kpt' = Safe \/ Kpt' = Append(Safe, adding))
  <2>1. PICK part \in {"some", "body"} : file' = Written(file, adding, part)
    BY <1>4 DEF Tears
  <2>2. adding \in Record /\ part # "all" /\ part \in {"all", "some", "body"}
    BY <1>4 DEF Tears
  <2>3. ~file'.ended
    BY <1>1, <2>1, <2>2, WrittenType
  <2>4. Solid(file') = Solid(file) /\ (Kpt' = Safe \/ Kpt' = Append(Safe, adding))
    BY <1>1, <2>1, <2>2, SolidWritten
  <2> QED BY <2>3, <2>4
<1>5. ASSUME Rotates PROVE file'.ended /\ Kpt' = Newest(Half, Kpt) /\ Safe' = Kpt'
  <2>1. file' = FileOf(Newest(Half, Kpt))
    BY <1>5 DEF Rotates, OrderInv, ReplayTail
  <2>2. Newest(Half, Kpt) \in Seq(Record)
    BY <1>2, NewestRecords
  <2>3. file'.ended /\ Decoded(file') = Newest(Half, Kpt)
    BY <2>1, <2>2, FileOfType, DecodedFileOf
  <2> QED BY <2>3 DEF Solid
<1>6. Stays => UNCHANGED <<Kpt, Safe, acked, file, tears>>
  BY DEF Stays
<1> QED BY <1>2, <1>3, <1>4, <1>5, <1>6 DEF Appends, Tears, Rotates

(* No step writes a record twice or out of order. *)
LEMMA OrderStep ==
    ASSUME HistoryAssumption, HistoryTypes, OrderInv, KnownInv, Stays \/ Appends \/ Tears \/ Rotates
    PROVE  /\ NoneTwice(Kpt)' /\ InOrder(acked, Kpt)'
           /\ \A i \in DOMAIN acked' : acked'[i] \in ToSet(Kpt') => acked'[i] \in ToSet(Safe')
<1>1. /\ Prefix(Safe, Kpt) /\ Safe \in Seq(Record) /\ Kpt \in Seq(Record) /\ acked \in Seq(Record)
      /\ NoneTwice(Kpt) /\ InOrder(acked, Kpt)
      /\ \A i \in DOMAIN acked : acked[i] \in ToSet(Kpt) => acked[i] \in ToSet(Safe)
  BY KeptMoves DEF OrderInv, HistoryTypes
<1>2. ToSet(Safe) \subseteq ToSet(Kpt) /\ NoneTwice(Safe) /\ InOrder(acked, Safe)
  <2>1. ToSet(Safe) \subseteq ToSet(Kpt) /\ NoneTwice(Safe)
    BY <1>1, PrefixFacts
  <2>2. InOrder(acked, Safe)
    <3>1. DOMAIN Safe \subseteq DOMAIN Kpt /\ \A p \in DOMAIN Safe : Kpt[p] = Safe[p]
      BY <1>1 DEF Prefix
    <3> QED BY <1>1, <3>1 DEF InOrder
  <2> QED BY <2>1, <2>2
<1>3. adding \in Record => adding \notin ToSet(acked) /\ adding \notin ToSet(Kpt) /\ adding \notin ToSet(Safe)
  BY <1>2, RecordFields DEF KnownInv
<1>4. CASE Stays
  BY <1>1, <1>4, KeptMoves
<1>5. CASE Appends
  <2>1. acked' = Append(acked, adding) /\ adding \in Record
    BY <1>5, KeptMoves
  <2>2. CASE Kpt' = Append(Safe, adding) /\ Safe' = Append(Safe, adding)
    BY <1>1, <1>2, <1>3, <2>1, <2>2, AppendedRecord
  <2>3. CASE Kpt' = Safe /\ Safe' = Safe
    BY <1>1, <1>2, <1>3, <2>1, <2>3, AppendedRecord
  <2> QED BY <1>5, <2>2, <2>3, KeptMoves
<1>6. CASE Tears
  <2>1. acked' = acked /\ adding \in Record /\ Safe' = Safe
    BY <1>6, KeptMoves
  <2>2. CASE Kpt' = Append(Safe, adding)
    <3>1. \A i \in DOMAIN acked : acked[i] # adding
      BY <1>3, <2>1 DEF ToSet
    <3>2. ToSet(Kpt') = ToSet(Safe) \cup {adding} /\ NoneTwice(Kpt') /\ InOrder(acked, Kpt')
      BY <1>1, <1>2, <1>3, <2>1, <2>2, AppendedRecord
    <3> QED BY <2>1, <3>1, <3>2
  <2>3. CASE Kpt' = Safe
    BY <1>2, <2>1, <2>3
  <2> QED BY <1>6, <2>2, <2>3, KeptMoves
<1>7. CASE Rotates
  <2>1. acked' = acked /\ Kpt' = Newest(Half, Kpt) /\ Safe' = Kpt'
    BY <1>7, KeptMoves
  <2> QED BY <1>1, <2>1, NewestKeepsOrder
<1> QED BY <1>4, <1>5, <1>6, <1>7

(* No step loses more than was paid for. *)
LEMMA LossStep ==
    ASSUME HistoryAssumption, HistoryTypes, OrderInv, KnownInv, LossInv,
           Stays \/ Appends \/ Tears \/ Rotates
    PROVE  LossInv'
<1>1. /\ Prefix(Safe, Kpt) /\ Safe \in Seq(Record) /\ Kpt \in Seq(Record) /\ acked \in Seq(Record)
      /\ Half \in Nat /\ tears \in Nat
  BY KeptMoves, RecordFields DEF HistoryTypes, Half
<1>2. ToSet(Safe) \subseteq ToSet(Kpt)
  BY <1>1, PrefixFacts
<1>3. adding \in Record => adding \notin ToSet(acked) /\ adding \notin ToSet(Safe)
  BY <1>2, RecordFields DEF KnownInv
<1> DEFINE g == Gone(acked, Safe)
<1>4. IsFiniteSet(g) /\ Cardinality(g) \in Nat
  <2>1. IsFiniteSet(1..Len(acked)) /\ g \in SUBSET (1..Len(acked))
    BY <1>1, FS_Interval DEF Gone
  <2> QED BY <2>1, FS_Subset, FS_CardinalityType
<1> HIDE DEF g
<1>5. Cardinality(g) + Torn <= tears
  BY DEF LossInv, g
<1>6. ASSUME NEW h, h \subseteq g PROVE Cardinality(h) \in Nat /\ Cardinality(h) <= Cardinality(g)
  BY <1>4, <1>6, FS_Subset, FS_CardinalityType
<1>7. CASE Stays
  <2>1. Gone(acked', Safe') = g /\ Torn' = Torn /\ tears' = tears
    BY <1>7, KeptMoves DEF g, Torn
  <2> QED BY <1>5, <2>1 DEF LossInv
<1>8. CASE Appends /\ file.ended
  <2>1. acked' = Append(acked, adding) /\ Safe' = Append(Safe, adding) /\ adding \in Record
    BY <1>8, KeptMoves
  <2>2. tears' = tears /\ Torn' = 0 /\ Torn = 0
    BY <1>8, KeptMoves DEF Torn
  <2>3. Gone(acked', Safe') \subseteq g
    BY <1>1, <1>3, <2>1, GoneAfterAppend DEF g
  <2> QED BY <1>1, <1>4, <1>5, <1>6, <2>2, <2>3 DEF LossInv
<1>9. CASE Appends /\ ~file.ended
  <2>1. acked' = Append(acked, adding) /\ Safe' = Safe /\ adding \in Record
    BY <1>9, KeptMoves
  <2>2. tears' = tears /\ Torn' = 0 /\ Torn = 1
    BY <1>9, KeptMoves DEF Torn
  <2>3. Gone(acked', Safe') \subseteq g \cup {Len(acked) + 1}
    BY <1>1, <1>3, <2>1, GoneAfterAppend DEF g
  <2>4. /\ IsFiniteSet(g \cup {Len(acked) + 1}) /\ Cardinality(g \cup {Len(acked) + 1}) \in Nat
        /\ Cardinality(g \cup {Len(acked) + 1}) <= Cardinality(g) + 1
    BY <1>4, FS_AddElement, FS_CardinalityType
  <2>5. /\ Cardinality(Gone(acked', Safe')) \in Nat
        /\ Cardinality(Gone(acked', Safe')) <= Cardinality(g \cup {Len(acked) + 1})
    BY <2>3, <2>4, FS_Subset, FS_CardinalityType
  <2> QED BY <1>1, <1>4, <1>5, <2>2, <2>4, <2>5 DEF LossInv
<1>10. CASE Tears
  <2>1. Gone(acked', Safe') = g /\ tears' = tears + 1 /\ Torn' = 1 /\ Torn \in {0, 1}
    BY <1>10, KeptMoves DEF g, Torn
  <2> QED BY <1>1, <1>4, <1>5, <2>1 DEF LossInv
<1>11. CASE Rotates
  <2>1. acked' = acked /\ tears' = tears /\ Torn' = 0 /\ Torn \in {0, 1} /\ Safe' = Newest(Half, Kpt)
    BY <1>11, KeptMoves DEF Torn
  <2>2. Gone(acked', Safe') \subseteq g
    BY <1>1, <2>1, GoneAfterRotation DEF OrderInv, g
  <2>3. /\ Cardinality(Gone(acked', Safe')) \in Nat
        /\ Cardinality(Gone(acked', Safe')) <= Cardinality(g)
    BY <1>6, <2>2
  <2> QED BY <1>1, <1>4, <1>5, <2>1, <2>3 DEF LossInv
<1> QED BY <1>7, <1>8, <1>9, <1>10, <1>11

(* A runner's job is done when the runner ends, and not before. *)
LEMMA SlotsStep ==
    ASSUME HistoryAssumption, GateAssumption, HistoryTypes, GateTypes, SlotsInv, [Next]_vars
    PROVE  SlotsInv' /\ \A j \in Job : jobs[j] = "done" => jobs'[j] = "done"
<1> USE DEF gate, starter, estimate, ToSchedule
<1>1. /\ jobs \in [Job -> {"new", "queued", "started", "done", "missed"}] /\ slots \in [Slot -> Runner]
      /\ Junk \notin Job /\ NoRunner.job = Junk
  BY RecordFields DEF GateTypes, Job, NoRunner
<1> DEFINE DoneStay == \A j \in Job : jobs[j] = "done" => jobs'[j] = "done"
<1>2. ASSUME \A s \in Slot : slots'[s].job # Junk => /\ slots'[s].job = slots[s].job
                                                     /\ jobs'[slots[s].job] = jobs[slots[s].job]
      PROVE SlotsInv'
  BY <1>2 DEF SlotsInv
<1>3. CASE UNCHANGED <<jobs, slots>>
  BY <1>2, <1>3
<1>4. ASSUME NEW j \in Job, Queue(j) PROVE SlotsInv' /\ DoneStay
  <2>1. jobs[j] = "new" /\ jobs' = [jobs EXCEPT ![j] = "queued"] /\ slots' = slots
    BY <1>4 DEF Queue
  <2>2. \A s \in Slot : slots[s].job # Junk => jobs'[slots[s].job] = jobs[slots[s].job]
    BY <1>1, <2>1 DEF SlotsInv
  <2> QED BY <1>1, <1>2, <2>1, <2>2
<1>5. CASE Store
  <2> DEFINE new == [NoRunner EXCEPT !.state = "idle", !.pool = pool,
                                     !.reserved = IF open THEN Candidate ELSE 0]
  <2>1. jobs' = jobs /\ slots' = [slots EXCEPT ![place] = new]
    BY <1>5 DEF Store, Rest
  <2>2. new.job = Junk
    BY DEF NoRunner
  <2> HIDE DEF new
  <2> QED BY <1>1, <1>2, <2>1, <2>2
<1>6. CASE Start
  BY <1>3, <1>5, <1>6 DEF Start, Ungated, Look, Estimate, Quote, Charge, Admit, Hold, Reserve, GiveUp, Rest
<1>7. ASSUME NEW s \in Slot, NEW j \in Job, Claim(s, j) PROVE SlotsInv' /\ DoneStay
  <2>1. /\ jobs[j] = "queued" /\ jobs' = [jobs EXCEPT ![j] = "started"]
        /\ slots' = [slots EXCEPT ![s].state = "busy", ![s].ref = RefOf[j], ![s].job = j]
    BY <1>7 DEF Claim
  <2>2. \A t \in Slot : slots'[t].job = IF t = s THEN j ELSE slots[t].job
    BY <1>1, <2>1 DEF Runner
  <2>3. \A t \in Slot : slots[t].job # j
    BY <1>1, <2>1 DEF SlotsInv
  <2>4. \A t \in Slot : slots'[t].job # Junk => slots'[t].job \in Job /\ jobs'[slots'[t].job] = "started"
    BY <1>1, <2>1, <2>2 DEF SlotsInv
  <2>5. \A t, u \in Slot : slots'[t].job # Junk /\ slots'[t].job = slots'[u].job => t = u
    BY <2>2, <2>3 DEF SlotsInv
  <2> QED BY <1>1, <2>1, <2>4, <2>5 DEF SlotsInv
<1>8. CASE Listen
  <2>1. ASSUME NEW j \in Job, Cancel(j) \/ ClaimUnknown(j) PROVE SlotsInv' /\ DoneStay
    <3>1. jobs[j] = "queued" /\ jobs' = [jobs EXCEPT ![j] = "missed"] /\ slots' = slots
      BY <2>1 DEF Cancel, ClaimUnknown
    <3>2. \A s \in Slot : slots[s].job # Junk => jobs'[slots[s].job] = jobs[slots[s].job]
      BY <1>1, <3>1 DEF SlotsInv
    <3> QED BY <1>1, <1>2, <3>1, <3>2
  <2> QED BY <1>3, <1>4, <1>7, <1>8, <2>1 DEF Listen, QueueAgain, ClaimAgain, Consume
<1>9. ASSUME NEW s \in Slot, Exit(s) PROVE SlotsInv' /\ DoneStay
  <2>1. /\ slots' = [slots EXCEPT ![s] = NoRunner]
        /\ jobs' = IF slots[s].job # Junk THEN [jobs EXCEPT ![slots[s].job] = "done"] ELSE jobs
    BY <1>9 DEF Exit
  <2>2. \A t \in Slot : slots'[t].job = IF t = s THEN Junk ELSE slots[t].job
    BY <1>1, <2>1
  <2>3. \A t \in Slot : slots'[t].job # Junk => jobs'[slots[t].job] = jobs[slots[t].job]
    BY <1>1, <2>1, <2>2 DEF SlotsInv
  <2> QED BY <1>1, <1>2, <2>1, <2>2, <2>3
<1>10. ASSUME NEW left \in SUBSET Live(slots), Crash(left) PROVE SlotsInv' /\ DoneStay
  <2>1. /\ jobs' = [j \in Job |-> IF jobs[j] = "started" THEN "done" ELSE jobs[j]]
        /\ slots' = [s \in Slot |-> IF s \notin left THEN NoRunner
                                 ELSE [NoRunner EXCEPT !.state = "busy", !.pool = slots[s].pool]]
    BY <1>10 DEF Crash
  <2>2. \A s \in Slot : slots'[s].job = Junk
    BY <2>1 DEF NoRunner
  <2> QED BY <1>1, <1>2, <2>1, <2>2
<1>11. CASE Restart \/ (AppendStep /\ UNCHANGED gate) \/ UNCHANGED vars
  BY <1>3, <1>11 DEF Restart, vars
<1> QED BY <1>6, <1>8, <1>9, <1>10, <1>11 DEF Next

(* No step hands a record to a second Append. *)
LEMMA KnownStep ==
    ASSUME HistoryAssumption, GateAssumption, HistoryTypes, GateTypes, OrderInv, SlotsInv, KnownInv,
           [Next]_vars
    PROVE  KnownInv'
<1> DEFINE A == ToSet(acked)
           K == ToSet(Kpt)
<1>1. \A j \in Job : jobs[j] = "done" => jobs'[j] = "done"
  BY SlotsStep
<1>2. /\ waiting \subseteq Job /\ adding \in Job \cup {Junk} /\ adding \notin waiting
      /\ \A r \in Job : r \in waiting \/ r = adding => r \notin A /\ r \notin K
      /\ \A r \in Job : r \in A \/ r \in K \/ r \in waiting \/ r = adding => jobs[r] = "done"
      /\ Junk \notin Job
  BY RecordFields DEF KnownInv, Job
<1>3. UNCHANGED history \/ (\E r \in Record : Complete(r)) \/ AppendStep \/ Lose \/ Open
  BY GateTypesToHistory
<1>4. Prefix(Safe, Kpt) /\ Safe \in Seq(Record) /\ Kpt \in Seq(Record) /\ ToSet(Safe) \subseteq K
  BY KeptMoves, PrefixFacts DEF HistoryTypes
<1>5. \A s \in Seq(Record), r \in Record : ToSet(Append(s, r)) = ToSet(s) \cup {r}
  BY DEF ToSet
<1>6. ASSUME Stays \/ Rotates
      PROVE  A' \subseteq A /\ K' \subseteq K
  <2>1. CASE Stays
    BY <2>1, KeptMoves
  <2>2. CASE Rotates
    <3>1. acked' = acked /\ Kpt' = Newest(Half, Kpt)
      BY <2>2, KeptMoves
    <3>2. ToSet(Newest(Half, Kpt)) \subseteq ToSet(Kpt)
      BY <1>4, NewestRecords
    <3> QED BY <3>1, <3>2
  <2> QED BY <1>6, <2>1, <2>2
<1>6b. ASSUME Appends \/ Tears
       PROVE  A' \subseteq A \cup {adding} /\ K' \subseteq K \cup {adding}
  <2>3. CASE Appends
    <3>1. /\ acked' = Append(acked, adding) /\ adding \in Record
          /\ (Kpt' = Append(Safe, adding) \/ Kpt' = Safe)
      BY <2>3, KeptMoves
    <3>2. ToSet(acked') = ToSet(acked) \cup {adding}
      BY <1>5, <3>1 DEF HistoryTypes
    <3>3. ToSet(Kpt') \subseteq ToSet(Safe) \cup {adding}
      BY <1>4, <1>5, <3>1
    <3> QED BY <1>4, <3>2, <3>3
  <2>4. CASE Tears
    <3>1. /\ acked' = acked /\ adding \in Record
          /\ (Kpt' = Append(Safe, adding) \/ Kpt' = Safe)
      BY <2>4, KeptMoves
    <3>2. ToSet(Kpt') \subseteq ToSet(Safe) \cup {adding}
      BY <1>4, <1>5, <3>1
    <3> QED BY <1>4, <3>1, <3>2
  <2> QED BY <1>6b, <2>3, <2>4
<1>7. Stays \/ Appends \/ Tears \/ Rotates
  BY <1>3, FileMoves
<1> HIDE DEF A, K
<1>8. SUFFICES
        /\ waiting' \subseteq Job /\ adding' \in Job \cup {Junk} /\ adding' \notin waiting'
        /\ \A r \in Job : r \in waiting' \/ r = adding' => r \notin A' /\ r \notin K'
        /\ \A r \in Job : r \in A' \/ r \in K' \/ r \in waiting' \/ r = adding' => jobs'[r] = "done"
  BY DEF KnownInv, A, K
<1>9. ASSUME UNCHANGED <<waiting, adding>>, A' \subseteq A, K' \subseteq K
      PROVE  /\ waiting' \subseteq Job /\ adding' \in Job \cup {Junk} /\ adding' \notin waiting'
             /\ \A r \in Job : r \in waiting' \/ r = adding' => r \notin A' /\ r \notin K'
             /\ \A r \in Job : r \in A' \/ r \in K' \/ r \in waiting' \/ r = adding' => jobs'[r] = "done"
  BY <1>1, <1>2, <1>9
<1>10. ASSUME waiting' \subseteq waiting, adding' = Junk
       PROVE  /\ waiting' \subseteq Job /\ adding' \in Job \cup {Junk} /\ adding' \notin waiting'
              /\ \A r \in Job : r \in waiting' \/ r = adding' => r \notin A' /\ r \notin K'
              /\ \A r \in Job : r \in A' \/ r \in K' \/ r \in waiting' \/ r = adding' => jobs'[r] = "done"
  <2>1. A' \subseteq A \cup {adding} /\ K' \subseteq K \cup {adding}
    BY <1>6, <1>6b, <1>7
  <2> QED BY <1>1, <1>2, <1>10, <2>1
<1>11. ASSUME Stays PROVE A' = A /\ K' = K
  BY <1>11, KeptMoves DEF A, K
<1>12. CASE UNCHANGED history \/ Open
  <2>1. Stays /\ UNCHANGED <<waiting, adding>>
    BY <1>12 DEF history, Open, Stays
  <2> QED BY <1>9, <1>11, <2>1
<1>13. CASE AppendStep
  <2>1. ASSUME NEW r \in Record, AppendBegin(r)
        PROVE  /\ waiting' \subseteq Job /\ adding' \in Job \cup {Junk} /\ adding' \notin waiting'
               /\ \A x \in Job : x \in waiting' \/ x = adding' => x \notin A' /\ x \notin K'
               /\ \A x \in Job : x \in A' \/ x \in K' \/ x \in waiting' \/ x = adding' => jobs'[x] = "done"
    <3>1. r \in waiting /\ waiting' = waiting \ {r} /\ adding' = r /\ Stays
      BY <2>1 DEF AppendBegin, Stays
    <3> QED BY <1>1, <1>2, <1>11, <3>1
  <2>2. CASE Rewrite
    <3>1. Stays /\ UNCHANGED <<waiting, adding>>
      BY <2>2 DEF Rewrite, Stays
    <3> QED BY <1>9, <1>11, <3>1
  <2>3. CASE Rename
    <3>1. Rotates /\ UNCHANGED <<waiting, adding>>
      BY <2>3 DEF Rename, Rotates
    <3> QED BY <1>6, <1>9, <3>1
  <2>4. CASE Write \/ AppendFails
    <3>1. waiting' = waiting /\ adding' = Junk
      BY <2>4 DEF Write, AppendFails
    <3> QED BY <1>10, <3>1
  <2> QED BY <1>13, <2>1, <2>2, <2>3, <2>4 DEF AppendStep
<1>14. CASE Lose
  <2>1. waiting' = {} /\ adding' = Junk
    BY <1>14 DEF Lose
  <2> QED BY <1>10, <2>1
<1>15. ASSUME NEW s \in Slot, Exit(s), ~UNCHANGED history
       PROVE  /\ waiting' \subseteq Job /\ adding' \in Job \cup {Junk} /\ adding' \notin waiting'
              /\ \A r \in Job : r \in waiting' \/ r = adding' => r \notin A' /\ r \notin K'
              /\ \A r \in Job : r \in A' \/ r \in K' \/ r \in waiting' \/ r = adding' => jobs'[r] = "done"
  <2> DEFINE j == slots[s].job
  <2>1. j # Junk /\ Complete(j) /\ jobs' = [jobs EXCEPT ![j] = "done"]
    BY <1>15 DEF Exit, history
  <2>2. j \in Job /\ jobs[j] = "started"
    BY <2>1 DEF SlotsInv
  <2>3. j \notin A /\ j \notin K /\ j \notin waiting /\ j # adding
    BY <1>2, <2>2
  <2>4. waiting' \subseteq waiting \cup {j} /\ adding' = adding /\ Stays
    BY <2>1 DEF Complete, Stays
  <2>5. jobs'[j] = "done"
    BY <2>1, <2>2 DEF GateTypes
  <2> HIDE DEF j
  <2> QED BY <1>1, <1>2, <1>11, <2>2, <2>3, <2>4, <2>5
<1> QED
  <2>1. \/ UNCHANGED history \/ Open \/ AppendStep \/ Lose
        \/ \E s \in Slot : Exit(s)
    BY DEF Next, Start, Listen, Ungated, Look, Estimate, Quote, Charge, Admit, Hold, Reserve, Store,
           GiveUp, Rest, ToSchedule, Queue, QueueAgain, Cancel, Claim, ClaimUnknown, ClaimAgain, Consume,
           Crash, Restart, vars
  <2> QED BY <1>12, <1>13, <1>14, <1>15, <2>1

(* The invariant of the file *)
FileInv == OrderInv /\ SlotsInv /\ KnownInv /\ LossInv

(* It holds at first, ... *)
LEMMA InitFileInv ==
    ASSUME HistoryAssumption, GateAssumption, Init
    PROVE  FileInv
<1>1. OnDisk \in Seq(Record) /\ \A i, j \in DOMAIN OnDisk : OnDisk[i] = OnDisk[j] => i = j
  BY DEF HistoryAssumption
<1>2. file = FileOf(OnDisk) /\ file.ended /\ acked = OnDisk /\ hpc = "idle" /\ waiting = {} /\ adding = Junk
      /\ tears = 0
  BY <1>1, FileOfType DEF Init, HistoryInit
<1>3. Kpt = OnDisk /\ Safe = OnDisk
  BY <1>1, <1>2, DecodedFileOf DEF Kpt, Safe, Solid
<1>4. OrderInv
  <2>1. NoneTwice(OnDisk) /\ InOrder(OnDisk, OnDisk)
    BY <1>1 DEF NoneTwice, InOrder
  <2> QED BY <1>2, <1>3, <2>1 DEF OrderInv
<1>5. SlotsInv
  BY DEF SlotsInv, Init, Nobody, NoRunner
<1>6. KnownInv
  <2>1. Junk \notin Job
    BY RecordFields DEF Job
  <2>2. \A r \in Job : r \notin ToSet(OnDisk)
    BY DEF Job
  <2> QED BY <1>2, <1>3, <2>1, <2>2 DEF KnownInv
<1>7. LossInv
  <2>1. Gone(OnDisk, OnDisk) = {}
    BY DEF Gone, ToSet
  <2> QED BY <1>2, <1>3, <2>1, FS_EmptySet DEF LossInv, Torn
<1> QED BY <1>4, <1>5, <1>6, <1>7 DEF FileInv

(* ... every step keeps it, ... *)
LEMMA FileInvStep ==
    ASSUME HistoryAssumption, GateAssumption, HistoryTypes, GateTypes, FileInv, [Next]_vars
    PROVE  FileInv'
<1>1. OrderInv /\ SlotsInv /\ KnownInv /\ LossInv
  BY DEF FileInv
<1>2. UNCHANGED history \/ (\E r \in Record : Complete(r)) \/ AppendStep \/ Lose \/ Open
  BY GateTypesToHistory
<1>3. Stays \/ Appends \/ Tears \/ Rotates
  BY <1>2, FileMoves
<1>4. OrderInv'
  <2>1. /\ NoneTwice(Kpt)' /\ InOrder(acked, Kpt)'
        /\ \A i \in DOMAIN acked' : acked'[i] \in ToSet(Kpt') => acked'[i] \in ToSet(Safe')
    BY <1>1, <1>3, OrderStep
  <2>2. hpc' = "rename" => tmp' = FileOf(ReplayTail(file', Half))
    BY <1>1, <1>2, RenameStep
  <2> QED BY <2>1, <2>2 DEF OrderInv
<1>5. LossInv'
  BY <1>1, <1>3, LossStep
<1>6. SlotsInv' /\ KnownInv'
  BY <1>1, SlotsStep, KnownStep
<1> QED BY <1>4, <1>5, <1>6 DEF FileInv

(* ... and it bounds what the property counts. *)
LEMMA LossIsGone ==
    ASSUME HistoryAssumption, HistoryTypes, OrderInv, LossInv
    PROVE  LossIsBounded
<1>1. /\ Prefix(Safe, Kpt) /\ Safe \in Seq(Record) /\ Kpt \in Seq(Record) /\ acked \in Seq(Record)
      /\ Half \in Nat /\ tears \in Nat /\ NoneTwice(Safe) /\ ToSet(Safe) \subseteq ToSet(Kpt)
  BY KeptMoves, PrefixFacts, RecordFields DEF HistoryTypes, Half, OrderInv
<1>2. IsFiniteSet(ToSet(Kpt)) /\ IsFiniteSet(ToSet(Safe)) /\ Cardinality(ToSet(Safe)) = Len(Safe)
  <2>1. ASSUME NEW s \in Seq(Record)
        PROVE  IsFiniteSet(ToSet(s)) /\ (NoneTwice(s) => Cardinality(ToSet(s)) = Len(s))
    <3>0. Len(s) \in Nat /\ DOMAIN s = 1..Len(s)
      OBVIOUS
    <3>1. IsFiniteSet(1..Len(s)) /\ Cardinality(1..Len(s)) = Len(s)
      <4>1. /\ IsFiniteSet(1..Len(s))
            /\ Cardinality(1..Len(s)) = IF 1 > Len(s) THEN 0 ELSE Len(s) - 1 + 1
        BY <3>0, FS_Interval
      <4> QED BY <3>0, <4>1
    <3>2. s \in Surjection(1..Len(s), ToSet(s))
      BY <3>0 DEF Surjection, ToSet
    <3>3. /\ IsFiniteSet(ToSet(s))
          /\ Cardinality(ToSet(s)) = Cardinality(1..Len(s)) <=> s \in Injection(1..Len(s), ToSet(s))
      BY <3>1, <3>2, FS_Surjection
    <3>4. ASSUME NoneTwice(s) PROVE Cardinality(ToSet(s)) = Len(s)
      <4>1. s \in Injection(1..Len(s), ToSet(s))
        BY <3>0, <3>2, <3>4 DEF Injection, Surjection, NoneTwice, IsInjective
      <4> QED BY <3>1, <3>3, <4>1
    <3> QED BY <3>3, <3>4
  <2> QED BY <1>1, <2>1
<1>3. ASSUME NEW i \in DOMAIN acked, acked[i] \notin ToSet(Kpt),
             Cardinality(ToSet(Kpt) \ {acked[j] : j \in 1..i}) < Half
      PROVE  i \in Gone(acked, Safe)
  <2>1. SUFFICES ASSUME Past(acked, Safe, i) PROVE FALSE
    BY <1>1, <1>3 DEF Gone
  <2>2. ToSet(Safe) \subseteq ToSet(Kpt) \ {acked[j] : j \in 1..i}
    BY <1>1, <2>1 DEF Past
  <2>3. IsFiniteSet(ToSet(Kpt) \ {acked[j] : j \in 1..i})
    BY <1>2, FS_Subset
  <2>4. /\ Cardinality(ToSet(Safe)) <= Cardinality(ToSet(Kpt) \ {acked[j] : j \in 1..i})
        /\ Cardinality(ToSet(Kpt) \ {acked[j] : j \in 1..i}) \in Nat /\ Len(Safe) \in Nat
    BY <1>1, <2>2, <2>3, FS_Subset, FS_CardinalityType
  <2> QED BY <1>1, <1>2, <1>3, <2>1, <2>4 DEF Past
<1>4. Lost \subseteq Gone(acked, Safe)
  BY <1>3 DEF Lost, OnFile, Kpt, Half
<1>5. IsFiniteSet(Gone(acked, Safe))
  <2>1. IsFiniteSet(1..Len(acked)) /\ Gone(acked, Safe) \in SUBSET (1..Len(acked))
    BY <1>1, FS_Interval DEF Gone
  <2> QED BY <2>1, FS_Subset
<1>6. /\ Cardinality(Lost) <= Cardinality(Gone(acked, Safe)) /\ Cardinality(Lost) \in Nat
      /\ Cardinality(Gone(acked, Safe)) \in Nat
  BY <1>4, <1>5, FS_Subset, FS_CardinalityType
<1>7. Torn \in {0, 1}
  BY DEF Torn
<1> QED BY <1>1, <1>6, <1>7 DEF LossInv, LossIsBounded

(* Crashes and errors at any step of Append, in any number, with any       *)
(* rotation in between, lose at most one acknowledged record for each      *)
(* write that was cut short.                                               *)
THEOREM TearsBoundLoss == Spec => []LossIsBounded
<1>1. Init => FileInv
  BY InitFileInv, HistoryAssumption, GateAssumption
<1>2. IInv /\ FileInv /\ [Next]_vars => FileInv'
  BY FileInvStep, HistoryAssumption, GateAssumption DEF IInv, Typed
<1>3. IInv /\ FileInv => LossIsBounded
  BY LossIsGone, HistoryAssumption DEF IInv, Typed, FileInv
<1> QED BY <1>1, <1>2, <1>3, GateInvariant, PTL DEF Spec
===============================================================================
