------------------------------- MODULE FoldProofs -------------------------------
(***************************************************************************)
(* What folds compute, for the proofs about averages, sums and decoding.   *)
(* Induction is over sets F that take the place of the predicate, and is   *)
(* itself derived from a least counterexample.                             *)
(***************************************************************************)
EXTENDS Integers, FiniteSets, FiniteSetsExt, Functions, FiniteSetTheorems, TLAPS

-----------------------------------------------------------------------------
(* Induction over data *)

(* Induction over the subsets of a finite set, by the least one that is    *)
(* not in F.  F is a set, so the provers can instantiate it.               *)
LEMMA SubsetInduction ==
    ASSUME NEW S, IsFiniteSet(S), NEW F, {} \in F,
           \A T \in SUBSET S : (T # {} /\ \A x \in T : T \ {x} \in F) => T \in F
    PROVE  \A T \in SUBSET S : T \in F
<1> DEFINE Bad == (SUBSET S) \ F
<1>1. SUFFICES ASSUME Bad # {} PROVE FALSE
  OBVIOUS
<1>2. IsWellFoundedOn(StrictSubsetOrdering(S), SUBSET S)
  BY FS_StrictSubsetOrderingWellFounded, FS_FiniteSubsetsOfFinite
<1>3. Bad \subseteq SUBSET S
  OBVIOUS
<1> HIDE DEF Bad
<1>4. PICK M \in Bad : \A T \in Bad : ~(<<T, M>> \in StrictSubsetOrdering(S))
  BY <1>1, <1>2, <1>3, WFMin
<1>5. M \in SUBSET S /\ M \notin F
  BY <1>4 DEF Bad
<1>6. ASSUME NEW x \in M PROVE M \ {x} \in F
  <2>1. <<M \ {x}, M>> \in StrictSubsetOrdering(S)
    BY <1>5, <1>6 DEF StrictSubsetOrdering
  <2> QED BY <2>1, <1>4, <1>5 DEF Bad
<1> QED BY <1>5, <1>6

(* Induction over the natural numbers, again for a set F. *)
LEMMA NumberInduction ==
    ASSUME NEW F, 0 \in F, \A n \in Nat : n \in F => n + 1 \in F
    PROVE  \A n \in Nat : n \in F
<1> SUFFICES ASSUME NEW n \in Nat PROVE n \in F
  OBVIOUS
<1> DEFINE G == {T \in SUBSET (1..n) : Cardinality(T) \in F}
<1>1. IsFiniteSet(1..n) /\ Cardinality(1..n) = n
  BY FS_Interval
<1>2. {} \in G
  BY FS_EmptySet
<1>3. ASSUME NEW T \in SUBSET (1..n), T # {}, \A x \in T : T \ {x} \in G PROVE T \in G
  <2>1. IsFiniteSet(T) /\ Cardinality(T) \in Nat
    BY <1>1, FS_Subset, FS_CardinalityType
  <2>2. PICK x \in T : TRUE
    BY <1>3
  <2>3. Cardinality(T \ {x}) = Cardinality(T) - 1 /\ Cardinality(T \ {x}) \in F
    BY <1>3, <2>1, <2>2, FS_RemoveElement
  <2>4. Cardinality(T \ {x}) \in Nat
    BY <2>1, FS_RemoveElement, FS_CardinalityType
  <2> QED BY <2>1, <2>3, <2>4
<1> HIDE DEF G
<1>4. \A T \in SUBSET (1..n) : T \in G
  BY <1>1, <1>2, <1>3, SubsetInduction
<1> QED BY <1>1, <1>4 DEF G

(* g iterates a step over the subsets of S: the step of the element that c *)
(* chooses comes last.                                                     *)
Iterates(g, S, c, base, step) ==
    \A s \in SUBSET S : g[s] = IF s = {} THEN base ELSE step[c[s]][g[s \ {c[s]}]]

(* There is such a function: it is built for the subsets of up to n        *)
(* elements.                                                               *)
LEMMA IterationExists ==
    ASSUME NEW S, IsFiniteSet(S), NEW V, NEW base \in V, NEW step \in [S -> [V -> V]],
           NEW c, \A s \in SUBSET S : s # {} => c[s] \in s
    PROVE  \E g \in [SUBSET S -> V] : Iterates(g, S, c, base, step)
<1> DEFINE Upto(n) == {s \in SUBSET S : Cardinality(s) <= n}
           Fits(g, n) == /\ g \in [Upto(n) -> V]
                         /\ \A s \in Upto(n) :
                              g[s] = IF s = {} THEN base ELSE step[c[s]][g[s \ {c[s]}]]
           F == {n \in Nat : \E g \in [Upto(n) -> V] : Fits(g, n)}
<1>1. \A s \in SUBSET S : /\ IsFiniteSet(s) /\ Cardinality(s) \in Nat
                          /\ Cardinality(s) = 0 <=> s = {}
                          /\ Cardinality(s) <= Cardinality(S)
  BY FS_Subset, FS_CardinalityType, FS_EmptySet
<1>2. \A s \in SUBSET S : s # {} => /\ s \ {c[s]} \in SUBSET S
                                    /\ Cardinality(s \ {c[s]}) = Cardinality(s) - 1
  BY <1>1, FS_RemoveElement
<1>3. 0 \in F
  <2>1. \A s : s \in Upto(0) <=> s = {}
    <3>1. ASSUME NEW s \in SUBSET S, Cardinality(s) <= 0 PROVE s = {}
      BY <1>1, <3>1
    <3>2. {} \in SUBSET S /\ Cardinality({}) <= 0
      BY FS_EmptySet
    <3> QED BY <3>1, <3>2
  <2> DEFINE g0 == [s \in Upto(0) |-> base]
  <2>2. g0 \in [Upto(0) -> V] /\ \A s \in Upto(0) : s = {} /\ g0[s] = base
    BY <2>1
  <2> HIDE DEF Upto, g0
  <2>3. Fits(g0, 0)
    BY <2>2
  <2> QED BY <2>2, <2>3
<1>4. \A n \in Nat : n \in F => n + 1 \in F
  <2> SUFFICES ASSUME NEW n \in Nat, NEW g \in [Upto(n) -> V], Fits(g, n) PROVE n + 1 \in F
    OBVIOUS
  <2> DEFINE h == [s \in Upto(n+1) |-> IF s = {} THEN base ELSE step[c[s]][g[s \ {c[s]}]]]
  <2>1. \A s \in Upto(n+1) : s # {} => /\ s \ {c[s]} \in Upto(n) /\ s \ {c[s]} \in Upto(n+1)
                                       /\ c[s] \in S
    BY <1>1, <1>2
  <2>2. h \in [Upto(n+1) -> V]
    BY <2>1
  <2>3. \A s \in Upto(n) : s \in Upto(n+1) /\ h[s] = g[s]
    <3>1. \A s \in Upto(n) : s \in Upto(n+1)
      BY <1>1
    <3> HIDE DEF Upto
    <3> QED BY <3>1 DEF Fits
  <2>4. Fits(h, n+1)
    <3> SUFFICES ASSUME NEW s \in Upto(n+1)
                 PROVE h[s] = IF s = {} THEN base ELSE step[c[s]][h[s \ {c[s]}]]
      BY <2>2
    <3> HIDE DEF Upto, Fits
    <3> QED BY <2>1, <2>3
  <2> HIDE DEF Upto, Fits, h
  <2> QED BY <2>2, <2>4
<1> HIDE DEF F
<1>5. \A n \in Nat : n \in F
  BY <1>3, <1>4, NumberInduction
<1>6. Cardinality(S) \in F
  BY <1>5, FS_CardinalityType
<1>7. Upto(Cardinality(S)) = SUBSET S
  <2>1. \A s : s \in Upto(Cardinality(S)) <=> s \in SUBSET S
    BY <1>1
  <2> HIDE DEF Upto
  <2> QED BY <2>1
<1> QED BY <1>6, <1>7 DEF F, Iterates

-----------------------------------------------------------------------------
(* Sums *)
(* g is the sum of f over the parts of S, in the order in which a fold *)
(* chooses its elements.                                               *)
Adds(g, f, S) ==
    /\ SumFunctionOnSet(f, S) = g[S] /\ g[{}] = 0
    /\ \A s \in SUBSET S : s # {} =>
           \E x \in s : x = (CHOOSE y \in s : TRUE) /\ g[s] = f[x] + g[s \ {x}]

(* A sum adds one element after the other. *)
LEMMA SumIterates ==
    ASSUME NEW S, IsFiniteSet(S), NEW f, \A x \in S : f[x] \in Int
    PROVE  \E g \in [SUBSET S -> Int] : Adds(g, f, S)
<1> DEFINE c == [s \in SUBSET S |-> CHOOSE x \in s : TRUE]
           step == [x \in S |-> [v \in Int |-> f[x] + v]]
           Sum(it) == it = [s \in SUBSET S |-> IF s = {} THEN 0
                                               ELSE f[CHOOSE x \in s : TRUE] + it[s \ {CHOOSE x \in s : TRUE}]]
           it0 == CHOOSE it : Sum(it)
<1>1. \A s \in SUBSET S : s # {} => /\ c[s] \in s /\ c[s] \in S /\ s \ {c[s]} \in SUBSET S
                                    /\ c[s] = CHOOSE x \in s : TRUE
  OBVIOUS
<1>2. step \in [S -> [Int -> Int]] /\ \A x \in S, v \in Int : step[x][v] = f[x] + v
  OBVIOUS
<1>3. \E g \in [SUBSET S -> Int] : Iterates(g, S, c, 0, step)
  <2> HIDE DEF step, c
  <2>1. 0 \in Int
    OBVIOUS
  <2> QED BY <1>1, <1>2, <2>1, IterationExists
<1>4. PICK g \in [SUBSET S -> Int] : Iterates(g, S, c, 0, step)
  BY <1>3
<1>5. Sum(g)
  <2> SUFFICES ASSUME NEW s \in SUBSET S
               PROVE  g[s] = IF s = {} THEN 0 ELSE f[CHOOSE x \in s : TRUE] + g[s \ {CHOOSE x \in s : TRUE}]
    BY <1>4
  <2>1. g[s] = IF s = {} THEN 0 ELSE step[c[s]][g[s \ {c[s]}]]
    BY <1>4 DEF Iterates
  <2>2. s # {} => g[s \ {c[s]}] \in Int
    BY <1>1, <1>4
  <2> HIDE DEF c, step
  <2> QED BY <1>1, <1>2, <2>1, <2>2
<1>6. Sum(it0)
  <2> HIDE DEF Sum
  <2> QED BY <1>5
<1>7. \A s \in SUBSET S : it0[s] = IF s = {} THEN 0 ELSE f[c[s]] + it0[s \ {c[s]}]
  <2>1. it0 = [s \in SUBSET S |-> IF s = {} THEN 0
                                 ELSE f[CHOOSE x \in s : TRUE] + it0[s \ {CHOOSE x \in s : TRUE}]]
    BY <1>6
  <2> HIDE DEF it0
  <2>2. \A s \in SUBSET S : it0[s] = IF s = {} THEN 0
                                 ELSE f[CHOOSE x \in s : TRUE] + it0[s \ {CHOOSE x \in s : TRUE}]
    BY <2>1
  <2> HIDE DEF c
  <2> QED BY <1>1, <2>2
<1>8. it0 \in [SUBSET S -> Int]
  <2>1. it0 = [s \in SUBSET S |-> it0[s]]
    BY <1>6
  <2> DEFINE F == {s \in SUBSET S : it0[s] \in Int}
  <2> HIDE DEF it0, c
  <2>2. {} \in F
    <3>1. {} \in SUBSET S
      OBVIOUS
    <3>2. it0[{}] = 0
      BY <1>7, <3>1
    <3> QED BY <3>1, <3>2
  <2>3. ASSUME NEW T \in SUBSET S, T # {}, \A x \in T : T \ {x} \in F PROVE T \in F
    <3>1. c[T] \in T /\ T \ {c[T]} \in F /\ f[c[T]] \in Int
      BY <1>1, <2>3
    <3>2. it0[T] = f[c[T]] + it0[T \ {c[T]}]
      BY <1>7, <2>3
    <3> QED BY <3>1, <3>2
  <2> HIDE DEF F
  <2>4. \A T \in SUBSET S : T \in F
    BY <2>2, <2>3, SubsetInduction
  <2> QED BY <2>1, <2>4 DEF F
<1>9. SumFunctionOnSet(f, S) = it0[S]
  BY DEF SumFunctionOnSet, FoldFunctionOnSet, MapThenFoldSet
<1> HIDE DEF it0, c
<1>10. \A s \in SUBSET S : s # {} =>
           \E x \in s : x = (CHOOSE y \in s : TRUE) /\ it0[s] = f[x] + it0[s \ {x}]
  BY <1>1, <1>7
<1>11. it0[{}] = 0
  BY <1>7
<1> QED BY <1>8, <1>9, <1>10, <1>11 DEF Adds

(* Sums of parts of the same numbers are sums in any order. *)
LEMMA SumAdds ==
    ASSUME NEW S, IsFiniteSet(S), NEW f, \A x \in S : f[x] \in Int
    PROVE  \A T \in SUBSET S :
             /\ SumFunctionOnSet(f, T) \in Int
             /\ T = {} => SumFunctionOnSet(f, T) = 0
             /\ \A x \in T : SumFunctionOnSet(f, T) = f[x] + SumFunctionOnSet(f, T \ {x})
<1>1. PICK g \in [SUBSET S -> Int] : Adds(g, f, S)
  BY SumIterates
<1>2. ASSUME NEW T \in SUBSET S PROVE SumFunctionOnSet(f, T) = g[T]
  <2>0. IsFiniteSet(T) /\ \A x \in T : f[x] \in Int
    BY FS_Subset
  <2>1. PICK h \in [SUBSET T -> Int] : Adds(h, f, T)
    BY <2>0, SumIterates
  <2> DEFINE F == {s \in SUBSET T : h[s] = g[s]}
  <2>2. {} \in F
    BY <1>1, <2>1 DEF Adds
  <2>3. ASSUME NEW s \in SUBSET T, s # {}, \A x \in s : s \ {x} \in F PROVE s \in F
    <3>1. PICK x \in s : x = (CHOOSE y \in s : TRUE) /\ h[s] = f[x] + h[s \ {x}]
      BY <2>1, <2>3 DEF Adds
    <3>2. PICK z \in s : z = (CHOOSE y \in s : TRUE) /\ g[s] = f[z] + g[s \ {z}]
      BY <1>1, <2>3 DEF Adds
    <3>3. x = z /\ h[s \ {x}] = g[s \ {x}]
      BY <2>3, <3>1, <3>2
    <3>4. h[s] = g[s]
      BY <3>1, <3>2, <3>3
    <3> QED BY <3>4
  <2> HIDE DEF F
  <2>4. \A s \in SUBSET T : s \in F
    BY <2>0, <2>2, <2>3, SubsetInduction
  <2> QED BY <2>1, <2>4 DEF F, Adds
<1>3. ASSUME NEW T \in SUBSET S PROVE \A x \in T : g[T] = f[x] + g[T \ {x}]
  <2> DEFINE F == {s \in SUBSET S : \A x \in s : g[s] = f[x] + g[s \ {x}]}
  <2>1. {} \in F
    OBVIOUS
  <2>2. ASSUME NEW s \in SUBSET S, s # {}, \A x \in s : s \ {x} \in F PROVE s \in F
    <3>1. PICK c \in s : g[s] = f[c] + g[s \ {c}]
      BY <1>1, <2>2 DEF Adds
    <3>2. ASSUME NEW x \in s, x # c PROVE g[s] = f[x] + g[s \ {x}]
      <4>1. x \in s \ {c} /\ c \in s \ {x}
        BY <3>2
      <4>2. g[s \ {c}] = f[x] + g[(s \ {c}) \ {x}] /\ g[s \ {x}] = f[c] + g[(s \ {x}) \ {c}]
        BY <2>2, <4>1
      <4>3. (s \ {c}) \ {x} = (s \ {x}) \ {c} /\ (s \ {c}) \ {x} \in SUBSET S
        OBVIOUS
      <4>4. f[x] \in Int /\ f[c] \in Int /\ g[(s \ {c}) \ {x}] \in Int
        BY <1>1, <4>3
      <4>5. g[s \ {c}] = f[x] + g[(s \ {c}) \ {x}] /\ g[s \ {x}] = f[c] + g[(s \ {c}) \ {x}]
        BY <4>2, <4>3
      <4> DEFINE rest == g[(s \ {c}) \ {x}]
      <4> HIDE DEF rest
      <4>6. g[s] = f[c] + (f[x] + rest) /\ g[s \ {x}] = f[c] + rest /\ rest \in Int
        BY <3>1, <4>4, <4>5 DEF rest
      <4> QED BY <4>4, <4>6
    <3> QED BY <3>1, <3>2
  <2> HIDE DEF F
  <2>3. \A s \in SUBSET S : s \in F
    BY <2>1, <2>2, SubsetInduction
  <2> QED BY <2>3 DEF F
<1>4. ASSUME NEW T \in SUBSET S
      PROVE  /\ SumFunctionOnSet(f, T) \in Int
             /\ T = {} => SumFunctionOnSet(f, T) = 0
             /\ \A x \in T : SumFunctionOnSet(f, T) = f[x] + SumFunctionOnSet(f, T \ {x})
  <2>1. \A x \in T : T \ {x} \in SUBSET S
    OBVIOUS
  <2>2. \A x \in T : SumFunctionOnSet(f, T \ {x}) = g[T \ {x}]
    BY <1>2, <2>1
  <2>3. g[{}] = 0 /\ SumFunctionOnSet(f, T) = g[T] /\ g[T] \in Int
    BY <1>1, <1>2 DEF Adds
  <2>4. \A x \in T : g[T] = f[x] + g[T \ {x}]
    BY <1>3
  <2> QED BY <2>2, <2>3, <2>4
<1> QED BY <1>4

(* Only the numbers that are added matter. *)
LEMMA SumSame ==
    ASSUME NEW S, IsFiniteSet(S), NEW f, \A x \in S : f[x] \in Int,
           NEW g, \A x \in S : g[x] = f[x]
    PROVE  SumFunctionOnSet(f, S) = SumFunctionOnSet(g, S)
<1> DEFINE F == {s \in SUBSET S : SumFunctionOnSet(f, s) = SumFunctionOnSet(g, s)}
<1>1. /\ \A T \in SUBSET S : /\ T = {} => SumFunctionOnSet(f, T) = 0
                             /\ \A x \in T : SumFunctionOnSet(f, T) = f[x] + SumFunctionOnSet(f, T \ {x})
      /\ \A T \in SUBSET S : /\ T = {} => SumFunctionOnSet(g, T) = 0
                             /\ \A x \in T : SumFunctionOnSet(g, T) = g[x] + SumFunctionOnSet(g, T \ {x})
  BY SumAdds
<1>2. {} \in F
  BY <1>1
<1>3. ASSUME NEW T \in SUBSET S, T # {}, \A x \in T : T \ {x} \in F PROVE T \in F
  <2>1. PICK x \in T : TRUE
    BY <1>3
  <2>2. SumFunctionOnSet(f, T \ {x}) = SumFunctionOnSet(g, T \ {x})
    BY <1>3, <2>1
  <2> QED BY <1>1, <2>1, <2>2
<1> HIDE DEF F
<1>4. \A T \in SUBSET S : T \in F
  BY <1>2, <1>3, SubsetInduction
<1> QED BY <1>4 DEF F

(* What adds nothing may be left out. *)
LEMMA SumOfSome ==
    ASSUME NEW S, IsFiniteSet(S), NEW f, \A x \in S : f[x] \in Int,
           NEW T \in SUBSET S, \A x \in S \ T : f[x] = 0
    PROVE  SumFunctionOnSet(f, S) = SumFunctionOnSet(f, T)
<1> DEFINE F == {s \in SUBSET S : SumFunctionOnSet(f, s) = SumFunctionOnSet(f, s \cap T)}
<1>1. \A U \in SUBSET S : /\ SumFunctionOnSet(f, U) \in Int
                          /\ \A x \in U : SumFunctionOnSet(f, U) = f[x] + SumFunctionOnSet(f, U \ {x})
  BY SumAdds
<1>2. {} \in F
  <2>1. {} \cap T = {}
    OBVIOUS
  <2> QED BY <2>1
<1>3. ASSUME NEW U \in SUBSET S, U # {}, \A x \in U : U \ {x} \in F PROVE U \in F
  <2>1. PICK x \in U : TRUE
    BY <1>3
  <2>2. SumFunctionOnSet(f, U \ {x}) = SumFunctionOnSet(f, (U \ {x}) \cap T)
    BY <1>3, <2>1
  <2>3. SumFunctionOnSet(f, U) = f[x] + SumFunctionOnSet(f, U \ {x})
    BY <1>1, <2>1
  <2>4. CASE x \in T
    <3>1. x \in U \cap T /\ (U \cap T) \ {x} = (U \ {x}) \cap T /\ U \cap T \in SUBSET S
      BY <2>1, <2>4
    <3>2. SumFunctionOnSet(f, U \cap T) = f[x] + SumFunctionOnSet(f, (U \cap T) \ {x})
      BY <1>1, <3>1
    <3>3. SumFunctionOnSet(f, U) = SumFunctionOnSet(f, U \cap T)
      BY <2>2, <2>3, <3>1, <3>2
    <3> QED BY <3>3
  <2>5. CASE x \notin T
    <3>1. (U \ {x}) \cap T = U \cap T /\ f[x] = 0 /\ SumFunctionOnSet(f, U \cap T) \in Int
      BY <1>1, <2>1, <2>5
    <3>2. SumFunctionOnSet(f, U \ {x}) = SumFunctionOnSet(f, U \cap T)
      BY <2>2, <3>1
    <3>3. SumFunctionOnSet(f, U) = SumFunctionOnSet(f, U \cap T)
      BY <2>3, <3>1, <3>2
    <3> QED BY <3>3
  <2> QED BY <2>4, <2>5
<1> HIDE DEF F
<1>4. \A U \in SUBSET S : U \in F
  BY <1>2, <1>3, SubsetInduction
<1>5. S \cap T = T
  OBVIOUS
<1> QED BY <1>4, <1>5 DEF F

(* A finite set of integers has a largest element. *)
LEMMA FiniteMaximum ==
    ASSUME NEW S \in SUBSET Int, IsFiniteSet(S), S # {}
    PROVE  \E n \in S : \A m \in S : m <= n
<1> DEFINE F == {T \in SUBSET S : T # {} => \E n \in T : \A m \in T : m <= n}
<1>1. {} \in F
  OBVIOUS
<1>2. ASSUME NEW T \in SUBSET S, T # {}, \A x \in T : T \ {x} \in F PROVE T \in F
  <2>1. PICK x \in T : TRUE
    BY <1>2
  <2>2. CASE T \ {x} = {}
    BY <2>1, <2>2
  <2>3. CASE T \ {x} # {}
    <3>1. PICK n \in T \ {x} : \A m \in T \ {x} : m <= n
      BY <1>2, <2>1, <2>3
    <3>2. x \in Int /\ n \in Int /\ \A m \in T : m \in Int
      OBVIOUS
    <3>3. CASE x <= n
      BY <3>1, <3>2, <3>3
    <3>4. CASE ~(x <= n)
      <4>1. \A m \in T : m <= x
        BY <3>1, <3>2, <3>4
      <4> QED BY <4>1, <2>1
    <3> QED BY <3>3, <3>4
  <2> QED BY <2>2, <2>3
<1> HIDE DEF F
<1>3. \A T \in SUBSET S : T \in F
  BY <1>1, <1>2, SubsetInduction
<1> QED BY <1>3 DEF F

(* Left folds: the values along a sequence *)
(* The positions of a sequence, in the order in which FoldLeft takes them *)
LEMMA MaximumOfPositions ==
    ASSUME NEW n \in Nat
    PROVE  /\ \A s \in SUBSET (1..n) : s # {} => Max(s) \in s
           /\ \A k \in 1..n : /\ Max(1..k) = k /\ (1..k) \ {k} = 1..(k-1)
                              /\ 1..k # {} /\ 1..k \in SUBSET (1..n)
<1>1. ASSUME NEW s \in SUBSET (1..n), s # {} PROVE Max(s) \in s
  <2>1. IsFiniteSet(1..n)
    BY FS_Interval
  <2>2. IsFiniteSet(s)
    BY <2>1, FS_Subset
  <2>3. s \in SUBSET Int
    OBVIOUS
  <2>4. PICK m \in s : \A x \in s : x <= m
    BY <1>1, <2>2, <2>3, FiniteMaximum
  <2>5. m \in s /\ \A y \in s : m >= y
    BY <2>3, <2>4
  <2> QED BY <2>5 DEF Max
<1>2. ASSUME NEW k \in 1..n
      PROVE  Max(1..k) = k /\ (1..k) \ {k} = 1..(k-1) /\ 1..k # {} /\ 1..k \in SUBSET (1..n)
  <2>1. k \in 1..k /\ \A y \in 1..k : k >= y
    OBVIOUS
  <2>2. \A x \in 1..k : x >= k => x = k
    OBVIOUS
  <2>3. Max(1..k) = k
    BY <2>1, <2>2 DEF Max
  <2> QED BY <2>3
<1> QED BY <1>1, <1>2

(* it is a fold of n elements; a is its values along the way *)
Unfolds(it, n, V, base, step) ==
    /\ it[{}] = base
    /\ \A t \in SUBSET (1..n) : t # {} /\ it[t \ {Max(t)}] \in V
           => it[t] = step[Max(t)][it[t \ {Max(t)}]]
Steps(a, n, base, step) == a[0] = base /\ \A k \in 1..n : a[k] = step[k][a[k-1]]

(* Every fold has such values. *)
LEMMA LeftFoldSteps ==
    ASSUME NEW n \in Nat, NEW V, NEW base \in V, NEW step \in [1..n -> [V -> V]],
           NEW it, Unfolds(it, n, V, base, step)
    PROVE  \E a \in [0..n -> V] : a[n] = it[1..n] /\ Steps(a, n, base, step)
<1> USE DEF Unfolds, Steps
<1> DEFINE F == {t \in SUBSET (1..n) : it[t] \in V}
<1>1. {} \in F
  OBVIOUS
<1>2. ASSUME NEW T \in SUBSET (1..n), T # {}, \A x \in T : T \ {x} \in F PROVE T \in F
  <2>1. Max(T) \in T /\ T \ {Max(T)} \in F
    BY <1>2, MaximumOfPositions
  <2>2. it[T] = step[Max(T)][it[T \ {Max(T)}]] /\ Max(T) \in 1..n
    BY <1>2, <2>1
  <2> QED BY <2>1, <2>2
<1>3. IsFiniteSet(1..n)
  BY FS_Interval
<1>4. \A T \in SUBSET (1..n) : T \in F
  <2> DEFINE S == 1..n
  <2> HIDE DEF F, S
  <2>1. /\ IsFiniteSet(S) /\ {} \in F
        /\ \A T \in SUBSET S : (T # {} /\ \A x \in T : T \ {x} \in F) => T \in F
    BY <1>1, <1>2, <1>3 DEF S
  <2>2. \A T \in SUBSET S : T \in F
    BY <2>1, SubsetInduction
  <2> QED BY <2>2 DEF S
<1> HIDE DEF F
<1> DEFINE a == [k \in 0..n |-> it[1..k]]
<1>5. a \in [0..n -> V]
  BY <1>4 DEF F
<1>6. a[0] = base
  BY 1..0 = {}
<1>7. ASSUME NEW k \in 1..n PROVE a[k] = step[k][a[k-1]]
  <2>1. /\ 1..k \in SUBSET (1..n) /\ Max(1..k) = k /\ (1..k) \ {k} = 1..(k-1) /\ 1..k # {}
        /\ k - 1 \in 0..n /\ k \in 0..n
    BY MaximumOfPositions
  <2>2. 1..(k-1) \in SUBSET (1..n) /\ it[1..(k-1)] \in V
    BY <1>4 DEF F
  <2>3. it[1..k] = step[k][it[1..(k-1)]]
    BY <2>1, <2>2
  <2> QED BY <2>1, <2>3
<1>8. a[n] = it[1..n]
  OBVIOUS
<1> HIDE DEF a
<1> QED BY <1>5, <1>6, <1>7, <1>8
=================================================================================
