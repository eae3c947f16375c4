------------------------------ MODULE Inductions ------------------------------
(***************************************************************************)
(* Induction over the natural numbers and over the size of finite sets, as   *)
(* closure of a set: what recursive functions and folds compute is proved   *)
(* with these.                                                             *)
(***************************************************************************)
EXTENDS Integers, FiniteSetTheorems, WellFoundedInduction, TLAPS

(* A set of natural numbers that is not empty has a smallest member.        *)
LEMMA SmallestOf ==
  ASSUME NEW T, T \subseteq Nat, T # {}
  PROVE  \E n \in T : \A m \in T : n <= m
<1>1. PICK n \in T : \A m \in T : ~ (<<m, n>> \in OpToRel(<, Nat))
  BY NatLessThanWellFounded, WFMin
<1>2. \A m \in T : ~(m < n)
  BY <1>1 DEF OpToRel
<1> QED
  BY <1>2

(* A set with 0 that is closed under successors has every natural number.   *)
LEMMA SetInduction ==
  ASSUME NEW S, 0 \in S, \A n \in Nat : n \in S => n + 1 \in S
  PROVE  Nat \subseteq S
<1> SUFFICES ASSUME Nat \ S # {}
             PROVE  FALSE
  OBVIOUS
<1>1. PICK n \in Nat \ S : \A m \in Nat \ S : n <= m
  BY SmallestOf, Nat \ S \subseteq Nat
<1>2. n - 1 \in Nat /\ n - 1 \in S
  BY <1>1
<1> QED
  BY <1>1, <1>2

(* What holds of a finite set if it holds of those with one member less.     *)
LEMMA FiniteInduction ==
  ASSUME NEW S, IsFiniteSet(S), NEW Good,
         \A s \in SUBSET S : (\A x \in s : s \ {x} \in Good) => s \in Good
  PROVE  S \in Good
<1> DEFINE Sizes == {n \in Nat : \A s \in SUBSET S : Cardinality(s) = n => s \in Good}
<1>1. \A s \in SUBSET S : IsFiniteSet(s) /\ Cardinality(s) \in Nat
  BY FS_Subset, FS_CardinalityType
<1>2. 0 \in Sizes
  BY <1>1, FS_EmptySet
<1>3. ASSUME NEW n \in Nat, n \in Sizes
      PROVE  n + 1 \in Sizes
  <2>1. ASSUME NEW s \in SUBSET S, Cardinality(s) = n + 1
        PROVE  s \in Good
    <3>1. ASSUME NEW x \in s
          PROVE  s \ {x} \in Good
      <4>1. Cardinality(s \ {x}) = Cardinality(s) - 1
        BY <1>1, FS_RemoveElement
      <4>2. s \ {x} \in SUBSET S /\ Cardinality(s \ {x}) = n
        BY <1>1, <2>1, <4>1
      <4> QED
        BY <1>3, <4>2
    <3> QED
      BY <3>1
  <2> QED
    BY <2>1
<1>4. Nat \subseteq Sizes
  <2> HIDE DEF Sizes
  <2> QED
    BY <1>2, <1>3, SetInduction
<1> QED
  BY <1>1, <1>4

(* What a fold makes of every subset, with the member that is chosen first.  *)
IsFold(iter, S, base, chosen, step) ==
  \A s \in SUBSET S :
    iter[s] = IF s = {} THEN base ELSE step[chosen[s]][iter[s \ {chosen[s]}]]

(* A fold over a finite set has a value, whichever member is chosen first.   *)
LEMMA FoldExists ==
  ASSUME NEW S, IsFiniteSet(S), NEW V, NEW base \in V,
         NEW chosen, \A s \in SUBSET S : s # {} => chosen[s] \in s,
         NEW step, \A x \in S : \A v \in V : step[x][v] \in V
  PROVE  \E iter \in [SUBSET S -> V] : IsFold(iter, S, base, chosen, step)
<1> DEFINE Subsets(n) == {s \in SUBSET S : Cardinality(s) <= n}
           Folds(f, n) == \A s \in Subsets(n) :
             f[s] = IF s = {} THEN base ELSE step[chosen[s]][f[s \ {chosen[s]}]]
           Sizes == {n \in Nat : \E f \in [Subsets(n) -> V] : Folds(f, n)}
<1>1. \A s \in SUBSET S : IsFiniteSet(s) /\ Cardinality(s) \in Nat
  BY FS_Subset, FS_CardinalityType
<1>2. 0 \in Sizes
  <2>1. \A s \in Subsets(0) : s = {}
    BY <1>1, FS_EmptySet
  <2>2. PICK f : f = [s \in Subsets(0) |-> base]
    OBVIOUS
  <2>3. f \in [Subsets(0) -> V] /\ Folds(f, 0)
    BY <2>1, <2>2
  <2> QED
    BY <2>3
<1>3. ASSUME NEW n \in Nat, n \in Sizes
      PROVE  n + 1 \in Sizes
  <2>1. PICK f \in [Subsets(n) -> V] : Folds(f, n)
    BY <1>3
  <2>2. ASSUME NEW s \in Subsets(n + 1), s # {}
        PROVE  chosen[s] \in s /\ chosen[s] \in S /\ s \ {chosen[s]} \in Subsets(n)
    <3>1. chosen[s] \in s /\ chosen[s] \in S
      BY <2>2
    <3>2. Cardinality(s \ {chosen[s]}) = Cardinality(s) - 1
      BY <1>1, <3>1, FS_RemoveElement
    <3> QED
      BY <1>1, <3>1, <3>2
  <2>3. PICK g : g = [s \in Subsets(n + 1) |->
                        IF s = {} THEN base ELSE step[chosen[s]][f[s \ {chosen[s]}]]]
    OBVIOUS
  <2>4. g \in [Subsets(n + 1) -> V]
    <3>1. ASSUME NEW s \in Subsets(n + 1)
          PROVE  g[s] \in V
      <4>1. CASE s = {}
        BY <2>3, <4>1
      <4>2. CASE s # {}
        <5>1. f[s \ {chosen[s]}] \in V
          BY <2>1, <2>2, <4>2
        <5> QED
          BY <2>2, <2>3, <4>2, <5>1
      <4> QED
        BY <4>1, <4>2
    <3> QED
      BY <2>3, <3>1
  <2>5. \A s \in Subsets(n) : g[s] = f[s]
    <3>1. \A s \in Subsets(n) : s \in Subsets(n + 1)
      BY <1>1
    <3> HIDE DEF Subsets
    <3> QED
      BY <2>1, <2>3, <3>1
  <2>6. Folds(g, n + 1)
    <3>1. ASSUME NEW s \in Subsets(n + 1)
          PROVE  g[s] = IF s = {} THEN base ELSE step[chosen[s]][g[s \ {chosen[s]}]]
      <4> HIDE DEF Subsets
      <4> QED
        BY <2>2, <2>3, <2>5
    <3> QED
      BY <3>1
  <2> HIDE DEF Subsets, Folds
  <2> QED
    BY <2>4, <2>6
<1>4. Nat \subseteq Sizes
  <2> HIDE DEF Sizes
  <2> QED
    BY <1>2, <1>3, SetInduction
<1>5. Subsets(Cardinality(S)) = SUBSET S
  <2>1. \A s \in SUBSET S : Cardinality(s) <= Cardinality(S)
    BY FS_Subset
  <2> QED
    BY <1>1, <2>1
<1>6. Cardinality(S) \in Sizes
  BY <1>1, <1>4
<1>7. PICK f \in [Subsets(Cardinality(S)) -> V] : Folds(f, Cardinality(S))
  BY <1>6
<1> HIDE DEF Subsets
<1> QED
  BY <1>5, <1>7 DEF IsFold

(* What holds of a member if it holds of those of lower rank holds of all.   *)
LEMMA RankInduction ==
  ASSUME NEW S, NEW rank \in [S -> Nat], NEW Good,
         \A x \in S : (\A y \in S : rank[y] < rank[x] => y \in Good) => x \in Good
  PROVE  S \subseteq Good
<1> SUFFICES ASSUME S \ Good # {}
             PROVE  FALSE
  OBVIOUS
<1> DEFINE Ranks == {rank[x] : x \in S \ Good}
<1>1. Ranks \subseteq Nat /\ Ranks # {}
  OBVIOUS
<1>2. PICK n \in Ranks : \A m \in Ranks : n <= m
  BY <1>1, SmallestOf
<1>3. PICK x \in S \ Good : rank[x] = n
  BY <1>2
<1>4. ASSUME NEW y \in S, rank[y] < rank[x]
      PROVE  y \in Good
  <2> SUFFICES ASSUME y \notin Good
               PROVE  FALSE
    OBVIOUS
  <2>1. rank[y] \in Ranks
    OBVIOUS
  <2>2. rank[x] \in Nat /\ rank[y] \in Nat
    OBVIOUS
  <2>3. n <= rank[y]
    <3> HIDE DEF Ranks
    <3> QED
      BY <1>2, <2>1
  <2> QED
    BY <1>3, <1>4, <2>2, <2>3
<1> QED
  BY <1>3, <1>4

(* Steps of next within S lower a rank of up to N, but for where they stop.  *)
Lowers(next, S, Stops, rank, N) ==
  /\ next \in [S -> S]
  /\ N \in Nat /\ rank \in [S -> 0..N]
  /\ \A x \in S \ Stops : rank[next[x]] < rank[x]

(* What is computed where they stop, and from there back, is a value in V.   *)
Computes(base, step, S, Stops, V) ==
  /\ V # {}
  /\ \A x \in S : x \in Stops => base[x] \in V
  /\ \A x \in S \ Stops : \A v \in V : step[x][v] \in V

LEMMA RecursionExists ==
  ASSUME NEW next, NEW S, NEW Stops, NEW rank, NEW N, Lowers(next, S, Stops, rank, N),
         NEW base, NEW step, NEW V, Computes(base, step, S, Stops, V)
  PROVE  \E on \in [S -> V] :
           \A x \in S : on[x] = IF x \in Stops THEN base[x] ELSE step[x][on[next[x]]]
<1> DEFINE Low(n) == {x \in S : rank[x] <= n}
           Goes(f, n) == \A x \in Low(n) :
             f[x] = IF x \in Stops THEN base[x] ELSE step[x][f[next[x]]]
           Sizes == {n \in Nat : \E f \in [S -> V] : Goes(f, n)}
<1> USE DEF Lowers, Computes
<1>1. 0 \in Sizes
  <2>1. PICK v \in V : TRUE
    OBVIOUS
  <2>2. PICK f : f = [x \in S |-> IF x \in Stops THEN base[x] ELSE v]
    OBVIOUS
  <2>3. \A x \in Low(0) : x \in Stops
    <3>1. ASSUME NEW x \in S, x \notin Stops, rank[x] <= 0
          PROVE  FALSE
      <4>1. rank[x] \in 0..N /\ rank[next[x]] \in 0..N
        OBVIOUS
      <4>2. rank[next[x]] < rank[x]
        BY <3>1
      <4> QED
        BY <3>1, <4>1, <4>2
    <3> QED
      BY <3>1
  <2>4. f \in [S -> V]
    BY <2>1, <2>2
  <2>5. Goes(f, 0)
    BY <2>2, <2>3
  <2> QED
    BY <2>4, <2>5
<1>2. ASSUME NEW n \in Nat, n \in Sizes
      PROVE  n + 1 \in Sizes
  <2>1. PICK f \in [S -> V] : Goes(f, n)
    BY <1>2
  <2>2. PICK g : g = [x \in S |-> IF x \in Stops THEN base[x] ELSE step[x][f[next[x]]]]
    OBVIOUS
  <2>3. g \in [S -> V]
    <3>1. \A x \in S : x \notin Stops => f[next[x]] \in V
      OBVIOUS
    <3>2. \A x \in S : x \notin Stops => step[x][f[next[x]]] \in V
      BY <3>1
    <3> QED
      BY <2>2, <3>2
  <2>4. \A x \in Low(n) : g[x] = f[x]
    BY <2>1, <2>2
  <2>5. ASSUME NEW x \in Low(n + 1), x \notin Stops
        PROVE  next[x] \in Low(n)
    <3>1. rank[x] \in 0..N /\ rank[next[x]] \in 0..N /\ next[x] \in S
      OBVIOUS
    <3>2. rank[next[x]] < rank[x] /\ rank[x] <= n + 1
      BY <2>5
    <3> QED
      BY <3>1, <3>2
  <2>6. Goes(g, n + 1)
    <3>1. ASSUME NEW x \in Low(n + 1)
          PROVE  g[x] = IF x \in Stops THEN base[x] ELSE step[x][g[next[x]]]
      <4>1. CASE x \in Stops
        BY <2>2, <4>1
      <4>2. CASE x \notin Stops
        <5>1. g[next[x]] = f[next[x]]
          BY <2>4, <2>5, <4>2
        <5>2. g[x] = step[x][f[next[x]]]
          BY <2>2, <4>2
        <5> QED
          BY <4>2, <5>1, <5>2
      <4> QED
        BY <4>1, <4>2
    <3> QED
      BY <3>1
  <2> HIDE DEF Goes
  <2> QED
    BY <2>3, <2>6
<1>3. N \in Sizes
  <2> HIDE DEF Sizes
  <2> QED
    BY <1>1, <1>2, SetInduction
<1>4. Low(N) = S
  OBVIOUS
<1> QED
  BY <1>3, <1>4

(* Steps that lower a bounded rank come to a stop from everywhere.           *)
LEMMA IterationExists ==
  ASSUME NEW next, NEW S, NEW Stops, NEW rank, NEW N, Lowers(next, S, Stops, rank, N)
  PROVE  \E on \in [S -> S] : \A x \in S : on[x] = IF x \in Stops THEN x ELSE on[next[x]]
<1>1. CASE S = {}
  <2>1. [x \in S |-> x] \in [S -> S]
    OBVIOUS
  <2> QED
    BY <1>1, <2>1
<1>2. CASE S # {}
  <2>1. PICK base, step : base = [x \in S |-> x] /\ step = [x \in S |-> [v \in S |-> v]]
    OBVIOUS
  <2>2. Computes(base, step, S, Stops, S)
    BY <1>2, <2>1 DEF Computes
  <2>3. PICK on \in [S -> S] :
          \A x \in S : on[x] = IF x \in Stops THEN base[x] ELSE step[x][on[next[x]]]
    BY ONLY <2>2, RecursionExists, Lowers(next, S, Stops, rank, N)
  <2>4. \A x \in S : on[next[x]] \in S
    BY <2>3 DEF Lowers
  <2> QED
    BY <2>1, <2>3, <2>4
<1> QED
  BY <1>1, <1>2

(* A function whose value is computed from its values at members of lower,   *)
(* bounded rank.                                                           *)
RanksBelow(below, S, rank, N) ==
  /\ N \in Nat
  /\ rank \in [S -> 0..N]
  /\ \A x \in S : below[x] \subseteq S /\ \A y \in below[x] : rank[y] < rank[x]

StepsBelow(step, below, S, V) ==
  /\ V # {}
  /\ \A x \in S : \A r \in [below[x] -> V] : step[x][r] \in V

LEMMA FunctionExists ==
  ASSUME NEW S, NEW below, NEW rank, NEW N, RanksBelow(below, S, rank, N),
         NEW V, NEW step, StepsBelow(step, below, S, V)
  PROVE  \E F \in [S -> V] : \A x \in S : F[x] = step[x][[y \in below[x] |-> F[y]]]
<1> DEFINE Low(n) == {x \in S : rank[x] < n}
           Goes(f, n) == \A x \in Low(n) : f[x] = step[x][[y \in below[x] |-> f[y]]]
           Sizes == {n \in Nat : \E f \in [S -> V] : Goes(f, n)}
<1>1. /\ N \in Nat /\ rank \in [S -> 0..N] /\ V # {}
      /\ \A x \in S : below[x] \subseteq S /\ \A y \in below[x] : rank[y] < rank[x]
      /\ \A x \in S : \A r \in [below[x] -> V] : step[x][r] \in V
  BY DEF RanksBelow, StepsBelow
<1>2. 0 \in Sizes
  <2>1. PICK v \in V : TRUE
    BY <1>1
  <2>2. PICK f \in [S -> V] : f = [x \in S |-> v]
    BY <2>1
  <2>3. Low(0) = {}
    BY <1>1
  <2> QED
    BY <2>2, <2>3
<1>3. ASSUME NEW n \in Nat, n \in Sizes
      PROVE  n + 1 \in Sizes
  <2>1. PICK f \in [S -> V] : Goes(f, n)
    BY <1>3
  <2>2. PICK g : g = [x \in S |-> step[x][[y \in below[x] |-> f[y]]]]
    OBVIOUS
  <2>3. \A x \in S : [y \in below[x] |-> f[y]] \in [below[x] -> V]
    BY <1>1
  <2>4. g \in [S -> V]
    BY <1>1, <2>2, <2>3
  <2>5. \A x \in Low(n) : g[x] = f[x]
    BY <2>1, <2>2
  <2>6. ASSUME NEW x \in Low(n + 1)
        PROVE  g[x] = step[x][[y \in below[x] |-> g[y]]]
    <3>1. x \in S /\ rank[x] \in Nat /\ rank[x] < n + 1
      BY <1>1
    <3>2. \A y \in below[x] : y \in Low(n)
      BY <1>1, <3>1
    <3>3. [y \in below[x] |-> g[y]] = [y \in below[x] |-> f[y]]
      BY <2>5, <3>2
    <3> QED
      BY <2>2, <3>1, <3>3
  <2> HIDE DEF Low
  <2> QED
    BY <2>4, <2>6
<1>4. N + 1 \in Sizes
  <2> HIDE DEF Sizes
  <2> QED
    BY <1>1, <1>2, <1>3, SetInduction
<1>5. Low(N + 1) = S
  BY <1>1
<1> QED
  BY <1>4, <1>5

(* A finite set of natural numbers that is not empty has a largest member.   *)
LEMMA LargestOf ==
  ASSUME NEW S, IsFiniteSet(S), S \subseteq Nat, S # {}
  PROVE  \E n \in S : \A m \in S : m <= n
<1> DEFINE Good == {s \in SUBSET S : s # {} => \E n \in s : \A m \in s : m <= n}
<1>1. ASSUME NEW s \in SUBSET S, \A x \in s : s \ {x} \in Good
      PROVE  s \in Good
  <2>1. CASE s = {}
    BY <2>1
  <2>2. CASE s # {}
    <3>1. PICK x \in s : TRUE
      BY <2>2
    <3>2. CASE s \ {x} = {}
      <4>1. \A m \in s : m <= x
        BY <3>1, <3>2
      <4> QED
        BY <3>1, <4>1
    <3>3. CASE s \ {x} # {}
      <4>1. PICK n \in s \ {x} : \A m \in s \ {x} : m <= n
        BY <1>1, <3>1, <3>3
      <4>2. PICK large \in s : n <= large /\ x <= large
        BY <3>1, <4>1
      <4>3. \A m \in s : m <= large
        BY <3>1, <4>1, <4>2
      <4> QED
        BY <4>2, <4>3
    <3> QED
      BY <3>2, <3>3
  <2> QED
    BY <2>1, <2>2
<1>2. S \in Good
  <2> HIDE DEF Good
  <2> QED
    BY <1>1, FiniteInduction
<1> QED
  BY <1>2

=============================================================================
