------------------------- MODULE ProgramFeaturesProofs -------------------------
(***************************************************************************)
(* What the features of any module have to do with each other. Counters are  *)
(* sums over finite sets: what is said of them is said of sums first, by     *)
(* induction over the sets.                                                 *)
(***************************************************************************)
EXTENDS ProgramFeatures, SequenceTheorems, Inductions

-----------------------------------------------------------------------------
(***************************************************************************)
(* Sums.                                                                   *)
(***************************************************************************)

(* The sum over every subset, whichever member is taken off.                *)
AreSums(sums, v, S) ==
  /\ sums \in [SUBSET S -> Int]
  /\ sums[{}] = 0
  /\ \A s \in SUBSET S : \A x \in s : sums[s] = v[x] + sums[s \ {x}]

(* The fold of SumFunction, as a function of the members it has summed up.   *)
Summing(v, S) ==
  CHOOSE iter : iter = [s \in SUBSET S |->
    IF s = {} THEN 0
    ELSE LET x == CHOOSE x \in s : TRUE
         IN  v[x] + iter[s \ {x}]]

LEMMA SumFolds ==
  ASSUME NEW S, NEW v, DOMAIN v = S
  PROVE  SumFunction(v) = Summing(v, S)[S]
BY DEF SumFunction, SumFunctionOnSet, FoldFunctionOnSet, MapThenFoldSet, Summing

LEMMA SumsExist ==
  ASSUME NEW S, IsFiniteSet(S), NEW v, v \in [S -> Int]
  PROVE  \E sums : AreSums(sums, v, S) /\ SumFunction(v) = sums[S]
<1>1. PICK step : step = [x \in S |-> [n \in Int |-> v[x] + n]]
  OBVIOUS
<1>2. PICK chosen : chosen = [s \in SUBSET S |-> CHOOSE x \in s : TRUE]
  OBVIOUS
<1>3. \A s \in SUBSET S : s # {} => chosen[s] \in s
  BY <1>2
<1>4. \A x \in S : \A n \in Int : step[x][n] = v[x] + n /\ step[x][n] \in Int
  BY <1>1
<1>5. PICK iter \in [SUBSET S -> Int] : \A s \in SUBSET S :
        iter[s] = IF s = {} THEN 0 ELSE step[chosen[s]][iter[s \ {chosen[s]}]]
  <2>1. \A x \in S : \A n \in Int : step[x][n] \in Int
    BY <1>4
  <2>2. PICK Between, zero : Between = Int /\ zero = 0
    OBVIOUS
  <2>3. \A x \in S : \A n \in Between : step[x][n] \in Between
    BY <2>1, <2>2
  <2>4. zero \in Between
    BY <2>2
  <2>5. \E iter \in [SUBSET S -> Between] : IsFold(iter, S, zero, chosen, step)
    BY ONLY <1>3, <2>3, <2>4, FoldExists, IsFiniteSet(S)
  <2> QED
    BY ONLY <2>2, <2>5 DEF IsFold
<1> DEFINE Is(f) ==
      f = [s \in SUBSET S |->
             IF s = {} THEN 0
             ELSE LET x == CHOOSE x \in s : TRUE
                  IN  v[x] + f[s \ {x}]]
<1>6. Is(iter)
  <2>1. ASSUME NEW s \in SUBSET S, s # {}
        PROVE  iter[s] = LET x == CHOOSE x \in s : TRUE
                         IN  v[x] + iter[s \ {x}]
    <3>1. PICK x : x = CHOOSE y \in s : TRUE
      OBVIOUS
    <3>2. x = chosen[s] /\ x \in S
      BY <1>2, <2>1, <3>1
    <3>3. iter[s \ {x}] \in Int /\ iter[s] = step[x][iter[s \ {x}]]
      BY <1>5, <2>1, <3>2
    <3>4. iter[s] = v[x] + iter[s \ {x}]
      BY <1>4, <3>2, <3>3
    <3> QED
      BY <3>1, <3>4
  <2>2. \A s \in SUBSET S : s = {} => iter[s] = 0
    BY <1>5
  <2> QED
    BY <1>5, <2>1, <2>2
<1>7. Is(Summing(v, S))
  BY <1>6 DEF Summing
<1>8. PICK sums : sums = Summing(v, S)
  OBVIOUS
<1>9. sums = iter
  <2>1. \A s \in SUBSET S : sums[s] = IF s = {} THEN 0
                                      ELSE v[chosen[s]] + sums[s \ {chosen[s]}]
    BY <1>2, <1>7, <1>8
  <2>2. \A s \in SUBSET S : iter[s] = IF s = {} THEN 0
                                      ELSE v[chosen[s]] + iter[s \ {chosen[s]}]
    BY <1>2, <1>6
  <2>3. PICK Good : Good = {s \in SUBSET S : sums[s] = iter[s]}
    OBVIOUS
  <2>4. ASSUME NEW s \in SUBSET S, \A x \in s : s \ {x} \in Good
        PROVE  s \in Good
    <3>1. s # {} => sums[s \ {chosen[s]}] = iter[s \ {chosen[s]}]
      BY <1>3, <2>3, <2>4
    <3>2. sums[s] = iter[s]
      BY <2>1, <2>2, <3>1
    <3> QED
      BY <2>3, <3>2
  <2>5. \A s \in SUBSET S : s \in Good
    <3>1. ASSUME NEW s \in SUBSET S
          PROVE  s \in Good
      <4>1. IsFiniteSet(s)
        BY FS_Subset
      <4>2. \A t \in SUBSET s : (\A x \in t : t \ {x} \in Good) => t \in Good
        BY <2>4
      <4> QED
        BY ONLY <4>1, <4>2, FiniteInduction
    <3> QED
      BY <3>1
  <2>6. DOMAIN sums = SUBSET S
    BY <1>7, <1>8
  <2> QED
    BY <1>5, <1>7, <1>8, <2>3, <2>5, <2>6
<1>10. \A s \in SUBSET S : s # {} => iter[s] = v[chosen[s]] + iter[s \ {chosen[s]}]
  BY <1>2, <1>6
<1>11. PICK Good : Good = {s \in SUBSET S : \A x \in s : iter[s] = v[x] + iter[s \ {x}]}
  OBVIOUS
<1>12. ASSUME NEW s \in SUBSET S, \A x \in s : s \ {x} \in Good
       PROVE  s \in Good
  <2>1. ASSUME NEW x \in s
        PROVE  iter[s] = v[x] + iter[s \ {x}]
    <3>1. PICK y \in s : iter[s] = v[y] + iter[s \ {y}]
      BY <1>3, <1>10, <2>1
    <3>2. CASE x = y
      BY <3>1, <3>2
    <3>3. CASE x # y
      <4>1. s \ {x} \in Good /\ s \ {y} \in Good /\ y \in s \ {x} /\ x \in s \ {y}
        BY <1>12, <3>3
      <4>2. iter[s \ {x}] = v[y] + iter[(s \ {x}) \ {y}]
        BY <1>11, <4>1
      <4>3. iter[s \ {y}] = v[x] + iter[(s \ {y}) \ {x}]
        BY <1>11, <4>1
      <4>4. (s \ {x}) \ {y} = (s \ {y}) \ {x} /\ (s \ {x}) \ {y} \in SUBSET S
        OBVIOUS
      <4>5. PICK rest \in Int : rest = iter[(s \ {x}) \ {y}]
        BY <1>5, <4>4
      <4>6. PICK vx, vy \in Int : vx = v[x] /\ vy = v[y]
        BY <2>1, <3>1
      <4>7. iter[s \ {x}] = vy + rest /\ iter[s \ {y}] = vx + rest
        BY <4>2, <4>3, <4>4, <4>5, <4>6
      <4>8. iter[s] = vy + (vx + rest) /\ vx + (vy + rest) = vy + (vx + rest)
        BY <3>1, <4>6, <4>7
      <4> QED
        BY ONLY <4>6, <4>7, <4>8
    <3> QED
      BY <3>2, <3>3
  <2> QED
    BY <1>11, <2>1
<1>13. \A s \in SUBSET S : s \in Good
  <2>1. ASSUME NEW s \in SUBSET S
        PROVE  s \in Good
    <3>1. IsFiniteSet(s)
      BY FS_Subset
    <3>2. \A t \in SUBSET s : (\A x \in t : t \ {x} \in Good) => t \in Good
      BY <1>12
    <3> QED
      BY ONLY <3>1, <3>2, FiniteInduction
  <2> QED
    BY <2>1
<1>14. iter[{}] = 0
  BY <1>5
<1>15. AreSums(iter, v, S)
  BY <1>5, <1>11, <1>13, <1>14 DEF AreSums
<1>16. SumFunction(v) = iter[S]
  BY <1>8, <1>9, SumFolds
<1> QED
  BY <1>15, <1>16

LEMMA SumIsInt ==
  ASSUME NEW S, IsFiniteSet(S), NEW v \in [S -> Int]
  PROVE  SumFunction(v) \in Int
<1>1. PICK vs : AreSums(vs, v, S) /\ SumFunction(v) = vs[S]
  BY SumsExist
<1> QED
  BY <1>1 DEF AreSums

(* The sum of the sums is the sum of all.                                   *)
LEMMA SumAdds ==
  ASSUME NEW S, IsFiniteSet(S), NEW u \in [S -> Int], NEW v \in [S -> Int],
         NEW w \in [S -> Int], \A x \in S : w[x] = u[x] + v[x]
  PROVE  SumFunction(w) = SumFunction(u) + SumFunction(v)
<1>1. PICK us : AreSums(us, u, S) /\ SumFunction(u) = us[S]
  BY SumsExist
<1>2. PICK vs : AreSums(vs, v, S) /\ SumFunction(v) = vs[S]
  BY SumsExist
<1>3. PICK ws : AreSums(ws, w, S) /\ SumFunction(w) = ws[S]
  BY SumsExist
<1>4. PICK Good : Good = {s \in SUBSET S : ws[s] = us[s] + vs[s]}
  OBVIOUS
<1>5. ASSUME NEW s \in SUBSET S, \A x \in s : s \ {x} \in Good
      PROVE  s \in Good
  <2>1. CASE s = {}
    <3>1. ws[s] = us[s] + vs[s]
      BY <1>1, <1>2, <1>3, <2>1 DEF AreSums
    <3> QED
      BY <1>4, <3>1
  <2>2. CASE s # {}
    <3>1. PICK x \in s : TRUE
      BY <2>2
    <3>2. /\ ws[s] = w[x] + ws[s \ {x}]
          /\ us[s] = u[x] + us[s \ {x}]
          /\ vs[s] = v[x] + vs[s \ {x}]
          /\ us[s \ {x}] \in Int /\ vs[s \ {x}] \in Int
      BY <1>1, <1>2, <1>3 DEF AreSums
    <3>3. ws[s \ {x}] = us[s \ {x}] + vs[s \ {x}]
      BY <1>4, <1>5
    <3>4. ws[s] = us[s] + vs[s]
      <4>1. w[x] = u[x] + v[x] /\ u[x] \in Int /\ v[x] \in Int
        BY <3>1
      <4> QED
        BY <3>2, <3>3, <4>1
    <3> QED
      BY <1>4, <3>4
  <2> QED
    BY <2>1, <2>2
<1>6. S \in Good
  BY ONLY <1>5, FiniteInduction, IsFiniteSet(S)
<1> QED
  BY <1>1, <1>2, <1>3, <1>4, <1>6

(* More everywhere is more in all, and what is nowhere negative is not.     *)
LEMMA SumGrows ==
  ASSUME NEW S, IsFiniteSet(S), NEW u \in [S -> Int], NEW v \in [S -> Int],
         \A x \in S : u[x] <= v[x]
  PROVE  SumFunction(u) <= SumFunction(v)
<1>1. PICK us : AreSums(us, u, S) /\ SumFunction(u) = us[S]
  BY SumsExist
<1>2. PICK vs : AreSums(vs, v, S) /\ SumFunction(v) = vs[S]
  BY SumsExist
<1>3. PICK Good : Good = {s \in SUBSET S : us[s] <= vs[s]}
  OBVIOUS
<1>4. ASSUME NEW s \in SUBSET S, \A x \in s : s \ {x} \in Good
      PROVE  s \in Good
  <2>1. CASE s = {}
    <3>1. us[s] <= vs[s]
      BY <1>1, <1>2, <2>1 DEF AreSums
    <3> QED
      BY <1>3, <3>1
  <2>2. CASE s # {}
    <3>1. PICK x \in s : TRUE
      BY <2>2
    <3>2. /\ us[s] = u[x] + us[s \ {x}]
          /\ vs[s] = v[x] + vs[s \ {x}]
          /\ us[s \ {x}] \in Int /\ vs[s \ {x}] \in Int
      BY <1>1, <1>2 DEF AreSums
    <3>3. us[s \ {x}] <= vs[s \ {x}]
      BY <1>3, <1>4
    <3>4. us[s] <= vs[s]
      <4>1. u[x] <= v[x] /\ u[x] \in Int /\ v[x] \in Int
        BY <3>1
      <4> QED
        BY <3>2, <3>3, <4>1
    <3> QED
      BY <1>3, <3>4
  <2> QED
    BY <2>1, <2>2
<1>5. S \in Good
  BY ONLY <1>4, FiniteInduction, IsFiniteSet(S)
<1> QED
  BY <1>1, <1>2, <1>3, <1>5

LEMMA SumOfZeros ==
  ASSUME NEW S, IsFiniteSet(S), NEW v \in [S -> Int], \A x \in S : v[x] = 0
  PROVE  SumFunction(v) = 0
<1>1. SumFunction(v) = SumFunction(v) + SumFunction(v)
  BY SumAdds
<1> QED
  BY <1>1, SumIsInt

LEMMA SumIsNat ==
  ASSUME NEW S, IsFiniteSet(S), NEW v \in [S -> Nat]
  PROVE  SumFunction(v) \in Nat
<1>1. PICK u \in [S -> Int] : \A x \in S : u[x] = 0
  <2>1. [x \in S |-> 0] \in [S -> Int] /\ \A y \in S : [x \in S |-> 0][y] = 0
    OBVIOUS
  <2> QED
    BY <2>1
<1>2. v \in [S -> Int] /\ \A x \in S : u[x] <= v[x]
  <2>1. \A x \in S : v[x] \in Nat /\ u[x] = 0
    BY <1>1
  <2>2. v \in [S -> Int]
    OBVIOUS
  <2> QED
    BY <2>1, <2>2
<1>3. SumFunction(u) = 0
  BY <1>1, SumOfZeros
<1>4. SumFunction(u) <= SumFunction(v)
  BY <1>2, SumGrows
<1> QED
  BY <1>2, <1>3, <1>4, SumIsInt

(* A sum of natural numbers that is zero has zeros only.                    *)
LEMMA NothingAddsUp ==
  ASSUME NEW S, IsFiniteSet(S), NEW v \in [S -> Nat], SumFunction(v) = 0, NEW x \in S
  PROVE  v[x] = 0
<1>1. v \in [S -> Int] /\ v[x] \in Nat
  OBVIOUS
<1>2. PICK vs : AreSums(vs, v, S) /\ SumFunction(v) = vs[S]
  BY <1>1, SumsExist
<1>3. vs[S] = v[x] + vs[S \ {x}]
  BY <1>2 DEF AreSums
<1>4. vs[S \ {x}] >= 0
  <2>1. PICK Good : Good = {s \in SUBSET S : vs[s] >= 0}
    OBVIOUS
  <2>2. ASSUME NEW s \in SUBSET S, \A y \in s : s \ {y} \in Good
        PROVE  s \in Good
    <3>1. CASE s = {}
      BY <1>2, <2>1, <3>1 DEF AreSums
    <3>2. CASE s # {}
      <4>1. PICK y \in s : TRUE
        BY <3>2
      <4>2. vs[s] = v[y] + vs[s \ {y}] /\ vs[s \ {y}] \in Int
        BY <1>2 DEF AreSums
      <4>3. vs[s \ {y}] >= 0 /\ v[y] \in Nat
        BY <2>1, <2>2
      <4>4. vs[s] >= 0
        BY <4>2, <4>3
      <4> QED
        BY <2>1, <4>4
    <3> QED
      BY <3>1, <3>2
  <2>3. S \ {x} \in Good
    <3>1. IsFiniteSet(S \ {x}) /\ S \ {x} \in SUBSET S
      BY FS_Subset
    <3>2. \A s \in SUBSET (S \ {x}) : (\A y \in s : s \ {y} \in Good) => s \in Good
      BY <2>2
    <3> QED
      BY ONLY <3>1, <3>2, FiniteInduction
  <2> QED
    BY <2>1, <2>3
<1>5. vs[S \ {x}] \in Int /\ v[x] \in Nat
  BY <1>2 DEF AreSums
<1> QED
  BY <1>2, <1>3, <1>4, <1>5

(* A set is counted by counting what is sent to each of some places.        *)
LEMMA CountedByPlaces ==
  ASSUME NEW E, IsFiniteSet(E), NEW S, IsFiniteSet(S), NEW g \in [E -> S],
         NEW v \in [S -> Int], \A x \in S : v[x] = Cardinality({e \in E : g[e] = x})
  PROVE  SumFunction(v) = Cardinality(E)
<1>1. PICK vs : AreSums(vs, v, S) /\ SumFunction(v) = vs[S]
  BY SumsExist
<1> DEFINE Into(s) == {e \in E : g[e] \in s}
<1>2. PICK Good : Good = {s \in SUBSET S : vs[s] = Cardinality(Into(s))}
  OBVIOUS
<1>3. ASSUME NEW s \in SUBSET S, \A x \in s : s \ {x} \in Good
      PROVE  s \in Good
  <2>1. CASE s = {}
    <3>1. Into(s) = {} /\ Cardinality({}) = 0
      BY <2>1, FS_EmptySet
    <3> QED
      BY <1>1, <1>2, <2>1, <3>1 DEF AreSums
  <2>2. CASE s # {}
    <3>1. PICK x \in s : TRUE
      BY <2>2
    <3>2. PICK A, B : A = Into(s \ {x}) /\ B = {e \in E : g[e] = x}
      OBVIOUS
    <3>3. Into(s) = A \cup B /\ A \cap B = {} /\ A \subseteq E /\ B \subseteq E
      BY <3>2
    <3>4. IsFiniteSet(A) /\ IsFiniteSet(B) /\ Cardinality({}) = 0
      BY <3>3, FS_Subset, FS_EmptySet
    <3>5. Cardinality(A \cup B) = Cardinality(A) + Cardinality(B) - Cardinality(A \cap B)
      BY <3>4, FS_Union
    <3>6. Cardinality(A) \in Nat /\ Cardinality(B) \in Nat
      BY <3>4, FS_CardinalityType
    <3>7. vs[s] = v[x] + vs[s \ {x}]
      BY <1>1 DEF AreSums
    <3>8. vs[s \ {x}] = Cardinality(A) /\ v[x] = Cardinality(B)
      BY <1>2, <1>3, <3>2
    <3>9. Cardinality(Into(s)) = Cardinality(A) + Cardinality(B)
      <4> HIDE DEF Into
      <4>1. Cardinality(Into(s)) = Cardinality(A) + Cardinality(B) - 0
        BY ONLY <3>3, <3>4, <3>5
      <4> QED
        BY ONLY <3>6, <4>1
    <3>10. vs[s] = Cardinality(Into(s))
      <4>1. vs[s] = Cardinality(B) + Cardinality(A)
        BY <3>7, <3>8
      <4> QED
        BY ONLY <3>6, <3>9, <4>1
    <3> QED
      BY <1>2, <3>10
  <2> QED
    BY <2>1, <2>2
<1>4. S \in Good
  <2> HIDE DEF Into
  <2> QED
    BY ONLY <1>3, FiniteInduction, IsFiniteSet(S)
<1>5. Into(S) = E
  OBVIOUS
<1> QED
  BY <1>1, <1>2, <1>4, <1>5

(* Ones are counted by adding them.                                         *)
LEMMA SumOfOnes ==
  ASSUME NEW S, IsFiniteSet(S), NEW v \in [S -> Int], NEW E \in SUBSET S,
         \A x \in S : v[x] = One(x \in E)
  PROVE  SumFunction(v) = Cardinality(E)
<1>1. IsFiniteSet(E)
  BY FS_Subset
<1>2. PICK g \in [E -> S] : g = [e \in E |-> e]
  OBVIOUS
<1>3. ASSUME NEW x \in S
      PROVE  v[x] = Cardinality({e \in E : g[e] = x})
  <2>1. CASE x \in E
    <3>1. {e \in E : g[e] = x} = {x}
      BY <1>2, <2>1
    <3>2. Cardinality({x}) = 1
      BY FS_Singleton
    <3> QED
      BY <2>1, <3>1, <3>2 DEF One
  <2>2. CASE x \notin E
    <3>1. {e \in E : g[e] = x} = {}
      BY <1>2, <2>2
    <3>2. Cardinality({}) = 0
      BY FS_EmptySet
    <3> QED
      BY <2>2, <3>1, <3>2 DEF One
  <2> QED
    BY <2>1, <2>2
<1> QED
  BY <1>1, <1>3, CountedByPlaces

(* What is summed up by places adds up to all, whichever places there are.    *)
LEMMA SumByPlaces ==
  ASSUME NEW S, IsFiniteSet(S), NEW N, IsFiniteSet(N), NEW g \in [S -> N],
         NEW v \in [S -> Int], NEW w \in [N -> Int],
         \A n \in N : w[n] = SumFunction([x \in S |-> IF g[x] = n THEN v[x] ELSE 0])
  PROVE  SumFunction(w) = SumFunction(v)
<1>1. PICK ws : AreSums(ws, w, N) /\ SumFunction(w) = ws[N]
  BY SumsExist
<1> DEFINE Part(T) == [x \in S |-> IF g[x] \in T THEN v[x] ELSE 0]
<1>2. \A T : Part(T) \in [S -> Int] /\ \A x \in S : Part(T)[x] = IF g[x] \in T THEN v[x] ELSE 0
  OBVIOUS
<1>3. PICK Good : Good = {T \in SUBSET N : ws[T] = SumFunction(Part(T))}
  OBVIOUS
<1>4. ASSUME NEW T \in SUBSET N, \A n \in T : T \ {n} \in Good
      PROVE  T \in Good
  <2>1. CASE T = {}
    <3>1. \A x \in S : Part(T)[x] = 0
      BY <1>2, <2>1
    <3>2. SumFunction(Part(T)) = 0
      <4> HIDE DEF Part
      <4> QED
        BY <1>2, <3>1, SumOfZeros
    <3> QED
      BY <1>1, <1>3, <2>1, <3>2 DEF AreSums
  <2>2. CASE T # {}
    <3>1. PICK n \in T : TRUE
      BY <2>2
    <3>2. ws[T] = w[n] + ws[T \ {n}]
      BY <1>1 DEF AreSums
    <3>3. ws[T \ {n}] = SumFunction(Part(T \ {n}))
      BY <1>3, <1>4
    <3>4. Part({n}) = [x \in S |-> IF g[x] = n THEN v[x] ELSE 0]
      OBVIOUS
    <3>5. w[n] = SumFunction(Part({n}))
      BY <3>4
    <3>6. \A x \in S : Part(T)[x] = Part({n})[x] + Part(T \ {n})[x]
      <4>1. ASSUME NEW x \in S
            PROVE  Part(T)[x] = Part({n})[x] + Part(T \ {n})[x]
        <5>1. v[x] \in Int
          OBVIOUS
        <5>2. CASE g[x] = n
          BY <1>2, <3>1, <5>1, <5>2
        <5>3. CASE g[x] # n /\ g[x] \in T
          BY <1>2, <5>1, <5>3
        <5>4. CASE g[x] \notin T
          BY <1>2, <3>1, <5>4
        <5> QED
          BY <5>2, <5>3, <5>4
      <4> QED
        BY <4>1
    <3>7. SumFunction(Part(T)) = SumFunction(Part({n})) + SumFunction(Part(T \ {n}))
      <4>1. PICK p, q, t : p = Part({n}) /\ q = Part(T \ {n}) /\ t = Part(T)
        OBVIOUS
      <4>2. p \in [S -> Int] /\ q \in [S -> Int] /\ t \in [S -> Int]
        BY <1>2, <4>1
      <4>3. \A x \in S : t[x] = p[x] + q[x]
        BY <3>6, <4>1
      <4>4. SumFunction(t) = SumFunction(p) + SumFunction(q)
        BY ONLY <4>2, <4>3, SumAdds, IsFiniteSet(S)
      <4> QED
        BY <4>1, <4>4
    <3>8. ws[T] = SumFunction(Part(T))
      BY <3>2, <3>3, <3>5, <3>7
    <3> QED
      BY <1>3, <3>8
  <2> QED
    BY <2>1, <2>2
<1>5. N \in Good
  BY ONLY <1>4, FiniteInduction, IsFiniteSet(N)
<1>6. Part(N) = v
  OBVIOUS
<1> QED
  BY <1>1, <1>3, <1>5, <1>6

(* Where all but one of the numbers are zero the sum is that one.            *)
LEMMA SumOfOne ==
  ASSUME NEW S, IsFiniteSet(S), NEW v \in [S -> Int], NEW x \in S,
         \A y \in S : y # x => v[y] = 0
  PROVE  SumFunction(v) = v[x]
<1>1. PICK vs : AreSums(vs, v, S) /\ SumFunction(v) = vs[S]
  BY SumsExist
<1>2. PICK Good : Good = {s \in SUBSET (S \ {x}) : vs[s] = 0}
  OBVIOUS
<1>3. ASSUME NEW s \in SUBSET (S \ {x}), \A y \in s : s \ {y} \in Good
      PROVE  s \in Good
  <2>1. CASE s = {}
    BY <1>1, <1>2, <2>1 DEF AreSums
  <2>2. CASE s # {}
    <3>1. PICK y \in s : TRUE
      BY <2>2
    <3>2. vs[s] = v[y] + vs[s \ {y}]
      BY <1>1 DEF AreSums
    <3>3. vs[s \ {y}] = 0 /\ v[y] = 0
      BY <1>2, <1>3
    <3> QED
      BY <1>2, <3>2, <3>3
  <2> QED
    BY <2>1, <2>2
<1>4. IsFiniteSet(S \ {x})
  BY FS_Subset
<1>5. S \ {x} \in Good
  BY ONLY <1>3, <1>4, FiniteInduction
<1>6. vs[S] = v[x] + vs[S \ {x}] /\ v[x] \in Int
  BY <1>1 DEF AreSums
<1> QED
  BY <1>1, <1>2, <1>5, <1>6

-----------------------------------------------------------------------------
(***************************************************************************)
(* Keys. A function without a name is known by how many of some functions    *)
(* come before it.                                                         *)
(***************************************************************************)
Rank(f, T) == Cardinality({g \in T : g < f})

LEMMA RankIsNat ==
  ASSUME NEW f \in Nat, NEW T \in SUBSET Nat
  PROVE  IsFiniteSet({g \in T : g < f}) /\ Rank(f, T) \in Nat
<1>1. \A g \in {h \in T : h < f} : g <= f
  OBVIOUS
<1>2. IsFiniteSet({g \in T : g < f})
  BY <1>1, FS_BoundedSetOfNaturals
<1> QED
  BY <1>2, FS_CardinalityType DEF Rank

LEMMA RanksRise ==
  ASSUME NEW f \in Nat, NEW g \in Nat, NEW T \in SUBSET Nat, f \in T, f < g
  PROVE  Rank(f, T) < Rank(g, T)
<1>1. PICK A, B : A = {h \in T : h < f} /\ B = {h \in T : h < g}
  OBVIOUS
<1>2. IsFiniteSet(A) /\ IsFiniteSet(B) /\ Cardinality(A) \in Nat /\ Cardinality(B) \in Nat
  <2>1. IsFiniteSet(A) /\ IsFiniteSet(B)
    BY <1>1, RankIsNat
  <2> QED
    BY <2>1, FS_CardinalityType
<1>3. A \subseteq B /\ f \in B /\ f \notin A
  <2>1. \A h \in T : h \in Nat /\ (h < f => h < g)
    OBVIOUS
  <2>2. f \in B /\ f \notin A
    BY <1>1
  <2> QED
    BY <1>1, <2>1, <2>2
<1>4. Cardinality(A) <= Cardinality(B) /\ Cardinality(A) # Cardinality(B)
  BY <1>2, <1>3, FS_Subset
<1> QED
  BY <1>1, <1>2, <1>4 DEF Rank

LEMMA RanksOfMore ==
  ASSUME NEW f \in Nat, NEW T \in SUBSET Nat, NEW D \in SUBSET T
  PROVE  Rank(f, D) <= Rank(f, T)
<1>1. {g \in D : g < f} \in SUBSET {g \in T : g < f}
  OBVIOUS
<1> QED
  BY <1>1, RankIsNat, FS_Subset DEF Rank

(* If every number made for a function with a body among those with bodies   *)
(* was made for some such function among all, the numbers are the same.     *)
LEMMA RanksAgree ==
  ASSUME NEW T \in SUBSET Nat, NEW D \in SUBSET T,
         \A f \in D : \E g \in D : Rank(g, T) = Rank(f, D)
  PROVE  \A f \in D : Rank(f, T) = Rank(f, D)
<1> SUFFICES ASSUME {f \in D : Rank(f, T) # Rank(f, D)} # {}
             PROVE  FALSE
  OBVIOUS
<1>1. PICK f \in D : /\ Rank(f, T) # Rank(f, D)
                     /\ \A g \in D : Rank(g, T) # Rank(g, D) => f <= g
  <2>1. PICK Wrong : Wrong = {f \in D : Rank(f, T) # Rank(f, D)}
    OBVIOUS
  <2>2. Wrong \subseteq Nat /\ Wrong # {}
    BY <2>1
  <2>3. PICK f \in Wrong : \A g \in Wrong : f <= g
    BY <2>2, SmallestOf
  <2> QED
    BY <2>1, <2>3
<1>2. PICK g \in D : Rank(g, T) = Rank(f, D)
  OBVIOUS
<1>3. f \in Nat /\ g \in Nat /\ f \in T /\ g \in T /\ D \in SUBSET Nat
  OBVIOUS
<1>4. /\ Rank(f, T) \in Nat /\ Rank(f, D) \in Nat
      /\ Rank(g, T) \in Nat /\ Rank(g, D) \in Nat
  BY <1>3, RankIsNat
<1>5. CASE g < f
  <2>1. Rank(g, T) = Rank(g, D)
    BY <1>1, <1>3, <1>5
  <2>2. Rank(g, D) < Rank(f, D)
    BY <1>3, <1>5, RanksRise
  <2> QED
    BY <1>2, <1>4, <2>1, <2>2
<1>6. CASE g = f
  BY <1>1, <1>2, <1>6
<1>7. CASE f < g
  <2>1. Rank(f, T) < Rank(g, T)
    BY <1>3, <1>7, RanksRise
  <2>2. Rank(f, D) <= Rank(f, T)
    BY <1>3, RanksOfMore
  <2> QED
    BY <1>2, <1>4, <2>1, <2>2
<1> QED
  BY <1>3, <1>5, <1>6, <1>7

Unnamed(S) == {f \in S : Nameless(f)}

LEMMA KeysAre ==
  ASSUME NEW f, NEW S
  PROVE  Key(f, S) = IF Nameless(f) THEN <<"Nameless", Rank(f, Unnamed(S))>>
                     ELSE module[f].name
<1>1. {g \in S : g < f /\ Nameless(g)} = {g \in Unnamed(S) : g < f}
  BY DEF Unnamed
<1> QED
  BY <1>1 DEF Key, Rank

(* What LLVM says of a module, by functions.                                *)
LEMMA ModuleIs ==
  ASSUME IsModule(module)
  PROVE  /\ DOMAIN module = 1..Len(module) /\ Len(module) \in Nat
         /\ DOMAIN module \subseteq Nat /\ IsFiniteSet(DOMAIN module)
         /\ Defined \subseteq DOMAIN module /\ IsFiniteSet(Defined)
         /\ \A f \in DOMAIN module :
              \A g \in DOMAIN module :
                module[f].name = module[g].name => f = g \/ module[f].name = <<>>
<1>1. DOMAIN module = 1..Len(module) /\ Len(module) \in Nat
  BY LenProperties DEF IsModule
<1>2. IsFiniteSet(DOMAIN module)
  BY <1>1, FS_Interval
<1>3. Defined \subseteq DOMAIN module
  BY DEF Defined
<1>4. IsFiniteSet(Defined)
  BY <1>2, <1>3, FS_Subset
<1>5. DOMAIN module \subseteq Nat
  BY <1>1
<1> QED
  BY <1>1, <1>2, <1>3, <1>4, <1>5 DEF IsModule

(* Functions whose names are apart from those that are made never have one    *)
(* key, whichever of them are numbered.                                     *)
LEMMA KeysDiffer ==
  ASSUME IsModule(module), NamesApart, NEW S \in {DOMAIN module, Defined},
         NEW f \in Defined, NEW g \in Defined, Key(f, S) = Key(g, S)
  PROVE  f = g
<1>1. /\ f \in DOMAIN module /\ g \in DOMAIN module /\ DOMAIN module \subseteq Nat
      /\ f \in S /\ g \in S /\ S \subseteq DOMAIN module
  BY ModuleIs
<1>2. CASE Nameless(f) /\ Nameless(g)
  <2>1. Rank(f, Unnamed(S)) = Rank(g, Unnamed(S))
    BY <1>2, KeysAre
  <2>2. f \in Unnamed(S) /\ g \in Unnamed(S) /\ Unnamed(S) \in SUBSET Nat
    BY <1>1, <1>2 DEF Unnamed
  <2>3. f \in Nat /\ g \in Nat
    BY <1>1
  <2>4. Rank(f, Unnamed(S)) \in Nat /\ Rank(g, Unnamed(S)) \in Nat
    BY <2>2, <2>3, RankIsNat
  <2>5. ~(f < g) /\ ~(g < f)
    BY <2>1, <2>2, <2>3, <2>4, RanksRise
  <2> QED
    BY <2>3, <2>5
<1>3. CASE ~ Nameless(f) /\ ~ Nameless(g)
  <2>1. module[f].name = module[g].name /\ module[f].name # <<>>
    BY <1>3, KeysAre DEF Nameless
  <2> QED
    BY <1>1, <2>1, ModuleIs
<1>4. \A h, k \in Defined : Nameless(h) /\ ~ Nameless(k) => Key(h, S) # Key(k, S)
  <2>1. ASSUME NEW h \in Defined, NEW k \in Defined, Nameless(h), ~ Nameless(k)
        PROVE  Key(h, S) # Key(k, S)
    <3>1. Key(k, S) = module[k].name
      BY <2>1, KeysAre
    <3>2. Key(h, S) \in {FnKey(h), MdKey(h)}
      BY DEF FnKey, MdKey
    <3>3. module[k].name \notin {FnKey(h), MdKey(h)}
      BY <2>1 DEF NamesApart
    <3> QED
      BY <3>1, <3>2, <3>3
  <2> QED
    BY <2>1
<1> QED
  BY <1>2, <1>3, <1>4

(* If the module's features find every key, it is that of the function.      *)
LEMMA KeysAgree ==
  ASSUME IsModule(module), NamesApart,
         \A f \in Defined : MdKey(f) \in {FnKey(g) : g \in Defined}
  PROVE  \A f \in Defined : MdKey(f) = FnKey(f)
<1>1. PICK T, D : T = Unnamed(DOMAIN module) /\ D = Unnamed(Defined)
  OBVIOUS
<1>2. T \in SUBSET Nat /\ D \in SUBSET T /\ Defined \subseteq DOMAIN module
  BY <1>1, ModuleIs DEF Unnamed
<1>3. ASSUME NEW f \in D
      PROVE  \E g \in D : Rank(g, T) = Rank(f, D)
  <2>1. f \in Defined /\ Nameless(f)
    BY <1>1 DEF Unnamed
  <2>2. PICK g \in Defined : MdKey(f) = FnKey(g)
    BY <2>1
  <2>3. MdKey(f) = <<"Nameless", Rank(f, D)>>
    BY <1>1, <2>1, KeysAre DEF MdKey
  <2>4. FnKey(g) = IF Nameless(g) THEN <<"Nameless", Rank(g, T)>> ELSE module[g].name
    BY <1>1, KeysAre DEF FnKey
  <2>5. Nameless(g)
    BY <2>1, <2>2, <2>4 DEF NamesApart
  <2>6. Rank(g, T) = Rank(f, D)
    <3>1. <<"Nameless", Rank(f, D)>> = <<"Nameless", Rank(g, T)>>
      BY <2>2, <2>3, <2>4, <2>5
    <3> QED
      BY <3>1
  <2> QED
    BY <1>1, <2>5, <2>6 DEF Unnamed
<1>4. \A f \in D : Rank(f, T) = Rank(f, D)
  BY <1>2, <1>3, RanksAgree
<1>5. ASSUME NEW f \in Defined
      PROVE  MdKey(f) = FnKey(f)
  <2>1. /\ MdKey(f) = IF Nameless(f) THEN <<"Nameless", Rank(f, D)>> ELSE module[f].name
        /\ FnKey(f) = IF Nameless(f) THEN <<"Nameless", Rank(f, T)>> ELSE module[f].name
    BY <1>1, KeysAre DEF MdKey, FnKey
  <2>2. Nameless(f) => f \in D
    BY <1>1 DEF Unnamed
  <2> QED
    BY <1>4, <2>1, <2>2
<1> QED
  BY <1>5

-----------------------------------------------------------------------------
(***************************************************************************)
(* What the levels compute.                                                *)
(***************************************************************************)
BlocksCounted ==
  [f \in DOMAIN module |->
     [b \in Blocks(f) |-> processInstructionsOfBB(module[f].blocks[b])]]

FunctionsCounted ==
  [n \in {FnKey(f) : f \in Defined} |->
     [c \in FnCounters |-> SumFunction([f \in Defined |-> AddedTo(n, f, c)])]]

ModuleCounted ==
  [c \in MdCounters |->
     IF c = "nof_functions" THEN Cardinality(Defined)
     ELSE SumFunction([f \in Defined |-> fn[MdKey(f)][c]])]

(* How far the counters are, in every phase.                                *)
Computed ==
  /\ IsModule(module)
  /\ phase \in {"read", "blocks", "functions", "module", "no such key"}
  /\ phase # "read" => bb = BlocksCounted
  /\ phase \in {"read", "blocks"} => fn = <<>>
  /\ phase \notin {"read", "blocks"} => fn = FunctionsCounted
  /\ phase = "module" => /\ \A f \in Defined : MdKey(f) \in DOMAIN fn
                         /\ md = ModuleCounted

(* What is computed depends on the module and on the level below.           *)
LEMMA SameModule ==
  ASSUME module' = module
  PROVE  /\ IsModule(module)' <=> IsModule(module)
         /\ Defined' = Defined
         /\ BlocksCounted' = BlocksCounted
         /\ \A f : FnKey(f)' = FnKey(f) /\ MdKey(f)' = MdKey(f) /\ Blocks(f)' = Blocks(f)
         /\ \A f, b, c : processBasicBlockOfFunction(f, b, c)' =
                           processBasicBlockOfFunction(f, b, c)
<1>1. Defined' = Defined /\ BlocksCounted' = BlocksCounted /\ \A f : Blocks(f)' = Blocks(f)
  BY DEF Defined, BlocksCounted, Blocks
<1>2. \A f, S : Key(f, S)' = Key(f, S)
  BY DEF Key, Nameless
<1>3. \A f : FnKey(f)' = FnKey(f) /\ MdKey(f)' = MdKey(f)
  BY <1>1, <1>2 DEF FnKey, MdKey
<1>4. \A f, b : Succs(f, b)' = Succs(f, b)
  BY DEF Succs
<1>5. \A f : Edges(f)' = Edges(f)
  BY <1>1, <1>4 DEF Edges
<1>6. \A f, b : EdgesTo(f, b)' = EdgesTo(f, b)
  BY <1>4, <1>5 DEF EdgesTo
<1>7. \A f, b : NumSuccessors(f, b)' = NumSuccessors(f, b)
                 /\ NumPredecessors(f, b)' = NumPredecessors(f, b)
  BY <1>4, <1>6 DEF NumSuccessors, NumPredecessors
<1>8. \A f, b, k : isCriticalEdge(f, b, k)' <=> isCriticalEdge(f, b, k)
  BY <1>4, <1>6, <1>7 DEF isCriticalEdge
<1>9. \A f, b, c : processBasicBlockOfFunction(f, b, c)' = processBasicBlockOfFunction(f, b, c)
  BY <1>7, <1>8 DEF processBasicBlockOfFunction
<1> QED
  BY <1>1, <1>3, <1>9

LEMMA SameBlocks ==
  ASSUME module' = module, bb' = bb
  PROVE  FunctionsCounted' = FunctionsCounted
<1>1. \A f : featuresOfFunction(f)' = featuresOfFunction(f)
  BY SameModule DEF featuresOfFunction
<1>2. Defined' = Defined /\ \A f : FnKey(f)' = FnKey(f)
  BY SameModule
<1>3. {FnKey(f)' : f \in Defined'} = {FnKey(f) : f \in Defined}
  BY <1>2
<1>4. \A n, f, c : AddedTo(n, f, c)' = AddedTo(n, f, c)
  BY <1>1, <1>2 DEF AddedTo
<1> QED
  BY <1>2, <1>3, <1>4 DEF FunctionsCounted

LEMMA SameFunctions ==
  ASSUME module' = module, fn' = fn
  PROVE  ModuleCounted' = ModuleCounted
BY SameModule DEF ModuleCounted

LEMMA ComputedStep ==
  ASSUME Computed, [FeaturesNext]_<<vars, features>>
  PROVE  Computed'
<1>1. CASE UNCHANGED vars
  <2>1. module' = module /\ phase' = phase /\ bb' = bb /\ fn' = fn /\ md' = md
    BY <1>1 DEF vars
  <2>2. FunctionsCounted' = FunctionsCounted /\ ModuleCounted' = ModuleCounted
    BY <2>1, SameBlocks, SameFunctions
  <2>3. phase = "module" => (\A f \in Defined : MdKey(f) \in DOMAIN fn)'
    BY <2>1, SameModule DEF Computed
  <2> QED
    BY <2>1, <2>2, <2>3, SameModule DEF Computed
<1>2. CASE processBasicBlocks
  <2>1. /\ module' = module /\ phase = "read" /\ phase' = "blocks" /\ fn' = fn
        /\ bb' = BlocksCounted
    BY <1>2 DEF processBasicBlocks, BlocksCounted
  <2>2. BlocksCounted' = BlocksCounted /\ (IsModule(module)' <=> IsModule(module))
    BY <2>1, SameModule
  <2> QED
    BY <2>1, <2>2 DEF Computed
<1>3. CASE processFunctions
  <2>1. /\ module' = module /\ phase = "blocks" /\ phase' = "functions" /\ bb' = bb
        /\ fn' = FunctionsCounted
    BY <1>3 DEF processFunctions, FunctionsCounted
  <2>2. BlocksCounted' = BlocksCounted /\ (IsModule(module)' <=> IsModule(module))
    BY <2>1, SameModule
  <2>3. FunctionsCounted' = FunctionsCounted
    BY <2>1, SameBlocks
  <2> QED
    BY <2>1, <2>2, <2>3 DEF Computed
<1>4. CASE processModule
  <2>1. module' = module /\ phase = "functions" /\ bb' = bb /\ fn' = fn
    BY <1>4 DEF processModule
  <2>2. BlocksCounted' = BlocksCounted /\ (IsModule(module)' <=> IsModule(module))
    BY <2>1, SameModule
  <2>3. FunctionsCounted' = FunctionsCounted
    BY <2>1, SameBlocks
  <2>4. \/ /\ \A f \in Defined : MdKey(f) \in DOMAIN fn
           /\ phase' = "module" /\ md' = ModuleCounted
        \/ phase' = "no such key"
    BY <1>4 DEF processModule, ModuleCounted
  <2>5. /\ ModuleCounted' = ModuleCounted
        /\ (\A f \in Defined : MdKey(f) \in DOMAIN fn)' <=>
             (\A f \in Defined : MdKey(f) \in DOMAIN fn)
    BY <2>1, SameModule, SameFunctions
  <2> QED
    BY <2>1, <2>2, <2>3, <2>4, <2>5 DEF Computed
<1> QED
  BY <1>1, <1>2, <1>3, <1>4
     DEF FeaturesNext, Next, Stage, processGenes, processFrequencies, processCosts,
         getAvailableEvents, PAPIFails, RunProgram, ProgramExits, getMeasures, processStaticCosts

LEMMA ComputedAlways == FeaturesSpec => []Computed
<1>1. FeaturesInit => Computed
  BY ProgramsAssumption DEF FeaturesInit, Init, Computed
<1>2. Computed /\ [FeaturesNext]_<<vars, features>> => Computed'
  BY ComputedStep
<1> QED
  BY <1>1, <1>2, PTL DEF FeaturesSpec

-----------------------------------------------------------------------------
(***************************************************************************)
(* Measures.                                                               *)
(***************************************************************************)
Stages == {"function-dna", "geos-bbfreq", "geos-features", "papi-feat-m", "events",
           "measured", "static-cost", "processed", "aborted"}

(* Codes are a sequence, and values follow them from when they are stopped   *)
(* until they are asked for.                                                *)
Measuring ==
  /\ stage \in Stages
  /\ asserts \in BOOLEAN
  /\ EventCodes \in Seq(Events)
  /\ papi \in [Events -> Nat] /\ DOMAIN geos = GEOSSubFeatures
  /\ stage = "measured" =>
       Values = [k \in DOMAIN EventCodes |-> IF asserts THEN EventCodes[k] ELSE 0]
  /\ stage \notin {"static-cost", "processed", "aborted"} => papi = Zero(Events)
  /\ MeasuresInPlace

LEMMA CodesAreSeq ==
  ASSUME NEW available \in SUBSET Events, NEW codes \in SetToSeqs(available)
  PROVE  codes \in Seq(Events)
<1>1. IsFiniteSet(available)
  BY FS_Subset, FeaturesAssumption
<1>2. Cardinality(available) \in Nat
  BY <1>1, FS_CardinalityType
<1>3. codes \in [1..Cardinality(available) -> Events]
  BY DEF SetToSeqs
<1> QED
  BY <1>2, <1>3, SeqDef

LEMMA CostsInPlace ==
  ASSUME NEW s \in DOMAIN CostIndex
  PROVE  getAnalysisCost[CostIndex[s]] = s
<1>1. DOMAIN Analyses = 1..8
  BY DEF Analyses
<1>2. s \in {"RegisterUse", "StaticInstruction", "TTIInstruction", "Branch", "Call",
             "NoArchSensitive", "ArchSensitive"}
  BY DEF CostIndex
<1>3. CostIndex[s] \in 1..8 /\ CostIndex[s] # 2
  BY <1>2 DEF CostIndex
<1>4. getAnalysisCost[CostIndex[s]] = Analyses[CostIndex[s]]
  BY <1>1, <1>3 DEF getAnalysisCost
<1>5. Analyses[CostIndex[s]] = s
  BY <1>2 DEF CostIndex, Analyses
<1> QED
  BY <1>4, <1>5

(* Every event that is available is given the value at its place.           *)
LEMMA MeasureIsOwn ==
  ASSUME Measuring, stage = "measured", NEW e \in Events
  PROVE  /\ MeasureOf(e) \in {0, e}
         /\ asserts /\ Contains(EventCodes, e) => MeasureOf(e) = e
<1>1. DOMAIN EventCodes = 1..Len(EventCodes)
  BY LenProperties DEF Measuring
<1>2. Values = [k \in DOMAIN EventCodes |-> IF asserts THEN EventCodes[k] ELSE 0]
  BY DEF Measuring
<1>3. papi[e] \in {0, e}
  BY DEF Measuring, MeasuresInPlace
<1>4. CASE Contains(EventCodes, e)
  <2>1. \E k \in DOMAIN EventCodes : EventCodes[k] = e
    BY <1>1, <1>4 DEF Contains
  <2>2. PICK k \in DOMAIN EventCodes :
          EventCodes[k] = e /\ k = CHOOSE j \in DOMAIN EventCodes : EventCodes[j] = e
    BY <2>1
  <2>3. MeasureOf(e) = Values[k]
    BY <1>4, <2>2 DEF MeasureOf
  <2>4. Values[k] = IF asserts THEN e ELSE 0
    BY <1>2, <2>2
  <2> QED
    BY <2>3, <2>4
<1>5. CASE ~ Contains(EventCodes, e)
  BY <1>3, <1>5 DEF MeasureOf
<1> QED
  BY <1>4, <1>5

LEMMA MeasuringStart == FeaturesInit => Measuring
<1> SUFFICES ASSUME FeaturesInit
             PROVE  Measuring
  OBVIOUS
<1>1. /\ asserts \in BOOLEAN /\ stage = "function-dna" /\ EventCodes = <<>>
      /\ papi = Zero(Events) /\ geos = [s \in GEOSSubFeatures |-> None]
  BY FeaturesAssumption DEF FeaturesInit
<1>2. papi \in [Events -> Nat] /\ \A e \in Events : papi[e] = 0
  BY <1>1 DEF Zero
<1>3. EventCodes \in Seq(Events)
  BY <1>1, EmptySeq
<1>4. MeasuresInPlace
  BY <1>1, <1>2 DEF MeasuresInPlace
<1> QED
  BY <1>1, <1>2, <1>3, <1>4 DEF Measuring, Stages

LEMMA MeasuringStep ==
  ASSUME Measuring, [FeaturesNext]_<<vars, features>>
  PROVE  Measuring'
<1> USE DEF Stages
<1>1. CASE UNCHANGED features
  BY <1>1 DEF Measuring, MeasuresInPlace, features, tables, papiVars
<1>2. CASE processGenes \/ processFrequencies \/ processStaticCosts
  <2>1. /\ UNCHANGED <<asserts, papiVars, geos>>
        /\ \/ stage = "function-dna" /\ stage' = "geos-bbfreq"
           \/ stage = "geos-bbfreq" /\ stage' = "geos-features"
           \/ stage = "static-cost" /\ stage' = "processed"
    BY <1>2 DEF processGenes, processFrequencies, processStaticCosts, Stage
  <2> QED
    BY <2>1 DEF Measuring, MeasuresInPlace, papiVars
<1>3. CASE processCosts
  <2>1. /\ UNCHANGED <<asserts, papiVars>> /\ stage = "geos-features" /\ stage' = "papi-feat-m"
        /\ geos' = [s \in GEOSSubFeatures |->
              IF s \in DOMAIN CostIndex THEN getAnalysisCost[CostIndex[s]] ELSE geos[s]]
    BY <1>3 DEF processCosts, Stage
  <2>2. \A s \in GEOSSubFeatures : geos'[s] \in {None, s}
    BY <2>1, CostsInPlace DEF Measuring, MeasuresInPlace
  <2>3. DOMAIN geos' = GEOSSubFeatures
    BY <2>1
  <2> QED
    BY <2>1, <2>2, <2>3 DEF Measuring, MeasuresInPlace, papiVars
<1>4. CASE getAvailableEvents
  <2>1. /\ UNCHANGED <<asserts, papi, geos>> /\ stage = "papi-feat-m" /\ stage' = "events"
        /\ EventCodes' \in Seq(Events)
    BY <1>4, CodesAreSeq DEF getAvailableEvents, Stage, tables
  <2> QED
    BY <2>1 DEF Measuring, MeasuresInPlace
<1>5. CASE PAPIFails \/ ProgramExits
  <2>1. UNCHANGED <<asserts, papiVars, geos>> /\ stage' = "aborted"
    BY <1>5 DEF PAPIFails, ProgramExits, Stage, tables
  <2> QED
    BY <2>1 DEF Measuring, MeasuresInPlace, papiVars
<1>6. CASE RunProgram
  <2>1. /\ UNCHANGED <<asserts, EventCodes, papi, geos>> /\ stage = "events"
        /\ stage' = "measured"
        /\ Values' = [k \in DOMAIN EventCodes |-> IF asserts THEN EventCodes[k] ELSE 0]
    BY <1>6 DEF RunProgram, Stage, tables
  <2> QED
    BY <2>1 DEF Measuring, MeasuresInPlace
<1>7. CASE getMeasures
  <2>1. /\ UNCHANGED <<asserts, EventCodes, geos>> /\ stage = "measured"
        /\ stage' = "static-cost"
        /\ papi' = [e \in Events |-> MeasureOf(e)]
    BY <1>7 DEF getMeasures, Stage, tables
  <2>2. \A e \in Events : /\ papi'[e] \in {0, e}
                          /\ asserts /\ Contains(EventCodes, e) => papi'[e] = e
    BY <2>1, MeasureIsOwn
  <2>3. papi' \in [Events -> Nat]
    <3>1. \A e \in Events : e \in Nat /\ MeasureOf(e) \in {0, e}
      BY <2>1, MeasureIsOwn, FeaturesAssumption
    <3>2. \A e \in Events : MeasureOf(e) \in Nat
      BY <3>1
    <3> QED
      BY <2>1, <3>2
  <2>4. MeasuresInPlace'
    BY <2>1, <2>2 DEF Measuring, MeasuresInPlace, Contains
  <2> QED
    BY <2>1, <2>3, <2>4 DEF Measuring
<1> QED
  BY <1>1, <1>2, <1>3, <1>4, <1>5, <1>6, <1>7 DEF FeaturesNext, vars

(* A sub-feature never gets another one's measure, for any events, whichever *)
(* of them are available and in whatever places, with assertions or without. *)
THEOREM MeasuresStayInPlace == FeaturesSpec => []MeasuresInPlace
<1>1. Measuring => MeasuresInPlace
  BY DEF Measuring
<1> QED
  BY <1>1, MeasuringStart, MeasuringStep, PTL DEF FeaturesSpec

-----------------------------------------------------------------------------
(***************************************************************************)
(* Blocks, and what is counted in one.                                      *)
(***************************************************************************)
Terminator(blk) == blk.insts[Len(blk.insts)].op

LEMMA BlocksAre ==
  ASSUME IsModule(module), NEW f \in DOMAIN module
  PROVE  /\ Len(module[f].blocks) \in Nat /\ Blocks(f) = 1..Len(module[f].blocks)
         /\ IsFiniteSet(Blocks(f))
         /\ \A b \in Blocks(f) : IsBlock(module[f].blocks[b], Len(module[f].blocks))
<1>1. module[f].blocks \in Seq(Range(module[f].blocks))
  BY DEF IsModule
<1>2. Len(module[f].blocks) \in Nat /\ DOMAIN module[f].blocks = 1..Len(module[f].blocks)
  BY <1>1, LenProperties
<1>3. IsFiniteSet(Blocks(f))
  BY <1>2, FS_Interval DEF Blocks
<1> QED
  BY <1>2, <1>3 DEF IsModule, Blocks

LEMMA InstructionsAre ==
  ASSUME NEW blk, NEW n, IsBlock(blk, n)
  PROVE  /\ Len(blk.insts) \in Nat \ {0} /\ DOMAIN blk.insts = 1..Len(blk.insts)
         /\ IsFiniteSet(DOMAIN blk.insts)
         /\ \A k \in DOMAIN blk.insts : blk.insts[k] \in Instruction
<1>1. blk.insts \in Seq(Instruction) /\ blk.insts # <<>>
  BY DEF IsBlock
<1>2. Len(blk.insts) \in Nat \ {0} /\ DOMAIN blk.insts = 1..Len(blk.insts)
  BY <1>1, LenProperties, EmptySeq
<1>3. IsFiniteSet(DOMAIN blk.insts)
  BY <1>2, FS_Interval
<1>4. \A k \in DOMAIN blk.insts : blk.insts[k] \in Instruction
  BY <1>1, <1>2, ElementOfSeq
<1> QED
  BY <1>2, <1>3, <1>4

(* Counters that instructions of some opcodes, and only they, add one to.    *)
PlainCounters == {CounterOf[o] : o \in Opcodes} \ {"nof_assign_inst", "nof_inst"}

LEMMA PlainAreNot ==
  ASSUME NEW c \in PlainCounters
  PROVE  /\ c \in BBCounters
         /\ c \notin {"nof_inst", "nof_assign_inst", "nof_callarg_g4_inst", "nof_callarg_ptr_inst"}
         /\ c \notin {Returned[t] : t \in DOMAIN Returned}
<1>1. c \in BBCounters /\ c # "nof_inst" /\ c # "nof_assign_inst"
  BY DEF PlainCounters, BBCounters
<1>2. PICK o \in Opcodes : c = CounterOf[o]
  BY DEF PlainCounters
<1>3. c \notin {"nof_callarg_g4_inst", "nof_callarg_ptr_inst", "nof_callret_int_inst",
               "nof_callret_flt_inst", "nof_callret_ptr_inst"}
  BY <1>2 DEF Opcodes, CounterOf
<1> QED
  BY <1>1, <1>3 DEF Returned

LEMMA PlainAdds ==
  ASSUME NEW c \in PlainCounters, NEW i
  PROVE  Added(i, c) = One(CounterOf[i.op] = c)
BY PlainAreNot DEF Added

LEMMA PlainCounts ==
  ASSUME NEW blk, NEW n, IsBlock(blk, n), NEW c \in PlainCounters
  PROVE  processInstructionsOfBB(blk)[c]
           = Cardinality({k \in DOMAIN blk.insts : CounterOf[blk.insts[k].op] = c})
<1>1. PICK S, E, v : /\ S = DOMAIN blk.insts
                     /\ E = {k \in DOMAIN blk.insts : CounterOf[blk.insts[k].op] = c}
                     /\ v = [k \in DOMAIN blk.insts |-> Added(blk.insts[k], c)]
  OBVIOUS
<1>2. IsFiniteSet(S) /\ E \in SUBSET S
  BY <1>1, InstructionsAre
<1>3. \A k \in S : v[k] = One(k \in E)
  BY <1>1, PlainAdds
<1>4. \A k \in S : v[k] \in Int
  BY <1>3 DEF One
<1>5. v \in [S -> Int]
  BY <1>1, <1>4
<1>6. SumFunction(v) = Cardinality(E)
  BY <1>2, <1>3, <1>5, SumOfOnes
<1>7. processInstructionsOfBB(blk)[c] = SumFunction(v)
  BY <1>1, PlainAreNot DEF processInstructionsOfBB
<1> QED
  BY <1>1, <1>6, <1>7

(* A counter of terminators has one for the block that ends with one.        *)
LEMMA TerminatorCounts ==
  ASSUME NEW blk, NEW n, IsBlock(blk, n),
         NEW c \in {CounterOf[t] : t \in Terminators}
  PROVE  processInstructionsOfBB(blk)[c] = One(CounterOf[Terminator(blk)] = c)
<1>1. c \in PlainCounters
  BY DEF PlainCounters, Terminators, Opcodes, CounterOf
<1>2. \A o \in Opcodes : CounterOf[o] = c => o \in Terminators
  <2>1. c \in {"nof_condbr_inst", "nof_uncondbr_inst", "nof_switch_inst",
               "nof_indirectbr_inst", "nof_terminator_inst"}
    BY DEF Terminators, CounterOf
  <2> QED
    BY <2>1 DEF Opcodes, CounterOf, Terminators
<1>3. PICK E : E = {k \in DOMAIN blk.insts : CounterOf[blk.insts[k].op] = c}
  OBVIOUS
<1>4. \A k \in E : k = Len(blk.insts)
  <2>1. \A k \in DOMAIN blk.insts : blk.insts[k].op \in Opcodes
    BY InstructionsAre DEF Instruction
  <2>2. \A k \in DOMAIN blk.insts : blk.insts[k].op \in Terminators => k = Len(blk.insts)
    BY DEF IsBlock
  <2> QED
    BY <1>2, <1>3, <2>1, <2>2
<1>5. Len(blk.insts) \in DOMAIN blk.insts
  BY InstructionsAre
<1>6. CASE CounterOf[Terminator(blk)] = c
  <2>1. E = {Len(blk.insts)}
    BY <1>3, <1>4, <1>5, <1>6 DEF Terminator
  <2>2. Cardinality(E) = 1
    BY <2>1, FS_Singleton
  <2> QED
    BY <1>1, <1>3, <1>6, <2>2, PlainCounts DEF One
<1>7. CASE CounterOf[Terminator(blk)] # c
  <2>1. E = {}
    BY <1>3, <1>4, <1>5, <1>7 DEF Terminator
  <2> QED
    BY <1>1, <1>3, <1>7, <2>1, PlainCounts, FS_EmptySet DEF One
<1> QED
  BY <1>6, <1>7

(* Every counter of instructions is a natural number.                       *)
LEMMA CountsAreNat ==
  ASSUME NEW blk, NEW n, IsBlock(blk, n), NEW c \in BBCounters
  PROVE  processInstructionsOfBB(blk)[c] \in Nat
<1>1. PICK S, v : /\ S = DOMAIN blk.insts
                  /\ v = [k \in DOMAIN blk.insts |-> Added(blk.insts[k], c)]
  OBVIOUS
<1>2. IsFiniteSet(S)
  BY <1>1, InstructionsAre
<1>3. ASSUME NEW k \in S
      PROVE  Added(blk.insts[k], c) \in Nat
  <2>1. PICK i \in Instruction : i = blk.insts[k]
    BY <1>1, InstructionsAre
  <2>2. i.pointers \in Nat
    BY DEF Instruction
  <2>3. CASE c \in {"nof_inst", "nof_assign_inst", "nof_callarg_g4_inst"}
    BY <2>1, <2>3 DEF Added, One
  <2>4. CASE c = "nof_callarg_ptr_inst"
    BY <2>1, <2>2, <2>4 DEF Added, Returned
  <2>5. CASE c \in {Returned[t] : t \in DOMAIN Returned}
    <3>1. c \notin {"nof_inst", "nof_assign_inst", "nof_callarg_g4_inst", "nof_callarg_ptr_inst"}
      BY <2>5 DEF Returned
    <3> QED
      BY <2>1, <2>5, <3>1 DEF Added, One
  <2>6. CASE c \notin {"nof_inst", "nof_assign_inst", "nof_callarg_g4_inst",
                      "nof_callarg_ptr_inst"} \cup {Returned[t] : t \in DOMAIN Returned}
    BY <2>1, <2>6 DEF Added, One
  <2> QED
    BY <2>3, <2>4, <2>5, <2>6
<1>4. v \in [S -> Nat]
  BY <1>1, <1>3
<1>5. SumFunction(v) \in Nat
  BY <1>2, <1>4, SumIsNat
<1> QED
  BY <1>1, <1>5 DEF processInstructionsOfBB

-----------------------------------------------------------------------------
(***************************************************************************)
(* The graph of a function.                                                *)
(***************************************************************************)

(* What the degrees of any nodes say of their sum, exactly where none of them *)
(* is more than two.                                                       *)
CountsDegrees(S, D, one, two, more) ==
  /\ D \in [S -> Nat] /\ one \in [S -> Int] /\ two \in [S -> Int] /\ more \in [S -> Int]
  /\ \A x \in S : /\ one[x] = One(D[x] = 1)
                  /\ two[x] = One(D[x] \in 1..2)
                  /\ more[x] = One(D[x] # 0)

LEMMA DegreesAreBounded ==
  ASSUME NEW S, IsFiniteSet(S), NEW D, NEW one, NEW two, NEW more,
         CountsDegrees(S, D, one, two, more)
  PROVE  LET atLeast == SumFunction(one) + 2 * (SumFunction(two) - SumFunction(one))
                          + 3 * (SumFunction(more) - SumFunction(two))
         IN  /\ SumFunction(one) <= SumFunction(two) /\ SumFunction(two) <= SumFunction(more)
             /\ SumFunction(D) >= atLeast
             /\ SumFunction(more) = SumFunction(two) => SumFunction(D) = atLeast
<1> USE DEF CountsDegrees
<1>1. D \in [S -> Int]
  OBVIOUS
<1>2. PICK w \in [S -> Int] : \A x \in S : w[x] = one[x] + two[x]
  <2>1. [x \in S |-> one[x] + two[x]] \in [S -> Int]
    OBVIOUS
  <2> QED
    BY <2>1
<1>3. PICK u \in [S -> Int] : \A x \in S : u[x] = D[x] + w[x]
  <2>1. [x \in S |-> D[x] + w[x]] \in [S -> Int]
    BY <1>1
  <2> QED
    BY <2>1
<1>4. PICK m \in [S -> Int] : \A x \in S : m[x] = more[x] + more[x]
  <2>1. [x \in S |-> more[x] + more[x]] \in [S -> Int]
    OBVIOUS
  <2> QED
    BY <2>1
<1>5. PICK t \in [S -> Int] : \A x \in S : t[x] = more[x] + m[x]
  <2>1. [x \in S |-> more[x] + m[x]] \in [S -> Int]
    OBVIOUS
  <2> QED
    BY <2>1
<1>6. \A x \in S : t[x] <= u[x]
  <2>1. ASSUME NEW x \in S
        PROVE  t[x] <= u[x]
    <3>1. PICK d \in Nat : d = D[x]
      OBVIOUS
    <3>2. t[x] = 3 * One(d # 0) /\ u[x] = d + One(d = 1) + One(d \in 1..2)
      BY <1>2, <1>3, <1>4, <1>5, <3>1 DEF One
    <3>3. 3 * One(d # 0) <= d + One(d = 1) + One(d \in 1..2)
      BY DEF One
    <3> QED
      BY <3>2, <3>3
  <2> QED
    BY <2>1
<1>7. SumFunction(w) = SumFunction(one) + SumFunction(two)
  <2>1. one \in [S -> Int] /\ two \in [S -> Int] /\ w \in [S -> Int]
    OBVIOUS
  <2> QED
    BY ONLY <1>2, <2>1, SumAdds, IsFiniteSet(S)
<1>8. SumFunction(u) = SumFunction(D) + SumFunction(w)
  BY <1>1, <1>3, SumAdds
<1>9. SumFunction(m) = SumFunction(more) + SumFunction(more)
  BY <1>4, SumAdds
<1>10. SumFunction(t) = SumFunction(more) + SumFunction(m)
  BY <1>5, SumAdds
<1>11. SumFunction(t) <= SumFunction(u)
  BY <1>6, SumGrows
<1>12. /\ SumFunction(D) \in Int /\ SumFunction(one) \in Int
       /\ SumFunction(two) \in Int /\ SumFunction(more) \in Int
  BY <1>1, SumIsInt
<1>13. SumFunction(one) <= SumFunction(two) /\ SumFunction(two) <= SumFunction(more)
  <2>1. \A x \in S : one[x] <= two[x] /\ two[x] <= more[x]
    BY DEF One
  <2>2. one \in [S -> Int] /\ two \in [S -> Int] /\ more \in [S -> Int]
    OBVIOUS
  <2> QED
    BY ONLY <2>1, <2>2, SumGrows, IsFiniteSet(S)
<1>14. SumFunction(more) = SumFunction(two) => SumFunction(u) = SumFunction(t)
  <2> SUFFICES ASSUME SumFunction(more) = SumFunction(two)
               PROVE  SumFunction(u) = SumFunction(t)
    OBVIOUS
  <2>1. PICK rest \in [S -> Nat] : \A x \in S : more[x] = two[x] + rest[x]
    <3>1. [x \in S |-> more[x] - two[x]] \in [S -> Nat]
      BY DEF One
    <3>2. \A x \in S : more[x] = two[x] + [y \in S |-> more[y] - two[y]][x]
      OBVIOUS
    <3> QED
      BY <3>1, <3>2
  <2>2. rest \in [S -> Int]
    OBVIOUS
  <2>3. SumFunction(more) = SumFunction(two) + SumFunction(rest)
    BY <2>1, <2>2, SumAdds
  <2>4. SumFunction(rest) = 0
    BY <1>12, <2>2, <2>3, SumIsInt
  <2>5. \A x \in S : rest[x] = 0
    BY <2>4, NothingAddsUp
  <2>6. ASSUME NEW x \in S
        PROVE  u[x] <= t[x]
    <3>1. PICK d \in Nat : d = D[x]
      OBVIOUS
    <3>2. t[x] = 3 * One(d # 0) /\ u[x] = d + One(d = 1) + One(d \in 1..2)
      BY <1>2, <1>3, <1>4, <1>5, <3>1 DEF One
    <3>3. One(d # 0) = One(d \in 1..2)
      BY <2>1, <2>5, <3>1 DEF One
    <3>4. d \in 0..2
      BY <3>3 DEF One
    <3> QED
      BY <3>2, <3>4 DEF One
  <2>7. SumFunction(u) <= SumFunction(t)
    BY <2>6, SumGrows
  <2>8. SumFunction(u) \in Int /\ SumFunction(t) \in Int
    BY SumIsInt
  <2> QED
    BY <1>11, <2>7, <2>8
<1>15. PICK d, a, b, c \in Int :
         /\ d = SumFunction(D) /\ a = SumFunction(one)
         /\ b = SumFunction(two) /\ c = SumFunction(more)
  BY <1>12
<1>16. SumFunction(u) = d + (a + b) /\ SumFunction(t) = c + (c + c)
  BY <1>7, <1>8, <1>9, <1>10, <1>15
<1>17. /\ a <= b /\ b <= c
       /\ d >= a + 2 * (b - a) + 3 * (c - b)
       /\ c = b => d = a + 2 * (b - a) + 3 * (c - b)
  <2>1. a <= b /\ b <= c
    BY <1>13, <1>15
  <2>2. c + (c + c) <= d + (a + b)
    BY <1>11, <1>16
  <2>3. c = b => d + (a + b) = c + (c + c)
    BY <1>14, <1>15, <1>16
  <2> QED
    BY ONLY <2>1, <2>2, <2>3, d \in Int, a \in Int, b \in Int, c \in Int
<1> QED
  BY <1>15, <1>17

LEMMA EdgesAre ==
  ASSUME IsModule(module), NEW f \in DOMAIN module
  PROVE  /\ IsFiniteSet(Edges(f))
         /\ \A e \in Edges(f) : /\ e = <<e[1], e[2]>> /\ e[1] \in Blocks(f)
                                /\ e[2] \in 1..NumSuccessors(f, e[1])
                                /\ Succs(f, e[1])[e[2]] \in Blocks(f)
         /\ \A b \in Blocks(f) : /\ NumSuccessors(f, b) \in Nat
                                 /\ DOMAIN Succs(f, b) = 1..NumSuccessors(f, b)
                                 /\ \A k \in 1..NumSuccessors(f, b) : <<b, k>> \in Edges(f)
<1>1. ASSUME NEW b \in Blocks(f)
      PROVE  /\ NumSuccessors(f, b) \in Nat
             /\ DOMAIN Succs(f, b) = 1..NumSuccessors(f, b)
             /\ \A k \in 1..NumSuccessors(f, b) : Succs(f, b)[k] \in Blocks(f)
  <2>1. Succs(f, b) \in Seq(1..Len(module[f].blocks))
    BY BlocksAre DEF IsBlock, Succs
  <2>2. \A k \in 1..Len(Succs(f, b)) : Succs(f, b)[k] \in 1..Len(module[f].blocks)
    BY <2>1, ElementOfSeq
  <2> QED
    BY <2>1, <2>2, LenProperties, BlocksAre DEF NumSuccessors
<1>2. PICK from : from = [p \in Blocks(f) |-> {p} \X DOMAIN Succs(f, p)]
  OBVIOUS
<1>3. PICK Sets : Sets = {from[p] : p \in Blocks(f)}
  OBVIOUS
<1>4. Edges(f) = UNION Sets
  BY <1>2, <1>3 DEF Edges
<1>5. IsFiniteSet(Sets)
  <2>1. from \in Surjection(Blocks(f), Sets)
    BY <1>2, <1>3 DEF Surjection
  <2> QED
    BY <2>1, FS_Surjection, BlocksAre
<1>6. \A T \in Sets : IsFiniteSet(T)
  <2>1. ASSUME NEW p \in Blocks(f)
        PROVE  IsFiniteSet({p} \X DOMAIN Succs(f, p))
    <3>1. IsFiniteSet({p})
      BY FS_Singleton
    <3>2. NumSuccessors(f, p) \in Nat /\ DOMAIN Succs(f, p) = 1..NumSuccessors(f, p)
      BY <1>1
    <3>3. IsFiniteSet(DOMAIN Succs(f, p))
      BY <3>2, FS_Interval
    <3> QED
      BY <3>1, <3>3, FS_Product
  <2> QED
    BY <1>2, <1>3, <2>1
<1>7. IsFiniteSet(Edges(f))
  BY <1>4, <1>5, <1>6, FS_UNION
<1>8. \A e \in Edges(f) : e = <<e[1], e[2]>> /\ e[1] \in Blocks(f) /\ e[2] \in DOMAIN Succs(f, e[1])
  BY DEF Edges
<1>9. \A b \in Blocks(f) : \A k \in DOMAIN Succs(f, b) : <<b, k>> \in Edges(f)
  BY DEF Edges
<1> QED
  BY <1>1, <1>7, <1>8, <1>9

(* Some edges that leave a block are as many as their places in it.          *)
LEMMA EdgesOfBlock ==
  ASSUME IsModule(module), NEW f \in DOMAIN module, NEW C \in SUBSET Edges(f),
         NEW b \in Blocks(f)
  PROVE  /\ Cardinality({e \in C : e[1] = b})
              = Cardinality({k \in 1..NumSuccessors(f, b) : <<b, k>> \in C})
         /\ Cardinality({k \in 1..NumSuccessors(f, b) : <<b, k>> \in C}) \in Nat
<1>1. PICK K, F : /\ K = {k \in 1..NumSuccessors(f, b) : <<b, k>> \in C}
                  /\ F = {e \in C : e[1] = b}
  OBVIOUS
<1>2. IsFiniteSet(K)
  <2>1. NumSuccessors(f, b) \in Nat
    BY EdgesAre
  <2>2. IsFiniteSet(1..NumSuccessors(f, b))
    BY <2>1, FS_Interval
  <2> QED
    BY <1>1, <2>2, FS_Subset
<1>3. PICK g : g = [k \in K |-> <<b, k>>]
  OBVIOUS
<1>4. g \in Bijection(K, F)
  <2>1. \A k \in K : g[k] = <<b, k>> /\ g[k] \in F
    BY <1>1, <1>3
  <2>2. \A e \in F : e[2] \in K /\ g[e[2]] = e
    BY <1>1, <1>3, EdgesAre
  <2>3. g \in [K -> F]
    BY <1>3, <2>1
  <2> QED
    BY <2>1, <2>2, <2>3 DEF Bijection, Injection, Surjection, IsInjective
<1>5. Cardinality(F) = Cardinality(K)
  BY <1>2, <1>4, FS_Bijection DEF ExistsBijection
<1> QED
  BY <1>1, <1>2, <1>5, FS_CardinalityType

-----------------------------------------------------------------------------
(***************************************************************************)
(* The counters of a graph.                                                *)
(***************************************************************************)
Outdegree(f) == [b \in Blocks(f) |-> NumSuccessors(f, b)]
Indegree(f) == [b \in Blocks(f) |-> NumPredecessors(f, b)]
Critical(f) == {e \in Edges(f) : isCriticalEdge(f, e[1], e[2])}

(* What each block adds to a counter of the graph, or to one of instructions. *)
Shape(f, c) == [b \in Blocks(f) |-> processBasicBlockOfFunction(f, b, c)]
Held(f, c) == [b \in Blocks(f) |-> processInstructionsOfBB(module[f].blocks[b])[c]]

(* The cases that a degree reaches.                                          *)
LEMMA CasesReached ==
  ASSUME NEW d \in Nat
  PROVE  /\ Reaches(d, 1) <=> d = 1
         /\ Reaches(d, 2) <=> d \in 1..2
         /\ Reaches(d, 3) <=> d # 0
BY DEF Reaches

LEMMA DegreesOfBlock ==
  ASSUME IsModule(module), NEW f \in DOMAIN module, NEW b \in Blocks(f)
  PROVE  /\ Shape(f, "nof_1pred_bb")[b] = One(Indegree(f)[b] = 1)
         /\ Shape(f, "nof_2pred_bb")[b] = One(Indegree(f)[b] \in 1..2)
         /\ Shape(f, "nof_g2pred_bb")[b] = One(Indegree(f)[b] # 0)
         /\ Shape(f, "nof_1suc_bb")[b] = One(Outdegree(f)[b] = 1)
         /\ Shape(f, "nof_2suc_bb")[b] = One(Outdegree(f)[b] \in 1..2)
         /\ Shape(f, "nof_g2suc_bb")[b] = One(Outdegree(f)[b] # 0)
<1>1. PICK P, S : P = NumPredecessors(f, b) /\ S = NumSuccessors(f, b)
  OBVIOUS
<1>2. P \in Nat /\ S \in Nat
  <2>1. IsFiniteSet(EdgesTo(f, b))
    <3>1. EdgesTo(f, b) \in SUBSET Edges(f)
      BY DEF EdgesTo
    <3> QED
      BY <3>1, EdgesAre, FS_Subset
  <2> QED
    BY <1>1, <2>1, EdgesAre, FS_CardinalityType DEF NumPredecessors
<1>3. Indegree(f)[b] = P /\ Outdegree(f)[b] = S
  BY <1>1 DEF Indegree, Outdegree
<1>4. /\ Shape(f, "nof_1pred_bb")[b] = One(Reaches(P, 1))
      /\ Shape(f, "nof_2pred_bb")[b] = One(Reaches(P, 2))
      /\ Shape(f, "nof_g2pred_bb")[b] = One(Reaches(P, 3))
      /\ Shape(f, "nof_1suc_bb")[b] = One(Reaches(S, 1))
      /\ Shape(f, "nof_2suc_bb")[b] = One(Reaches(S, 2))
      /\ Shape(f, "nof_g2suc_bb")[b] = One(Reaches(S, 3))
  BY <1>1 DEF Shape, processBasicBlockOfFunction
<1> QED
  BY <1>2, <1>3, <1>4, CasesReached DEF One

LEMMA DegreesCountEdges ==
  ASSUME IsModule(module), NEW f \in DOMAIN module
  PROVE  /\ Outdegree(f) \in [Blocks(f) -> Nat] /\ Indegree(f) \in [Blocks(f) -> Nat]
         /\ SumFunction(Outdegree(f)) = Cardinality(Edges(f))
         /\ SumFunction(Indegree(f)) = Cardinality(Edges(f))
<1>1. IsFiniteSet(Edges(f)) /\ IsFiniteSet(Blocks(f))
  BY EdgesAre, BlocksAre
<1>2. Outdegree(f) \in [Blocks(f) -> Nat]
  BY EdgesAre DEF Outdegree
<1>3. Indegree(f) \in [Blocks(f) -> Nat]
  <2>1. \A b \in Blocks(f) : EdgesTo(f, b) \in SUBSET Edges(f)
    BY DEF EdgesTo
  <2>2. \A b \in Blocks(f) : NumPredecessors(f, b) \in Nat
    BY <1>1, <2>1, FS_Subset, FS_CardinalityType DEF NumPredecessors
  <2> QED
    BY <2>2 DEF Indegree
<1>4. SumFunction(Outdegree(f)) = Cardinality(Edges(f))
  <2>1. PICK g : g = [e \in Edges(f) |-> e[1]]
    OBVIOUS
  <2>2. g \in [Edges(f) -> Blocks(f)]
    BY <2>1, EdgesAre
  <2>3. ASSUME NEW b \in Blocks(f)
        PROVE  Outdegree(f)[b] = Cardinality({e \in Edges(f) : g[e] = b})
    <3>1. {e \in Edges(f) : g[e] = b} = {e \in Edges(f) : e[1] = b}
      BY <2>1
    <3>2. {k \in 1..NumSuccessors(f, b) : <<b, k>> \in Edges(f)} = 1..NumSuccessors(f, b)
      BY EdgesAre
    <3>3. NumSuccessors(f, b) \in Nat
      BY EdgesAre
    <3>4. Cardinality(1..NumSuccessors(f, b)) = NumSuccessors(f, b)
      BY <3>3, FS_Interval
    <3>5. Cardinality({e \in Edges(f) : e[1] = b})
            = Cardinality({k \in 1..NumSuccessors(f, b) : <<b, k>> \in Edges(f)})
      BY EdgesOfBlock
    <3> QED
      BY <3>1, <3>2, <3>4, <3>5 DEF Outdegree
  <2>4. Outdegree(f) \in [Blocks(f) -> Int]
    BY <1>2
  <2> QED
    BY <1>1, <2>2, <2>3, <2>4, CountedByPlaces
<1>5. SumFunction(Indegree(f)) = Cardinality(Edges(f))
  <2>1. PICK g : g = [e \in Edges(f) |-> Succs(f, e[1])[e[2]]]
    OBVIOUS
  <2>2. g \in [Edges(f) -> Blocks(f)]
    BY <2>1, EdgesAre
  <2>3. \A b \in Blocks(f) : Indegree(f)[b] = Cardinality({e \in Edges(f) : g[e] = b})
    <3>1. \A b \in Blocks(f) : {e \in Edges(f) : g[e] = b} = EdgesTo(f, b)
      BY <2>1 DEF EdgesTo
    <3> QED
      BY <3>1 DEF Indegree, NumPredecessors
  <2>4. Indegree(f) \in [Blocks(f) -> Int]
    BY <1>3
  <2> QED
    BY <1>1, <2>2, <2>3, <2>4, CountedByPlaces
<1> QED
  BY <1>2, <1>3, <1>4, <1>5

(* Critical edges are counted where they leave; none leaves a block with one *)
(* successor, and none enters a block with one predecessor.                  *)
LEMMA CriticalEdgesCount ==
  ASSUME IsModule(module), NEW f \in DOMAIN module
  PROVE  /\ Shape(f, "nof_cfg_crit_edges") \in [Blocks(f) -> Nat]
         /\ SumFunction(Shape(f, "nof_cfg_crit_edges")) = Cardinality(Critical(f))
         /\ \A b \in Blocks(f) :
              Shape(f, "nof_cfg_crit_edges")[b] + One(Outdegree(f)[b] = 1) <= Outdegree(f)[b]
<1>1. PICK crit : crit = Shape(f, "nof_cfg_crit_edges")
  OBVIOUS
<1>2. IsFiniteSet(Edges(f)) /\ IsFiniteSet(Blocks(f)) /\ Critical(f) \in SUBSET Edges(f)
  BY EdgesAre, BlocksAre DEF Critical
<1>3. IsFiniteSet(Critical(f))
  BY <1>2, FS_Subset
<1>4. ASSUME NEW b \in Blocks(f)
      PROVE  /\ crit[b] = Cardinality({e \in Critical(f) : e[1] = b})
             /\ crit[b] \in Nat
             /\ crit[b] + One(Outdegree(f)[b] = 1) <= Outdegree(f)[b]
  <2>1. PICK K : K = {k \in 1..NumSuccessors(f, b) : isCriticalEdge(f, b, k)}
    OBVIOUS
  <2>2. crit[b] = Cardinality(K)
    BY <1>1, <2>1 DEF Shape, processBasicBlockOfFunction
  <2>3. K = {k \in 1..NumSuccessors(f, b) : <<b, k>> \in Critical(f)}
    BY <2>1, EdgesAre DEF Critical
  <2>4. crit[b] = Cardinality({e \in Critical(f) : e[1] = b}) /\ crit[b] \in Nat
    BY <1>2, <2>2, <2>3, EdgesOfBlock
  <2>5. Outdegree(f)[b] = NumSuccessors(f, b) /\ NumSuccessors(f, b) \in Nat
    BY EdgesAre DEF Outdegree
  <2>6. CASE Outdegree(f)[b] = 1
    <3>1. K = {}
      BY <2>1, <2>5, <2>6 DEF isCriticalEdge
    <3>2. crit[b] = 0
      BY <2>2, <3>1, FS_EmptySet
    <3> QED
      BY <2>4, <2>6, <3>2 DEF One
  <2>7. CASE Outdegree(f)[b] # 1
    <3>1. IsFiniteSet(1..NumSuccessors(f, b))
          /\ Cardinality(1..NumSuccessors(f, b)) = NumSuccessors(f, b)
      BY <2>5, FS_Interval
    <3>2. K \in SUBSET (1..NumSuccessors(f, b))
      BY <2>1
    <3>3. Cardinality(K) <= Cardinality(1..NumSuccessors(f, b))
      BY <3>1, <3>2, FS_Subset
    <3> QED
      BY <2>2, <2>4, <2>5, <2>7, <3>1, <3>3 DEF One
  <2> QED
    BY <2>4, <2>6, <2>7
<1>5. crit \in [Blocks(f) -> Nat]
  BY <1>1, <1>4 DEF Shape
<1>6. SumFunction(crit) = Cardinality(Critical(f))
  <2>1. PICK g : g = [e \in Critical(f) |-> e[1]]
    OBVIOUS
  <2>2. g \in [Critical(f) -> Blocks(f)]
    BY <1>2, <2>1, EdgesAre
  <2>3. \A b \in Blocks(f) : crit[b] = Cardinality({e \in Critical(f) : g[e] = b})
    <3>1. \A b \in Blocks(f) : {e \in Critical(f) : g[e] = b} = {e \in Critical(f) : e[1] = b}
      BY <2>1
    <3> QED
      BY <1>4, <3>1
  <2>4. crit \in [Blocks(f) -> Int]
    BY <1>5
  <2> QED
    BY <1>2, <1>3, <2>2, <2>3, <2>4, CountedByPlaces
<1> QED
  BY <1>1, <1>4, <1>5, <1>6

LEMMA OnlyEdgesAreNotCritical ==
  ASSUME IsModule(module), NEW f \in DOMAIN module, NEW ones \in [Blocks(f) -> Int],
         \A b \in Blocks(f) : ones[b] = One(Indegree(f)[b] = 1)
  PROVE  Cardinality(Critical(f)) + SumFunction(ones) <= Cardinality(Edges(f))
<1>1. IsFiniteSet(Edges(f)) /\ IsFiniteSet(Blocks(f)) /\ Critical(f) \in SUBSET Edges(f)
  BY EdgesAre, BlocksAre DEF Critical
<1>2. PICK D : D = Edges(f) \ Critical(f)
  OBVIOUS
<1>3. IsFiniteSet(D) /\ D \in SUBSET Edges(f) /\ IsFiniteSet(Critical(f))
  BY <1>1, <1>2, FS_Subset
<1>4. PICK g : g = [e \in D |-> Succs(f, e[1])[e[2]]]
  OBVIOUS
<1>5. g \in [D -> Blocks(f)]
  BY <1>3, <1>4, EdgesAre
<1>6. PICK h : h = [b \in Blocks(f) |-> Cardinality({e \in D : g[e] = b})]
  OBVIOUS
<1>7. ASSUME NEW b \in Blocks(f)
      PROVE  h[b] \in Nat /\ ones[b] <= h[b]
  <2>1. PICK T : T = {e \in D : g[e] = b}
    OBVIOUS
  <2>2. T \in SUBSET D
    BY <2>1
  <2>3. IsFiniteSet(T) /\ h[b] = Cardinality(T) /\ h[b] \in Nat
    BY <1>3, <1>6, <2>1, <2>2, FS_Subset, FS_CardinalityType
  <2>4. CASE Indegree(f)[b] = 1
    <3>1. EdgesTo(f, b) \in SUBSET Edges(f)
      BY DEF EdgesTo
    <3>2. IsFiniteSet(EdgesTo(f, b)) /\ Cardinality(EdgesTo(f, b)) = 1
      BY <1>1, <2>4, <3>1, FS_Subset DEF Indegree, NumPredecessors
    <3>3. PICK e : EdgesTo(f, b) = {e}
      BY <3>2, FS_Singleton
    <3>4. e \in Edges(f) /\ Succs(f, e[1])[e[2]] = b
      BY <3>3 DEF EdgesTo
    <3>5. ~ isCriticalEdge(f, e[1], e[2])
      BY <3>3, <3>4 DEF isCriticalEdge
    <3>6. e \in T
      BY <1>2, <1>4, <2>1, <3>4, <3>5 DEF Critical
    <3>7. Cardinality(T) # 0
      BY <2>3, <3>6, FS_EmptySet
    <3> QED
      BY <2>3, <2>4, <3>7 DEF One
  <2>5. CASE Indegree(f)[b] # 1
    BY <2>3, <2>5 DEF One
  <2> QED
    BY <2>3, <2>4, <2>5
<1>8. h \in [Blocks(f) -> Int]
  BY <1>6, <1>7
<1>9. SumFunction(h) = Cardinality(D)
  <2>1. \A b \in Blocks(f) : h[b] = Cardinality({e \in D : g[e] = b})
    BY <1>6
  <2> QED
    BY ONLY <1>1, <1>3, <1>5, <1>8, <2>1, CountedByPlaces
<1>10. SumFunction(ones) <= SumFunction(h)
  BY <1>1, <1>7, <1>8, SumGrows
<1>11. Cardinality(D) = Cardinality(Edges(f)) - Cardinality(Critical(f))
  <2>1. Edges(f) \cap Critical(f) = Critical(f)
    BY <1>1
  <2>2. Cardinality(Edges(f) \ Critical(f))
          = Cardinality(Edges(f)) - Cardinality(Edges(f) \cap Critical(f))
    BY <1>1, <1>3, FS_Difference
  <2> QED
    BY <1>2, <2>1, <2>2
<1>12. /\ Cardinality(D) \in Int /\ Cardinality(Edges(f)) \in Int
       /\ Cardinality(Critical(f)) \in Int /\ SumFunction(ones) \in Int
  BY <1>1, <1>3, FS_CardinalityType, SumIsInt
<1> QED
  BY <1>9, <1>10, <1>11, <1>12

(* The counters of a function are sums over its blocks.                     *)
LEMMA FeaturesAre ==
  ASSUME Computed, phase \notin {"read", "blocks"}, NEW f \in Defined
  PROVE  /\ \A c \in GraphCounters : featuresOfFunction(f)[c] = SumFunction(Shape(f, c))
         /\ \A c \in BBCounters : featuresOfFunction(f)[c] = SumFunction(Held(f, c))
<1>1. IsModule(module) /\ bb = BlocksCounted /\ f \in DOMAIN module
  BY ModuleIs DEF Computed
<1>2. ASSUME NEW c \in FnCounters
      PROVE  featuresOfFunction(f)[c]
               = SumFunction([b \in Blocks(f) |->
                   IF c \in BBCounters THEN bb[f][b][c] ELSE processBasicBlockOfFunction(f, b, c)])
  BY <1>2 DEF featuresOfFunction
<1>3. ASSUME NEW c \in GraphCounters
      PROVE  featuresOfFunction(f)[c] = SumFunction(Shape(f, c))
  <2>1. c \notin BBCounters
    BY DEF GraphCounters, BBCounters, CounterOf, Opcodes, Returned
  <2>2. [b \in Blocks(f) |->
           IF c \in BBCounters THEN bb[f][b][c] ELSE processBasicBlockOfFunction(f, b, c)]
          = Shape(f, c)
    BY <2>1 DEF Shape
  <2> QED
    BY <1>2, <2>2 DEF FnCounters
<1>4. ASSUME NEW c \in BBCounters
      PROVE  featuresOfFunction(f)[c] = SumFunction(Held(f, c))
  <2>1. \A b \in Blocks(f) : bb[f][b][c] = processInstructionsOfBB(module[f].blocks[b])[c]
    BY <1>1 DEF BlocksCounted
  <2>2. [b \in Blocks(f) |->
           IF c \in BBCounters THEN bb[f][b][c] ELSE processBasicBlockOfFunction(f, b, c)]
          = Held(f, c)
    BY <2>1 DEF Held
  <2> QED
    BY <1>2, <2>2 DEF FnCounters
<1> QED
  BY <1>3, <1>4

LEMMA HeldIsNat ==
  ASSUME IsModule(module), NEW f \in DOMAIN module, NEW c \in BBCounters
  PROVE  Held(f, c) \in [Blocks(f) -> Nat] /\ SumFunction(Held(f, c)) \in Nat
<1>1. \A b \in Blocks(f) : processInstructionsOfBB(module[f].blocks[b])[c] \in Nat
  BY BlocksAre, CountsAreNat
<1>2. Held(f, c) \in [Blocks(f) -> Nat]
  BY <1>1 DEF Held
<1> QED
  BY <1>2, BlocksAre, SumIsNat

(* What each block adds to a counter of the graph is a number.               *)
LEMMA ShapeIsNat ==
  ASSUME IsModule(module), NEW f \in DOMAIN module, NEW c \in GraphCounters
  PROVE  Shape(f, c) \in [Blocks(f) -> Nat] /\ SumFunction(Shape(f, c)) \in Nat
<1>1. Shape(f, c) \in [Blocks(f) -> Nat]
  <2>1. CASE c = "nof_cfg_crit_edges"
    BY <2>1, CriticalEdgesCount
  <2>2. CASE c # "nof_cfg_crit_edges"
    <3>1. ASSUME NEW b \in Blocks(f)
          PROVE  processBasicBlockOfFunction(f, b, c) \in Nat
      <4>1. NumSuccessors(f, b) \in Nat
        BY EdgesAre
      <4>2. \A condition : One(condition) \in Nat
        BY DEF One
      <4> QED
        BY <2>2, <4>1, <4>2 DEF processBasicBlockOfFunction, GraphCounters
    <3> QED
      BY <3>1 DEF Shape
  <2> QED
    BY <2>1, <2>2
<1> QED
  BY <1>1, BlocksAre, SumIsNat

(* The counters of a function are numbers.                                  *)
LEMMA FeaturesAreNat ==
  ASSUME Computed, phase \notin {"read", "blocks"}, NEW f \in Defined
  PROVE  featuresOfFunction(f) \in [FnCounters -> Nat]
<1>1. IsModule(module) /\ f \in DOMAIN module
  BY ModuleIs DEF Computed
<1>2. ASSUME NEW c \in FnCounters
      PROVE  featuresOfFunction(f)[c] \in Nat
  BY <1>1, FeaturesAre, HeldIsNat, ShapeIsNat DEF FnCounters
<1>3. featuresOfFunction(f) = [c \in FnCounters |-> featuresOfFunction(f)[c]]
  BY DEF featuresOfFunction
<1> QED
  BY <1>2, <1>3

(* What is kept under the key of a function are its counters, if no other     *)
(* function has the name that was made for it.                              *)
LEMMA FunctionIsCounted ==
  ASSUME Computed, NamesApart, phase \notin {"read", "blocks"}, NEW f \in Defined
  PROVE  FnKey(f) \in DOMAIN fn /\ fn[FnKey(f)] = featuresOfFunction(f)
<1>1. fn = FunctionsCounted /\ IsModule(module) /\ IsFiniteSet(Defined)
  BY ModuleIs DEF Computed
<1>2. \A g \in Defined : FnKey(g) = FnKey(f) => g = f
  BY <1>1, KeysDiffer DEF FnKey
<1>3. ASSUME NEW c \in FnCounters
      PROVE  SumFunction([g \in Defined |-> AddedTo(FnKey(f), g, c)]) = featuresOfFunction(f)[c]
  <2>1. PICK v : v = [g \in Defined |-> AddedTo(FnKey(f), g, c)]
    OBVIOUS
  <2>2. \A g \in Defined : g # f => v[g] = 0
    BY <1>2, <2>1 DEF AddedTo
  <2>3. v[f] = featuresOfFunction(f)[c]
    BY <2>1 DEF AddedTo
  <2>4. v \in [Defined -> Int]
    <3>1. v[f] \in Int
      BY <2>3, FeaturesAreNat
    <3> QED
      BY <2>1, <2>2, <3>1
  <2> QED
    BY <1>1, <2>1, <2>2, <2>3, <2>4, SumOfOne
<1>4. featuresOfFunction(f) = [c \in FnCounters |-> featuresOfFunction(f)[c]]
  BY FeaturesAreNat
<1>5. fn[FnKey(f)] = [c \in FnCounters |->
                        SumFunction([g \in Defined |-> AddedTo(FnKey(f), g, c)])]
  BY <1>1 DEF FunctionsCounted
<1> QED
  BY <1>1, <1>3, <1>4, <1>5 DEF FunctionsCounted

LEMMA NoCounterOfFunctions == "nof_functions" \notin BBCounters
<1>1. ASSUME NEW c \in BBCounters
      PROVE  c # "nof_functions"
  BY DEF BBCounters, CounterOf, Returned, Opcodes
<1> QED
  BY <1>1

(* Of any module, with any number of functions, named or not, what is kept    *)
(* for the functions adds up to all blocks even where keys are shared; and    *)
(* where no function has a name that is made for another one, so do the      *)
(* counters of the module.                                                 *)
THEOREM CountersAddUp == FeaturesSpec => []NothingLost
<1>1. Computed => NothingLost
  <2> SUFFICES ASSUME Computed, phase \in {"functions", "module", "no such key"},
                      NEW c \in BBCounters
               PROVE  /\ SumFunction([n \in DOMAIN fn |-> fn[n][c]]) = InAllBlocks(c)
                      /\ phase = "module" /\ NamesApart => md[c] = InAllBlocks(c)
    BY DEF NothingLost
  <2>1. /\ IsModule(module) /\ fn = FunctionsCounted /\ IsFiniteSet(Defined)
        /\ phase \notin {"read", "blocks"}
    <3>1. phase \notin {"read", "blocks"}
      OBVIOUS
    <3>2. IsModule(module) /\ fn = FunctionsCounted
      BY <3>1 DEF Computed
    <3> QED
      BY <3>1, <3>2, ModuleIs
  <2>2. c \in FnCounters /\ c \in MdCounters /\ c # "nof_functions"
    <3>1. c \in FnCounters /\ c \in MdCounters
      BY DEF FnCounters, MdCounters
    <3>2. "nof_functions" \notin BBCounters
      BY NoCounterOfFunctions
    <3> QED
      BY <3>1, <3>2
  <2>3. ASSUME NEW f \in Defined
        PROVE  /\ featuresOfFunction(f)[c] = SumFunction([b \in Blocks(f) |-> bb[f][b][c]])
               /\ featuresOfFunction(f)[c] \in Int
    <3>1. featuresOfFunction(f)[c]
            = SumFunction([b \in Blocks(f) |->
                IF c \in BBCounters THEN bb[f][b][c] ELSE processBasicBlockOfFunction(f, b, c)])
      BY <2>2 DEF featuresOfFunction
    <3>2. [b \in Blocks(f) |->
             IF c \in BBCounters THEN bb[f][b][c] ELSE processBasicBlockOfFunction(f, b, c)]
            = [b \in Blocks(f) |-> bb[f][b][c]]
      OBVIOUS
    <3>3. featuresOfFunction(f) \in [FnCounters -> Nat]
      BY <2>1, FeaturesAreNat
    <3>4. featuresOfFunction(f)[c] \in Int
      BY ONLY <2>2, <3>3
    <3>5. featuresOfFunction(f)[c] = SumFunction([b \in Blocks(f) |-> bb[f][b][c]])
      BY ONLY <3>1, <3>2, Zenon
    <3> QED
      BY <3>4, <3>5
  <2>4. PICK v : v = [f \in Defined |-> featuresOfFunction(f)[c]]
    OBVIOUS
  <2>5. v \in [Defined -> Int] /\ SumFunction(v) = InAllBlocks(c)
    <3>1. v = [f \in Defined |-> SumFunction([b \in Blocks(f) |-> bb[f][b][c]])]
      BY <2>3, <2>4
    <3> QED
      BY <2>3, <2>4, <3>1 DEF InAllBlocks
  <2>6. SumFunction([n \in DOMAIN fn |-> fn[n][c]]) = InAllBlocks(c)
    <3>1. PICK N, g, w : /\ N = {FnKey(f) : f \in Defined}
                         /\ g = [f \in Defined |-> FnKey(f)]
                         /\ w = [n \in DOMAIN fn |-> fn[n][c]]
      OBVIOUS
    <3>2. DOMAIN fn = N
      BY <2>1, <3>1 DEF FunctionsCounted
    <3>3. g \in [Defined -> N] /\ IsFiniteSet(N)
      <4>1. g \in Surjection(Defined, N)
        BY <3>1 DEF Surjection
      <4> QED
        BY <2>1, <4>1, FS_Surjection DEF Surjection
    <3>4. ASSUME NEW n \in N
          PROVE  /\ w[n] = SumFunction([f \in Defined |-> IF g[f] = n THEN v[f] ELSE 0])
                 /\ w[n] \in Int
      <4>1. PICK u : u = [f \in Defined |-> IF g[f] = n THEN v[f] ELSE 0]
        OBVIOUS
      <4>2. u = [f \in Defined |-> AddedTo(n, f, c)]
        BY <2>4, <3>1, <4>1 DEF AddedTo
      <4>3. w[n] = SumFunction([f \in Defined |-> AddedTo(n, f, c)])
        <5>1. fn[n] = [d \in FnCounters |-> SumFunction([f \in Defined |-> AddedTo(n, f, d)])]
          BY <2>1, <3>1 DEF FunctionsCounted
        <5>2. w[n] = fn[n][c]
          BY <3>1, <3>2
        <5> QED
          BY ONLY <2>2, <5>1, <5>2, Zenon
      <4>4. u \in [Defined -> Int]
        BY ONLY <2>5, <4>1
      <4>5. w[n] = SumFunction(u)
        BY ONLY <4>2, <4>3
      <4>6. SumFunction(u) \in Int
        BY ONLY <2>1, <4>4, SumIsInt
      <4> QED
        BY ONLY <4>1, <4>5, <4>6
    <3>5. w \in [N -> Int]
      BY <3>1, <3>2, <3>4
    <3>6. SumFunction(w) = SumFunction(v)
      <4>1. IsFiniteSet(Defined) /\ IsFiniteSet(N) /\ v \in [Defined -> Int]
        BY <2>1, <2>5, <3>3
      <4>2. g \in [Defined -> N]
        BY <3>3
      <4>3. \A n \in N :
              w[n] = SumFunction([f \in Defined |-> IF g[f] = n THEN v[f] ELSE 0])
        BY <3>4
      <4> QED
        BY ONLY <3>5, <4>1, <4>2, <4>3, SumByPlaces
    <3> QED
      BY <2>5, <3>1, <3>6
  <2>7. ASSUME phase = "module", NamesApart
        PROVE  md[c] = InAllBlocks(c)
    <3>1. md = ModuleCounted /\ \A f \in Defined : MdKey(f) \in DOMAIN fn
      BY <2>7 DEF Computed
    <3>2. md[c] = SumFunction([f \in Defined |-> fn[MdKey(f)][c]])
      BY <2>2, <3>1 DEF ModuleCounted
    <3>3. \A f \in Defined : MdKey(f) = FnKey(f)
      BY <2>1, <2>7, <3>1, KeysAgree DEF FunctionsCounted
    <3>4. [f \in Defined |-> fn[MdKey(f)][c]] = v
      BY <2>1, <2>4, <2>7, <3>3, FunctionIsCounted
    <3> QED
      BY <2>5, <3>2, <3>4
  <2> QED
    BY <2>6, <2>7
<1> QED
  BY <1>1, ComputedAlways, PTL

(* What a block goes on to is what its terminator, which is counted, says.   *)
LEMMA BlockGoesOn ==
  ASSUME IsModule(module), NEW f \in DOMAIN module, NEW b \in Blocks(f),
         Held(f, "nof_switch_inst")[b] = 0, Held(f, "nof_indirectbr_inst")[b] = 0,
         NEW invoke, invoke = One(Terminator(module[f].blocks[b]) = "invoke"),
         NEW d, d = Outdegree(f)[b]
  PROVE  /\ invoke <= Held(f, "nof_terminator_inst")[b]
         /\ One(d = 1) = Held(f, "nof_uncondbr_inst")[b]
         /\ One(d \in 1..2) = (One(d = 1) + Held(f, "nof_condbr_inst")[b]) + invoke
         /\ One(d # 0) = One(d \in 1..2)
         /\ 1 + invoke = One(d # 0) + Held(f, "nof_terminator_inst")[b]
<1>1. PICK blk, n, t : /\ blk = module[f].blocks[b] /\ n = Len(module[f].blocks)
                       /\ t = Terminator(blk)
  OBVIOUS
<1>2. IsBlock(blk, n)
  BY <1>1, BlocksAre
<1>3. Len(blk.insts) \in DOMAIN blk.insts
  BY <1>2, InstructionsAre
<1>4. t \in Terminators /\ Len(blk.succs) \in GoesOnTo[t]
  BY <1>1, <1>2, <1>3 DEF IsBlock, Terminator
<1>5. \A c \in {CounterOf[o] : o \in Terminators} : Held(f, c)[b] = One(CounterOf[t] = c)
  BY <1>1, <1>2, TerminatorCounts DEF Held
<1>6. d = Len(blk.succs)
  BY <1>1 DEF Outdegree, NumSuccessors, Succs
<1>7. /\ Held(f, "nof_switch_inst")[b] = One(CounterOf[t] = "nof_switch_inst")
      /\ Held(f, "nof_indirectbr_inst")[b] = One(CounterOf[t] = "nof_indirectbr_inst")
      /\ Held(f, "nof_condbr_inst")[b] = One(CounterOf[t] = "nof_condbr_inst")
      /\ Held(f, "nof_uncondbr_inst")[b] = One(CounterOf[t] = "nof_uncondbr_inst")
      /\ Held(f, "nof_terminator_inst")[b] = One(CounterOf[t] = "nof_terminator_inst")
  BY <1>5 DEF CounterOf, Terminators
<1>8. t \notin {"switch", "indirectbr"}
  BY <1>7 DEF CounterOf, One
<1>9. CASE t = "condbr"
  <2>1. d = 2
    BY <1>4, <1>6, <1>9 DEF GoesOnTo
  <2>2. CounterOf[t] = "nof_condbr_inst"
    BY <1>9 DEF CounterOf
  <2> QED
    BY <1>1, <1>7, <1>9, <2>1, <2>2 DEF One
<1>10. CASE t = "uncondbr"
  <2>1. d = 1
    BY <1>4, <1>6, <1>10 DEF GoesOnTo
  <2>2. CounterOf[t] = "nof_uncondbr_inst"
    BY <1>10 DEF CounterOf
  <2> QED
    BY <1>1, <1>7, <1>10, <2>1, <2>2 DEF One
<1>11. CASE t = "terminator"
  <2>1. d = 0
    BY <1>4, <1>6, <1>11 DEF GoesOnTo
  <2>2. CounterOf[t] = "nof_terminator_inst"
    BY <1>11 DEF CounterOf
  <2> QED
    BY <1>1, <1>7, <1>11, <2>1, <2>2 DEF One
<1>12. CASE t = "invoke"
  <2>1. d = 2
    BY <1>4, <1>6, <1>12 DEF GoesOnTo
  <2>2. CounterOf[t] = "nof_terminator_inst"
    BY <1>12 DEF CounterOf
  <2> QED
    BY <1>1, <1>7, <1>12, <2>1, <2>2 DEF One
<1> QED
  BY <1>4, <1>8, <1>9, <1>10, <1>11, <1>12 DEF Terminators

LEMMA BranchesGoOn ==
  ASSUME IsModule(module), NEW f \in DOMAIN module,
         NEW v \in [FnCounters -> Nat],
         \A c \in GraphCounters : v[c] = SumFunction(Shape(f, c)),
         \A c \in BBCounters : v[c] = SumFunction(Held(f, c)),
         v["nof_switch_inst"] + v["nof_indirectbr_inst"] = 0
  PROVE  DegreesOfBranches(v)
<1>1. PICK S : S = Blocks(f)
  OBVIOUS
<1>2. IsFiniteSet(S)
  BY <1>1, BlocksAre
<1>3. {"nof_switch_inst", "nof_indirectbr_inst", "nof_condbr_inst", "nof_uncondbr_inst",
       "nof_terminator_inst"} \subseteq BBCounters
  BY DEF BBCounters, Opcodes, CounterOf
<1>4. {"nof_1suc_bb", "nof_2suc_bb", "nof_g2suc_bb", "nof_bb"} \subseteq GraphCounters
  BY DEF GraphCounters
<1>5. PICK sw, ind, con, unc, ter :
        /\ sw = Held(f, "nof_switch_inst") /\ ind = Held(f, "nof_indirectbr_inst")
        /\ con = Held(f, "nof_condbr_inst") /\ unc = Held(f, "nof_uncondbr_inst")
        /\ ter = Held(f, "nof_terminator_inst")
  OBVIOUS
<1>6. PICK o1, o2, o3, all :
        /\ o1 = Shape(f, "nof_1suc_bb") /\ o2 = Shape(f, "nof_2suc_bb")
        /\ o3 = Shape(f, "nof_g2suc_bb") /\ all = Shape(f, "nof_bb")
  OBVIOUS
<1>7. /\ sw \in [S -> Nat] /\ ind \in [S -> Nat] /\ con \in [S -> Nat]
      /\ unc \in [S -> Nat] /\ ter \in [S -> Nat]
      /\ SumFunction(sw) \in Nat /\ SumFunction(ind) \in Nat
      /\ SumFunction(con) \in Nat /\ SumFunction(unc) \in Nat /\ SumFunction(ter) \in Nat
  BY <1>1, <1>3, <1>5, HeldIsNat
<1>8. /\ o1 \in [S -> Nat] /\ o2 \in [S -> Nat] /\ o3 \in [S -> Nat] /\ all \in [S -> Nat]
      /\ SumFunction(o1) \in Nat /\ SumFunction(o2) \in Nat
      /\ SumFunction(o3) \in Nat /\ SumFunction(all) \in Nat
  BY <1>1, <1>4, <1>6, ShapeIsNat
<1>9. /\ v["nof_switch_inst"] = SumFunction(sw) /\ v["nof_indirectbr_inst"] = SumFunction(ind)
      /\ v["nof_condbr_inst"] = SumFunction(con) /\ v["nof_uncondbr_inst"] = SumFunction(unc)
      /\ v["nof_terminator_inst"] = SumFunction(ter)
      /\ v["nof_1suc_bb"] = SumFunction(o1) /\ v["nof_2suc_bb"] = SumFunction(o2)
      /\ v["nof_g2suc_bb"] = SumFunction(o3) /\ v["nof_bb"] = SumFunction(all)
  BY <1>3, <1>4, <1>5, <1>6
<1>10. \A b \in S : sw[b] = 0 /\ ind[b] = 0
  <2>1. SumFunction(sw) = 0 /\ SumFunction(ind) = 0
    BY <1>7, <1>9
  <2> QED
    BY <1>2, <1>7, <2>1, NothingAddsUp
<1>11. PICK inv : inv = [b \in S |-> One(Terminator(module[f].blocks[b]) = "invoke")]
  OBVIOUS
<1>12. inv \in [S -> Nat]
  BY <1>11 DEF One
<1>13. \A b \in S : /\ inv[b] <= ter[b]
                    /\ o1[b] = unc[b]
                    /\ o2[b] = (o1[b] + con[b]) + inv[b]
                    /\ o3[b] = o2[b]
                    /\ all[b] + inv[b] = o3[b] + ter[b]
  <2>1. ASSUME NEW b \in S
        PROVE  /\ inv[b] <= ter[b]
               /\ o1[b] = unc[b]
               /\ o2[b] = (o1[b] + con[b]) + inv[b]
               /\ o3[b] = o2[b]
               /\ all[b] + inv[b] = o3[b] + ter[b]
    <3>1. PICK d : d = Outdegree(f)[b]
      OBVIOUS
    <3>2. o1[b] = One(d = 1) /\ o2[b] = One(d \in 1..2) /\ o3[b] = One(d # 0)
      BY <1>1, <1>6, <3>1, DegreesOfBlock
    <3>3. all[b] = 1
      BY <1>1, <1>6 DEF Shape, processBasicBlockOfFunction
    <3>4. inv[b] = One(Terminator(module[f].blocks[b]) = "invoke")
      BY <1>11
    <3>5. /\ inv[b] <= ter[b]
          /\ One(d = 1) = unc[b]
          /\ One(d \in 1..2) = (One(d = 1) + con[b]) + inv[b]
          /\ One(d # 0) = One(d \in 1..2)
          /\ 1 + inv[b] = One(d # 0) + ter[b]
      BY <1>1, <1>5, <1>10, <3>1, <3>4, BlockGoesOn
    <3> QED
      BY <3>2, <3>3, <3>5
  <2> QED
    BY <2>1
<1>14. /\ con \in [S -> Int] /\ unc \in [S -> Int] /\ ter \in [S -> Int] /\ inv \in [S -> Int]
       /\ o1 \in [S -> Int] /\ o2 \in [S -> Int] /\ o3 \in [S -> Int] /\ all \in [S -> Int]
  BY <1>7, <1>8, <1>12
<1>15. o1 = unc /\ o3 = o2
  BY <1>8, <1>7, <1>13
<1>16. SumFunction(o2) = (SumFunction(o1) + SumFunction(con)) + SumFunction(inv)
  <2>1. PICK w \in [S -> Int] : \A b \in S : w[b] = o1[b] + con[b]
    <3>1. [b \in S |-> o1[b] + con[b]] \in [S -> Int]
      BY <1>14
    <3> QED
      BY <3>1
  <2>2. SumFunction(w) = SumFunction(o1) + SumFunction(con)
    BY ONLY <1>2, <1>14, <2>1, SumAdds
  <2>3. \A b \in S : o2[b] = w[b] + inv[b]
    BY <1>13, <2>1
  <2>4. w \in [S -> Int] /\ inv \in [S -> Int] /\ o2 \in [S -> Int]
    BY <1>14
  <2>5. SumFunction(o2) = SumFunction(w) + SumFunction(inv)
    BY ONLY <1>2, <2>3, <2>4, SumAdds
  <2> QED
    BY <2>2, <2>5
<1>17. SumFunction(all) + SumFunction(inv) = SumFunction(o3) + SumFunction(ter)
  <2>1. PICK w \in [S -> Int] : \A b \in S : w[b] = all[b] + inv[b]
    <3>1. [b \in S |-> all[b] + inv[b]] \in [S -> Int]
      BY <1>14
    <3> QED
      BY <3>1
  <2>2. SumFunction(w) = SumFunction(all) + SumFunction(inv)
    BY ONLY <1>2, <1>14, <2>1, SumAdds
  <2>3. \A b \in S : w[b] = o3[b] + ter[b]
    BY <1>13, <2>1
  <2>4. w \in [S -> Int] /\ o3 \in [S -> Int] /\ ter \in [S -> Int]
    BY <1>14
  <2>5. SumFunction(w) = SumFunction(o3) + SumFunction(ter)
    BY ONLY <1>2, <2>3, <2>4, SumAdds
  <2> QED
    BY <2>2, <2>5
<1>18. SumFunction(inv) \in 0..SumFunction(ter)
  <2>1. \A b \in S : inv[b] <= ter[b]
    BY <1>13
  <2>2. SumFunction(inv) <= SumFunction(ter)
    BY ONLY <1>2, <1>14, <2>1, SumGrows
  <2>3. SumFunction(inv) \in Nat
    BY <1>2, <1>12, SumIsNat
  <2> QED
    BY <1>7, <2>2, <2>3
<1>19. PICK invokes : invokes = SumFunction(inv)
  OBVIOUS
<1>20. /\ invokes \in 0..v["nof_terminator_inst"]
       /\ v["nof_1suc_bb"] = v["nof_uncondbr_inst"]
       /\ v["nof_2suc_bb"] = v["nof_1suc_bb"] + v["nof_condbr_inst"] + invokes
       /\ v["nof_g2suc_bb"] = v["nof_2suc_bb"]
       /\ v["nof_bb"] = v["nof_g2suc_bb"] + v["nof_terminator_inst"] - invokes
  <2>1. invokes \in 0..v["nof_terminator_inst"]
    BY <1>9, <1>18, <1>19
  <2>2. v["nof_1suc_bb"] = v["nof_uncondbr_inst"] /\ v["nof_g2suc_bb"] = v["nof_2suc_bb"]
    BY <1>9, <1>15
  <2>3. v["nof_2suc_bb"] = v["nof_1suc_bb"] + v["nof_condbr_inst"] + invokes
    BY <1>9, <1>16, <1>19
  <2>4. v["nof_bb"] = v["nof_g2suc_bb"] + v["nof_terminator_inst"] - invokes
    <3>1. invokes \in Int
      BY <1>18, <1>19
    <3> QED
      BY <1>7, <1>8, <1>9, <1>17, <1>19, <3>1
  <2> QED
    BY <2>1, <2>2, <2>3, <2>4
<1> QED
  BY <1>20 DEF DegreesOfBranches

-----------------------------------------------------------------------------
(***************************************************************************)
(* The counters that are kept under one name, of one graph or of several.    *)
(***************************************************************************)
Ends ==
  {<<"nof_1pred_bb", "nof_2pred_bb", "nof_g2pred_bb">>,
   <<"nof_1suc_bb", "nof_2suc_bb", "nof_g2suc_bb">>}

IsOfGraphs(v) ==
  /\ v \in [FnCounters -> Nat]
  /\ \A e \in Ends : /\ v[e[1]] <= v[e[2]] /\ v[e[2]] <= v[e[3]]
                      /\ DegreesOfEdges(v, e[1], e[2], e[3])
  /\ v["nof_switch_inst"] + v["nof_indirectbr_inst"] = 0 => DegreesOfBranches(v)

LEMMA CountersOfEnds ==
  /\ \A e \in Ends : e[1] \in FnCounters /\ e[2] \in FnCounters /\ e[3] \in FnCounters
  /\ {"nof_cfg_edges", "nof_cfg_crit_edges", "nof_bb", "nof_1suc_bb", "nof_2suc_bb",
      "nof_g2suc_bb"} \subseteq FnCounters
  /\ {"nof_switch_inst", "nof_indirectbr_inst", "nof_condbr_inst", "nof_uncondbr_inst",
      "nof_terminator_inst"} \subseteq FnCounters
<1>1. GraphCounters \subseteq FnCounters /\ BBCounters \subseteq FnCounters
  BY DEF FnCounters
<1>2. {"nof_switch_inst", "nof_indirectbr_inst", "nof_condbr_inst", "nof_uncondbr_inst",
       "nof_terminator_inst"} \subseteq BBCounters
  BY DEF BBCounters, Opcodes, CounterOf
<1>3. {"nof_cfg_edges", "nof_cfg_crit_edges", "nof_bb", "nof_1suc_bb", "nof_2suc_bb",
       "nof_g2suc_bb", "nof_1pred_bb", "nof_2pred_bb", "nof_g2pred_bb"} \subseteq GraphCounters
  BY DEF GraphCounters
<1> QED
  BY <1>1, <1>2, <1>3 DEF Ends

(* No graph has nothing in every counter, and two graphs have their sums.     *)
LEMMA NoGraph ==
  ASSUME NEW v, v = [c \in FnCounters |-> 0]
  PROVE  IsOfGraphs(v)
<1>1. \A c \in FnCounters : v[c] = 0
  OBVIOUS
<1>2. \A e \in Ends : /\ v[e[1]] <= v[e[2]] /\ v[e[2]] <= v[e[3]]
                      /\ DegreesOfEdges(v, e[1], e[2], e[3])
  BY <1>1, CountersOfEnds DEF DegreesOfEdges
<1>3. DegreesOfBranches(v)
  <2>1. 0 \in 0..v["nof_terminator_inst"]
    BY <1>1, CountersOfEnds
  <2> QED
    BY <1>1, <2>1, CountersOfEnds DEF DegreesOfBranches
<1> QED
  BY <1>1, <1>2, <1>3 DEF IsOfGraphs

LEMMA MoreGraphs ==
  ASSUME NEW u, NEW v, NEW w, IsOfGraphs(u), IsOfGraphs(v),
         w \in [FnCounters -> Nat], \A c \in FnCounters : w[c] = u[c] + v[c]
  PROVE  IsOfGraphs(w)
<1>1. u \in [FnCounters -> Nat] /\ v \in [FnCounters -> Nat]
  BY DEF IsOfGraphs
<1>2. ASSUME NEW e \in Ends
      PROVE  /\ w[e[1]] <= w[e[2]] /\ w[e[2]] <= w[e[3]]
             /\ DegreesOfEdges(w, e[1], e[2], e[3])
  <2>1. PICK one, two, more : one = e[1] /\ two = e[2] /\ more = e[3]
    OBVIOUS
  <2>2. {one, two, more, "nof_cfg_edges", "nof_cfg_crit_edges"} \subseteq FnCounters
    BY <2>1, CountersOfEnds
  <2>3. \A c \in {one, two, more, "nof_cfg_edges", "nof_cfg_crit_edges"} :
          w[c] = u[c] + v[c] /\ u[c] \in Nat /\ v[c] \in Nat
    BY <1>1, <2>2
  <2>4. /\ u[one] <= u[two] /\ u[two] <= u[more] /\ DegreesOfEdges(u, one, two, more)
        /\ v[one] <= v[two] /\ v[two] <= v[more] /\ DegreesOfEdges(v, one, two, more)
    BY <2>1 DEF IsOfGraphs
  <2>5. PICK u1, u2, u3, ue, uc \in Nat :
          /\ u1 = u[one] /\ u2 = u[two] /\ u3 = u[more]
          /\ ue = u["nof_cfg_edges"] /\ uc = u["nof_cfg_crit_edges"]
    BY <2>3
  <2>6. PICK v1, v2, v3, ve, vc \in Nat :
          /\ v1 = v[one] /\ v2 = v[two] /\ v3 = v[more]
          /\ ve = v["nof_cfg_edges"] /\ vc = v["nof_cfg_crit_edges"]
    BY <2>3
  <2>7. /\ w[one] = u1 + v1 /\ w[two] = u2 + v2 /\ w[more] = u3 + v3
        /\ w["nof_cfg_edges"] = ue + ve /\ w["nof_cfg_crit_edges"] = uc + vc
    BY <2>3, <2>5, <2>6
  <2>8. /\ u1 <= u2 /\ u2 <= u3 /\ ue >= u1 + 2 * (u2 - u1) + 3 * (u3 - u2)
        /\ u3 = u2 => ue = u1 + 2 * (u2 - u1) + 3 * (u3 - u2)
        /\ uc <= ue - u1
    BY <2>4, <2>5 DEF DegreesOfEdges
  <2>9. /\ v1 <= v2 /\ v2 <= v3 /\ ve >= v1 + 2 * (v2 - v1) + 3 * (v3 - v2)
        /\ v3 = v2 => ve = v1 + 2 * (v2 - v1) + 3 * (v3 - v2)
        /\ vc <= ve - v1
    BY <2>4, <2>6 DEF DegreesOfEdges
  <2>10. /\ u1 + v1 <= u2 + v2 /\ u2 + v2 <= u3 + v3
         /\ ue + ve >= (u1 + v1) + 2 * ((u2 + v2) - (u1 + v1)) + 3 * ((u3 + v3) - (u2 + v2))
         /\ u3 + v3 = u2 + v2 => /\ u3 = u2 /\ v3 = v2
         /\ uc + vc <= (ue + ve) - (u1 + v1)
    BY <2>8, <2>9
  <2>11. u3 + v3 = u2 + v2 =>
           ue + ve = (u1 + v1) + 2 * ((u2 + v2) - (u1 + v1)) + 3 * ((u3 + v3) - (u2 + v2))
    BY <2>8, <2>9, <2>10
  <2>12. w[one] <= w[two] /\ w[two] <= w[more] /\ DegreesOfEdges(w, one, two, more)
    BY <2>7, <2>10, <2>11 DEF DegreesOfEdges
  <2> QED
    BY <2>1, <2>12
<1>3. ASSUME w["nof_switch_inst"] + w["nof_indirectbr_inst"] = 0
      PROVE  DegreesOfBranches(w)
  <2>1. \A c \in {"nof_bb", "nof_1suc_bb", "nof_2suc_bb", "nof_g2suc_bb", "nof_switch_inst",
                  "nof_indirectbr_inst", "nof_condbr_inst", "nof_uncondbr_inst",
                  "nof_terminator_inst"} :
          w[c] = u[c] + v[c] /\ u[c] \in Nat /\ v[c] \in Nat
    BY <1>1, CountersOfEnds
  <2>2. /\ u["nof_switch_inst"] + u["nof_indirectbr_inst"] = 0
        /\ v["nof_switch_inst"] + v["nof_indirectbr_inst"] = 0
    <3>1. PICK us, ui, vs, vi \in Nat :
            /\ us = u["nof_switch_inst"] /\ ui = u["nof_indirectbr_inst"]
            /\ vs = v["nof_switch_inst"] /\ vi = v["nof_indirectbr_inst"]
      BY <2>1
    <3>2. (us + vs) + (ui + vi) = 0
      BY <1>3, <2>1, <3>1
    <3>3. us + ui = 0 /\ vs + vi = 0
      BY ONLY <3>2, us \in Nat, ui \in Nat, vs \in Nat, vi \in Nat
    <3> QED
      BY <3>1, <3>3
  <2>3. PICK i \in 0..u["nof_terminator_inst"] :
          /\ u["nof_1suc_bb"] = u["nof_uncondbr_inst"]
          /\ u["nof_2suc_bb"] = u["nof_1suc_bb"] + u["nof_condbr_inst"] + i
          /\ u["nof_g2suc_bb"] = u["nof_2suc_bb"]
          /\ u["nof_bb"] = u["nof_g2suc_bb"] + u["nof_terminator_inst"] - i
    BY <2>2 DEF IsOfGraphs, DegreesOfBranches
  <2>4. PICK j \in 0..v["nof_terminator_inst"] :
          /\ v["nof_1suc_bb"] = v["nof_uncondbr_inst"]
          /\ v["nof_2suc_bb"] = v["nof_1suc_bb"] + v["nof_condbr_inst"] + j
          /\ v["nof_g2suc_bb"] = v["nof_2suc_bb"]
          /\ v["nof_bb"] = v["nof_g2suc_bb"] + v["nof_terminator_inst"] - j
    BY <2>2 DEF IsOfGraphs, DegreesOfBranches
  <2>5. /\ w["nof_bb"] = u["nof_bb"] + v["nof_bb"]
        /\ w["nof_1suc_bb"] = u["nof_1suc_bb"] + v["nof_1suc_bb"]
        /\ w["nof_2suc_bb"] = u["nof_2suc_bb"] + v["nof_2suc_bb"]
        /\ w["nof_g2suc_bb"] = u["nof_g2suc_bb"] + v["nof_g2suc_bb"]
        /\ w["nof_condbr_inst"] = u["nof_condbr_inst"] + v["nof_condbr_inst"]
        /\ w["nof_uncondbr_inst"] = u["nof_uncondbr_inst"] + v["nof_uncondbr_inst"]
        /\ w["nof_terminator_inst"] = u["nof_terminator_inst"] + v["nof_terminator_inst"]
    BY <2>1
  <2>6. PICK u1, uc, ut, v1, vc, vt \in Nat :
          /\ u1 = u["nof_1suc_bb"] /\ uc = u["nof_condbr_inst"] /\ ut = u["nof_terminator_inst"]
          /\ v1 = v["nof_1suc_bb"] /\ vc = v["nof_condbr_inst"] /\ vt = v["nof_terminator_inst"]
    BY <2>1
  <2>7. i \in Nat /\ i <= ut /\ j \in Nat /\ j <= vt
    BY <2>6
  <2>8. i + j \in 0..w["nof_terminator_inst"]
    BY <2>5, <2>6, <2>7
  <2>9. w["nof_1suc_bb"] = w["nof_uncondbr_inst"] /\ w["nof_g2suc_bb"] = w["nof_2suc_bb"]
    BY <2>3, <2>4, <2>5
  <2>10. w["nof_2suc_bb"] = w["nof_1suc_bb"] + w["nof_condbr_inst"] + (i + j)
    <3>1. w["nof_2suc_bb"] = (u1 + uc + i) + (v1 + vc + j)
      BY <2>3, <2>4, <2>5, <2>6
    <3>2. w["nof_1suc_bb"] = u1 + v1 /\ w["nof_condbr_inst"] = uc + vc
      BY <2>5, <2>6
    <3> QED
      BY <2>7, <3>1, <3>2
  <2>11. w["nof_bb"] = w["nof_g2suc_bb"] + w["nof_terminator_inst"] - (i + j)
    <3>1. PICK ug, vg \in Nat : ug = u["nof_g2suc_bb"] /\ vg = v["nof_g2suc_bb"]
      BY <2>1
    <3>2. w["nof_bb"] = (ug + ut - i) + (vg + vt - j)
      BY <2>3, <2>4, <2>5, <2>6, <3>1
    <3>3. w["nof_g2suc_bb"] = ug + vg /\ w["nof_terminator_inst"] = ut + vt
      BY <2>5, <2>6, <3>1
    <3> QED
      BY <2>7, <3>2, <3>3
  <2> QED
    BY <2>8, <2>9, <2>10, <2>11 DEF DegreesOfBranches
<1> QED
  BY <1>2, <1>3 DEF IsOfGraphs

(* So do any number of them.                                                *)
LEMMA AnyGraphs ==
  ASSUME NEW S, IsFiniteSet(S), NEW R \in [S -> [FnCounters -> Nat]],
         \A x \in S : IsOfGraphs(R[x]),
         NEW w, w = [c \in FnCounters |-> SumFunction([x \in S |-> R[x][c]])]
  PROVE  IsOfGraphs(w)
<1> DEFINE V(c) == [x \in S |-> R[x][c]]
           Sums(c) == CHOOSE sums : AreSums(sums, V(c), S) /\ SumFunction(V(c)) = sums[S]
<1>1. ASSUME NEW c \in FnCounters
      PROVE  /\ AreSums(Sums(c), V(c), S) /\ SumFunction(V(c)) = Sums(c)[S]
             /\ V(c) \in [S -> Nat]
  <2>1. V(c) \in [S -> Nat] /\ V(c) \in [S -> Int]
    OBVIOUS
  <2>2. \E sums : AreSums(sums, V(c), S) /\ SumFunction(V(c)) = sums[S]
    <3> HIDE DEF V
    <3> QED
      BY <2>1, SumsExist
  <2> QED
    BY <2>1, <2>2
<1> DEFINE Row(s) == [c \in FnCounters |-> Sums(c)[s]]
<1>2. \A s : \A c \in FnCounters : Row(s)[c] = Sums(c)[s]
  OBVIOUS
<1>3. \A x \in S : \A c \in FnCounters : V(c)[x] = R[x][c]
  OBVIOUS
<1>4. DOMAIN R = S /\ \A x \in S : R[x] \in [FnCounters -> Nat]
  OBVIOUS
<1>5. PICK Good : Good = {s \in SUBSET S : Row(s) \in [FnCounters -> Nat] /\ IsOfGraphs(Row(s))}
  OBVIOUS
<1> HIDE DEF Sums, V
<1>6. ASSUME NEW s \in SUBSET S, \A x \in s : s \ {x} \in Good
      PROVE  s \in Good
  <2>1. CASE s = {}
    <3>1. \A c \in FnCounters : Sums(c)[{}] = 0
      BY <1>1 DEF AreSums
    <3>2. Row(s) = [c \in FnCounters |-> 0]
      BY <2>1, <3>1
    <3>3. IsOfGraphs(Row(s))
      BY <3>2, NoGraph
    <3> QED
      BY <1>5, <3>2, <3>3
  <2>2. CASE s # {}
    <3>1. PICK x \in s : TRUE
      BY <2>2
    <3>2. Row(s \ {x}) \in [FnCounters -> Nat] /\ IsOfGraphs(Row(s \ {x}))
      BY <1>5, <1>6
    <3>3. \A c \in FnCounters : Row(s)[c] = R[x][c] + Row(s \ {x})[c]
      <4>1. ASSUME NEW c \in FnCounters
            PROVE  Row(s)[c] = R[x][c] + Row(s \ {x})[c]
        <5>1. Sums(c)[s] = V(c)[x] + Sums(c)[s \ {x}]
          BY <1>1 DEF AreSums
        <5> QED
          BY <1>2, <1>3, <5>1
      <4> QED
        BY <4>1
    <3>4. Row(s) \in [FnCounters -> Nat]
      <4>1. PICK p, q : p = R[x] /\ q = Row(s \ {x})
        OBVIOUS
      <4>2. p \in [FnCounters -> Nat] /\ q \in [FnCounters -> Nat]
        BY <1>4, <3>2, <4>1
      <4>3. \A c \in FnCounters : Row(s)[c] = p[c] + q[c]
        BY <3>3, <4>1
      <4>4. \A c \in FnCounters : Row(s)[c] \in Nat
        <5> HIDE DEF Row
        <5> QED
          BY ONLY <4>2, <4>3
      <4> QED
        BY <4>4
    <3>5. IsOfGraphs(Row(s))
      <4>1. IsOfGraphs(R[x])
        OBVIOUS
      <4> HIDE DEF Row
      <4> QED
        BY <3>2, <3>3, <3>4, <4>1, MoreGraphs
    <3> QED
      BY <1>5, <3>4, <3>5
  <2> QED
    BY <2>1, <2>2
<1>7. S \in Good
  BY ONLY <1>6, FiniteInduction, IsFiniteSet(S)
<1>8. Row(S) = w
  BY <1>1 DEF V
<1> QED
  BY <1>5, <1>7, <1>8

(* The counters of a function are of its graph: its edges, seen from both     *)
(* ends, its critical edges and its branches.                               *)
LEMMA FunctionIsGraph ==
  ASSUME Computed, phase \notin {"read", "blocks"}, NEW f \in Defined
  PROVE  IsOfGraphs(featuresOfFunction(f))
<1>1. PICK v : v = featuresOfFunction(f)
  OBVIOUS
<1>2. IsModule(module) /\ f \in DOMAIN module /\ IsFiniteSet(Blocks(f))
  BY ModuleIs, BlocksAre DEF Computed
<1>3. /\ v \in [FnCounters -> Nat]
      /\ \A c \in GraphCounters : v[c] = SumFunction(Shape(f, c))
      /\ \A c \in BBCounters : v[c] = SumFunction(Held(f, c))
  BY <1>1, FeaturesAre, FeaturesAreNat
<1>4. PICK S, O, I, E : /\ S = Blocks(f) /\ O = Outdegree(f) /\ I = Indegree(f)
                        /\ E = Cardinality(Edges(f))
  OBVIOUS
<1>5. /\ O \in [S -> Nat] /\ I \in [S -> Nat] /\ IsFiniteSet(S)
      /\ SumFunction(O) = E /\ SumFunction(I) = E /\ E \in Nat
  BY <1>2, <1>4, DegreesCountEdges, EdgesAre, FS_CardinalityType
<1>6. v["nof_cfg_edges"] = E
  <2>1. Shape(f, "nof_cfg_edges") = Outdegree(f)
    BY DEF Shape, Outdegree, processBasicBlockOfFunction
  <2> QED
    BY <1>3, <1>4, <1>5, <2>1 DEF GraphCounters
<1>7. PICK i1, i2, i3, o1, o2, o3, crit :
        /\ i1 = Shape(f, "nof_1pred_bb") /\ i2 = Shape(f, "nof_2pred_bb")
        /\ i3 = Shape(f, "nof_g2pred_bb")
        /\ o1 = Shape(f, "nof_1suc_bb") /\ o2 = Shape(f, "nof_2suc_bb")
        /\ o3 = Shape(f, "nof_g2suc_bb")
        /\ crit = Shape(f, "nof_cfg_crit_edges")
  OBVIOUS
<1>8. /\ v["nof_1pred_bb"] = SumFunction(i1) /\ v["nof_2pred_bb"] = SumFunction(i2)
      /\ v["nof_g2pred_bb"] = SumFunction(i3)
      /\ v["nof_1suc_bb"] = SumFunction(o1) /\ v["nof_2suc_bb"] = SumFunction(o2)
      /\ v["nof_g2suc_bb"] = SumFunction(o3)
      /\ v["nof_cfg_crit_edges"] = SumFunction(crit)
  BY <1>3, <1>7 DEF GraphCounters
<1>9. /\ i1 \in [S -> Int] /\ i2 \in [S -> Int] /\ i3 \in [S -> Int]
      /\ o1 \in [S -> Int] /\ o2 \in [S -> Int] /\ o3 \in [S -> Int]
      /\ crit \in [S -> Int] /\ O \in [S -> Int]
      /\ SumFunction(i1) \in Int /\ SumFunction(o1) \in Int /\ SumFunction(crit) \in Int
  <2>1. \A c \in GraphCounters : Shape(f, c) \in [S -> Int] /\ SumFunction(Shape(f, c)) \in Int
    <3>1. \A c \in GraphCounters : Shape(f, c) \in [S -> Nat] /\ SumFunction(Shape(f, c)) \in Nat
      BY <1>2, <1>4, ShapeIsNat
    <3> QED
      BY <3>1
  <2> QED
    BY <1>5, <1>7, <2>1 DEF GraphCounters
<1>10. \A b \in S : /\ i1[b] = One(I[b] = 1) /\ i2[b] = One(I[b] \in 1..2)
                    /\ i3[b] = One(I[b] # 0)
                    /\ o1[b] = One(O[b] = 1) /\ o2[b] = One(O[b] \in 1..2)
                    /\ o3[b] = One(O[b] # 0)
  BY <1>2, <1>4, <1>7, DegreesOfBlock
<1>11. LET atLeast == SumFunction(i1) + 2 * (SumFunction(i2) - SumFunction(i1))
                        + 3 * (SumFunction(i3) - SumFunction(i2))
       IN  /\ SumFunction(i1) <= SumFunction(i2) /\ SumFunction(i2) <= SumFunction(i3)
           /\ SumFunction(I) >= atLeast
           /\ SumFunction(i3) = SumFunction(i2) => SumFunction(I) = atLeast
  <2>1. CountsDegrees(S, I, i1, i2, i3)
    BY <1>5, <1>9, <1>10 DEF CountsDegrees
  <2> QED
    BY ONLY <1>5, <2>1, DegreesAreBounded
<1>12. LET atLeast == SumFunction(o1) + 2 * (SumFunction(o2) - SumFunction(o1))
                        + 3 * (SumFunction(o3) - SumFunction(o2))
       IN  /\ SumFunction(o1) <= SumFunction(o2) /\ SumFunction(o2) <= SumFunction(o3)
           /\ SumFunction(O) >= atLeast
           /\ SumFunction(o3) = SumFunction(o2) => SumFunction(O) = atLeast
  <2>1. CountsDegrees(S, O, o1, o2, o3)
    BY <1>5, <1>9, <1>10 DEF CountsDegrees
  <2> QED
    BY ONLY <1>5, <2>1, DegreesAreBounded
<1>13. /\ SumFunction(crit) = Cardinality(Critical(f))
       /\ \A b \in S : crit[b] + One(O[b] = 1) <= O[b]
  BY <1>2, <1>4, <1>7, CriticalEdgesCount
<1>14. SumFunction(crit) + SumFunction(i1) <= E
  BY <1>2, <1>4, <1>9, <1>10, <1>13, OnlyEdgesAreNotCritical
<1>15. SumFunction(crit) + SumFunction(o1) <= E
  <2>1. PICK both \in [S -> Int] : \A b \in S : both[b] = crit[b] + o1[b]
    <3>1. [b \in S |-> crit[b] + o1[b]] \in [S -> Int]
      BY <1>9
    <3> QED
      BY <3>1
  <2>2. SumFunction(both) = SumFunction(crit) + SumFunction(o1)
    BY ONLY <1>5, <1>9, <2>1, SumAdds
  <2>3. \A b \in S : both[b] <= O[b]
    BY <1>10, <1>13, <2>1
  <2>4. SumFunction(both) <= SumFunction(O)
    BY ONLY <1>5, <1>9, <2>1, <2>3, SumGrows
  <2> QED
    BY <1>5, <2>2, <2>4
<1>16. /\ v["nof_1pred_bb"] <= v["nof_2pred_bb"] /\ v["nof_2pred_bb"] <= v["nof_g2pred_bb"]
       /\ DegreesOfEdges(v, "nof_1pred_bb", "nof_2pred_bb", "nof_g2pred_bb")
  BY <1>5, <1>6, <1>8, <1>9, <1>11, <1>14 DEF DegreesOfEdges
<1>17. /\ v["nof_1suc_bb"] <= v["nof_2suc_bb"] /\ v["nof_2suc_bb"] <= v["nof_g2suc_bb"]
       /\ DegreesOfEdges(v, "nof_1suc_bb", "nof_2suc_bb", "nof_g2suc_bb")
  BY <1>5, <1>6, <1>8, <1>9, <1>12, <1>15 DEF DegreesOfEdges
<1>18. \A e \in Ends : /\ v[e[1]] <= v[e[2]] /\ v[e[2]] <= v[e[3]]
                       /\ DegreesOfEdges(v, e[1], e[2], e[3])
  BY <1>16, <1>17 DEF Ends
<1>19. v["nof_switch_inst"] + v["nof_indirectbr_inst"] = 0 => DegreesOfBranches(v)
  BY <1>2, <1>3, BranchesGoOn
<1> QED
  BY <1>1, <1>3, <1>18, <1>19 DEF IsOfGraphs

(* What is kept under any name for any module, of however many functions, is   *)
(* of graphs: cumulative degrees account for the edges at both ends, critical *)
(* edges avoid blocks with one successor or predecessor, and without switches *)
(* the degrees are those that the terminators say.                          *)
THEOREM DegreesAlwaysAddUp == FeaturesSpec => []DegreesAddUp
<1>1. Computed => DegreesAddUp
  <2> SUFFICES ASSUME Computed, NEW n \in DOMAIN fn
               PROVE  IsOfGraphs(fn[n])
    BY DEF DegreesAddUp, IsOfGraphs, Ends
  <2>1. phase \notin {"read", "blocks"} /\ fn = FunctionsCounted /\ IsModule(module)
    <3>1. fn # <<>>
      OBVIOUS
    <3> QED
      BY <3>1 DEF Computed
  <2>2. PICK none : none = [c \in FnCounters |-> 0]
    OBVIOUS
  <2>3. PICK R : R = [f \in Defined |-> IF FnKey(f) = n THEN featuresOfFunction(f) ELSE none]
    OBVIOUS
  <2>4. \A f \in Defined : R[f] \in [FnCounters -> Nat] /\ IsOfGraphs(R[f])
    <3>1. none \in [FnCounters -> Nat] /\ IsOfGraphs(none)
      BY <2>2, NoGraph
    <3>2. \A f \in Defined : /\ featuresOfFunction(f) \in [FnCounters -> Nat]
                             /\ IsOfGraphs(featuresOfFunction(f))
      BY <2>1, FeaturesAreNat, FunctionIsGraph
    <3> QED
      BY <2>3, <3>1, <3>2
  <2>5. ASSUME NEW c \in FnCounters
        PROVE  [f \in Defined |-> R[f][c]] = [f \in Defined |-> AddedTo(n, f, c)]
    BY <2>2, <2>3 DEF AddedTo
  <2>6. fn[n] = [c \in FnCounters |-> SumFunction([f \in Defined |-> R[f][c]])]
    <3>1. fn[n] = [c \in FnCounters |-> SumFunction([f \in Defined |-> AddedTo(n, f, c)])]
      BY <2>1 DEF FunctionsCounted
    <3> QED
      BY <2>5, <3>1
  <2>7. R \in [Defined -> [FnCounters -> Nat]] /\ IsFiniteSet(Defined)
    BY <2>1, <2>3, <2>4, ModuleIs
  <2> QED
    BY <2>4, <2>6, <2>7, AnyGraphs
<1> QED
  BY <1>1, ComputedAlways, PTL

-----------------------------------------------------------------------------
(***************************************************************************)
(* Genes. What occurs in a sequence put together from others is what occurs  *)
(* in each of them.                                                        *)
(***************************************************************************)
Places(s, A) == {k \in DOMAIN s : s[k] \in A}
Occurring(s, A) == Cardinality(Places(s, A))

LEMMA PlacesAre ==
  ASSUME NEW L, NEW s \in Seq(L), NEW A
  PROVE  /\ IsFiniteSet(Places(s, A)) /\ Occurring(s, A) \in Nat
         /\ Places(s, A) = {k \in 1..Len(s) : s[k] \in A} /\ Len(s) \in Nat
<1>1. DOMAIN s = 1..Len(s) /\ Len(s) \in Nat
  BY LenProperties
<1>2. IsFiniteSet(1..Len(s))
  BY <1>1, FS_Interval
<1>3. Places(s, A) \in SUBSET (1..Len(s))
  BY <1>1 DEF Places
<1>4. IsFiniteSet(Places(s, A))
  BY <1>2, <1>3, FS_Subset
<1> QED
  BY <1>1, <1>4, FS_CardinalityType DEF Places, Occurring

LEMMA AllOccur ==
  ASSUME NEW L, NEW s \in Seq(L)
  PROVE  Occurring(s, L) = Len(s)
<1>1. Len(s) \in Nat /\ Places(s, L) = 1..Len(s)
  BY PlacesAre, ElementOfSeq
<1>2. Cardinality(1..Len(s)) = Len(s)
  BY <1>1, FS_Interval
<1> QED
  BY <1>1, <1>2 DEF Occurring

LEMMA EitherOccurs ==
  ASSUME NEW L, NEW s \in Seq(L), NEW A, NEW B, A \cap B = {}
  PROVE  Occurring(s, A \cup B) = Occurring(s, A) + Occurring(s, B)
<1>1. Places(s, A \cup B) = Places(s, A) \cup Places(s, B)
  BY DEF Places
<1>2. Places(s, A) \cap Places(s, B) = {}
  BY DEF Places
<1>3. /\ IsFiniteSet(Places(s, A)) /\ IsFiniteSet(Places(s, B))
      /\ Cardinality(Places(s, A)) \in Nat /\ Cardinality(Places(s, B)) \in Nat
  BY PlacesAre DEF Occurring
<1>4. Cardinality(Places(s, A) \cup Places(s, B))
        = Cardinality(Places(s, A)) + Cardinality(Places(s, B))
            - Cardinality(Places(s, A) \cap Places(s, B))
  BY <1>3, FS_Union
<1>5. Cardinality(Places(s, A) \cap Places(s, B)) = 0
  BY <1>2, FS_EmptySet
<1>6. Occurring(s, A \cup B) = Cardinality(Places(s, A)) + Cardinality(Places(s, B))
  <2>1. Occurring(s, A \cup B) = Cardinality(Places(s, A) \cup Places(s, B))
    BY <1>1 DEF Occurring
  <2> HIDE DEF Places
  <2> QED
    BY ONLY <1>3, <1>4, <1>5, <2>1
<1> QED
  BY <1>6 DEF Occurring

LEMMA ConcatOccurs ==
  ASSUME NEW L, NEW s \in Seq(L), NEW t \in Seq(L), NEW A
  PROVE  Occurring(s \o t, A) = Occurring(s, A) + Occurring(t, A)
<1>1. PICK n, P, T, both : n = Len(s) /\ P = Places(s, A) /\ T = Places(t, A) /\ both = s \o t
  OBVIOUS
<1>2. /\ n \in Nat /\ Len(t) \in Nat /\ IsFiniteSet(P) /\ IsFiniteSet(T)
      /\ P = {k \in 1..n : s[k] \in A} /\ T = {k \in 1..Len(t) : t[k] \in A}
  BY <1>1, PlacesAre
<1>3. /\ both \in Seq(L) /\ Len(both) = n + Len(t)
      /\ \A k \in 1..(n + Len(t)) : both[k] = IF k <= n THEN s[k] ELSE t[k - n]
  BY <1>1, ConcatProperties
<1>4. PICK Q : Q = {k \in (n + 1)..(n + Len(t)) : t[k - n] \in A}
  OBVIOUS
<1>5. Places(both, A) = P \cup Q
  <2>1. Places(both, A) = {k \in 1..(n + Len(t)) : both[k] \in A}
    BY <1>3, PlacesAre
  <2>2. ASSUME NEW k \in 1..(n + Len(t))
        PROVE  both[k] \in A <=> k \in P \cup Q
    <3>1. CASE k <= n
      BY <1>2, <1>3, <1>4, <3>1
    <3>2. CASE ~(k <= n)
      <4>1. k \in (n + 1)..(n + Len(t)) /\ k \notin 1..n
        BY <1>2, <3>2
      <4> QED
        BY <1>2, <1>3, <1>4, <3>2, <4>1
    <3> QED
      BY <3>1, <3>2
  <2>3. P \cup Q \subseteq 1..(n + Len(t))
    BY <1>2, <1>4
  <2> QED
    BY <2>1, <2>2, <2>3
<1>6. PICK g : g = [k \in T |-> k + n]
  OBVIOUS
<1>7. g \in Bijection(T, Q)
  <2>1. ASSUME NEW k \in T
        PROVE  g[k] = k + n /\ g[k] \in Q
    <3>1. k \in 1..Len(t) /\ t[k] \in A /\ k \in Nat
      BY <1>2
    <3>2. k + n \in (n + 1)..(n + Len(t)) /\ (k + n) - n = k
      BY <1>2, <3>1
    <3> QED
      BY <1>4, <1>6, <3>1, <3>2
  <2>2. ASSUME NEW j \in Q
        PROVE  j - n \in T /\ g[j - n] = j
    <3>1. j \in (n + 1)..(n + Len(t)) /\ t[j - n] \in A
      BY <1>4
    <3>2. j - n \in 1..Len(t) /\ (j - n) + n = j
      BY <1>2, <3>1
    <3> QED
      BY <1>2, <1>6, <3>1, <3>2
  <2>3. \A j, k \in T : g[j] = g[k] => j = k
    <3>1. \A k \in T : k \in Nat
      BY <1>2
    <3> QED
      BY <1>2, <2>1, <3>1
  <2>4. g \in [T -> Q]
    BY <1>6, <2>1
  <2> QED
    BY <2>2, <2>3, <2>4 DEF Bijection, Injection, Surjection, IsInjective
<1>8. IsFiniteSet(Q) /\ Cardinality(Q) = Cardinality(T)
  BY <1>2, <1>7, FS_Bijection DEF ExistsBijection
<1>9. P \cap Q = {}
  BY <1>2, <1>4
<1>10. Cardinality(P \cup Q) = Cardinality(P) + Cardinality(Q) - Cardinality(P \cap Q)
  BY <1>2, <1>8, FS_Union
<1>11. Cardinality(P) \in Nat /\ Cardinality(Q) \in Nat
  BY <1>2, <1>8, FS_CardinalityType
<1>12. Cardinality(P \cap Q) = 0
  BY <1>9, FS_EmptySet
<1>13. Cardinality(P \cup Q) = Cardinality(P) + Cardinality(T)
  BY <1>8, <1>10, <1>11, <1>12
<1> QED
  BY <1>1, <1>5, <1>13 DEF Occurring

(* FlattenSeq, by how many sequences it has put together.                   *)
Flattens(f, seqs) ==
  f = [i \in 1..Len(seqs) |-> IF i = 1 THEN seqs[i] ELSE f[i - 1] \o seqs[i]]

Flattening(seqs) == CHOOSE f : Flattens(f, seqs)

LEMMA FlattenSeqIs ==
  ASSUME NEW seqs, Len(seqs) # 0
  PROVE  FlattenSeq(seqs) = Flattening(seqs)[Len(seqs)]
BY DEF FlattenSeq, Flattening, Flattens

LEMMA FlatteningIs ==
  ASSUME NEW L, NEW n \in Nat \ {0}, NEW seqs \in [1..n -> Seq(L)]
  PROVE  /\ Len(seqs) = n /\ DOMAIN Flattening(seqs) = 1..n
         /\ \A i \in 1..n :
              Flattening(seqs)[i] = IF i = 1 THEN seqs[i] ELSE Flattening(seqs)[i - 1] \o seqs[i]
<1>1. PICK S, V, Stops, next, rank, step :
        /\ S = 1..n /\ V = Seq(L) /\ Stops = {1}
        /\ next = [i \in 1..n |-> IF i = 1 THEN 1 ELSE i - 1]
        /\ rank = [i \in 1..n |-> i]
        /\ step = [i \in 1..n |-> [s \in Seq(L) |-> s \o seqs[i]]]
  OBVIOUS
<1>2. Lowers(next, S, Stops, rank, n)
  <2>1. \A i \in 1..n : next[i] \in 1..n
    BY <1>1
  <2>2. \A i \in S \ Stops : rank[next[i]] < rank[i]
    BY <1>1, <2>1
  <2>3. rank \in [S -> 0..n] /\ next \in [S -> S]
    BY <1>1, <2>1
  <2> QED
    BY <2>2, <2>3 DEF Lowers
<1>3. Computes(seqs, step, S, Stops, V)
  <2>1. <<>> \in Seq(L)
    OBVIOUS
  <2>2. \A i \in 1..n : \A s \in Seq(L) : step[i][s] \in Seq(L)
    BY <1>1, ConcatProperties
  <2> QED
    BY <1>1, <2>1, <2>2 DEF Computes
<1>4. PICK on \in [S -> V] :
        \A i \in S : on[i] = IF i \in Stops THEN seqs[i] ELSE step[i][on[next[i]]]
  BY ONLY <1>2, <1>3, RecursionExists
<1>5. Len(seqs) = n
  <2>1. seqs \in Seq(Seq(L)) /\ DOMAIN seqs = 1..n
    BY SeqDef
  <2>2. DOMAIN seqs = 1..Len(seqs) /\ Len(seqs) \in Nat
    BY <2>1, LenProperties
  <2> QED
    BY <2>1, <2>2
<1>6. \A i \in 1..n : on[i] = IF i = 1 THEN seqs[i] ELSE on[i - 1] \o seqs[i]
  <2>1. ASSUME NEW i \in 1..n, i # 1
        PROVE  on[i] = on[i - 1] \o seqs[i]
    <3>1. next[i] = i - 1 /\ i - 1 \in 1..n
      BY <1>1, <2>1
    <3>2. on[i - 1] \in Seq(L)
      BY <1>1, <3>1
    <3> QED
      BY <1>1, <1>4, <2>1, <3>1, <3>2
  <2> QED
    BY <1>1, <1>4, <2>1
<1>7. Flattens(on, seqs)
  <2>1. on = [i \in 1..n |-> on[i]]
    BY <1>1
  <2> QED
    BY <1>5, <1>6, <2>1 DEF Flattens
<1>8. Flattens(Flattening(seqs), seqs)
  BY <1>7 DEF Flattening
<1> QED
  BY <1>5, <1>8 DEF Flattens

Occurrences(seqs, n, A) == [i \in 1..n |-> Occurring(seqs[i], A)]

LEMMA FlattenOccurs ==
  ASSUME NEW L, NEW n \in Nat \ {0}, NEW seqs \in [1..n -> Seq(L)], NEW A
  PROVE  /\ FlattenSeq(seqs) \in Seq(L)
         /\ Occurring(FlattenSeq(seqs), A) = SumFunction(Occurrences(seqs, n, A))
<1> PICK v : v = Occurrences(seqs, n, A)
  OBVIOUS
<1>0. v = [i \in 1..n |-> Occurring(seqs[i], A)]
  BY DEF Occurrences
<1>1. v \in [1..n -> Int]
  <2>1. \A i \in 1..n : Occurring(seqs[i], A) \in Nat
    BY PlacesAre
  <2> QED
    BY <1>0, <2>1
<1>2. IsFiniteSet(1..n)
  BY FS_Interval
<1>3. PICK sums : AreSums(sums, v, 1..n) /\ SumFunction(v) = sums[1..n]
  BY <1>1, <1>2, SumsExist
<1>4. PICK flat : flat = Flattening(seqs)
  OBVIOUS
<1>5. /\ Len(seqs) = n
      /\ \A i \in 1..n : flat[i] = IF i = 1 THEN seqs[i] ELSE flat[i - 1] \o seqs[i]
  BY <1>4, FlatteningIs
<1> DEFINE Good == {i \in Nat : i + 1 \in 1..n =>
                      /\ flat[i + 1] \in Seq(L)
                      /\ Occurring(flat[i + 1], A) = sums[1..(i + 1)]}
<1>6. \A i \in 1..n : sums[1..i] = v[i] + sums[1..(i - 1)]
  <2>1. ASSUME NEW i \in 1..n
        PROVE  sums[1..i] = v[i] + sums[1..(i - 1)]
    <3>1. PICK some : some = 1..i
      OBVIOUS
    <3>2. some \in SUBSET (1..n) /\ i \in some /\ some \ {i} = 1..(i - 1)
      BY <3>1
    <3>3. sums[some] = v[i] + sums[some \ {i}]
      BY <1>3, <3>2 DEF AreSums
    <3> QED
      BY <3>1, <3>2, <3>3
  <2> QED
    BY <2>1
<1>7. 0 \in Good
  <2>1. flat[1] = seqs[1] /\ seqs[1] \in Seq(L) /\ 1 \in 1..n
    BY <1>5
  <2>2. 1..(1 - 1) = {}
    OBVIOUS
  <2>3. sums[1..1] = v[1]
    <3>1. v[1] \in Int
      BY <1>1, <2>1
    <3>2. sums[1..1] = v[1] + sums[1..(1 - 1)]
      BY <1>6, <2>1
    <3>3. sums[1..(1 - 1)] = 0
      BY <1>3, <2>2 DEF AreSums
    <3> QED
      BY <3>1, <3>2, <3>3
  <2> QED
    BY <1>0, <2>1, <2>3
<1>8. ASSUME NEW i \in Nat, i \in Good
      PROVE  i + 1 \in Good
  <2> SUFFICES ASSUME (i + 1) + 1 \in 1..n
               PROVE  /\ flat[(i + 1) + 1] \in Seq(L)
                      /\ Occurring(flat[(i + 1) + 1], A) = sums[1..((i + 1) + 1)]
    OBVIOUS
  <2>1. PICK j : j = i + 2
    OBVIOUS
  <2>2. j = (i + 1) + 1 /\ j \in 1..n /\ j - 1 \in 1..n /\ j - 1 = i + 1 /\ j # 1
    BY <2>1
  <2>3. flat[j - 1] \in Seq(L) /\ Occurring(flat[j - 1], A) = sums[1..(j - 1)]
    BY <1>8, <2>2
  <2>4. flat[j] = flat[j - 1] \o seqs[j] /\ seqs[j] \in Seq(L)
    BY <1>5, <2>2
  <2>5. Occurring(flat[j], A) = Occurring(flat[j - 1], A) + Occurring(seqs[j], A)
        /\ flat[j] \in Seq(L)
    BY <2>3, <2>4, ConcatOccurs, ConcatProperties
  <2>6. Occurring(seqs[j], A) = v[j] /\ v[j] \in Int /\ Occurring(flat[j - 1], A) \in Int
    BY <1>0, <1>1, <2>2, <2>3, PlacesAre
  <2>7. Occurring(flat[j], A) = sums[1..j]
    BY <1>6, <2>2, <2>3, <2>5, <2>6
  <2> QED
    BY <2>2, <2>5, <2>7
<1>9. Nat \subseteq Good
  <2> HIDE DEF Good
  <2> QED
    BY <1>7, <1>8, SetInduction
<1>10. flat[n] \in Seq(L) /\ Occurring(flat[n], A) = sums[1..n]
  <2>1. PICK i \in Nat : i + 1 = n
    <3>1. n - 1 \in Nat /\ (n - 1) + 1 = n
      OBVIOUS
    <3> QED
      BY <3>1
  <2>2. i \in Good /\ i + 1 \in 1..n
    BY <1>9, <2>1
  <2>3. flat[i + 1] \in Seq(L) /\ Occurring(flat[i + 1], A) = sums[1..(i + 1)]
    BY <2>2
  <2> QED
    BY <2>1, <2>3
<1>11. FlattenSeq(seqs) = flat[n]
  BY <1>4, <1>5, FlattenSeqIs
<1> QED
  BY <1>3, <1>10, <1>11

(* The letter of an instruction is one that counts its counter, and no other *)
(* opcodes have it; the letters L and M count one counter together.          *)
LEMMA LettersAgree ==
  ASSUME NEW o \in Opcodes
  PROVE  /\ \A l \in DOMAIN CountersOfLetter :
              getInstructionGene[o] = l <=> CounterOf[o] \in CountersOfLetter[l]
         /\ getInstructionGene[o] \in {"L", "M"} <=> CounterOf[o] = "nof_memory_adress_inst"
<1>1. o \in {"condbr", "uncondbr", "switch", "indirectbr", "terminator", "invoke",
             "binop_int", "binop_flt", "bitwise", "vector", "aggregate", "load", "store",
             "fence", "atomic", "alloca", "getelemptr", "conv_int", "conv_flt", "phi",
             "call", "other", "unlisted"}
  BY DEF Opcodes, CounterOf
<1>2. PICK l, c : l = getInstructionGene[o] /\ c = CounterOf[o]
  OBVIOUS
<1>3. /\ o \in {"condbr", "uncondbr"} =>
           l = "A" /\ c \in {"nof_condbr_inst", "nof_uncondbr_inst"}
      /\ o = "switch" => l = "B" /\ c = "nof_switch_inst"
      /\ o = "indirectbr" => l = "C" /\ c = "nof_indirectbr_inst"
      /\ o \in {"terminator", "invoke"} => l = "D" /\ c = "nof_terminator_inst"
      /\ o = "binop_int" => l = "E" /\ c = "nof_binop_int_inst"
      /\ o = "binop_flt" => l = "F" /\ c = "nof_binop_flt_inst"
      /\ o = "bitwise" => l = "G" /\ c = "nof_binop_bitw_inst"
      /\ o = "vector" => l = "H" /\ c = "nof_vector_inst"
      /\ o = "aggregate" => l = "I" /\ c = "nof_aggregate_inst"
      /\ o = "load" => l = "J" /\ c = "nof_load_inst"
      /\ o = "store" => l = "K" /\ c = "nof_store_inst"
      /\ o \in {"fence", "atomic"} => l = "M" /\ c = "nof_memory_adress_inst"
      /\ o = "alloca" => l = "L" /\ c = "nof_memory_adress_inst"
      /\ o = "getelemptr" => l = "N" /\ c = "nof_getelemptr_inst"
      /\ o = "conv_int" => l = "O" /\ c = "nof_conv_int_inst"
      /\ o = "conv_flt" => l = "P" /\ c = "nof_conv_flt_inst"
      /\ o = "phi" => l = "R" /\ c = "nof_phinode_inst"
      /\ o = "call" => l = "S" /\ c = "nof_call_inst"
      /\ o = "other" => l = "Q" /\ c = "nof_assign_inst"
      /\ o = "unlisted" => l = "X" /\ c = "nof_inst"
  BY <1>2 DEF getInstructionGene, CounterOf
<1>4. ASSUME NEW k \in DOMAIN CountersOfLetter
      PROVE  l = k <=> c \in CountersOfLetter[k]
  <2>1. k \in {"A", "B", "C", "D", "E", "F", "G", "H", "I", "J", "K", "N", "O", "P", "R", "S"}
    BY DEF CountersOfLetter
  <2>2. PICK C : C = CountersOfLetter[k]
    OBVIOUS
  <2>3. /\ k = "A" => C = {"nof_condbr_inst", "nof_uncondbr_inst"}
        /\ k = "B" => C = {"nof_switch_inst"}
        /\ k = "C" => C = {"nof_indirectbr_inst"}
        /\ k = "D" => C = {"nof_terminator_inst"}
        /\ k = "E" => C = {"nof_binop_int_inst"}
        /\ k = "F" => C = {"nof_binop_flt_inst"}
        /\ k = "G" => C = {"nof_binop_bitw_inst"}
        /\ k = "H" => C = {"nof_vector_inst"}
        /\ k = "I" => C = {"nof_aggregate_inst"}
        /\ k = "J" => C = {"nof_load_inst"}
        /\ k = "K" => C = {"nof_store_inst"}
        /\ k = "N" => C = {"nof_getelemptr_inst"}
        /\ k = "O" => C = {"nof_conv_int_inst"}
        /\ k = "P" => C = {"nof_conv_flt_inst"}
        /\ k = "R" => C = {"nof_phinode_inst"}
        /\ k = "S" => C = {"nof_call_inst"}
    BY <2>2 DEF CountersOfLetter
  <2> QED
    BY <1>1, <1>3, <2>1, <2>2, <2>3
<1>5. l \in {"L", "M"} <=> c = "nof_memory_adress_inst"
  BY <1>1, <1>3
<1> QED
  BY <1>2, <1>4, <1>5

Letters == Range(getInstructionGene)

LEMMA BlockGeneIs ==
  ASSUME NEW blk, NEW n, IsBlock(blk, n)
  PROVE  /\ BlockGene(blk) \in Seq(Letters) /\ Len(BlockGene(blk)) = Len(blk.insts)
         /\ \A A : Places(BlockGene(blk), A)
                     = {k \in DOMAIN blk.insts : getInstructionGene[blk.insts[k].op] \in A}
         /\ \A k \in DOMAIN blk.insts : blk.insts[k].op \in Opcodes
<1>1. /\ DOMAIN blk.insts = 1..Len(blk.insts) /\ Len(blk.insts) \in Nat
      /\ \A k \in DOMAIN blk.insts : blk.insts[k].op \in Opcodes
  BY InstructionsAre DEF Instruction
<1>2. \A o \in Opcodes : getInstructionGene[o] \in Letters
  <2>1. Opcodes \subseteq DOMAIN getInstructionGene
    BY DEF Opcodes, CounterOf, getInstructionGene
  <2>2. PICK table : table = getInstructionGene
    OBVIOUS
  <2> QED
    BY <2>1, <2>2 DEF Letters, Range
<1>3. BlockGene(blk) \in [1..Len(blk.insts) -> Letters]
  <2>1. \A k \in 1..Len(blk.insts) : getInstructionGene[blk.insts[k].op] \in Letters
    BY <1>1, <1>2
  <2> QED
    BY <1>1, <2>1 DEF BlockGene
<1>4. BlockGene(blk) \in Seq(Letters)
  BY <1>1, <1>3, SeqDef
<1>5. Len(BlockGene(blk)) = Len(blk.insts)
  <2>1. DOMAIN BlockGene(blk) = 1..Len(BlockGene(blk)) /\ Len(BlockGene(blk)) \in Nat
    BY <1>4, LenProperties
  <2>2. DOMAIN BlockGene(blk) = 1..Len(blk.insts)
    BY <1>1 DEF BlockGene
  <2> QED
    BY <1>1, <2>1, <2>2
<1>6. ASSUME NEW A
      PROVE  Places(BlockGene(blk), A)
               = {k \in DOMAIN blk.insts : getInstructionGene[blk.insts[k].op] \in A}
  BY DEF Places, BlockGene
<1> QED
  BY <1>1, <1>4, <1>5, <1>6

(* Letters of A occur in every block as often as it counts for c.            *)
Spells(A, c) ==
  /\ c \in BBCounters
  /\ \A blk, n : IsBlock(blk, n) =>
       Occurring(BlockGene(blk), A) = processInstructionsOfBB(blk)[c]

LEMMA LettersSpell ==
  ASSUME NEW A, NEW c \in PlainCounters,
         \A o \in Opcodes : getInstructionGene[o] \in A <=> CounterOf[o] = c
  PROVE  Spells(A, c)
<1>1. ASSUME NEW blk, NEW n, IsBlock(blk, n)
      PROVE  Occurring(BlockGene(blk), A) = processInstructionsOfBB(blk)[c]
  <2>1. Places(BlockGene(blk), A) = {k \in DOMAIN blk.insts : CounterOf[blk.insts[k].op] = c}
    BY <1>1, BlockGeneIs
  <2> QED
    BY <1>1, <2>1, PlainCounts DEF Occurring
<1> QED
  BY <1>1, PlainAreNot DEF Spells

(* A block is counted as long as it is.                                     *)
LEMMA LettersSpellAll == Spells(Letters, "nof_inst")
<1>1. ASSUME NEW blk, NEW n, IsBlock(blk, n)
      PROVE  Occurring(BlockGene(blk), Letters) = processInstructionsOfBB(blk)["nof_inst"]
  <2>1. Occurring(BlockGene(blk), Letters) = Len(blk.insts)
    BY <1>1, BlockGeneIs, AllOccur
  <2>2. PICK S, v : /\ S = DOMAIN blk.insts
                    /\ v = [k \in DOMAIN blk.insts |-> Added(blk.insts[k], "nof_inst")]
    OBVIOUS
  <2>3. IsFiniteSet(S) /\ Cardinality(S) = Len(blk.insts)
    <3>1. S = 1..Len(blk.insts) /\ Len(blk.insts) \in Nat
      BY <1>1, <2>2, InstructionsAre
    <3> QED
      BY <3>1, FS_Interval
  <2>4. \A k \in S : v[k] = 1
    <3>1. \A i : Added(i, "nof_inst") = 1
      BY DEF Added, Returned
    <3> QED
      BY <2>2, <3>1
  <2>5. v \in [S -> Int] /\ \A k \in S : v[k] = One(k \in S)
    BY <2>2, <2>4 DEF One
  <2>6. SumFunction(v) = Cardinality(S)
    BY <2>3, <2>5, SumOfOnes
  <2>7. processInstructionsOfBB(blk)["nof_inst"] = SumFunction(v)
    BY <2>2 DEF processInstructionsOfBB, BBCounters
  <2> QED
    BY <2>1, <2>3, <2>6, <2>7
<1> QED
  BY <1>1 DEF Spells, BBCounters

(* What the gene of a function has, its blocks have, and so its counters.    *)
LEMMA GeneOccurs ==
  ASSUME IsModule(module), NEW f \in Defined, NEW A
  PROVE  /\ getFunctionGene(f) \in Seq(Letters)
         /\ Occurring(getFunctionGene(f), A)
              = SumFunction([b \in Blocks(f) |-> Occurring(BlockGene(module[f].blocks[b]), A)])
<1>1. f \in DOMAIN module /\ module[f].blocks # <<>>
  BY DEF Defined
<1>2. PICK n, seqs : /\ n = Len(module[f].blocks)
                     /\ seqs = [b \in Blocks(f) |-> BlockGene(module[f].blocks[b])]
  OBVIOUS
<1>3. n \in Nat \ {0}
  <2>1. module[f].blocks \in Seq(Range(module[f].blocks))
    BY <1>1 DEF IsModule
  <2> QED
    BY <1>1, <1>2, <2>1, EmptySeq
<1>4. Blocks(f) = 1..n /\ \A b \in 1..n : IsBlock(module[f].blocks[b], n)
  BY <1>1, <1>2, BlocksAre
<1>5. seqs \in [1..n -> Seq(Letters)]
  <2>1. \A b \in 1..n : BlockGene(module[f].blocks[b]) \in Seq(Letters)
    BY <1>4, BlockGeneIs
  <2> QED
    BY <1>2, <1>4, <2>1
<1>6. PICK v : v = Occurrences(seqs, n, A)
  OBVIOUS
<1>7. v = [b \in Blocks(f) |-> Occurring(BlockGene(module[f].blocks[b]), A)]
  BY <1>2, <1>4, <1>6 DEF Occurrences
<1>8. getFunctionGene(f) = FlattenSeq(seqs)
  BY <1>2 DEF getFunctionGene
<1>9. FlattenSeq(seqs) \in Seq(Letters) /\ Occurring(FlattenSeq(seqs), A) = SumFunction(v)
  <2>1. PICK L : L = Letters
    OBVIOUS
  <2>2. seqs \in [1..n -> Seq(L)]
    BY <1>5, <2>1
  <2>3. FlattenSeq(seqs) \in Seq(L) /\ Occurring(FlattenSeq(seqs), A) = SumFunction(v)
    BY <1>3, <1>6, <2>2, FlattenOccurs
  <2> QED
    BY <2>1, <2>3
<1> QED
  BY <1>7, <1>8, <1>9

LEMMA GeneCounts ==
  ASSUME IsModule(module), NEW f \in Defined, NEW A, NEW c, Spells(A, c)
  PROVE  Occurring(getFunctionGene(f), A) = SumFunction(Held(f, c))
<1>1. f \in DOMAIN module
  BY DEF Defined
<1>2. \A b \in Blocks(f) : Occurring(BlockGene(module[f].blocks[b]), A)
                             = processInstructionsOfBB(module[f].blocks[b])[c]
  BY <1>1, BlocksAre DEF Spells
<1>3. [b \in Blocks(f) |-> Occurring(BlockGene(module[f].blocks[b]), A)] = Held(f, c)
  BY <1>2 DEF Held
<1> QED
  BY <1>3, GeneOccurs

(* The letter A is of two counters.                                         *)
LEMMA BranchesCount ==
  ASSUME IsModule(module), NEW f \in Defined
  PROVE  Occurring(getFunctionGene(f), {"A"})
           = SumFunction(Held(f, "nof_condbr_inst")) + SumFunction(Held(f, "nof_uncondbr_inst"))
<1>1. f \in DOMAIN module /\ IsFiniteSet(Blocks(f))
  BY BlocksAre DEF Defined
<1>2. {"nof_condbr_inst", "nof_uncondbr_inst"} \subseteq PlainCounters
  BY DEF PlainCounters, Opcodes, CounterOf
<1>3. PICK S, con, unc, v :
        /\ S = Blocks(f)
        /\ con = Held(f, "nof_condbr_inst") /\ unc = Held(f, "nof_uncondbr_inst")
        /\ v = [b \in Blocks(f) |-> Occurring(BlockGene(module[f].blocks[b]), {"A"})]
  OBVIOUS
<1>4. con \in [S -> Int] /\ unc \in [S -> Int]
  <2>1. con \in [S -> Nat] /\ unc \in [S -> Nat]
    BY <1>1, <1>2, <1>3, HeldIsNat, PlainAreNot
  <2> QED
    BY <2>1
<1>5. ASSUME NEW b \in S
      PROVE  v[b] = con[b] + unc[b]
  <2>1. PICK blk, n : blk = module[f].blocks[b] /\ n = Len(module[f].blocks)
    OBVIOUS
  <2>2. IsBlock(blk, n)
    BY <1>1, <1>3, <2>1, BlocksAre
  <2>3. PICK K, C, U :
          /\ K = {k \in DOMAIN blk.insts : getInstructionGene[blk.insts[k].op] \in {"A"}}
          /\ C = {k \in DOMAIN blk.insts : CounterOf[blk.insts[k].op] = "nof_condbr_inst"}
          /\ U = {k \in DOMAIN blk.insts : CounterOf[blk.insts[k].op] = "nof_uncondbr_inst"}
    OBVIOUS
  <2>4. v[b] = Cardinality(K)
    <3>1. v[b] = Occurring(BlockGene(blk), {"A"})
      BY <1>3, <2>1
    <3>2. Places(BlockGene(blk), {"A"}) = K
      BY <2>2, <2>3, BlockGeneIs
    <3> QED
      BY <3>1, <3>2 DEF Occurring
  <2>5. con[b] = Cardinality(C) /\ unc[b] = Cardinality(U)
    <3>1. /\ con[b] = processInstructionsOfBB(blk)["nof_condbr_inst"]
          /\ unc[b] = processInstructionsOfBB(blk)["nof_uncondbr_inst"]
      BY <1>3, <2>1 DEF Held
    <3>2. processInstructionsOfBB(blk)["nof_condbr_inst"] = Cardinality(C)
      BY <1>2, <2>2, <2>3, PlainCounts
    <3>3. processInstructionsOfBB(blk)["nof_uncondbr_inst"] = Cardinality(U)
      BY <1>2, <2>2, <2>3, PlainCounts
    <3> QED
      BY <3>1, <3>2, <3>3
  <2>6. K = C \cup U
    <3>1. \A o \in Opcodes : getInstructionGene[o] \in {"A"} <=>
            CounterOf[o] = "nof_condbr_inst" \/ CounterOf[o] = "nof_uncondbr_inst"
      <4>1. "A" \in DOMAIN CountersOfLetter
            /\ CountersOfLetter["A"] = {"nof_condbr_inst", "nof_uncondbr_inst"}
        BY DEF CountersOfLetter
      <4> QED
        BY <4>1, LettersAgree
    <3> QED
      BY <2>2, <2>3, <3>1, BlockGeneIs
  <2>7. C \cap U = {}
    BY <2>3
  <2>8. IsFiniteSet(C) /\ IsFiniteSet(U)
    BY <2>2, <2>3, InstructionsAre, FS_Subset
  <2>9. Cardinality(C \cup U) = Cardinality(C) + Cardinality(U) - Cardinality(C \cap U)
    BY <2>8, FS_Union
  <2>10. Cardinality(C \cap U) = 0 /\ Cardinality(C) \in Nat /\ Cardinality(U) \in Nat
    BY <2>7, <2>8, FS_EmptySet, FS_CardinalityType
  <2> QED
    BY ONLY <2>4, <2>5, <2>6, <2>9, <2>10
<1>6. v \in [S -> Int]
  BY <1>3, <1>4, <1>5
<1>7. SumFunction(v) = SumFunction(con) + SumFunction(unc)
  BY ONLY <1>1, <1>3, <1>4, <1>5, <1>6, SumAdds
<1> QED
  BY <1>3, <1>7, GeneOccurs

LEMMA SumOfOneMember ==
  ASSUME NEW x, NEW v \in [{x} -> Int]
  PROVE  SumFunction(v) = v[x]
<1>1. PICK S : S = {x}
  OBVIOUS
<1>2. IsFiniteSet(S) /\ v \in [S -> Int] /\ x \in S /\ v[x] \in Int
  BY <1>1, FS_Singleton
<1>3. PICK sums : AreSums(sums, v, S) /\ SumFunction(v) = sums[S]
  BY <1>2, SumsExist
<1>4. PICK rest : rest = S \ {x}
  OBVIOUS
<1>5. rest = {}
  BY <1>1, <1>4
<1>6. sums[S] = v[x] + sums[rest] /\ sums[{}] = 0
  BY <1>2, <1>3, <1>4 DEF AreSums
<1> QED
  BY ONLY <1>2, <1>3, <1>5, <1>6

LEMMA SumOfTwoMembers ==
  ASSUME NEW x, NEW y, x # y, NEW v \in [{x, y} -> Int]
  PROVE  SumFunction(v) = v[x] + v[y]
<1>1. PICK S : S = {x, y}
  OBVIOUS
<1>2. IsFiniteSet(S)
  <2>1. IsFiniteSet({x}) /\ S = {x} \cup {y}
    BY <1>1, FS_Singleton
  <2> QED
    BY <2>1, FS_AddElement
<1>3. v \in [S -> Int] /\ x \in S
  BY <1>1
<1>4. PICK sums : AreSums(sums, v, S) /\ SumFunction(v) = sums[S]
  BY <1>2, <1>3, SumsExist
<1>5. PICK rest, none : rest = S \ {x} /\ none = rest \ {y}
  OBVIOUS
<1>6. rest \in SUBSET S /\ y \in rest /\ none = {}
  BY <1>1, <1>5
<1>7. sums[S] = v[x] + sums[rest]
  BY <1>3, <1>4, <1>5 DEF AreSums
<1>8. sums[rest] = v[y] + sums[none]
  BY <1>4, <1>5, <1>6 DEF AreSums
<1>9. sums[{}] = 0 /\ v[x] \in Int /\ v[y] \in Int
  BY <1>1, <1>3, <1>4 DEF AreSums
<1> QED
  BY ONLY <1>4, <1>6, <1>7, <1>8, <1>9

(* The letters of a gene are as many as their counters say.                  *)
LEMMA LettersAddUp ==
  ASSUME Computed, phase \notin {"read", "blocks"}, NEW f \in Defined,
         NEW v, v = featuresOfFunction(f), NEW g, g = getFunctionGene(f)
  PROVE  /\ Len(g) = v["nof_inst"]
         /\ \A l \in DOMAIN CountersOfLetter :
              Occurring(g, {l}) = SumFunction([c \in CountersOfLetter[l] |-> v[c]])
         /\ Occurring(g, {"L"}) + Occurring(g, {"M"}) = v["nof_memory_adress_inst"]
<1>1. IsModule(module) /\ f \in DOMAIN module
  BY ModuleIs DEF Computed
<1>2. \A c \in BBCounters : v[c] = SumFunction(Held(f, c)) /\ v[c] \in Int
  BY <1>1, FeaturesAre, HeldIsNat
<1>3. g \in Seq(Letters)
  BY <1>1, GeneOccurs
<1>4. \A A, c : Spells(A, c) => Occurring(g, A) = v[c]
  <2>1. ASSUME NEW A, NEW c, Spells(A, c)
        PROVE  Occurring(g, A) = v[c]
    <3>1. c \in BBCounters
      BY <2>1 DEF Spells
    <3> QED
      BY <1>1, <1>2, <2>1, <3>1, GeneCounts
  <2> QED
    BY <2>1
<1>5. Len(g) = v["nof_inst"]
  BY <1>3, <1>4, AllOccur, LettersSpellAll
<1>6. ASSUME NEW l \in DOMAIN CountersOfLetter
      PROVE  Occurring(g, {l}) = SumFunction([c \in CountersOfLetter[l] |-> v[c]])
  <2>1. PICK C, w : C = CountersOfLetter[l] /\ w = [c \in C |-> v[c]]
    OBVIOUS
  <2>2. CASE l = "A"
    <3>1. C = {"nof_condbr_inst", "nof_uncondbr_inst"}
      BY <2>1, <2>2 DEF CountersOfLetter
    <3>2. C \subseteq BBCounters
      BY <3>1 DEF BBCounters, Opcodes, CounterOf
    <3>3. w \in [{"nof_condbr_inst", "nof_uncondbr_inst"} -> Int]
      BY <1>2, <2>1, <3>1, <3>2
    <3>4. SumFunction(w) = w["nof_condbr_inst"] + w["nof_uncondbr_inst"]
      BY <3>3, SumOfTwoMembers
    <3>5. Occurring(g, {"A"}) = v["nof_condbr_inst"] + v["nof_uncondbr_inst"]
      BY <1>1, <1>2, <3>1, <3>2, BranchesCount
    <3> QED
      BY <2>1, <2>2, <3>1, <3>4, <3>5
  <2>3. CASE l # "A"
    <3>1. PICK c \in PlainCounters : C = {c}
      <4>1. l \in {"B", "C", "D", "E", "F", "G", "H", "I", "J", "K", "N", "O", "P", "R", "S"}
        BY <2>3 DEF CountersOfLetter
      <4>2. PICK c : C = {c} /\ c \in {"nof_switch_inst", "nof_indirectbr_inst",
              "nof_terminator_inst", "nof_binop_int_inst", "nof_binop_flt_inst",
              "nof_binop_bitw_inst", "nof_vector_inst", "nof_aggregate_inst",
              "nof_load_inst", "nof_store_inst", "nof_getelemptr_inst",
              "nof_conv_int_inst", "nof_conv_flt_inst", "nof_phinode_inst",
              "nof_call_inst"}
        BY <2>1, <4>1 DEF CountersOfLetter
      <4>3. c \in PlainCounters
        BY <4>2 DEF PlainCounters, Opcodes, CounterOf
      <4> QED
        BY <4>2, <4>3
    <3>2. \A o \in Opcodes : getInstructionGene[o] \in {l} <=> CounterOf[o] = c
      BY <2>1, <3>1, LettersAgree
    <3>3. Spells({l}, c)
      BY <3>2, LettersSpell
    <3>4. w \in [{c} -> Int] /\ w[c] = v[c]
      BY <1>2, <2>1, <3>1, PlainAreNot
    <3>5. SumFunction(w) = w[c]
      BY <3>4, SumOfOneMember
    <3> QED
      BY <1>4, <2>1, <3>3, <3>4, <3>5
  <2> QED
    BY <2>2, <2>3
<1>7. Occurring(g, {"L"}) + Occurring(g, {"M"}) = v["nof_memory_adress_inst"]
  <2>1. "nof_memory_adress_inst" \in PlainCounters
    BY DEF PlainCounters, Opcodes, CounterOf
  <2>2. Spells({"L", "M"}, "nof_memory_adress_inst")
    BY <2>1, LettersAgree, LettersSpell
  <2>3. {"L", "M"} = {"L"} \cup {"M"} /\ {"L"} \cap {"M"} = {}
    OBVIOUS
  <2>4. Occurring(g, {"L", "M"}) = Occurring(g, {"L"}) + Occurring(g, {"M"})
    BY <1>3, <2>3, EitherOccurs
  <2> QED
    BY <1>4, <2>2, <2>4
<1> QED
  BY <1>5, <1>6, <1>7

-----------------------------------------------------------------------------
(***************************************************************************)
(* Keys that are made by numbering the members of a finite set are all the    *)
(* numbers below its size, in whatever order they are numbered.              *)
(***************************************************************************)
LEMMA RanksFill ==
  ASSUME NEW T \in SUBSET Nat, IsFiniteSet(T)
  PROVE  {Rank(f, T) : f \in T} = 0..(Cardinality(T) - 1)
<1>1. PICK n, g : n = Cardinality(T) /\ g = [f \in T |-> Rank(f, T)]
  OBVIOUS
<1>2. n \in Nat
  BY <1>1, FS_CardinalityType
<1>3. ASSUME NEW f \in T
      PROVE  g[f] \in 0..(n - 1)
  <2>1. g[f] = Rank(f, T) /\ g[f] \in Nat /\ IsFiniteSet({h \in T : h < f})
    BY <1>1, RankIsNat
  <2>2. {h \in T : h < f} \in SUBSET T /\ {h \in T : h < f} # T
    <3>1. f \notin {h \in T : h < f}
      BY DEF Rank
    <3> QED
      BY <3>1
  <2>3. Rank(f, T) <= n /\ Rank(f, T) # n
    BY <1>1, <2>2, FS_Subset DEF Rank
  <2> QED
    BY <1>2, <2>1, <2>3
<1>4. ASSUME NEW f \in T, NEW h \in T, g[f] = g[h]
      PROVE  f = h
  <2>1. f \in Nat /\ h \in Nat /\ g[f] = Rank(f, T) /\ g[h] = Rank(h, T)
        /\ Rank(f, T) \in Nat /\ Rank(h, T) \in Nat
    BY <1>1, RankIsNat
  <2>2. f < h => Rank(f, T) < Rank(h, T)
    BY <2>1, RanksRise
  <2>3. h < f => Rank(h, T) < Rank(f, T)
    BY <2>1, RanksRise
  <2>4. Rank(f, T) = Rank(h, T)
    BY <1>4, <2>1
  <2>5. ~(f < h) /\ ~(h < f)
    BY <2>1, <2>2, <2>3, <2>4
  <2> QED
    BY <2>1, <2>5
<1>5. g \in Injection(T, 0..(n - 1))
  BY <1>1, <1>3, <1>4 DEF Injection, IsInjective
<1>6. IsFiniteSet(0..(n - 1)) /\ Cardinality(0..(n - 1)) = n
  BY <1>2, FS_Interval
<1>7. g \in Surjection(T, 0..(n - 1))
  BY <1>1, <1>5, <1>6, FS_Injection
<1> QED
  BY <1>1, <1>3, <1>7 DEF Surjection

(* The functions with a body come in any order, each of them once.           *)
LEMMA OrderIs ==
  ASSUME IsModule(module), NEW order \in SetToSeqs(Defined)
  PROVE  \E d \in Nat :
           /\ DOMAIN order = 1..d
           /\ \A k \in 1..d : order[k] \in Defined
           /\ \A j, k \in 1..d : order[j] = order[k] => j = k
           /\ \A f \in Defined : \E k \in 1..d : order[k] = f
<1>1. PICK d : d = Cardinality(Defined)
  OBVIOUS
<1>2. IsFiniteSet(Defined) /\ d \in Nat
  BY <1>1, ModuleIs, FS_CardinalityType
<1>3. order \in [1..d -> Defined] /\ \A j, k \in 1..d : j # k => order[j] # order[k]
  BY <1>1 DEF SetToSeqs
<1>4. order \in Injection(1..d, Defined)
  BY <1>3 DEF Injection, IsInjective
<1>5. Cardinality(1..d) = Cardinality(Defined)
  BY <1>1, <1>2, FS_Interval
<1>6. order \in Surjection(1..d, Defined)
  BY <1>2, <1>4, <1>5, FS_Injection
<1>7. \A f \in Defined : \E k \in 1..d : order[k] = f
  BY <1>6 DEF Surjection
<1> QED
  BY <1>2, <1>3, <1>7

(* In whatever order functions come, the keys made for them are the same set. *)
LEMMA CostKeysAre ==
  ASSUME IsModule(module), NEW order \in SetToSeqs(Defined)
  PROVE  /\ {CostKey(order, k) : k \in DOMAIN order} = {GeneKey(f) : f \in Defined}
         /\ \A k \in DOMAIN order : Nameless(order[k]) =>
              \E f \in Defined : Nameless(f) /\ CostKey(order, k) = GeneKey(f)
<1>1. PICK d \in Nat :
        /\ DOMAIN order = 1..d
        /\ \A k \in 1..d : order[k] \in Defined
        /\ \A j, k \in 1..d : order[j] = order[k] => j = k
        /\ \A f \in Defined : \E k \in 1..d : order[k] = f
  BY OrderIs
<1>2. PICK T, U : T = Unnamed(Defined) /\ U = {k \in 1..d : Nameless(order[k])}
  OBVIOUS
<1>3. /\ T \in SUBSET Nat /\ IsFiniteSet(T) /\ U \in SUBSET Nat /\ IsFiniteSet(U)
      /\ T \in SUBSET Defined
  <2>1. Defined \subseteq Nat /\ IsFiniteSet(Defined)
    BY ModuleIs
  <2>2. T \in SUBSET Defined /\ U \in SUBSET (1..d)
    BY <1>2 DEF Unnamed
  <2>3. IsFiniteSet(1..d) /\ 1..d \subseteq Nat
    BY FS_Interval
  <2> QED
    BY <2>1, <2>2, <2>3, FS_Subset
<1>4. Cardinality(U) = Cardinality(T)
  <2>1. PICK g : g = [k \in U |-> order[k]]
    OBVIOUS
  <2>2. g \in Bijection(U, T)
    <3>1. \A k \in U : g[k] = order[k] /\ g[k] \in T
      BY <1>1, <1>2, <2>1 DEF Unnamed
    <3>2. \A j, k \in U : g[j] = g[k] => j = k
      BY <1>1, <1>2, <3>1
    <3>3. \A f \in T : \E k \in U : g[k] = f
      <4>1. ASSUME NEW f \in T
            PROVE  \E k \in U : g[k] = f
        <5>1. f \in Defined /\ Nameless(f)
          BY <1>2 DEF Unnamed
        <5>2. PICK k \in 1..d : order[k] = f
          BY <1>1, <5>1
        <5>3. k \in U
          BY <1>2, <5>1, <5>2
        <5> QED
          BY <3>1, <5>2, <5>3
      <4> QED
        BY <4>1
    <3>4. g \in [U -> T]
      BY <2>1, <3>1
    <3> QED
      BY <3>2, <3>3, <3>4 DEF Bijection, Injection, Surjection, IsInjective
  <2> QED
    BY <1>3, <2>2, FS_Bijection DEF ExistsBijection
<1>5. {Rank(k, U) : k \in U} = {Rank(f, T) : f \in T}
  BY <1>3, <1>4, RanksFill
<1>6. \A k \in 1..d : CostKey(order, k) =
        IF Nameless(order[k]) THEN <<"Nameless", Rank(k, U)>>
        ELSE module[order[k]].name
  <2>1. ASSUME NEW k \in 1..d
        PROVE  {j \in 1..(k - 1) : Nameless(order[j])} = {j \in U : j < k}
    BY <1>2
  <2> QED
    BY <2>1 DEF CostKey, Rank
<1>7. \A f \in Defined : GeneKey(f) =
        IF Nameless(f) THEN <<"Nameless", Rank(f, T)>> ELSE module[f].name
  BY <1>2, KeysAre DEF GeneKey
<1>8. ASSUME NEW k \in 1..d
      PROVE  \E f \in Defined : /\ CostKey(order, k) = GeneKey(f)
                                /\ Nameless(order[k]) => Nameless(f)
  <2>1. CASE Nameless(order[k])
    <3>1. k \in U
      BY <1>2, <2>1
    <3>2. PICK f \in T : Rank(f, T) = Rank(k, U)
      BY <1>5, <3>1
    <3>3. f \in Defined /\ Nameless(f)
      BY <1>2 DEF Unnamed
    <3> QED
      BY <1>6, <1>7, <2>1, <3>2, <3>3
  <2>2. CASE ~ Nameless(order[k])
    BY <1>1, <1>6, <1>7, <2>2
  <2> QED
    BY <2>1, <2>2
<1>9. ASSUME NEW f \in Defined
      PROVE  \E k \in 1..d : CostKey(order, k) = GeneKey(f)
  <2>1. CASE Nameless(f)
    <3>1. f \in T
      BY <1>2, <2>1 DEF Unnamed
    <3>2. PICK k \in U : Rank(k, U) = Rank(f, T)
      BY <1>5, <3>1
    <3>3. k \in 1..d /\ Nameless(order[k])
      BY <1>2
    <3> QED
      BY <1>6, <1>7, <2>1, <3>2, <3>3
  <2>2. CASE ~ Nameless(f)
    <3>1. PICK k \in 1..d : order[k] = f
      BY <1>1
    <3> QED
      BY <1>6, <1>7, <2>2, <3>1
  <2> QED
    BY <2>1, <2>2
<1>10. {CostKey(order, k) : k \in DOMAIN order} = {CostKey(order, k) : k \in 1..d}
  BY <1>1
<1>11. {CostKey(order, k) : k \in 1..d} \subseteq {GeneKey(f) : f \in Defined}
  BY <1>8
<1>12. {GeneKey(f) : f \in Defined} \subseteq {CostKey(order, k) : k \in 1..d}
  BY <1>9
<1>13. ASSUME NEW k \in DOMAIN order, Nameless(order[k])
       PROVE  \E f \in Defined : Nameless(f) /\ CostKey(order, k) = GeneKey(f)
  BY <1>1, <1>8, <1>13
<1> QED
  BY <1>10, <1>11, <1>12, <1>13

-----------------------------------------------------------------------------
(***************************************************************************)
(* What the features that come after the counters keep.                     *)
(***************************************************************************)
OwnerOf(n) == Max({f \in Defined : GeneKey(f) = n})

GenesKept == [n \in {GeneKey(f) : f \in Defined} |-> getFunctionGene(OwnerOf(n))]

FrequenciesKept == UNION {{f} \X Blocks(f) : f \in Defined}

PlaceOf(order, n) == Max({k \in DOMAIN order : CostKey(order, k) = n})

CostsKept(order) ==
  [n \in {CostKey(order, k) : k \in DOMAIN order} |-> order[PlaceOf(order, n)]]

Described ==
  /\ stage \in Stages
  /\ stage # "function-dna" => phase = "module"
  /\ stage = "function-dna" => gene = <<>>
  /\ gene = <<>> \/ gene = GenesKept
  /\ stage \notin {"function-dna", "aborted"} => gene = GenesKept
  /\ stage \notin {"function-dna", "geos-bbfreq", "aborted"} => frequency = FrequenciesKept
  /\ stage = "processed" => \E order \in SetToSeqs(Defined) : cost = CostsKept(order)

LEMMA SameKept ==
  ASSUME module' = module
  PROVE  /\ GenesKept' = GenesKept /\ FrequenciesKept' = FrequenciesKept
         /\ Defined' = Defined
         /\ \A order : CostsKept(order)' = CostsKept(order)
<1>1. Defined' = Defined /\ \A f : MdKey(f)' = MdKey(f) /\ Blocks(f)' = Blocks(f)
  BY SameModule
<1>2. \A f : GeneKey(f)' = GeneKey(f)
  <2>1. \A f : GeneKey(f) = MdKey(f)
    BY DEF GeneKey, MdKey
  <2>2. \A f : GeneKey(f)' = MdKey(f)'
    BY DEF GeneKey, MdKey
  <2> QED
    BY <1>1, <2>1, <2>2
<1>3. \A n : OwnerOf(n)' = OwnerOf(n)
  BY <1>1, <1>2 DEF OwnerOf
<1>4. \A f : getFunctionGene(f)' = getFunctionGene(f)
  BY <1>1 DEF getFunctionGene
<1>5. \A n : getFunctionGene(OwnerOf(n))' = getFunctionGene(OwnerOf(n))
  BY <1>3, <1>4
<1>6. {GeneKey(f)' : f \in Defined'} = {GeneKey(f) : f \in Defined}
  BY <1>1, <1>2
<1>7. GenesKept' = GenesKept
  BY <1>5, <1>6 DEF GenesKept
<1>8. FrequenciesKept' = FrequenciesKept
  BY <1>1 DEF FrequenciesKept
<1>9. \A order, k : CostKey(order, k)' = CostKey(order, k)
  BY DEF CostKey, Nameless
<1>10. ASSUME NEW order
       PROVE  CostsKept(order)' = CostsKept(order)
  <2>1. \A k : CostKey(order, k)' = CostKey(order, k)
    BY <1>9
  <2>2. \A n : PlaceOf(order, n)' = PlaceOf(order, n)
    BY <2>1 DEF PlaceOf
  <2>3. {CostKey(order, k)' : k \in DOMAIN order} = {CostKey(order, k) : k \in DOMAIN order}
    BY <2>1
  <2> QED
    BY <2>2, <2>3 DEF CostsKept
<1> QED
  BY <1>1, <1>7, <1>8, <1>10

LEMMA DescribedStart == FeaturesInit => Described
BY DEF FeaturesInit, Described, Stages

LEMMA DescribedStep ==
  ASSUME Described, [FeaturesNext]_<<vars, features>>
  PROVE  Described'
<1> USE DEF Stages
<1>1. CASE UNCHANGED <<vars, features>>
  <2>1. /\ module' = module /\ phase' = phase /\ stage' = stage /\ gene' = gene
        /\ frequency' = frequency /\ cost' = cost
    BY <1>1 DEF vars, features, tables
  <2>2. (\E order \in SetToSeqs(Defined) : cost = CostsKept(order)) =>
          (\E order \in SetToSeqs(Defined) : cost = CostsKept(order))'
    BY <2>1, SameKept
  <2> QED
    BY <2>1, <2>2, SameKept DEF Described
<1>2. CASE Next /\ UNCHANGED features
  <2>1. phase # "module" /\ stage' = stage /\ gene' = gene
    BY <1>2 DEF Next, processBasicBlocks, processFunctions, processModule, features, tables
  <2>2. stage = "function-dna" /\ gene = <<>>
    BY <2>1 DEF Described
  <2> QED
    BY <2>1, <2>2 DEF Described
<1>3. CASE processGenes
  <2>1. /\ module' = module /\ phase' = phase /\ phase = "module" /\ stage' = "geos-bbfreq"
        /\ gene' = GenesKept
    BY <1>3 DEF processGenes, Stage, vars, GenesKept, OwnerOf
  <2> QED
    BY <2>1, SameKept DEF Described
<1>4. CASE processFrequencies
  <2>1. /\ module' = module /\ phase' = phase /\ phase = "module" /\ stage = "geos-bbfreq"
        /\ stage' = "geos-features" /\ gene' = gene /\ frequency' = FrequenciesKept
    BY <1>4 DEF processFrequencies, Stage, vars, FrequenciesKept
  <2> QED
    BY <2>1, SameKept DEF Described
<1>5. CASE processCosts \/ getAvailableEvents \/ RunProgram \/ getMeasures
  <2>1. /\ module' = module /\ phase' = phase /\ phase = "module"
        /\ stage \in {"geos-features", "papi-feat-m", "events", "measured"}
        /\ stage' \in {"papi-feat-m", "events", "measured", "static-cost"}
        /\ gene' = gene /\ frequency' = frequency
    BY <1>5
       DEF processCosts, getAvailableEvents, RunProgram, getMeasures, Stage, vars, tables
  <2> QED
    BY <2>1, SameKept DEF Described
<1>6. CASE PAPIFails \/ ProgramExits
  <2>1. /\ module' = module /\ phase' = phase /\ phase = "module"
        /\ stage' = "aborted" /\ gene' = gene
    BY <1>6 DEF PAPIFails, ProgramExits, Stage, vars, tables
  <2> QED
    BY <2>1, SameKept DEF Described
<1>7. CASE processStaticCosts
  <2>1. /\ module' = module /\ phase' = phase /\ phase = "module" /\ stage = "static-cost"
        /\ stage' = "processed" /\ gene' = gene /\ frequency' = frequency
        /\ \E order \in SetToSeqs(Defined) : cost' = CostsKept(order)
    BY <1>7 DEF processStaticCosts, Stage, vars, CostsKept, PlaceOf
  <2>2. (\E order \in SetToSeqs(Defined) : cost = CostsKept(order))'
    BY <2>1, SameKept
  <2> QED
    BY <2>1, <2>2, SameKept DEF Described
<1> QED
  BY <1>1, <1>2, <1>3, <1>4, <1>5, <1>6, <1>7 DEF FeaturesNext

LEMMA MaxOfOne ==
  ASSUME NEW x \in Nat
  PROVE  Max({x}) = x
BY DEF Max

(* A gene is kept under the key of its function's counters, if no other       *)
(* function has the name that was made for it.                              *)
LEMMA GeneIsKept ==
  ASSUME Computed, NamesApart, phase = "module", gene = GenesKept, NEW n \in DOMAIN gene
  PROVE  \E f \in Defined : /\ n = FnKey(f) /\ n \in DOMAIN fn
                            /\ gene[n] = getFunctionGene(f)
                            /\ fn[n] = featuresOfFunction(f)
<1>1. IsModule(module) /\ fn = FunctionsCounted /\ \A f \in Defined : MdKey(f) \in DOMAIN fn
  BY DEF Computed
<1>2. \A f \in Defined : MdKey(f) = FnKey(f)
  BY <1>1, KeysAgree DEF FunctionsCounted
<1>3. PICK f \in Defined : n = GeneKey(f)
  BY DEF GenesKept
<1>4. {g \in Defined : GeneKey(g) = n} = {f}
  BY <1>1, <1>3, KeysDiffer DEF GeneKey
<1>5. OwnerOf(n) = f
  <2>1. f \in Nat
    BY <1>1, ModuleIs
  <2> QED
    BY <1>4, <2>1, MaxOfOne DEF OwnerOf
<1>6. gene[n] = getFunctionGene(f)
  BY <1>3, <1>5 DEF GenesKept
<1>7. n = FnKey(f)
  BY <1>2, <1>3 DEF GeneKey, MdKey
<1> QED
  BY <1>6, <1>7, FunctionIsCounted

(* The cost that is kept under a function's name is its own, if the name is    *)
(* not made for another one.                                                *)
LEMMA CostIsKept ==
  ASSUME IsModule(module), NamesApart, NEW order \in SetToSeqs(Defined),
         cost = CostsKept(order), NEW f \in Defined, ~ Nameless(f)
  PROVE  cost[module[f].name] = f
<1>1. PICK d \in Nat :
        /\ DOMAIN order = 1..d
        /\ \A k \in 1..d : order[k] \in Defined
        /\ \A j, k \in 1..d : order[j] = order[k] => j = k
        /\ \A g \in Defined : \E k \in 1..d : order[k] = g
  BY OrderIs
<1>2. PICK k \in 1..d : order[k] = f
  BY <1>1
<1>3. PICK n : n = module[f].name
  OBVIOUS
<1>4. CostKey(order, k) = n
  BY <1>2, <1>3 DEF CostKey
<1>5. ASSUME NEW j \in DOMAIN order, CostKey(order, j) = n
      PROVE  j = k
  <2>1. CASE Nameless(order[j])
    <3>1. PICK g \in Defined : Nameless(g) /\ CostKey(order, j) = GeneKey(g)
      BY <2>1, CostKeysAre
    <3>2. n = MdKey(g)
      BY <1>5, <3>1 DEF GeneKey, MdKey
    <3> QED
      BY <1>3, <3>1, <3>2 DEF NamesApart
  <2>2. CASE ~ Nameless(order[j])
    <3>1. module[order[j]].name = module[f].name /\ module[f].name # <<>>
      BY <1>3, <1>5, <2>2 DEF CostKey, Nameless
    <3>2. order[j] \in DOMAIN module /\ f \in DOMAIN module
      BY <1>1, ModuleIs
    <3>3. order[j] = f
      BY <3>1, <3>2, ModuleIs
    <3> QED
      BY <1>1, <1>2, <3>3
  <2> QED
    BY <2>1, <2>2
<1>6. {j \in DOMAIN order : CostKey(order, j) = n} = {k}
  BY <1>1, <1>4, <1>5
<1>7. PlaceOf(order, n) = k
  BY <1>6, MaxOfOne DEF PlaceOf
<1>8. n \in {CostKey(order, j) : j \in DOMAIN order}
  BY <1>1, <1>4
<1> QED
  BY <1>2, <1>3, <1>7, <1>8 DEF CostsKept

(* The tables of all features are of the same functions, under the same keys: *)
(* for any module, genes have the letters that the counters have counted,    *)
(* frequencies are of the blocks that have counters, and costs are kept for   *)
(* the functions that have a gene, in whatever order they come. Where a      *)
(* function has a name that is made for another one only the last two hold.   *)
THEOREM TablesAlwaysAgree == FeaturesSpec => []TablesAgree
<1>1. Computed /\ Described => TablesAgree
  <2> SUFFICES ASSUME Computed, Described
               PROVE  TablesAgree
    OBVIOUS
  <2>1. ASSUME gene # <<>>, phase = "module", NamesApart, NEW n \in DOMAIN gene
        PROVE  /\ n \in DOMAIN fn
               /\ Len(gene[n]) = fn[n]["nof_inst"]
               /\ \A l \in DOMAIN CountersOfLetter :
                    Occurs(l, n) = SumFunction([c \in CountersOfLetter[l] |-> fn[n][c]])
               /\ Occurs("L", n) + Occurs("M", n) = fn[n]["nof_memory_adress_inst"]
    <3>1. gene = GenesKept
      BY <2>1 DEF Described
    <3>2. PICK f \in Defined : /\ n \in DOMAIN fn /\ gene[n] = getFunctionGene(f)
                               /\ fn[n] = featuresOfFunction(f)
      BY <2>1, <3>1, GeneIsKept
    <3>3. PICK v, g : v = fn[n] /\ g = gene[n]
      OBVIOUS
    <3>4. \A l : Occurs(l, n) = Occurring(g, {l})
      <4>1. \A l : {k \in DOMAIN gene[n] : gene[n][k] = l} = Places(g, {l})
        BY <3>3 DEF Places
      <4> QED
        BY <4>1 DEF Occurs, Occurring
    <3>5. v = featuresOfFunction(f) /\ g = getFunctionGene(f)
      BY <3>2, <3>3
    <3>6. /\ Len(g) = v["nof_inst"]
          /\ \A l \in DOMAIN CountersOfLetter :
               Occurring(g, {l}) = SumFunction([c \in CountersOfLetter[l] |-> v[c]])
          /\ Occurring(g, {"L"}) + Occurring(g, {"M"}) = v["nof_memory_adress_inst"]
      BY <2>1, <3>5, LettersAddUp
    <3> QED
      BY <3>2, <3>3, <3>4, <3>6
  <2>2. ASSUME stage = "processed"
        PROVE  /\ frequency = UNION {{f} \X DOMAIN bb[f] : f \in DOMAIN bb}
               /\ DOMAIN cost = DOMAIN gene
               /\ NamesApart =>
                    \A f \in Defined : ~ Nameless(f) => cost[module[f].name] = f
    <3>1. phase = "module" /\ gene = GenesKept /\ frequency = FrequenciesKept
      BY <2>2 DEF Described
    <3>2. IsModule(module) /\ bb = BlocksCounted
      BY <3>1 DEF Computed
    <3>3. PICK order \in SetToSeqs(Defined) : cost = CostsKept(order)
      BY <2>2 DEF Described
    <3>4. DOMAIN bb = DOMAIN module /\ \A f \in DOMAIN module : DOMAIN bb[f] = Blocks(f)
      BY <3>2 DEF BlocksCounted
    <3>5. frequency = UNION {{f} \X DOMAIN bb[f] : f \in DOMAIN bb}
      <4>1. UNION {{f} \X DOMAIN bb[f] : f \in DOMAIN bb}
              = UNION {{f} \X Blocks(f) : f \in DOMAIN module}
        BY <3>4
      <4>2. \A f \in DOMAIN module : f \notin Defined => Blocks(f) = {}
        BY DEF Defined, Blocks
      <4>3. UNION {{f} \X Blocks(f) : f \in DOMAIN module}
              = UNION {{f} \X Blocks(f) : f \in Defined}
        BY <4>2 DEF Defined
      <4> QED
        BY <3>1, <4>1, <4>3 DEF FrequenciesKept
    <3>6. DOMAIN cost = DOMAIN gene
      <4>1. DOMAIN cost = {CostKey(order, k) : k \in DOMAIN order}
        BY <3>3 DEF CostsKept
      <4>2. DOMAIN gene = {GeneKey(f) : f \in Defined}
        BY <3>1 DEF GenesKept
      <4> QED
        BY <3>2, <4>1, <4>2, CostKeysAre
    <3>7. NamesApart => \A f \in Defined : ~ Nameless(f) => cost[module[f].name] = f
      BY <3>2, <3>3, CostIsKept
    <3> QED
      BY <3>5, <3>6, <3>7
  <2> QED
    BY <2>1, <2>2 DEF TablesAgree
<1>2. FeaturesSpec => []Described
  BY DescribedStart, DescribedStep, PTL DEF FeaturesSpec
<1> QED
  BY <1>1, <1>2, ComputedAlways, PTL

=============================================================================
