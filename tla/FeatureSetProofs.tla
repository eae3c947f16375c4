--------------------------- MODULE FeatureSetProofs ---------------------------
(***************************************************************************)
(* What a set serves, what loops over it visit and what an index finds.      *)
(*                                                                         *)
(* What a set serves is of one module, but for features that do not mark     *)
(* themselves processed. The property relates all features to one that is    *)
(* processed, so the invariant says it of all: as long as nothing crashed, a *)
(* set is processed as a whole or not at all. A null feature stops the pass  *)
(* in the middle of a set, and the program.                                 *)
(*                                                                         *)
(* A loop misses nothing: pairs that were enabled throughout are seen or     *)
(* ahead of the iterator. update() and Loop are recursive functions over     *)
(* iterators; they have values because each step comes closer to the end.   *)
(***************************************************************************)
EXTENDS FeatureSet, SequenceTheorems, Inductions

FeaturesTyped ==
  /\ Features = [n \in DOMAIN Features |-> Features[n]]
  /\ \A n \in DOMAIN Features : Features[n] = Null \/ Features[n] \subseteq Modules

(* What the features of a set serve if one that marks itself serves m.       *)
AllServe(m) ==
  \A k \in DOMAIN Features :
    /\ Features[k] # Null
    /\ IF Marks(k) THEN Features[k] = {m} ELSE m \in Features[k]

AllOrNone ==
  ~crashed => \A n \in DOMAIN Features :
                Marks(n) /\ Filled(n) => \E m \in Modules : AllServe(m)

IInv == FeaturesTyped /\ AllOrNone

(* Clients, loops and a second get() leave what is processed as it is: a     *)
(* step changes features only by making the set or by running the pass.      *)
LEMMA FeaturesStep ==
  ASSUME [Next]_vars
  PROVE  \/ UNCHANGED Features /\ (crashed => crashed')
         \/ get
         \/ \E m \in Modules : runOnModule(m)
<1>1. ASSUME NEW n \in Names, NEW S \in Lists(n), enable(n, S)
      PROVE  UNCHANGED Features /\ (crashed => crashed')
  BY <1>1 DEF enable, Change
<1>2. ASSUME disableAll
      PROVE  UNCHANGED Features /\ (crashed => crashed')
  BY <1>2 DEF disableAll, Change
<1>3. ASSUME NEW f \in Names \cup {0}, Begin(f)
      PROVE  UNCHANGED Features /\ (crashed => crashed')
  BY <1>3 DEF Begin, MoveTo
<1>4. ASSUME Increment
      PROVE  UNCHANGED Features /\ (crashed => crashed')
  BY <1>4 DEF Increment, MoveTo
<1>5. ASSUME UNCHANGED vars
      PROVE  UNCHANGED Features /\ (crashed => crashed')
  BY <1>5 DEF vars
<1> QED BY <1>1, <1>2, <1>3, <1>4, <1>5 DEF Next

LEMMA InitSound == Init => IInv
BY DEF Init, IInv, FeaturesTyped, AllOrNone, None

(* get() makes a set in which nothing is processed.                         *)
LEMMA GetSound ==
  ASSUME IInv, get
  PROVE  IInv' /\ DOMAIN Features = {}
<1>1. DOMAIN Features = {}
  BY DEF get, None
<1>2. \A n \in DOMAIN Features' : Features'[n] \in {Unprocessed, Null}
  BY DEF get, Clone
<1>3. FeaturesTyped'
  BY <1>2 DEF get, FeaturesTyped, Unprocessed
<1> QED BY <1>1, <1>2, <1>3 DEF IInv, AllOrNone, Filled

(* The pass fills in what is not processed and adds to what does not mark    *)
(* itself; once a feature that marks itself serves a module, all do.        *)
LEMMA RunSound ==
  ASSUME IInv, NEW m \in Modules, runOnModule(m)
  PROVE  /\ IInv'
         /\ \A o \in Modules : AllServe(o) => AllServe(o)'
<1>1. /\ ~crashed
      /\ Features' = processed(m)
      /\ crashed' = \E n \in DOMAIN Features : Features[n] = Null
  BY DEF runOnModule
<1>2. /\ DOMAIN Features' = DOMAIN Features
      /\ Features' = [n \in DOMAIN Features' |-> Features'[n]]
      /\ \A n \in DOMAIN Features :
           \/ Features'[n] = Features[n]
           \/ /\ ~(Marks(n) /\ Features[n] # {})
              /\ Features[n] # Null
              /\ Features'[n] = Features[n] \cup {m}
  <2>1. \A n \in DOMAIN Features : Features'[n] =
          IF /\ ~isProcessed(n)
             /\ Features[n] # Null
             /\ \A l \in DOMAIN Features : l < n => Features[l] # Null
          THEN Features[n] \cup {m} ELSE Features[n]
    BY <1>1 DEF processed
  <2> QED BY <1>1, <2>1 DEF processed, isProcessed, Unprocessed
<1>3. FeaturesTyped'
  BY <1>2 DEF IInv, FeaturesTyped
<1>4. ASSUME NEW o \in Modules, AllServe(o)
      PROVE  AllServe(o)'
  BY <1>2, <1>4, ModulesAssumption DEF AllServe, Null, Marks, IInv, FeaturesTyped
<1>5. ASSUME ~crashed', NEW n \in DOMAIN Features', Marks(n)', Filled(n)'
      PROVE  \E o \in Modules : AllServe(o)'
  <2>1. CASE \E k \in DOMAIN Features : Marks(k) /\ Filled(k)
    BY <1>1, <1>4, <2>1 DEF IInv, AllOrNone
  <2>2. CASE \A k \in DOMAIN Features : ~(Marks(k) /\ Filled(k))
    <3>1. \A k \in DOMAIN Features : Features[k] # Null
      BY <1>1, <1>5
    <3>2. \A k \in DOMAIN Features : Features'[k] = Features[k] \cup {m}
      BY <1>1, <2>2, <3>1 DEF processed, isProcessed, Filled
    <3>3. \A k \in DOMAIN Features : Features[k] \subseteq Modules /\ Features'[k] # Null
      BY <3>1, <3>2, ModulesAssumption DEF IInv, FeaturesTyped, Null
    <3>4. \A k \in DOMAIN Features : Marks(k) => Features'[k] = {m}
      BY <2>2, <3>1, <3>2 DEF Filled, Unprocessed
    <3> QED BY <1>2, <3>2, <3>3, <3>4 DEF AllServe, Marks
  <2> QED BY <2>1, <2>2
<1> QED BY <1>3, <1>4, <1>5 DEF IInv, AllOrNone

LEMMA StepSound ==
  ASSUME IInv, [Next]_vars
  PROVE  IInv'
<1>1. CASE UNCHANGED Features /\ (crashed => crashed')
  BY <1>1 DEF IInv, FeaturesTyped, AllOrNone, AllServe, Filled, Marks
<1>2. CASE get
  BY <1>2, GetSound
<1>3. CASE \E m \in Modules : runOnModule(m)
  BY <1>3, RunSound
<1> QED BY <1>1, <1>2, <1>3, FeaturesStep

(* Features that mark themselves serve one module, the first one the pass    *)
(* ran on, which the others serve as well, for any features, modules and     *)
(* clients.                                                                *)
THEOREM ServesOneModule == Spec => OneModule
<1> DEFINE Kept == \A n \in DOMAIN Features : Marks(n) /\ Filled(n) =>
                     \E m \in Modules :
                       /\ Features[n] = {m}
                       /\ Features'[n] = {m}
                       /\ \A k \in DOMAIN Features : Filled(k)' =>
                            IF Marks(k) THEN Features'[k] = {m} ELSE m \in Features'[k]
<1>1. ASSUME IInv, [Next]_vars
      PROVE  Kept \/ UNCHANGED vars
  <2>0. ASSUME ~crashed, \A o \in Modules : AllServe(o) => AllServe(o)',
               DOMAIN Features' = DOMAIN Features
        PROVE  Kept
    <3>1. SUFFICES ASSUME NEW n \in DOMAIN Features, Marks(n), Filled(n)
                   PROVE  \E m \in Modules :
                            /\ Features[n] = {m}
                            /\ Features'[n] = {m}
                            /\ \A k \in DOMAIN Features : Filled(k)' =>
                                 IF Marks(k) THEN Features'[k] = {m} ELSE m \in Features'[k]
      OBVIOUS
    <3>2. PICK m \in Modules : AllServe(m)
      BY <1>1, <2>0, <3>1 DEF IInv, AllOrNone
    <3>3. AllServe(m)'
      BY <2>0, <3>2
    <3> QED BY <2>0, <3>1, <3>2, <3>3 DEF AllServe, Marks
  <2>1. CASE UNCHANGED vars
    BY <2>1
  <2>2. CASE Next /\ UNCHANGED Features
    <3>1. CASE ~crashed
      BY <2>0, <2>2, <3>1 DEF AllServe, Marks
    <3>2. CASE crashed
      BY <2>2, <3>2 DEF Next, enable, disableAll, get, runOnModule, Begin, Increment, Change
    <3> QED BY <3>1, <3>2
  <2>3. CASE get
    BY <1>1, <2>3, GetSound
  <2>4. CASE \E m \in Modules : runOnModule(m)
    <3>1. ~crashed /\ DOMAIN Features' = DOMAIN Features
      BY <2>4 DEF runOnModule, processed
    <3>2. \A o \in Modules : AllServe(o) => AllServe(o)'
      BY <1>1, <2>4, RunSound
    <3> QED BY <2>0, <3>1, <3>2
  <2> QED BY <1>1, <2>1, <2>2, <2>3, <2>4, FeaturesStep
<1>2. IInv /\ [Next]_vars => [Kept]_vars
  BY <1>1
<1> QED BY <1>2, InitSound, StepSound, PTL DEF Spec, OneModule

-----------------------------------------------------------------------------
(***************************************************************************)
(* Loops. The names of a set are registered where it has a feature. Pairs are *)
(* in an order, a step of the iterator goes to the next pair of the loop, or *)
(* past the last one, and so it comes to an end.                            *)
(***************************************************************************)
Pair == [name : Names, sub : SubNames \cup {0}]

Named ==
  /\ DOMAIN Enabled \subseteq Names
  /\ DOMAIN Features \subseteq Names
  /\ \A n \in DOMAIN Features : Features[n] # Null => n \in DOMAIN Registered

LEMMA MaxOf ==
  ASSUME NEW S, IsFiniteSet(S), S \subseteq Nat, S # {}
  PROVE  Max(S) \in S /\ \A m \in S : m <= Max(S)
<1>1. \E n \in S : \A m \in S : n >= m
  BY LargestOf
<1> QED
  BY <1>1 DEF Max

LEMMA MinOf ==
  ASSUME NEW S, S \subseteq Nat, S # {}
  PROVE  Min(S) \in S /\ \A m \in S : Min(S) <= m
<1>1. \E n \in S : \A m \in S : n <= m
  BY SmallestOf
<1> QED
  BY <1>1 DEF Min

LEMMA EndsAre ==
  /\ EndName \in Nat \ {0} /\ \A n \in Names : n \in Nat \ {0} /\ n < EndName
  /\ EndSub \in Nat \ {0} /\ \A s \in SubNames : s \in Nat \ {0} /\ s < EndSub
<1>1. Max(Names) \in Names /\ \A n \in Names : n <= Max(Names)
  BY NamesAssumption, MaxOf
<1>2. IsFiniteSet(SubNames \cup {0}) /\ SubNames \cup {0} \subseteq Nat
  BY NamesAssumption, FS_AddElement
<1>3. /\ Max(SubNames \cup {0}) \in SubNames \cup {0}
      /\ \A n \in SubNames \cup {0} : n <= Max(SubNames \cup {0})
  BY <1>2, MaxOf
<1>4. /\ Max(Names) \in Nat \ {0} /\ \A n \in Names : n \in Nat \ {0}
      /\ Max(SubNames \cup {0}) \in Nat /\ \A n \in SubNames : n \in Nat \ {0}
  BY <1>1, <1>2, <1>3, NamesAssumption
<1> QED
  BY <1>1, <1>3, <1>4 DEF EndName, EndSub

LEMMA SubsAre ==
  ASSUME NEW n
  PROVE  Subs(n) \subseteq SubNames /\ (isComposite(n) => n \in DOMAIN Registered)
BY NamesAssumption DEF Subs, isComposite

LEMMA PairsAre ==
  ASSUME Named, NEW e \in InSet
  PROVE  /\ e \in Pair /\ e \in Iterators
         /\ e.name \in DOMAIN Features /\ e.name \in Nat \ {0} /\ e.name < EndName
         /\ e.sub \in Nat /\ e.sub < EndSub
         /\ isComposite(e.name) => e.sub \in Subs(e.name)
         /\ ~isComposite(e.name) => e.sub = 0
         /\ e # End /\ e # Crash /\ e # Idle
         /\ Precedes(e, End)
<1>1. /\ e \in [name : DOMAIN Features, sub : SubNames \cup {0}]
      /\ e.sub \in IF isComposite(e.name) THEN Subs(e.name) ELSE {0}
  BY DEF InSet
<1>2. e.name \in Names /\ e.sub \in SubNames \cup {0}
  BY <1>1 DEF Named
<1>3. e \in Pair
  BY <1>1, <1>2 DEF Pair
<1>4. /\ e.name \in Nat \ {0} /\ e.name < EndName /\ EndName \in Nat
      /\ e.sub \in Nat /\ e.sub < EndSub /\ EndSub \in Nat
  BY <1>2, EndsAre
<1>5. e \in Iterators
  BY <1>1, <1>4 DEF Iterators
<1> QED
  BY <1>1, <1>3, <1>4, <1>5 DEF End, Crash, Idle, Precedes

LEMMA EnterIs ==
  ASSUME Named, NEW n \in DOMAIN Features \cup {EndName}
  PROVE  \/ Enter(n) = End /\ n = EndName
         \/ Enter(n) = Crash
         \/ /\ Enter(n) \in InSet /\ Enter(n).name = n
            /\ \A e \in InSet : e.name = n => ~Precedes(e, Enter(n))
<1>1. CASE n = EndName
  BY <1>1 DEF Enter
<1>2. CASE n # EndName /\ Features[n] = Null
  BY <1>2 DEF Enter
<1>3. CASE n # EndName /\ Features[n] # Null
  <2>1. n \in DOMAIN Features /\ n \in DOMAIN Registered /\ n \in Nat
    BY <1>3, EndsAre DEF Named
  <2>2. CASE isComposite(n)
    <3>1. PICK s : s = Min(Subs(n))
      OBVIOUS
    <3>2. Subs(n) # {} /\ Subs(n) \subseteq Nat /\ Subs(n) \subseteq SubNames
      BY <2>2, SubsAre, EndsAre DEF isComposite
    <3>3. s \in Subs(n) /\ \A r \in Subs(n) : s <= r
      BY <3>1, <3>2, MinOf
    <3>4. Enter(n) = [name |-> n, sub |-> s]
      BY <1>3, <2>2, <3>1 DEF Enter
    <3>5. Enter(n) \in InSet
      BY <2>1, <2>2, <3>2, <3>3, <3>4 DEF InSet
    <3>6. ASSUME NEW e \in InSet, e.name = n
          PROVE  ~Precedes(e, Enter(n))
      <4>1. e.sub \in Subs(n)
        BY <2>2, <3>6, PairsAre
      <4>2. e.sub \in Nat /\ s \in Nat /\ s <= e.sub
        BY <3>2, <3>3, <4>1
      <4> QED
        BY <2>1, <3>4, <3>6, <4>2 DEF Precedes
    <3> QED
      BY <3>4, <3>5, <3>6
  <2>3. CASE ~isComposite(n)
    <3>1. Enter(n) = [name |-> n, sub |-> 0]
      BY <1>3, <2>3 DEF Enter
    <3>2. Enter(n) \in InSet
      BY <2>1, <2>3, <3>1 DEF InSet
    <3>3. ASSUME NEW e \in InSet, e.name = n
          PROVE  ~Precedes(e, Enter(n))
      BY <2>1, <2>3, <3>1, <3>3, PairsAre DEF Precedes
    <3> QED
      BY <3>1, <3>2, <3>3
  <2> QED
    BY <2>2, <2>3
<1> QED
  BY <1>1, <1>2, <1>3

(* The next name leads to its first pair.                                   *)
LEMMA NextNameIs ==
  ASSUME Named, NEW n \in 0..EndName, NEW y, y = incMapIterator(n)
  PROVE  /\ y \in InSet \cup {End, Crash}
         /\ y \in InSet => y.name > n
         /\ y # Crash => \A e \in InSet : e.name > n => ~Precedes(e, y)
<1> DEFINE Behind == {m \in DOMAIN Features : m > n}
           next == Min(Behind \cup {EndName})
<1>1. Behind \cup {EndName} \subseteq Nat /\ n \in Nat
  BY EndsAre DEF Named
<1>2. next \in Behind \cup {EndName} /\ \A m \in Behind \cup {EndName} : next <= m
  BY <1>1, MinOf
<1>3. y = Enter(next)
  BY DEF incMapIterator
<1>4. next \in DOMAIN Features \cup {EndName} /\ next \in Nat
  BY <1>1, <1>2
<1>5. next # EndName => next > n
  BY <1>2
<1> HIDE DEF next
<1>6. ASSUME y # Crash, NEW e \in InSet, e.name > n
      PROVE  ~Precedes(e, y)
  <2>1. e.name \in Behind /\ e.name \in Nat /\ e.name < EndName
    BY <1>6, PairsAre
  <2>2. next <= e.name
    BY <1>2, <2>1
  <2>3. next # EndName
    BY <1>4, <2>1, <2>2, EndsAre
  <2>4. /\ y \in InSet /\ y.name = next
        /\ \A d \in InSet : d.name = next => ~Precedes(d, y)
    BY <1>3, <1>4, <1>6, <2>3, EnterIs
  <2>5. CASE e.name = next
    BY <2>4, <2>5
  <2>6. CASE e.name > next
    BY <1>4, <2>1, <2>4, <2>6 DEF Precedes
  <2> QED
    BY <1>4, <2>1, <2>2, <2>5, <2>6
<1>7. y \in InSet \cup {End, Crash} /\ (y \in InSet => y.name = next /\ next # EndName)
  BY <1>3, <1>4, EnterIs, PairsAre
<1> QED
  BY <1>5, <1>6, <1>7

(* A step comes to the next pair of the loop over all features or over f.    *)
LEMMA IncIs ==
  ASSUME Named, NEW x \in InSet, NEW f \in {0, x.name}, NEW y, y = Inc(x, f)
  PROVE  /\ y \in InSet \cup {End, Crash}
         /\ y \in InSet => f \in {0, y.name}
         /\ y # Crash => /\ Precedes(x, y)
                         /\ \A e \in InSet : f \in {0, e.name} /\ Precedes(x, e) => ~Precedes(e, y)
<1> DEFINE Behind == {s \in Subs(x.name) : s > x.sub}
           sub == Min(Behind \cup {EndSub})
<1>1. Behind \cup {EndSub} \subseteq Nat
  BY EndsAre, SubsAre
<1>2. sub \in Behind \cup {EndSub} /\ \A s \in Behind \cup {EndSub} : sub <= s
  BY <1>1, MinOf
<1>3. y = IF isComposite(x.name) /\ sub # EndSub THEN [x EXCEPT !.sub = sub]
          ELSE IF f # 0 THEN End
          ELSE incMapIterator(x.name)
  BY DEF Inc
<1>4. /\ x \in Pair /\ x.name \in DOMAIN Features /\ x.name \in Nat \ {0} /\ x.name < EndName
      /\ x.sub \in Nat /\ x.sub < EndSub /\ Precedes(x, End)
  BY PairsAre
<1>5. \A e \in InSet : /\ e.name \in Nat /\ e.sub \in Nat /\ e.sub < EndSub
                       /\ isComposite(e.name) => e.sub \in Subs(e.name)
                       /\ ~isComposite(e.name) => e.sub = 0
  BY PairsAre
<1>6. ASSUME NEW e \in InSet, Precedes(x, e), e.name = x.name
      PROVE  isComposite(x.name) /\ e.sub \in Behind
  BY <1>4, <1>5, <1>6 DEF Precedes
<1>7. sub \in Nat /\ EndSub \in Nat /\ (sub # EndSub => sub \in Behind)
  BY <1>1, <1>2
<1> HIDE DEF sub
<1>8. CASE isComposite(x.name) /\ sub # EndSub
  <2>1. sub \in Behind /\ sub \in SubNames /\ sub > x.sub
    BY <1>7, <1>8, SubsAre
  <2>2. y = [name |-> x.name, sub |-> sub]
    BY <1>3, <1>4, <1>8 DEF Pair
  <2>3. y \in InSet
    BY <1>4, <1>8, <2>1, <2>2, SubsAre DEF InSet
  <2>4. Precedes(x, y)
    BY <2>1, <2>2 DEF Precedes
  <2>5. ASSUME NEW e \in InSet, Precedes(x, e)
        PROVE  ~Precedes(e, y)
    <3>1. CASE e.name = x.name
      <4>1. sub <= e.sub
        BY <1>2, <1>6, <2>5, <3>1
      <4> QED
        BY <1>4, <1>5, <1>7, <2>2, <3>1, <4>1 DEF Precedes
    <3>2. CASE e.name # x.name
      BY <1>4, <1>5, <2>2, <2>5, <3>2 DEF Precedes
    <3> QED
      BY <3>1, <3>2
  <2> QED
    BY <2>2, <2>3, <2>4, <2>5
<1>9. CASE ~(isComposite(x.name) /\ sub # EndSub)
  <2>1. ASSUME NEW e \in InSet, Precedes(x, e)
        PROVE  e.name > x.name
    <3>1. e.name # x.name
      <4> SUFFICES ASSUME e.name = x.name
                   PROVE  FALSE
        OBVIOUS
      <4>1. e.sub \in Behind /\ isComposite(x.name)
        BY <1>6, <2>1
      <4>2. sub <= e.sub
        BY <1>2, <4>1
      <4> QED
        BY <1>5, <1>7, <1>9, <4>1, <4>2
    <3> QED
      BY <1>4, <1>5, <2>1, <3>1 DEF Precedes
  <2>2. CASE f # 0
    <3>1. y = End
      BY <1>3, <1>9, <2>2
    <3>2. ASSUME NEW e \in InSet, f \in {0, e.name}, Precedes(x, e)
          PROVE  FALSE
      BY <1>4, <1>5, <2>1, <2>2, <3>2
    <3> QED
      BY <1>4, <3>1, <3>2, PairsAre
  <2>3. CASE f = 0
    <3>1. y = incMapIterator(x.name)
      BY <1>3, <1>9, <2>3
    <3>2. x.name \in 0..EndName
      BY <1>4, EndsAre
    <3>3. /\ y \in InSet \cup {End, Crash}
          /\ y \in InSet => y.name > x.name
          /\ y # Crash => \A e \in InSet : e.name > x.name => ~Precedes(e, y)
      BY <3>1, <3>2, NextNameIs
    <3>4. y # Crash => Precedes(x, y)
      BY <1>4, <3>3 DEF Precedes
    <3> QED
      BY <2>1, <2>3, <3>3, <3>4
  <2> QED
    BY <2>2, <2>3
<1> QED
  BY <1>8, <1>9

(* How far an iterator is from the end: it only comes closer.               *)
Stopped == {End, Crash}
Far(x) == IF x \in Stopped THEN 0
          ELSE (EndName - x.name) * (EndSub + 1) + (EndSub - x.sub) + 1
Farthest == EndName * (EndSub + 1) + EndSub + 1

LEMMA Products ==
  ASSUME NEW m \in Nat, NEW n \in Nat, NEW w \in Nat
  PROVE  m * w \in Nat /\ (m < n => m * w + w <= n * w) /\ (m <= n => m * w <= n * w)
<1>1. m * w \in Nat /\ n * w \in Nat
  OBVIOUS
<1>2. ASSUME m < n
      PROVE  m * w + w <= n * w
  <2>1. PICK d \in Nat : n = m + 1 + d
    <3>1. n - m - 1 \in Nat /\ n = m + 1 + (n - m - 1)
      BY <1>2
    <3> QED
      BY <3>1
  <2>2. n * w = m * w + w + d * w
    BY <2>1
  <2>3. d * w \in Nat
    OBVIOUS
  <2> QED
    BY <1>1, <2>2, <2>3
<1>3. ASSUME m <= n
      PROVE  m * w <= n * w
  BY <1>1, <1>2, <1>3
<1> QED
  BY <1>1, <1>2, <1>3

LEMMA FarIs ==
  ASSUME NEW x \in Iterators
  PROVE  Far(x) \in 0..Farthest
<1>1. EndName \in Nat /\ EndSub \in Nat
  BY EndsAre
<1>2. EndName - x.name \in Nat /\ EndName - x.name <= EndName /\ x.name \in Nat
  BY <1>1 DEF Iterators
<1>3. EndSub - x.sub \in Nat /\ EndSub - x.sub <= EndSub
  BY <1>1 DEF Iterators
<1>4. EndSub + 1 \in Nat
  BY <1>1
<1>5. /\ (EndName - x.name) * (EndSub + 1) \in Nat
      /\ (EndName - x.name) * (EndSub + 1) <= EndName * (EndSub + 1)
      /\ EndName * (EndSub + 1) \in Nat
  BY ONLY <1>1, <1>2, <1>4, Products
<1> QED
  BY <1>1, <1>3, <1>5 DEF Far, Farthest

LEMMA IncComesCloser ==
  ASSUME Named, NEW f, NEW x \in Iterators, x \notin Stopped, NEW y, y = Inc(x, f)
  PROVE  y \in Iterators /\ Far(y) < Far(x)
<1> DEFINE Behind == {s \in Subs(x.name) : s > x.sub}
           sub == Min(Behind \cup {EndSub})
<1>1. Behind \cup {EndSub} \subseteq Nat
  BY EndsAre, SubsAre
<1>2. sub \in Behind \cup {EndSub} /\ \A s \in Behind \cup {EndSub} : sub <= s
  BY <1>1, MinOf
<1>3. y = IF isComposite(x.name) /\ sub # EndSub THEN [x EXCEPT !.sub = sub]
          ELSE IF f # 0 THEN End
          ELSE incMapIterator(x.name)
  BY DEF Inc
<1>4. /\ EndName \in Nat /\ EndSub \in Nat
      /\ x.name \in 0..EndName /\ x.sub \in 0..EndSub
  BY EndsAre DEF Iterators
<1>5. End \in Iterators /\ Crash \in Iterators /\ Far(End) = 0 /\ Far(Crash) = 0
  BY <1>4 DEF End, Crash, Iterators, Far, Stopped
<1>6. (EndName - x.name) * (EndSub + 1) \in Nat
  <2>1. EndName - x.name \in Nat /\ EndSub + 1 \in Nat
    BY <1>4
  <2> QED
    BY ONLY <2>1, Products
<1>7. Far(x) = (EndName - x.name) * (EndSub + 1) + (EndSub - x.sub) + 1
  BY DEF Far
<1>8. Far(x) > 0
  BY <1>4, <1>6, <1>7
<1>9. sub # EndSub => sub \in Behind
  BY <1>2
<1> HIDE DEF sub
<1>10. CASE isComposite(x.name) /\ sub # EndSub
  <2>1. sub \in Nat /\ sub > x.sub /\ sub < EndSub
    BY <1>9, <1>10, SubsAre, EndsAre
  <2>2. y = [name |-> x.name, sub |-> sub]
    BY <1>3, <1>10 DEF Iterators
  <2>3. y \in Iterators
    BY <1>4, <2>1, <2>2 DEF Iterators
  <2>4. CASE y \in Stopped
    BY <1>5, <1>8, <2>3, <2>4 DEF Stopped
  <2>5. CASE y \notin Stopped
    <3>1. Far(y) = (EndName - x.name) * (EndSub + 1) + (EndSub - sub) + 1
      BY <2>2, <2>5 DEF Far
    <3> QED
      BY <1>4, <1>6, <1>7, <2>1, <2>3, <3>1
  <2> QED
    BY <2>4, <2>5
<1>11. CASE ~(isComposite(x.name) /\ sub # EndSub) /\ f # 0
  BY <1>3, <1>5, <1>8, <1>11
<1>12. CASE ~(isComposite(x.name) /\ sub # EndSub) /\ f = 0
  <2>1. y = incMapIterator(x.name)
    BY <1>3, <1>12
  <2>2. /\ y \in InSet \cup {End, Crash}
        /\ y \in InSet => y.name > x.name
    BY <1>4, <2>1, NextNameIs
  <2>3. CASE y \in {End, Crash}
    BY <1>5, <1>8, <2>3
  <2>4. CASE y \in InSet
    <3>1. /\ y \in Iterators /\ y \notin Stopped
          /\ y.name \in Nat /\ y.name < EndName /\ y.sub \in Nat /\ y.sub < EndSub
      BY <2>4, PairsAre DEF Stopped
    <3>2. Far(y) = (EndName - y.name) * (EndSub + 1) + (EndSub - y.sub) + 1
      BY <3>1 DEF Far
    <3>3. /\ EndName - y.name \in Nat /\ EndName - x.name \in Nat /\ EndSub + 1 \in Nat
          /\ EndName - y.name < EndName - x.name
      BY <1>4, <2>2, <2>4, <3>1
    <3>4. /\ (EndName - y.name) * (EndSub + 1) + (EndSub + 1)
               <= (EndName - x.name) * (EndSub + 1)
          /\ (EndName - y.name) * (EndSub + 1) \in Nat
      BY ONLY <3>3, Products
    <3> QED
      BY <1>4, <1>6, <1>7, <3>1, <3>2, <3>4
  <2> QED
    BY <2>2, <2>3, <2>4
<1> QED
  BY <1>10, <1>11, <1>12

(* Where the search of update() ends, from each iterator.                   *)
Moving(f) ==
  CHOOSE on : on = [j \in Iterators |->
    IF j \in {End, Crash} \/ isEnabled(j.name, j.sub) THEN j ELSE on[Inc(j, f)]]

LEMMA MovingIs ==
  ASSUME Named, NEW f
  PROVE  \A j \in Iterators :
           Moving(f)[j] = IF j \in Stopped \/ isEnabled(j.name, j.sub) THEN j
                          ELSE Moving(f)[Inc(j, f)]
<1> DEFINE Stops == {j \in Iterators : j \in Stopped \/ isEnabled(j.name, j.sub)}
           Step == [j \in Iterators |-> IF j \in Stopped THEN j ELSE Inc(j, f)]
           Rank == [j \in Iterators |-> Far(j)]
           Good(on) == on = [j \in Iterators |->
             IF j \in {End, Crash} \/ isEnabled(j.name, j.sub) THEN j ELSE on[Inc(j, f)]]
<1>1. Step \in [Iterators -> Iterators]
  BY IncComesCloser
<1>2. Rank \in [Iterators -> 0..Farthest]
  BY FarIs
<1>3. Farthest \in Nat
  <2>1. EndName \in Nat /\ EndSub \in Nat /\ EndSub + 1 \in Nat
    BY EndsAre
  <2>2. EndName * (EndSub + 1) \in Nat
    BY ONLY <2>1, Products
  <2> QED
    BY <2>1, <2>2 DEF Farthest
<1>4. \A j \in Iterators \ Stops : Rank[Step[j]] < Rank[j]
  BY <1>1, IncComesCloser
<1>5. PICK on \in [Iterators -> Iterators] :
        \A j \in Iterators : on[j] = IF j \in Stops THEN j ELSE on[Step[j]]
  <2> HIDE DEF Stops, Step, Rank
  <2>1. Lowers(Step, Iterators, Stops, Rank, Farthest)
    BY <1>1, <1>2, <1>3, <1>4 DEF Lowers
  <2> QED
    BY ONLY <2>1, IterationExists
<1>6. \A j \in Iterators :
        on[j] = IF j \in {End, Crash} \/ isEnabled(j.name, j.sub) THEN j ELSE on[Inc(j, f)]
  BY <1>5 DEF Stopped
<1>7. Good(on)
  BY <1>5, <1>6
<1>8. Good(Moving(f))
  BY <1>7 DEF Moving
<1> QED
  BY <1>8 DEF Stopped

LEMMA UpdateIsMoving ==
  ASSUME NEW i, NEW f
  PROVE  update(i, f) = Moving(f)[i]
BY DEF update, Moving

(* Iterator r is at the first enabled pair of the loop from i on.           *)
Reaches(i, r, f) ==
  /\ r \in InSet \cup Stopped
  /\ i \in Stopped => r = i
  /\ r \in InSet => isEnabled(r.name, r.sub) /\ f \in {0, r.name}
  /\ r # Crash => /\ r = i \/ Precedes(i, r)
                  /\ \A e \in InSet :
                       isEnabled(e.name, e.sub) /\ f \in {0, e.name} /\ ~Precedes(e, i) =>
                         ~Precedes(e, r)

LEMMA ReachesFurther ==
  ASSUME Named, NEW f, NEW x \in InSet, f \in {0, x.name}, ~isEnabled(x.name, x.sub),
         NEW y, y = Inc(x, f), NEW r, Reaches(y, r, f)
  PROVE  Reaches(x, r, f)
<1>1. /\ y \in InSet \cup {End, Crash}
      /\ y \in InSet => f \in {0, y.name}
      /\ y # Crash => /\ Precedes(x, y)
                      /\ \A e \in InSet : f \in {0, e.name} /\ Precedes(x, e) => ~Precedes(e, y)
  BY IncIs
<1>2. \A e \in InSet : /\ e.name \in Nat /\ e.sub \in Nat /\ e \notin Stopped
                       /\ e \in [name : DOMAIN Features, sub : SubNames \cup {0}]
                       /\ Precedes(e, End)
  BY PairsAre DEF Stopped, InSet
<1>3. End.name \in Nat /\ End.sub \in Nat
  BY EndsAre DEF End
<1>4. ASSUME r # Crash
      PROVE  /\ Precedes(x, r)
             /\ \A e \in InSet :
                  isEnabled(e.name, e.sub) /\ f \in {0, e.name} /\ ~Precedes(e, x) =>
                    ~Precedes(e, r)
  <2>1. y # Crash
    BY <1>4 DEF Reaches, Stopped
  <2>2. r = y \/ Precedes(y, r)
    BY <1>4 DEF Reaches
  <2>3. r.name \in Nat /\ r.sub \in Nat /\ y.name \in Nat /\ y.sub \in Nat
    BY <1>1, <1>2, <1>3, <1>4, <2>1 DEF Reaches, Stopped
  <2>4. Precedes(x, r)
    BY <1>1, <1>2, <2>1, <2>2, <2>3 DEF Precedes
  <2>5. ASSUME NEW e \in InSet, isEnabled(e.name, e.sub), f \in {0, e.name}, ~Precedes(e, x)
        PROVE  ~Precedes(e, r)
    <3>1. e # x
      BY <2>5
    <3>2. e.name # x.name \/ e.sub # x.sub
      BY <1>2, <3>1
    <3>3. Precedes(x, e)
      BY <1>2, <2>5, <3>2 DEF Precedes
    <3>4. ~Precedes(e, y)
      BY <1>1, <2>1, <2>5, <3>3
    <3> QED
      BY <1>4, <2>5, <3>4 DEF Reaches
  <2> QED
    BY <2>4, <2>5
<1> QED
  BY <1>2, <1>4 DEF Reaches

LEMMA UpdateReaches ==
  ASSUME Named, NEW f, NEW i \in InSet \cup Stopped, i \in InSet => f \in {0, i.name}
  PROVE  Reaches(i, update(i, f), f)
<1> DEFINE Good == {x \in Iterators : x \in InSet /\ f \in {0, x.name} =>
                                        Reaches(x, Moving(f)[x], f)}
           Rank == [j \in Iterators |-> Far(j)]
<1>1. ASSUME NEW x \in Stopped
      PROVE  Reaches(x, Moving(f)[x], f)
  <2>1. x \in Iterators /\ x \notin InSet
    BY EndsAre, PairsAre DEF Stopped, Iterators, End, Crash
  <2>2. Moving(f)[x] = x
    BY <2>1, MovingIs
  <2> QED
    BY <2>1, <2>2 DEF Reaches
<1>2. Rank \in [Iterators -> Nat] /\ Farthest \in Nat
  <2>1. \A x \in Iterators : Far(x) \in Nat
    BY FarIs
  <2>2. EndName \in Nat /\ EndSub \in Nat /\ EndSub + 1 \in Nat
    BY EndsAre
  <2>3. EndName * (EndSub + 1) \in Nat
    BY ONLY <2>2, Products
  <2> QED
    BY <2>1, <2>2, <2>3 DEF Farthest
<1>3. ASSUME NEW x \in Iterators, \A y \in Iterators : Rank[y] < Rank[x] => y \in Good
      PROVE  x \in Good
  <2> SUFFICES ASSUME x \in InSet, f \in {0, x.name}
               PROVE  Reaches(x, Moving(f)[x], f)
    OBVIOUS
  <2>1. x \notin Stopped
    BY PairsAre DEF Stopped
  <2>2. CASE isEnabled(x.name, x.sub)
    <3>1. Moving(f)[x] = x
      BY <2>2, MovingIs
    <3> QED
      BY <2>1, <2>2, <3>1 DEF Reaches
  <2>3. CASE ~isEnabled(x.name, x.sub)
    <3>1. PICK y : y = Inc(x, f)
      OBVIOUS
    <3>2. Moving(f)[x] = Moving(f)[y]
      BY <2>1, <2>3, <3>1, MovingIs
    <3>3. y \in Iterators /\ Far(y) < Far(x)
      BY <2>1, <3>1, IncComesCloser
    <3>4. y \in InSet \cup {End, Crash} /\ (y \in InSet => f \in {0, y.name})
      BY <3>1, IncIs
    <3>5. y \in Good
      BY <1>3, <3>3
    <3>6. Reaches(y, Moving(f)[y], f)
      BY <1>1, <3>4, <3>5 DEF Stopped
    <3> QED
      BY <2>3, <3>1, <3>2, <3>6, ReachesFurther
  <2> QED
    BY <2>2, <2>3
<1>4. Iterators \subseteq Good
  <2> HIDE DEF Good, Rank
  <2> QED
    BY <1>2, <1>3, RankInduction
<1>5. InSet \subseteq Iterators
  BY PairsAre
<1> QED
  BY <1>1, <1>4, <1>5, UpdateIsMoving

-----------------------------------------------------------------------------
(***************************************************************************)
(* A loop has seen the pairs that are enabled throughout and not ahead of it. *)
(***************************************************************************)
Ordered == \A j, k \in DOMAIN seen : j < k => Precedes(seen[j], seen[k])

(* What the iterator of a loop that goes on is at, has seen and has ahead.   *)
Between ==
  /\ seen # <<>> /\ seen[Len(seen)] = it
  /\ only \in {0, it.name}
  /\ \A e \in always : /\ e \in InSet
                       /\ isEnabled(e.name, e.sub)
                       /\ only \in {0, e.name}
                       /\ e \in Range(seen) \/ Precedes(it, e)

LoopSound ==
  /\ seen \in Seq(Pair)
  /\ Ordered
  /\ it \in InSet \cup {Idle, End}
  /\ it \in InSet => Between
  /\ it = End => always \subseteq Range(seen)

LInv == Named /\ LoopSound

LEMMA LoopStart == Init => LInv
<1>1. ASSUME Init
      PROVE  Idle # End
  BY EndsAre DEF Idle, End
<1> QED
  BY <1>1 DEF Init, LInv, Named, LoopSound, Ordered, InSet, None, Idle

(* Names stay those there are, and of a set, those that are registered.      *)
LEMMA NamedStep ==
  ASSUME Named, [Next]_vars
  PROVE  Named'
<1>1. ASSUME NEW n \in Names, NEW S \in Lists(n), enable(n, S)
      PROVE  Named'
  <2>1. DOMAIN Enabled' = DOMAIN Enabled \cup {n} /\ UNCHANGED Features
    BY <1>1 DEF enable, Change
  <2> QED
    BY <2>1 DEF Named
<1>2. ASSUME disableAll
      PROVE  Named'
  BY <1>2 DEF disableAll, Change, Named
<1>3. ASSUME get
      PROVE  Named'
  <2>1. Features' = [n \in DOMAIN Enabled |-> Clone(n)] /\ UNCHANGED Enabled
    BY <1>3 DEF get
  <2> QED
    BY <2>1 DEF Named, Clone
<1>4. ASSUME NEW m \in Modules, runOnModule(m)
      PROVE  Named'
  <2>1. Features' = processed(m) /\ UNCHANGED Enabled
    BY <1>4 DEF runOnModule
  <2>2. /\ DOMAIN Features' = DOMAIN Features
        /\ \A n \in DOMAIN Features : Features'[n] = Features[n] \/ Features[n] # Null
    BY <2>1 DEF processed
  <2> QED
    BY <2>1, <2>2 DEF Named, Unprocessed, Null
<1>5. ASSUME NEW f \in Names \cup {0}, Begin(f)
      PROVE  Named'
  BY <1>5 DEF Begin, MoveTo, Named
<1>6. ASSUME Increment
      PROVE  Named'
  BY <1>6 DEF Increment, MoveTo, Named
<1>7. ASSUME UNCHANGED vars
      PROVE  Named'
  BY <1>7 DEF vars, Named
<1> QED
  BY <1>1, <1>2, <1>3, <1>4, <1>5, <1>6, <1>7 DEF Next

(* Between the steps of a loop clients only take pairs from those enabled    *)
(* throughout, and the pass leaves the pairs of the set.                    *)
LEMMA ClientSound ==
  ASSUME LInv, Named', InSet' = InSet, UNCHANGED <<it, only, seen>>,
         \/ UNCHANGED <<Enabled, always>>
         \/ always' = {i \in always : isEnabled(i.name, i.sub)'}
  PROVE  LoopSound'
<1>1. \A e \in always' : e \in always /\ (isEnabled(e.name, e.sub) => isEnabled(e.name, e.sub)')
  BY DEF isEnabled
<1>2. ASSUME it' \in InSet'
      PROVE  Between'
  <2>1. Between
    BY <1>2 DEF LInv, LoopSound
  <2> QED
    BY <1>1, <2>1 DEF Between
<1> QED
  BY <1>1, <1>2 DEF LInv, LoopSound, Ordered

(* A loop begins, or goes on, with the first enabled pair of those ahead.    *)
LEMMA BeginSound ==
  ASSUME LInv, NEW f \in Names \cup {0}, Begin(f)
  PROVE  LoopSound'
<1>1. PICK first : first = IF f # 0 THEN f ELSE Min(DOMAIN Features \cup {EndName})
  OBVIOUS
<1>2. PICK i : i = Enter(first)
  OBVIOUS
<1>3. PICK r : r = update(i, f)
  OBVIOUS
<1>4. /\ ~crashed
      /\ only' = f
      /\ seen' = IF r \in {End, Crash} THEN <<>> ELSE <<r>>
      /\ always' = {e \in InSet : isEnabled(e.name, e.sub) /\ f \in {0, e.name}}
      /\ it' = IF r = Crash THEN Idle ELSE r
      /\ UNCHANGED <<Enabled, Features>>
      /\ f \in DOMAIN Features \cup {0}
  BY <1>1, <1>2, <1>3 DEF Begin, begin, MoveTo
<1>5. DOMAIN Features \cup {EndName} \subseteq Nat
  BY EndsAre DEF LInv, Named
<1>6. /\ Min(DOMAIN Features \cup {EndName}) \in DOMAIN Features \cup {EndName}
      /\ \A n \in DOMAIN Features \cup {EndName} : Min(DOMAIN Features \cup {EndName}) <= n
  BY ONLY <1>5, MinOf
<1>7. first \in DOMAIN Features \cup {EndName}
  BY <1>1, <1>4, <1>6
<1>8. \/ i = End /\ first = EndName
      \/ i = Crash
      \/ /\ i \in InSet /\ i.name = first
         /\ \A e \in InSet : e.name = first => ~Precedes(e, i)
  BY <1>2, <1>7, EnterIs DEF LInv
<1>9. i \in InSet \cup Stopped /\ (i \in InSet => f \in {0, i.name})
  BY <1>1, <1>8, PairsAre DEF LInv, Stopped
<1>10. Reaches(i, r, f)
  BY <1>3, <1>9, UpdateReaches DEF LInv
<1>11. \A e \in InSet : e.name \in DOMAIN Features /\ e.name \in Nat /\ e.name < EndName
  BY PairsAre DEF LInv
<1>12. ASSUME i # Crash, NEW e \in InSet, f \in {0, e.name}
       PROVE  ~Precedes(e, i)
  <2>1. CASE f = 0
    <3>1. first <= e.name /\ first \in Nat
      BY <1>1, <1>5, <1>6, <1>11, <2>1
    <3>2. i \in InSet /\ i.name = first
      BY <1>8, <1>11, <1>12, <3>1, EndsAre
    <3>3. CASE e.name = first
      BY <1>8, <1>11, <1>12, <3>2, <3>3, EndsAre
    <3>4. CASE e.name # first
      BY <1>11, <3>1, <3>2, <3>4 DEF Precedes
    <3> QED
      BY <3>3, <3>4
  <2>2. CASE f # 0
    <3>1. first = e.name
      BY <1>1, <1>12, <2>2
    <3> QED
      BY <1>8, <1>11, <1>12, <3>1, EndsAre
  <2> QED
    BY <2>1, <2>2
<1>13. r # Crash => i # Crash
  BY <1>10 DEF Reaches, Stopped
<1>14. ASSUME NEW e \in always', r # Crash
       PROVE  /\ e \in InSet /\ isEnabled(e.name, e.sub) /\ f \in {0, e.name}
              /\ ~Precedes(e, r)
  BY <1>4, <1>10, <1>12, <1>13, <1>14 DEF Reaches
<1>15. InSet' = InSet /\ (\A n, s : isEnabled(n, s)' = isEnabled(n, s))
  BY <1>4 DEF InSet, isEnabled
<1>16. CASE r = Crash
  <2>1. it' = Idle /\ seen' = <<>>
    BY <1>4, <1>16
  <2>2. Idle # End /\ Idle \notin InSet
    BY PairsAre, EndsAre DEF LInv, Idle, End
  <2> QED
    BY <1>15, <2>1, <2>2 DEF LoopSound, Ordered
<1>17. CASE r = End
  <2>1. it' = End /\ seen' = <<>>
    BY <1>4, <1>17, EndsAre DEF End, Crash
  <2>2. End \notin InSet
    BY PairsAre DEF LInv
  <2>3. always' = {}
    BY <1>14, <1>17, <2>1, PairsAre, EndsAre DEF LInv, End, Crash
  <2> QED
    BY <1>15, <2>1, <2>2, <2>3 DEF LoopSound, Ordered
<1>18. CASE r \in InSet
  <2>1. r # End /\ r # Crash /\ r # Idle /\ r \in Pair
    BY <1>18, PairsAre DEF LInv
  <2>2. it' = r /\ seen' = <<r>> /\ seen' \in Seq(Pair) /\ Len(seen') = 1
        /\ DOMAIN seen' = {1} /\ seen'[1] = r
    BY <1>4, <2>1
  <2>3. ASSUME NEW e \in always'
        PROVE  e \in Range(seen') \/ Precedes(r, e)
    <3>1. e \in InSet /\ ~Precedes(e, r)
      BY <1>14, <2>1
    <3>2. CASE e = r
      BY <2>2, <3>2 DEF Range
    <3>3. CASE e # r
      <4>1. /\ e.name \in Nat /\ e.sub \in Nat /\ r.name \in Nat /\ r.sub \in Nat
            /\ e \in Pair /\ r \in Pair
        BY <1>18, <3>1, PairsAre DEF LInv
      <4>2. e.name # r.name \/ e.sub # r.sub
        BY <3>3, <4>1 DEF Pair
      <4> QED
        BY <3>1, <4>1, <4>2 DEF Precedes
    <3> QED
      BY <3>2, <3>3
  <2>4. only' \in {0, r.name}
    BY <1>4, <1>10, <1>18 DEF Reaches
  <2>5. Between'
    BY <1>14, <1>15, <2>1, <2>2, <2>3, <2>4, <1>4 DEF Between
  <2>6. Ordered'
    BY <2>2 DEF Ordered
  <2> QED
    BY <1>15, <1>18, <2>1, <2>2, <2>5, <2>6 DEF LoopSound
<1> QED
  BY <1>10, <1>16, <1>17, <1>18 DEF Reaches, Stopped

LEMMA IncrementSound ==
  ASSUME LInv, Increment
  PROVE  LoopSound'
<1>1. PICK y : y = Inc(it, only)
  OBVIOUS
<1>2. PICK r : r = update(y, only)
  OBVIOUS
<1>3. /\ it \notin {Idle, End}
      /\ it' = IF r = Crash THEN Idle ELSE r
      /\ seen' = IF r \in {End, Crash} THEN seen ELSE Append(seen, r)
      /\ UNCHANGED <<Enabled, Features, only, always>>
  BY <1>1, <1>2 DEF Increment, MoveTo
<1>4. it \in InSet /\ Between
  BY <1>3 DEF LInv, LoopSound
<1>5. /\ y \in InSet \cup {End, Crash}
      /\ y \in InSet => only \in {0, y.name}
      /\ y # Crash =>
           /\ Precedes(it, y)
           /\ \A e \in InSet : only \in {0, e.name} /\ Precedes(it, e) => ~Precedes(e, y)
  BY <1>1, <1>4, IncIs DEF LInv, Between
<1>6. Reaches(y, r, only)
  BY <1>2, <1>5, UpdateReaches DEF LInv, Stopped
<1>7. InSet' = InSet /\ (\A n, s : isEnabled(n, s)' = isEnabled(n, s))
  BY <1>3 DEF InSet, isEnabled
<1>8. \A e \in InSet : /\ e \in Pair /\ e.name \in Nat /\ e.sub \in Nat
                       /\ e # End /\ e # Crash /\ e # Idle /\ Precedes(e, End)
  BY PairsAre DEF LInv
<1>9. ASSUME r # Crash, NEW e \in always
      PROVE  e \in Range(seen) \/ (e \in InSet /\ ~Precedes(e, r))
  <2>1. y # Crash
    BY <1>6, <1>9 DEF Reaches, Stopped
  <2> QED
    BY <1>4, <1>5, <1>6, <1>9, <2>1 DEF Reaches, Between
<1>10. seen \in Seq(Pair) /\ Ordered /\ Len(seen) \in Nat /\ DOMAIN seen = 1..Len(seen)
  BY LenProperties DEF LInv, LoopSound
<1>11. CASE r = Crash
  <2>1. it' = Idle /\ seen' = seen
    BY <1>3, <1>11
  <2>2. Idle # End /\ Idle \notin InSet
    BY <1>8, EndsAre DEF Idle, End
  <2> QED
    BY <1>7, <1>10, <2>1, <2>2 DEF LoopSound, Ordered
<1>12. CASE r = End
  <2>1. it' = End /\ seen' = seen /\ r # Crash
    BY <1>3, <1>12, EndsAre DEF End, Crash
  <2>2. End \notin InSet
    BY <1>8
  <2>3. always' \subseteq Range(seen')
    BY <1>3, <1>8, <1>9, <1>12, <2>1
  <2> QED
    BY <1>7, <1>10, <2>1, <2>2, <2>3 DEF LoopSound, Ordered
<1>13. CASE r \in InSet
  <2>1. r # End /\ r # Crash /\ r # Idle /\ r \in Pair /\ r.name \in Nat /\ r.sub \in Nat
    BY <1>8, <1>13
  <2>2. it' = r /\ seen' = Append(seen, r)
    BY <1>3, <2>1
  <2>3. /\ seen' \in Seq(Pair) /\ Len(seen') = Len(seen) + 1
        /\ DOMAIN seen' = 1..(Len(seen) + 1)
        /\ seen'[Len(seen) + 1] = r
        /\ \A j \in 1..Len(seen) : seen'[j] = seen[j]
    BY <1>10, <2>1, <2>2, AppendProperties
  <2>4. Range(seen) \subseteq Range(seen') /\ r \in Range(seen')
    BY <1>10, <2>3 DEF Range
  <2>5. Precedes(it, r)
    <3>1. Precedes(it, y) /\ (r = y \/ Precedes(y, r)) /\ y \in InSet
      BY <1>5, <1>6, <2>1 DEF Reaches, Stopped
    <3> QED
      BY <1>4, <1>8, <2>1, <3>1 DEF Precedes
  <2>6. ASSUME NEW e \in always
        PROVE  e \in Range(seen') \/ Precedes(r, e)
    <3>1. CASE e \in Range(seen) \/ e = r
      BY <2>4, <3>1
    <3>2. CASE e \notin Range(seen) /\ e # r
      <4>1. e \in InSet /\ ~Precedes(e, r)
        BY <1>9, <2>1, <3>2
      <4>2. e \in Pair /\ e.name \in Nat /\ e.sub \in Nat
        BY <1>8, <4>1
      <4>3. e.name # r.name \/ e.sub # r.sub
        BY <2>1, <3>2, <4>2 DEF Pair
      <4> QED
        BY <2>1, <4>1, <4>2, <4>3 DEF Precedes
    <3> QED
      BY <3>1, <3>2
  <2>7. only' \in {0, r.name}
    BY <1>3, <1>6, <1>13 DEF Reaches
  <2>8. Between'
    <3>1. seen' # <<>>
      BY <1>10, <2>3
    <3> QED
      BY <1>3, <1>4, <1>7, <1>10, <2>2, <2>3, <2>6, <2>7, <3>1 DEF Between
  <2>9. Ordered'
    <3>1. ASSUME NEW j \in DOMAIN seen', NEW k \in DOMAIN seen', j < k
          PROVE  Precedes(seen'[j], seen'[k])
      <4>1. j \in 1..Len(seen) /\ seen'[j] = seen[j]
        BY <1>10, <2>3, <3>1
      <4>2. CASE k \in 1..Len(seen)
        BY <1>10, <2>3, <3>1, <4>1, <4>2 DEF Ordered
      <4>3. CASE k = Len(seen) + 1
        <5>1. seen[j] = it \/ Precedes(seen[j], it)
          BY <1>4, <1>10, <4>1 DEF Ordered, Between
        <5>2. seen[j] \in Pair
          BY <1>10, <4>1, ElementOfSeq
        <5>3. seen[j].name \in Nat /\ seen[j].sub \in Nat
          BY <5>2, EndsAre DEF Pair
        <5>4. it.name \in Nat /\ it.sub \in Nat
          BY <1>4, <1>8
        <5> QED
          BY <2>1, <2>3, <2>5, <4>1, <4>3, <5>1, <5>3, <5>4 DEF Precedes
      <4> QED
        BY <1>10, <2>3, <4>2, <4>3
    <3> QED
      BY <3>1 DEF Ordered
  <2> QED
    BY <1>7, <1>13, <2>1, <2>2, <2>3, <2>8, <2>9 DEF LoopSound
<1> QED
  BY <1>6, <1>11, <1>12, <1>13 DEF Reaches, Stopped

LEMMA LoopStep ==
  ASSUME LInv, [Next]_vars
  PROVE  LInv'
<1>1. Named'
  BY NamedStep DEF LInv
<1>2. ASSUME NEW n \in Names, NEW S \in Lists(n), enable(n, S)
      PROVE  LoopSound'
  <2>1. UNCHANGED <<Features, it, only, seen>>
        /\ always' = {i \in always : isEnabled(i.name, i.sub)'}
    BY <1>2 DEF enable, Change
  <2>2. InSet' = InSet
    BY <2>1 DEF InSet
  <2> QED
    BY <1>1, <2>1, <2>2, ClientSound
<1>3. ASSUME disableAll
      PROVE  LoopSound'
  <2>1. UNCHANGED <<Features, it, only, seen>>
        /\ always' = {i \in always : isEnabled(i.name, i.sub)'}
    BY <1>3 DEF disableAll, Change
  <2>2. InSet' = InSet
    BY <2>1 DEF InSet
  <2> QED
    BY <1>1, <2>1, <2>2, ClientSound
<1>4. ASSUME get
      PROVE  LoopSound'
  <2>1. UNCHANGED <<it, only, seen, always>> /\ DOMAIN Features = {}
    BY <1>4 DEF get, None
  <2>2. it \in {Idle, End}
    BY <2>1, PairsAre DEF LInv, LoopSound
  <2>3. it' \notin InSet'
    <3>1. \A n \in DOMAIN Features' : n \in Nat \ {0} /\ n < EndName
      BY <1>1, EndsAre DEF Named
    <3>2. \A e \in InSet' : e.name \in DOMAIN Features'
      BY DEF InSet
    <3>3. it'.name = -1 \/ it'.name = EndName
      BY <2>1, <2>2 DEF Idle, End
    <3>4. EndName \in Nat
      BY EndsAre
    <3> QED
      BY <3>1, <3>2, <3>3, <3>4
  <2> QED
    BY <2>1, <2>2, <2>3 DEF LInv, LoopSound, Ordered
<1>5. ASSUME NEW m \in Modules, runOnModule(m)
      PROVE  LoopSound'
  <2>1. DOMAIN Features' = DOMAIN Features /\ UNCHANGED <<Enabled, it, only, seen, always>>
    BY <1>5 DEF runOnModule, processed
  <2>2. InSet' = InSet
    BY <2>1 DEF InSet
  <2> QED
    BY <1>1, <2>1, <2>2, ClientSound
<1>6. ASSUME UNCHANGED vars
      PROVE  LoopSound'
  <2>1. InSet' = InSet /\ UNCHANGED <<Enabled, it, only, seen, always>>
    BY <1>6 DEF InSet, vars
  <2> QED
    BY <1>1, <2>1, ClientSound
<1> QED
  BY <1>1, <1>2, <1>3, <1>4, <1>5, <1>6, BeginSound, IncrementSound DEF Next, LInv

(* A loop goes through the pairs in one order, each at most once, and misses *)
(* none that was enabled throughout, for any features, sub-features and     *)
(* clients that go on enabling and disabling between its steps.             *)
THEOREM LoopMissesNone == Spec => []LoopFindsAll
<1>1. LInv => LoopFindsAll
  BY DEF LInv, LoopSound, LoopFindsAll, Ordered
<1> QED
  BY <1>1, LoopStart, LoopStep, PTL DEF Spec

-----------------------------------------------------------------------------
(***************************************************************************)
(* Indexed access. The loop is a sequence of pairs; from the pair at any p on, *)
(* the search with as many as are wanted between them finds the wanted one.  *)
(***************************************************************************)
LEMMA UpdateComesCloser ==
  ASSUME Named, NEW f, NEW x \in Iterators
  PROVE  update(x, f) \in Iterators /\ Far(update(x, f)) <= Far(x)
<1> DEFINE Good == {j \in Iterators :
                      Moving(f)[j] \in Iterators /\ Far(Moving(f)[j]) <= Far(j)}
           Rank == [j \in Iterators |-> Far(j)]
<1>1. Farthest \in Nat
  <2>1. EndName \in Nat /\ EndSub \in Nat /\ EndSub + 1 \in Nat
    BY EndsAre
  <2>2. EndName * (EndSub + 1) \in Nat
    BY ONLY <2>1, Products
  <2> QED
    BY <2>1, <2>2 DEF Farthest
<1>2. \A j \in Iterators : Far(j) \in Nat
  BY <1>1, FarIs
<1>3. ASSUME NEW j \in Iterators, \A y \in Iterators : Rank[y] < Rank[j] => y \in Good
      PROVE  j \in Good
  <2>1. CASE j \in Stopped \/ isEnabled(j.name, j.sub)
    <3>1. Moving(f)[j] = j
      BY <2>1, MovingIs
    <3> QED
      BY <1>2, <3>1
  <2>2. CASE ~(j \in Stopped \/ isEnabled(j.name, j.sub))
    <3>1. PICK y : y = Inc(j, f)
      OBVIOUS
    <3>2. Moving(f)[j] = Moving(f)[y]
      BY <2>2, <3>1, MovingIs
    <3>3. y \in Iterators /\ Far(y) < Far(j)
      BY <2>2, <3>1, IncComesCloser
    <3>4. y \in Good
      BY <1>3, <3>3
    <3> QED
      BY <1>2, <3>2, <3>3, <3>4
  <2> QED
    BY <2>1, <2>2
<1>4. Iterators \subseteq Good
  <2>1. Rank \in [Iterators -> Nat]
    BY <1>2
  <2> HIDE DEF Good, Rank
  <2> QED
    BY <1>3, <2>1, RankInduction
<1> QED
  BY <1>4, UpdateIsMoving

(* What the loop visits from each iterator on.                              *)
Visiting ==
  CHOOSE from : from = [i \in Iterators |->
    IF i \in {End, Crash} THEN <<>> ELSE <<i>> \o from[update(Inc(i, 0), 0)]]

LEMMA LoopIsVisiting == Loop = Visiting[begin(0)]
BY DEF Loop, Visiting

LEMMA LoopIsSeq ==
  ASSUME Named
  PROVE  Loop \in Seq(Iterators)
<1> DEFINE Step == [i \in Iterators |-> IF i \in Stopped THEN i ELSE update(Inc(i, 0), 0)]
           Rank == [i \in Iterators |-> Far(i)]
           Base == [i \in Iterators |-> <<>>]
           Add == [i \in Iterators |-> [s \in Seq(Iterators) |-> <<i>> \o s]]
           Good(from) == from = [i \in Iterators |->
             IF i \in {End, Crash} THEN <<>> ELSE <<i>> \o from[update(Inc(i, 0), 0)]]
<1>1. Farthest \in Nat /\ \A i \in Iterators : Far(i) \in 0..Farthest
  <2>1. EndName \in Nat /\ EndSub \in Nat /\ EndSub + 1 \in Nat
    BY EndsAre
  <2>2. EndName * (EndSub + 1) \in Nat
    BY ONLY <2>1, Products
  <2> QED
    BY <2>1, <2>2, FarIs DEF Farthest
<1>2. ASSUME NEW i \in Iterators, i \notin Stopped
      PROVE  update(Inc(i, 0), 0) \in Iterators /\ Far(update(Inc(i, 0), 0)) < Far(i)
  <2>1. PICK y : y = Inc(i, 0)
    OBVIOUS
  <2>2. y \in Iterators /\ Far(y) < Far(i)
    BY <1>2, <2>1, IncComesCloser
  <2>3. update(y, 0) \in Iterators /\ Far(update(y, 0)) <= Far(y)
    BY <2>2, UpdateComesCloser
  <2>4. Far(i) \in Nat /\ Far(y) \in Nat /\ Far(update(y, 0)) \in Nat
    BY <1>1, <2>2, <2>3
  <2> QED
    BY <2>1, <2>2, <2>3, <2>4
<1>3. Lowers(Step, Iterators, Stopped, Rank, Farthest)
  BY <1>1, <1>2 DEF Lowers
<1>4. Computes(Base, Add, Iterators, Stopped, Seq(Iterators))
  <2>1. <<>> \in Seq(Iterators)
    OBVIOUS
  <2>2. \A i \in Iterators : \A s \in Seq(Iterators) : <<i>> \o s \in Seq(Iterators)
    BY ConcatProperties
  <2> QED
    BY <2>1, <2>2 DEF Computes
<1>5. PICK on \in [Iterators -> Seq(Iterators)] : \A i \in Iterators :
        on[i] = IF i \in Stopped THEN Base[i] ELSE Add[i][on[Step[i]]]
  <2> HIDE DEF Step, Rank, Base, Add
  <2> QED
    BY ONLY <1>3, <1>4, RecursionExists
<1>6. \A i \in Iterators :
        on[i] = IF i \in {End, Crash} THEN <<>> ELSE <<i>> \o on[update(Inc(i, 0), 0)]
  <2>1. ASSUME NEW i \in Iterators, i \notin Stopped
        PROVE  on[i] = <<i>> \o on[update(Inc(i, 0), 0)]
    <3>1. Step[i] = update(Inc(i, 0), 0) /\ Step[i] \in Iterators
      BY <1>2, <2>1
    <3>2. on[Step[i]] \in Seq(Iterators)
      BY <3>1
    <3>3. on[i] = Add[i][on[Step[i]]]
      BY <1>5, <2>1
    <3>4. Add[i][on[Step[i]]] = <<i>> \o on[Step[i]]
      BY <3>2
    <3> QED
      BY <3>1, <3>3, <3>4
  <2>2. \A i \in Iterators : i \in Stopped => on[i] = <<>>
    BY <1>5
  <2> QED
    BY <2>1, <2>2 DEF Stopped
<1>7. Good(on)
  BY <1>5, <1>6
<1>8. Good(Visiting)
  BY <1>7 DEF Visiting
<1>9. DOMAIN Visiting = Iterators /\ \A i \in Iterators :
        Visiting[i] = IF i \in {End, Crash} THEN <<>>
                      ELSE <<i>> \o Visiting[update(Inc(i, 0), 0)]
  BY <1>8
<1> DEFINE Sequenced == {i \in Iterators : Visiting[i] \in Seq(Iterators)}
<1>10. ASSUME NEW i \in Iterators, \A y \in Iterators : Rank[y] < Rank[i] => y \in Sequenced
       PROVE  i \in Sequenced
  <2>1. CASE i \in Stopped
    <3>1. Visiting[i] = <<>>
      BY <1>9, <2>1 DEF Stopped
    <3>2. <<>> \in Seq(Iterators)
      OBVIOUS
    <3> QED
      BY <3>1, <3>2
  <2>2. CASE i \notin Stopped
    <3>1. PICK y : y = update(Inc(i, 0), 0)
      OBVIOUS
    <3>2. y \in Iterators /\ Far(y) < Far(i)
      BY <1>2, <2>2, <3>1
    <3>3. Visiting[y] \in Seq(Iterators)
      BY <1>10, <3>2
    <3>4. Visiting[i] = <<i>> \o Visiting[y]
      BY <1>9, <2>2, <3>1 DEF Stopped
    <3>5. <<i>> \in Seq(Iterators)
      OBVIOUS
    <3>6. \A s \in Seq(Iterators) : <<i>> \o s \in Seq(Iterators)
      BY <3>5, ConcatProperties
    <3> QED
      BY <3>3, <3>4, <3>6
  <2> QED
    BY <2>1, <2>2
<1>11. Iterators \subseteq Sequenced
  <2>1. Rank \in [Iterators -> Nat]
    BY <1>1
  <2> HIDE DEF Sequenced, Rank
  <2> QED
    BY <1>10, <2>1, RankInduction
<1>12. begin(0) \in Iterators
  <2>1. DOMAIN Features \cup {EndName} \subseteq Nat
    BY EndsAre DEF Named
  <2>2. PICK first : first = Min(DOMAIN Features \cup {EndName})
    OBVIOUS
  <2>3. first \in DOMAIN Features \cup {EndName}
    BY ONLY <2>1, <2>2, MinOf
  <2>4. Enter(first) \in InSet \cup {End, Crash}
    BY <2>3, EnterIs
  <2>5. InSet \cup {End, Crash} \subseteq Iterators
    BY PairsAre, EndsAre DEF Iterators, End, Crash
  <2>6. begin(0) = update(Enter(first), 0)
    BY <2>2 DEF begin
  <2> QED
    BY <2>4, <2>5, <2>6, UpdateComesCloser
<1> QED
  BY <1>11, <1>12, LoopIsVisiting

(* What the search finds from each pair on, with each index.                *)
Searching(counted, wanted) ==
  CHOOSE from : from = [p \in 1..Len(Loop) + 1 |->
    [n \in Index |->
       IF p > Len(Loop) THEN Failed
       ELSE IF n = 0 /\ p \in wanted THEN Loop[p]
       ELSE from[p + 1][IF p \in counted THEN (n - 1) % 2 ^ Width ELSE n]]]

LEMMA SearchIsSearching ==
  ASSUME NEW N, NEW counted, NEW wanted
  PROVE  Search(N, counted, wanted) = Searching(counted, wanted)[1][N]
BY DEF Search, Searching

LEMMA RemainderIs ==
  ASSUME NEW m \in Nat \ {0}, NEW n \in 0..m - 1
  PROVE  n \in Nat /\ (n - 1) % m \in 0..m - 1 /\ (n # 0 => (n - 1) % m = n - 1)
<1>1. (n - 1) % m \in 0..m - 1
  OBVIOUS
<1>2. n # 0 => n - 1 \in 0..m - 1
  OBVIOUS
<1>3. ASSUME NEW k \in 0..m - 1
      PROVE  k % m = k
  OBVIOUS
<1> QED
  BY <1>1, <1>2, <1>3

LEMMA IndexIs ==
  ASSUME NEW n \in Index
  PROVE  /\ n \in Nat
         /\ (n - 1) % 2 ^ Width \in Index
         /\ n # 0 => (n - 1) % 2 ^ Width = n - 1
<1>1. PICK m : m = 2 ^ Width
  OBVIOUS
<1>2. m \in Nat \ {0} /\ n \in 0..m - 1
  BY <1>1, WidthAssumption DEF Index
<1>3. n \in Nat /\ (n - 1) % m \in 0..m - 1 /\ (n # 0 => (n - 1) % m = n - 1)
  BY ONLY <1>2, RemainderIs
<1> QED
  BY <1>1, <1>3 DEF Index

LEMMA SearchingIs ==
  ASSUME Named, NEW counted, NEW wanted
  PROVE  \A p \in 1..Len(Loop) + 1 : \A n \in Index :
           Searching(counted, wanted)[p][n] =
             IF p > Len(Loop) THEN Failed
             ELSE IF n = 0 /\ p \in wanted THEN Loop[p]
             ELSE Searching(counted, wanted)
                    [p + 1][IF p \in counted THEN (n - 1) % 2 ^ Width ELSE n]
<1> DEFINE Places == 1..Len(Loop) + 1
           Found == [Index -> Iterators \cup {Failed}]
           Stops == {Len(Loop) + 1}
           Step == [p \in Places |-> IF p > Len(Loop) THEN p ELSE p + 1]
           Rank == [p \in Places |-> Len(Loop) + 1 - p]
           Base == [p \in Places |-> [n \in Index |-> Failed]]
           Look == [p \in Places |-> [g \in Found |->
                      [n \in Index |->
                         IF n = 0 /\ p \in wanted THEN Loop[p]
                         ELSE g[IF p \in counted THEN (n - 1) % 2 ^ Width ELSE n]]]]
           Good(from) == from = [p \in 1..Len(Loop) + 1 |->
             [n \in Index |->
                IF p > Len(Loop) THEN Failed
                ELSE IF n = 0 /\ p \in wanted THEN Loop[p]
                ELSE from[p + 1][IF p \in counted THEN (n - 1) % 2 ^ Width ELSE n]]]
<1>1. Len(Loop) \in Nat /\ \A p \in 1..Len(Loop) : Loop[p] \in Iterators
  BY LoopIsSeq, LenProperties, ElementOfSeq
<1>2. \A p \in Places : /\ p \in Stops <=> p > Len(Loop)
                        /\ p \notin Stops => p \in 1..Len(Loop) /\ p + 1 \in Places
  BY <1>1
<1>3. Lowers(Step, Places, Stops, Rank, Len(Loop) + 1)
  <2>1. Step \in [Places -> Places] /\ Rank \in [Places -> 0..Len(Loop) + 1]
    BY <1>1
  <2>2. \A p \in Places \ Stops : Rank[Step[p]] < Rank[p]
    BY <1>1
  <2> QED
    BY <1>1, <2>1, <2>2 DEF Lowers
<1>4. Computes(Base, Look, Places, Stops, Found)
  <2>1. [n \in Index |-> Failed] \in Found
    OBVIOUS
  <2>2. ASSUME NEW p \in Places \ Stops, NEW g \in Found
        PROVE  Look[p][g] \in Found
    <3>1. Loop[p] \in Iterators
      BY <1>1, <1>2
    <3>2. \A n \in Index : (IF p \in counted THEN (n - 1) % 2 ^ Width ELSE n) \in Index
      BY IndexIs
    <3>3. Look[p][g] = [n \in Index |->
                          IF n = 0 /\ p \in wanted THEN Loop[p]
                          ELSE g[IF p \in counted THEN (n - 1) % 2 ^ Width ELSE n]]
      OBVIOUS
    <3> HIDE DEF Look
    <3> QED
      BY <3>1, <3>2, <3>3
  <2> QED
    BY <2>1, <2>2 DEF Computes
<1>5. PICK on \in [Places -> Found] : \A p \in Places :
        on[p] = IF p \in Stops THEN Base[p] ELSE Look[p][on[Step[p]]]
  <2> HIDE DEF Step, Rank, Base, Look, Places, Stops, Found
  <2> QED
    BY ONLY <1>3, <1>4, RecursionExists
<1>6. ASSUME NEW p \in Places
      PROVE  on[p] = [n \in Index |->
               IF p > Len(Loop) THEN Failed
               ELSE IF n = 0 /\ p \in wanted THEN Loop[p]
               ELSE on[p + 1][IF p \in counted THEN (n - 1) % 2 ^ Width ELSE n]]
  <2>1. CASE p > Len(Loop)
    <3>1. on[p] = [n \in Index |-> Failed]
      BY <1>2, <1>5, <2>1
    <3> QED
      BY <2>1, <3>1
  <2>2. CASE ~(p > Len(Loop))
    <3>1. p \notin Stops /\ Step[p] = p + 1 /\ p + 1 \in Places
      BY <1>2, <2>2
    <3>2. PICK g \in Found : g = on[p + 1]
      BY <3>1
    <3>3. on[p] = Look[p][g]
      BY <1>5, <3>1, <3>2
    <3>4. Look[p][g] = [n \in Index |->
                          IF n = 0 /\ p \in wanted THEN Loop[p]
                          ELSE g[IF p \in counted THEN (n - 1) % 2 ^ Width ELSE n]]
      OBVIOUS
    <3> HIDE DEF Look
    <3> QED
      BY <2>2, <3>2, <3>3, <3>4
  <2> QED
    BY <2>1, <2>2
<1>7. Good(on)
  BY <1>5, <1>6
<1>8. Good(Searching(counted, wanted))
  BY <1>7 DEF Searching
<1> QED
  BY <1>8

(* The pair at p, of those that are wanted, is found from every place in     *)
(* front of it with the number of those between them.                       *)
LEMMA SearchFinds ==
  ASSUME Named, NEW wanted, wanted \subseteq DOMAIN Loop, NEW p \in wanted,
         Number(p, wanted) \in Index
  PROVE  Search(Number(p, wanted), wanted, wanted) = Loop[p]
<1> DEFINE Behind(k) == Number(p, wanted) - Number(k, wanted)
           Found == {j \in Nat : j < p =>
                       /\ Behind(p - j) \in Index
                       /\ Searching(wanted, wanted)[p - j][Behind(p - j)] = Loop[p]}
<1>1. Len(Loop) \in Nat /\ DOMAIN Loop = 1..Len(Loop)
  BY LoopIsSeq, LenProperties
<1>2. IsFiniteSet(wanted) /\ wanted \subseteq 1..Len(Loop)
  <2>1. 1 \in Int /\ Len(Loop) \in Int
    BY <1>1
  <2>2. IsFiniteSet(1..Len(Loop))
    BY <2>1, FS_Interval
  <2> QED
    BY <1>1, <2>2, FS_Subset
<1>3. p \in 1..Len(Loop) /\ p \in Nat
  BY <1>1, <1>2
<1>4. ASSUME NEW k \in 1..Len(Loop)
      PROVE  /\ Number(k, wanted) \in Nat /\ Number(k + 1, wanted) \in Nat
             /\ Number(k + 1, wanted) = Number(k, wanted) + IF k \in wanted THEN 1 ELSE 0
             /\ k < p => Number(k + 1, wanted) <= Number(p, wanted)
  <2>1. PICK before, upto, beforep : /\ before = {q \in wanted : q < k}
                                     /\ upto = {q \in wanted : q < k + 1}
                                     /\ beforep = {q \in wanted : q < p}
    OBVIOUS
  <2>2. /\ IsFiniteSet(before) /\ IsFiniteSet(upto) /\ IsFiniteSet(beforep)
        /\ Cardinality(before) \in Nat /\ Cardinality(upto) \in Nat
    BY <1>2, <2>1, FS_Subset, FS_CardinalityType
  <2>3. k \notin before
    BY <2>1
  <2>4. ASSUME k \in wanted
        PROVE  Cardinality(upto) = Cardinality(before) + 1
    <3>1. \A q \in wanted : q < k + 1 <=> (q < k \/ q = k)
      BY <1>2
    <3>2. upto = before \cup {k}
      BY <2>1, <2>4, <3>1
    <3> QED
      BY <2>2, <2>3, <3>2, FS_AddElement
  <2>5. ASSUME k \notin wanted
        PROVE  Cardinality(upto) = Cardinality(before)
    <3>1. \A q \in wanted : q < k + 1 <=> q < k
      BY <1>2, <2>5
    <3>2. upto = before
      BY <2>1, <3>1
    <3> QED
      BY <3>2
  <2>6. k < p => upto \subseteq beforep
    BY <1>2, <1>3, <2>1
  <2>7. k < p => Cardinality(upto) <= Cardinality(beforep)
    BY <2>2, <2>6, FS_Subset
  <2>8. /\ Number(k, wanted) = Cardinality(before) /\ Number(k + 1, wanted) = Cardinality(upto)
        /\ Number(p, wanted) = Cardinality(beforep)
    BY <2>1 DEF Number
  <2>9. Number(k + 1, wanted) = Number(k, wanted) + IF k \in wanted THEN 1 ELSE 0
    BY <2>2, <2>4, <2>5, <2>8
  <2> QED
    BY <2>2, <2>7, <2>8, <2>9
<1>5. 2 ^ Width \in Nat \ {0} /\ Index = 0..2 ^ Width - 1 /\ Number(p, wanted) \in Nat
  BY WidthAssumption, IndexIs DEF Index
<1>6. 0 \in Found
  <2>1. Behind(p) = 0 /\ 0 \in Index
    BY <1>5
  <2>2. p \in 1..Len(Loop) + 1 /\ ~(p > Len(Loop)) /\ p - 0 = p
    BY <1>1, <1>3
  <2>3. PICK n \in Index : n = 0
    BY <2>1
  <2>4. Searching(wanted, wanted)[p][n] =
          IF p > Len(Loop) THEN Failed
          ELSE IF n = 0 /\ p \in wanted THEN Loop[p]
          ELSE Searching(wanted, wanted)
                 [p + 1][IF p \in wanted THEN (n - 1) % 2 ^ Width ELSE n]
    BY <2>2, SearchingIs
  <2>5. Searching(wanted, wanted)[p][n] = Loop[p]
    BY ONLY <2>2, <2>3, <2>4, p \in wanted
  <2> QED
    BY <2>1, <2>2, <2>3, <2>5
<1>7. ASSUME NEW j \in Nat, j \in Found
      PROVE  j + 1 \in Found
  <2> SUFFICES ASSUME j + 1 < p
               PROVE  /\ Behind(p - (j + 1)) \in Index
                      /\ Searching(wanted, wanted)[p - (j + 1)][Behind(p - (j + 1))] = Loop[p]
    OBVIOUS
  <2>1. PICK k : k = p - (j + 1)
    OBVIOUS
  <2>2. k \in 1..Len(Loop) /\ k < p /\ k + 1 = p - j /\ j < p
    BY <1>1, <1>3, <2>1
  <2>3. Behind(k + 1) \in Index /\ Searching(wanted, wanted)[k + 1][Behind(k + 1)] = Loop[p]
    BY <1>7, <2>2
  <2>4. /\ Number(k, wanted) \in Nat /\ Number(k + 1, wanted) \in Nat
        /\ Number(k + 1, wanted) = Number(k, wanted) + IF k \in wanted THEN 1 ELSE 0
        /\ Number(k + 1, wanted) <= Number(p, wanted)
    BY <1>4, <2>2
  <2>5. Behind(k) \in Index
    BY <1>5, <2>4, Number(p, wanted) \in Index
  <2>6. k \in wanted => Behind(k) # 0 /\ Behind(k + 1) = Behind(k) - 1
    BY <1>5, <2>4
  <2>7. k \notin wanted => Behind(k + 1) = Behind(k)
    BY <1>5, <2>4
  <2>8. k \in wanted => (Behind(k) - 1) % 2 ^ Width = Behind(k) - 1
    <3> HIDE DEF Behind
    <3> QED
      BY <2>5, <2>6, IndexIs
  <2>9. k \in 1..Len(Loop) + 1 /\ ~(k > Len(Loop))
    BY <1>1, <2>2
  <2>10. Searching(wanted, wanted)[k][Behind(k)] =
           Searching(wanted, wanted)
             [k + 1][IF k \in wanted THEN (Behind(k) - 1) % 2 ^ Width ELSE Behind(k)]
    <3> HIDE DEF Behind
    <3> QED
      BY <2>5, <2>6, <2>9, SearchingIs
  <2> HIDE DEF Behind
  <2> QED
    BY <2>1, <2>3, <2>5, <2>6, <2>7, <2>8, <2>10
<1>8. Nat \subseteq Found
  <2> HIDE DEF Found
  <2> QED
    BY <1>6, <1>7, SetInduction
<1>9. p - 1 \in Nat /\ p - 1 < p /\ p - (p - 1) = 1
  BY <1>3
<1>10. Searching(wanted, wanted)[1][Behind(1)] = Loop[p]
  <2> HIDE DEF Behind
  <2> QED
    BY <1>8, <1>9
<1>11. Number(1, wanted) = 0
  <2>1. {q \in wanted : q < 1} = {}
    BY <1>2
  <2> QED
    BY <2>1, FS_EmptySet DEF Number
<1>12. Behind(1) = Number(p, wanted)
  BY <1>5, <1>11
<1> HIDE DEF Behind
<1> QED
  BY <1>10, <1>12, SearchIsSearching

(* With every index below count(kind, type), get(N, kind, type) finds the Nth *)
(* enabled feature of that kind and type, for any features, kinds and types, *)
(* whatever is enabled, and any width of an index.                          *)
THEOREM NthIsFound == Spec => []NthOfKindAndType
<1>1. Init => Named
  BY DEF Init, Named, None
<1>2. Named /\ [Next]_vars => Named'
  BY NamedStep
<1>3. ASSUME Named
      PROVE  NthOfKindAndType
  <2>1. ASSUME NEW k \in Kinds, NEW t \in Types, NEW p \in KindAndTyped(k, t),
               Number(p, KindAndTyped(k, t)) \in Index
        PROVE  getOfKindAndType(Number(p, KindAndTyped(k, t)), k, t) = Loop[p]
    <3>1. PICK wanted : wanted = KindAndTyped(k, t)
      OBVIOUS
    <3>2. wanted \subseteq DOMAIN Loop
      BY <3>1 DEF KindAndTyped
    <3>3. Search(Number(p, wanted), wanted, wanted) = Loop[p]
      BY <1>3, <2>1, <3>1, <3>2, SearchFinds
    <3> QED
      BY <3>1, <3>3 DEF getOfKindAndType
  <2> QED
    BY <2>1 DEF NthOfKindAndType
<1> QED
  BY <1>1, <1>2, <1>3, PTL DEF Spec

================================================================================
