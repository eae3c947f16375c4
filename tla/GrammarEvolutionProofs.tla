----------------------- MODULE GrammarEvolutionProofs -----------------------
(***************************************************************************)
(* Proofs about GrammarEvolution and Strategies, for every value of their     *)
(* constants.                                                              *)
(*                                                                         *)
(* The order of the knowledge base is computed through pointers, so that    *)
(* EntriesDistinct is not inductive: it needs that the objects the base     *)
(* points to are live and were created before this generation, while        *)
(* evolve() and generateMissing() only write objects of this generation.    *)
(***************************************************************************)
EXTENDS Strategies, SequenceTheorems, FiniteSetTheorems, TLAPS

(* The types of GrammarEvolution as sets. *)
Genome    == UNION {[D -> Object] : D \in SUBSET AllPoints}
Candidate == [genome : Genome, total : Nat, count : Nat]
Pair      == [score : Outcomes, cand : Candidate]

Typed ==
  /\ pc \in {"import", "select", "evolve", "evaluate", "update", "report",
             "export", "done"}
  /\ gen \in 0..GenerationsNumber
  /\ at \in Nat \ {0}
  /\ DOMAIN heap \subseteq Object
  /\ heap \in [DOMAIN heap -> Formula]
  /\ KnowledgeBase \subseteq Candidate
  /\ BestCandidates \in Seq(Candidate)
  /\ elite = <<>> \/ \E k \in Candidate : elite = <<k>>
  /\ RankingTmp \subseteq Pair
  /\ Ranking \subseteq Outcomes
  /\ best = <<>> \/ best \in {<<s>> : s \in Outcomes}
  /\ file \subseteq SavedCandidate
  /\ imported \subseteq SavedCandidate
  /\ measured \subseteq Outcomes

Live(c) == \A d \in DOMAIN c.genome : c.genome[d] \in DOMAIN heap

(* The formulas of c were created in generation g or before. *)
Born(c, g) == \A d \in DOMAIN c.genome : c.genome[d][1] <= g

(* The knowledge base points to formulas of earlier generations, until it is *)
(* updated with those of this one.                                          *)
KnowledgeSound ==
  \A k \in KnowledgeBase :
    /\ Live(k)
    /\ k.count > 0
    /\ Born(k, IF pc = "update" THEN gen + 1 ELSE gen)

(* The clones of a generation own their formulas until they are evaluated.   *)
ClonesSound ==
  pc = "evolve" =>
    /\ \A i \in DOMAIN BestCandidates :
         \A d \in DOMAIN BestCandidates[i].genome :
           BestCandidates[i].genome[d] = <<gen + 1, i, d>>
    /\ elite # <<>>
    /\ elite[1] \in KnowledgeBase

GenerationSound ==
  /\ pc = "import" => KnowledgeBase = {} /\ file \in KnowledgeBaseFiles
  /\ pc \notin {"evolve", "evaluate", "update"} => BestCandidates = <<>>
  /\ pc \notin {"evaluate", "update"} => RankingTmp = {}
  /\ pc \in {"select", "evolve", "evaluate", "update"} => gen < GenerationsNumber
  /\ \A i \in DOMAIN BestCandidates :
       Live(BestCandidates[i]) /\ Born(BestCandidates[i], gen + 1)
  /\ \A p \in RankingTmp : Live(p.cand) /\ Born(p.cand, gen + 1)

IInv ==
  /\ Typed
  /\ KnowledgeSound
  /\ ClonesSound
  /\ GenerationSound
  /\ EntriesDistinct

-----------------------------------------------------------------------------
(* Writing objects keeps those that were there and types what it writes.     *)
LEMMA WrittenFacts ==
  ASSUME NEW h, NEW w
  PROVE  /\ DOMAIN Written(h, w) = DOMAIN h \cup DOMAIN w
         /\ \A o \in DOMAIN h : o \notin DOMAIN w => Written(h, w)[o] = h[o]
         /\ \A o \in DOMAIN w : Written(h, w)[o] = w[o]
         /\ /\ \A o \in DOMAIN h : h[o] \in Formula
            /\ \A o \in DOMAIN w : w[o] \in Formula
            => Written(h, w) \in [DOMAIN Written(h, w) -> Formula]
  BY DEF Written

LEMMA CandidateFacts ==
  ASSUME NEW c \in Candidate
  PROVE  /\ IsCandidate(c)
         /\ DOMAIN c.genome \subseteq AllPoints
         /\ c.genome \in [DOMAIN c.genome -> Object]
         /\ c.total \in Nat
         /\ c.count \in Nat
<1>1. PICK D \in SUBSET AllPoints : c.genome \in [D -> Object]
  BY DEF Candidate, Genome
<1>2. DOMAIN c.genome = D
  BY <1>1
<1>3. c = [genome |-> c.genome, total |-> c.total, count |-> c.count]
  BY DEF Candidate
<1> QED
  BY <1>1, <1>2, <1>3 DEF Candidate, IsCandidate

(* What IsCandidate describes is a member of Candidate, and conversely. *)
LEMMA CandidateIntro ==
  ASSUME NEW g, NEW t \in Nat, NEW n \in Nat,
         DOMAIN g \subseteq AllPoints, g \in [DOMAIN g -> Object]
  PROVE  [genome |-> g, total |-> t, count |-> n] \in Candidate
<1>1. g \in Genome
  BY DEF Genome
<1> QED
  BY <1>1 DEF Candidate

(* The set form of the types implies the form TLC checks. *)
LEMMA TypedImpliesTypeOK ==
  ASSUME Typed PROVE TypeOK
<1>1. \A k \in KnowledgeBase : IsCandidate(k)
  BY CandidateFacts DEF Typed
<1>2. \A i \in DOMAIN BestCandidates : IsCandidate(BestCandidates[i])
  BY CandidateFacts DEF Typed
<1>3. ASSUME NEW p \in RankingTmp PROVE IsPair(p)
  <2>1. /\ p \in Pair
        /\ p.cand \in Candidate
    BY DEF Typed, Pair
  <2> QED
    BY <2>1, CandidateFacts DEF IsPair, Pair
<1>4. BestCandidates = [i \in 1..Len(BestCandidates) |-> BestCandidates[i]]
  BY DEF Typed
<1>5. elite = <<>> \/ (elite = <<elite[1]>> /\ IsCandidate(elite[1]))
  BY CandidateFacts DEF Typed
<1> QED
  BY <1>1, <1>2, <1>3, <1>4, <1>5 DEF Typed, TypeOK

-----------------------------------------------------------------------------
LEMMA InitSound ==
  ASSUME Init PROVE IInv
<1>1. file \subseteq SavedCandidate
  BY FilesAssumption DEF Init
<1>2. Typed
  BY <1>1, ParametersAssumption DEF Init, Typed
<1> QED
  BY <1>2 DEF Init, IInv, KnowledgeSound, ClonesSound, GenerationSound, EntriesDistinct

LEMMA StutterSound ==
  ASSUME IInv, UNCHANGED vars PROVE IInv'
BY DEF vars, generation, results, history, IInv, Typed, KnowledgeSound, ClonesSound,
       GenerationSound, EntriesDistinct, Live, Born, Equal, Key

LEMMA ImportSound ==
  ASSUME IInv, ImportKnowledgeBase PROVE IInv'
<1>1. PICK order \in [1..Cardinality(file) -> file] :
        /\ \A i, j \in DOMAIN order : order[i] = order[j] => i = j
        /\ heap' = [o \in UNION {{<<0, i, d>> : d \in DOMAIN order[i].formulas} :
                                   i \in DOMAIN order} |->
                      order[o[2]].formulas[o[3]]]
        /\ KnowledgeBase' =
             {[genome |-> [d \in DOMAIN order[i].formulas |-> <<0, i, d>>],
               total  |-> order[i].total,
               count  |-> order[i].count] : i \in DOMAIN order}
  BY DEF ImportKnowledgeBase
<1> DEFINE cand(i) == [genome |-> [d \in DOMAIN order[i].formulas |-> <<0, i, d>>],
                       total  |-> order[i].total,
                       count  |-> order[i].count]
<1>2. /\ gen' = gen /\ gen = gen' /\ at' = at
      /\ BestCandidates' = BestCandidates
      /\ elite' = elite
      /\ RankingTmp' = RankingTmp
      /\ Ranking' = Ranking
      /\ best' = best
      /\ file' = file
      /\ imported' = imported
      /\ measured' = measured
      /\ pc' = NextGeneration(gen)
      /\ pc = "import"
  BY DEF ImportKnowledgeBase, generation, results, history
<1>3. Typed
  BY DEF IInv
<1>4. file \in KnowledgeBaseFiles /\ RankingTmp = {}
  BY <1>2 DEF IInv, GenerationSound
<1>5. ASSUME NEW i \in DOMAIN order
      PROVE  /\ i \in Nat
             /\ order[i] \in file
             /\ order[i] \in SavedCandidate
             /\ DOMAIN order[i].formulas \subseteq AllPoints
             /\ order[i].formulas \in [DOMAIN order[i].formulas -> Formula]
             /\ order[i].total \in Nat
             /\ order[i].count \in Nat \ {0}
  <2>1. order[i] \in SavedCandidate /\ i \in Nat
    BY <1>3 DEF Typed
  <2>2. PICK D \in SUBSET AllPoints : order[i].formulas \in [D -> Formula]
    BY <2>1 DEF SavedCandidate
  <2>3. DOMAIN order[i].formulas = D
    BY <2>2
  <2> QED
    BY <2>1, <2>2, <2>3 DEF SavedCandidate
<1>6. ASSUME NEW i \in DOMAIN order, NEW d \in DOMAIN order[i].formulas
      PROVE  /\ <<0, i, d>> \in DOMAIN heap'
             /\ heap'[<<0, i, d>>] = order[i].formulas[d]
  BY <1>1
<1>7. ASSUME NEW i \in DOMAIN order PROVE cand(i) \in Candidate
  <2>1. [d \in DOMAIN order[i].formulas |-> <<0, i, d>>]
          \in [DOMAIN order[i].formulas -> Object]
    BY <1>5 DEF Object
  <2> QED
    BY <2>1, <1>5, CandidateIntro
<1>8. DOMAIN heap' \subseteq Object /\ heap' \in [DOMAIN heap' -> Formula]
  <2>1. ASSUME NEW o \in DOMAIN heap'
        PROVE  o \in Object /\ heap'[o] \in Formula
    <3>1. PICK i \in DOMAIN order : \E d \in DOMAIN order[i].formulas : o = <<0, i, d>>
      BY <1>1
    <3>2. PICK d \in DOMAIN order[i].formulas : o = <<0, i, d>>
      BY <3>1
    <3> QED
      BY <3>2, <1>5, <1>6 DEF Object
  <2> QED
    BY <2>1, <1>1
<1>9. Typed'
  <2>1. KnowledgeBase' \subseteq Candidate
    BY <1>1, <1>7
  <2>2. pc' \in {"select", "report"}
    BY <1>2 DEF NextGeneration
  <2> QED
    BY <2>1, <2>2, <1>2, <1>3, <1>8 DEF Typed
<1>10. ASSUME NEW i \in DOMAIN order
       PROVE  Key(cand(i), heap') = ShapeOf(order[i].formulas)
  BY <1>6 DEF Key, ShapeOf
<1>11. EntriesDistinct'
  <2>1. SUFFICES ASSUME NEW i \in DOMAIN order, NEW j \in DOMAIN order,
                        Key(cand(i), heap') = Key(cand(j), heap')
                 PROVE  cand(i) = cand(j)
    BY <1>1 DEF EntriesDistinct, Equal
  <2>2. order[i] = order[j]
    BY <2>1, <1>4, <1>5, <1>10, FilesAssumption
  <2>3. i = j
    BY <1>1, <2>2
  <2> QED
    BY <2>3
<1>12. KnowledgeSound'
  <2>1. SUFFICES ASSUME NEW i \in DOMAIN order
                 PROVE  /\ Live(cand(i))'
                        /\ cand(i).count > 0
                        /\ Born(cand(i), gen)
    <3>1. pc' # "update" /\ gen' = gen
      BY <1>2 DEF NextGeneration
    <3> QED
      BY <1>1, <3>1 DEF KnowledgeSound, Born
  <2>2. Live(cand(i))'
    BY <1>6 DEF Live
  <2>3. cand(i).count > 0
    BY <1>5
  <2>4. Born(cand(i), gen)
    BY <1>3 DEF Typed, Born
  <2> QED
    BY <2>2, <2>3, <2>4
<1>13. ClonesSound' /\ GenerationSound'
  <2>1. NextGeneration(gen) \in {"select", "report"}
        /\ (NextGeneration(gen) = "select" => gen < GenerationsNumber)
    BY DEF NextGeneration
  <2>2. BestCandidates = <<>>
    BY <1>2 DEF IInv, GenerationSound
  <2> QED
    BY <2>1, <2>2, <1>2, <1>4 DEF ClonesSound, GenerationSound
<1> QED
  BY <1>9, <1>11, <1>12, <1>13 DEF IInv

(* A choice of the best candidates is a vector of known candidates. *)
LEMMA BestFirstFacts ==
  ASSUME IInv, NEW s \in BestFirst
  PROVE  /\ s \in Seq(KnowledgeBase)
         /\ \A i \in DOMAIN s : i \in Nat \ {0} /\ s[i] \in KnowledgeBase /\ s[i] \in Candidate
<1>1. PICK n \in 0..CandidatesNumber : s \in [1..n -> KnowledgeBase]
  BY DEF BestFirst
<1>2. n \in Nat
  BY ParametersAssumption
<1>3. s \in Seq(KnowledgeBase)
  BY <1>1, <1>2, SeqDef
<1> QED
  BY <1>1, <1>2, <1>3 DEF IInv, Typed

(* A clone has the scores of its origin and objects named after its slot.   *)
LEMMA CloneFacts ==
  ASSUME gen \in Nat, NEW c \in Candidate, NEW i \in Nat
  PROVE  /\ Clone(c, i) \in Candidate
         /\ DOMAIN Clone(c, i).genome = DOMAIN c.genome
         /\ \A d \in DOMAIN c.genome : Clone(c, i).genome[d] = <<gen + 1, i, d>>
         /\ Clone(c, i).total = c.total
         /\ Clone(c, i).count = c.count
         /\ Objects(Clone(c, i)) = {<<gen + 1, i, d>> : d \in DOMAIN c.genome}
<1> DEFINE g == [d \in DOMAIN c.genome |-> <<gen + 1, i, d>>]
<1>1. /\ DOMAIN c.genome \subseteq AllPoints
      /\ c.total \in Nat /\ c.count \in Nat
      /\ c = [genome |-> c.genome, total |-> c.total, count |-> c.count]
  BY CandidateFacts DEF IsCandidate
<1>2. Clone(c, i) = [genome |-> g, total |-> c.total, count |-> c.count]
  BY <1>1 DEF Clone
<1>3. g \in [DOMAIN g -> Object] /\ DOMAIN g = DOMAIN c.genome
  BY <1>1 DEF Object
<1>4. Clone(c, i) \in Candidate
  BY <1>1, <1>2, <1>3, CandidateIntro
<1>5. /\ Clone(c, i).genome = g
      /\ Clone(c, i).total = c.total
      /\ Clone(c, i).count = c.count
  BY <1>2
<1>6. Objects(Clone(c, i)) = {g[d] : d \in DOMAIN g}
  BY <1>5 DEF Objects
<1>7. {g[d] : d \in DOMAIN g} = {<<gen + 1, i, d>> : d \in DOMAIN c.genome}
  OBVIOUS
<1>8. \A d \in DOMAIN c.genome : Clone(c, i).genome[d] = <<gen + 1, i, d>>
  BY <1>5
<1> QED
  BY <1>3, <1>4, <1>5, <1>6, <1>7, <1>8

LEMMA SelectSound ==
  ASSUME IInv, SelectBest PROVE IInv'
<1>1. PICK s \in BestFirst :
       IF s # <<>>
       THEN /\ BestCandidates' = [i \in DOMAIN s |-> Clone(s[i], i)]
            /\ heap' = Written(heap,
                 [o \in UNION {Objects(Clone(s[i], i)) : i \in DOMAIN s} |->
                    heap[s[o[2]].genome[o[3]]]])
            /\ elite' = <<s[1]>>
            /\ pc' = "evolve"
       ELSE /\ BestCandidates' = [i \in 1..CandidatesNumber |-> EmptyCandidate]
            /\ elite' = <<>>
            /\ pc' = "evaluate"
            /\ UNCHANGED heap
  BY DEF SelectBest
<1>2. /\ gen' = gen /\ at' = 1 /\ KnowledgeBase' = KnowledgeBase
      /\ RankingTmp' = RankingTmp /\ Ranking' = Ranking /\ best' = best
      /\ file' = file /\ imported' = imported /\ measured' = measured
      /\ pc = "select"
  BY DEF SelectBest, results, history
<1>3. Typed /\ RankingTmp = {} /\ gen < GenerationsNumber
  BY <1>2 DEF IInv, GenerationSound
<1>4. /\ s \in Seq(KnowledgeBase)
      /\ \A i \in DOMAIN s : i \in Nat \ {0} /\ s[i] \in KnowledgeBase /\ s[i] \in Candidate
  BY BestFirstFacts
<1>5. CASE s # <<>>
  <2> DEFINE copies == UNION {Objects(Clone(s[i], i)) : i \in DOMAIN s}
             w == [o \in copies |-> heap[s[o[2]].genome[o[3]]]]
  <2>1. ASSUME NEW i \in DOMAIN s
        PROVE  /\ Clone(s[i], i) \in Candidate
               /\ DOMAIN Clone(s[i], i).genome = DOMAIN s[i].genome
               /\ \A d \in DOMAIN s[i].genome : Clone(s[i], i).genome[d] = <<gen + 1, i, d>>
               /\ Objects(Clone(s[i], i)) = {<<gen + 1, i, d>> : d \in DOMAIN s[i].genome}
    <3>1. s[i] \in Candidate /\ i \in Nat /\ gen \in Nat
      BY <1>3, <1>4 DEF Typed
    <3> QED
      BY <3>1, CloneFacts
  <2>2. ASSUME NEW o \in copies
        PROVE  /\ o \in Object
               /\ o[1] = gen + 1
               /\ w[o] \in Formula
    <3>1. PICK i \in DOMAIN s : o \in Objects(Clone(s[i], i))
      OBVIOUS
    <3>2. PICK d \in DOMAIN s[i].genome : o = <<gen + 1, i, d>>
      <4>1. Objects(Clone(s[i], i)) = {<<gen + 1, i, d>> : d \in DOMAIN s[i].genome}
        BY <2>1
      <4> QED
        BY <3>1, <4>1
    <3>3. s[i].genome[d] \in DOMAIN heap
      BY <1>4 DEF IInv, KnowledgeSound, Live
    <3>4. heap[s[i].genome[d]] \in Formula
      BY <1>3, <3>3 DEF Typed
    <3>5. d \in AllPoints
      BY <1>4, CandidateFacts
    <3>6. gen \in Nat /\ i \in Nat
      BY <1>3, <1>4 DEF Typed
    <3>7. o \in Object /\ o[1] = gen + 1 /\ o[2] = i /\ o[3] = d
      BY <3>2, <3>5, <3>6 DEF Object
    <3>8. w[o] = heap[s[i].genome[d]]
      BY <3>7
    <3> QED
      BY <3>4, <3>7, <3>8
  <2>3. ASSUME NEW i \in DOMAIN s, NEW d \in DOMAIN s[i].genome
        PROVE  <<gen + 1, i, d>> \in copies
    <3>1. <<gen + 1, i, d>> \in Objects(Clone(s[i], i))
      BY <2>1
    <3> QED
      BY <3>1
  <2>4. heap' = Written(heap, w) /\ DOMAIN w = copies
    BY <1>1, <1>5
  <2>5. /\ DOMAIN heap' = DOMAIN heap \cup copies
        /\ heap' \in [DOMAIN heap' -> Formula]
        /\ \A o \in DOMAIN heap : o \notin copies => heap'[o] = heap[o]
    <3>1. \A o \in DOMAIN heap : heap[o] \in Formula
      BY <1>3 DEF Typed
    <3>2. \A o \in DOMAIN w : w[o] \in Formula
      BY <2>2, <2>4
    <3> HIDE DEF w, copies
    <3>3. /\ DOMAIN Written(heap, w) = DOMAIN heap \cup DOMAIN w
          /\ \A o \in DOMAIN heap : o \notin DOMAIN w => Written(heap, w)[o] = heap[o]
          /\ Written(heap, w) \in [DOMAIN Written(heap, w) -> Formula]
      BY <3>1, <3>2, WrittenFacts
    <3> QED
      BY <2>4, <3>3
  <2>6. BestCandidates' \in Seq(Candidate)
    <3>1. PICK n \in Nat : s \in [1..n -> KnowledgeBase]
      BY <1>4, SeqDef
    <3>2. BestCandidates' = [i \in DOMAIN s |-> Clone(s[i], i)]
      BY <1>1, <1>5
    <3>3. DOMAIN s = 1..n
      BY <3>1
    <3>4. \A i \in DOMAIN s : Clone(s[i], i) \in Candidate
      BY <2>1
    <3>5. BestCandidates' \in [1..n -> Candidate]
      BY <3>2, <3>3, <3>4
    <3> QED
      BY <3>5, SeqDef
  <2>7. 1 \in DOMAIN s
    BY <1>4, <1>5
  <2>8. Typed'
    BY <1>1, <1>2, <1>3, <1>4, <1>5, <2>2, <2>5, <2>6, <2>7 DEF Typed
  <2>9. ASSUME NEW k \in KnowledgeBase, NEW d \in DOMAIN k.genome
        PROVE  k.genome[d] \in DOMAIN heap' /\ heap'[k.genome[d]] = heap[k.genome[d]]
    <3>1. k.genome[d] \in DOMAIN heap /\ k.genome[d][1] <= gen
      BY <1>2 DEF IInv, KnowledgeSound, Live, Born
    <3>2. k.genome[d][1] # gen + 1
      <4>1. k.genome[d] \in Object /\ gen \in Nat
        BY <1>3, <3>1 DEF Typed
      <4> QED
        BY <3>1, <4>1 DEF Object
    <3>3. k.genome[d] \notin copies
      <4> HIDE DEF copies
      <4> QED
        BY <2>2, <3>2
    <3> QED
      BY <2>5, <3>1, <3>3
  <2>10. KnowledgeSound'
    <3>1. pc' # "update"
      BY <1>1, <1>5
    <3> QED
      BY <1>2, <2>9, <3>1 DEF IInv, KnowledgeSound, Live, Born
  <2>11. EntriesDistinct'
    <3>1. ASSUME NEW k \in KnowledgeBase PROVE Key(k, heap') = Key(k, heap)
      BY <2>9 DEF Key
    <3> QED
      BY <1>2, <3>1 DEF IInv, EntriesDistinct, Equal
  <2>12. ClonesSound'
    <3>1. DOMAIN BestCandidates' = DOMAIN s
          /\ \A i \in DOMAIN s : BestCandidates'[i] = Clone(s[i], i)
      BY <1>1, <1>5
    <3>2. \A i \in DOMAIN BestCandidates' : \A d \in DOMAIN BestCandidates'[i].genome :
            BestCandidates'[i].genome[d] = <<gen + 1, i, d>>
      BY <2>1, <3>1
    <3>3. elite' = <<s[1]>> /\ s[1] \in KnowledgeBase
      BY <1>1, <1>4, <1>5, <2>7
    <3> QED
      BY <1>2, <3>2, <3>3 DEF ClonesSound
  <2>13. GenerationSound'
    <3>1. ASSUME NEW i \in DOMAIN s, NEW d \in DOMAIN Clone(s[i], i).genome
          PROVE  Clone(s[i], i).genome[d] \in DOMAIN heap'
      <4>1. d \in DOMAIN s[i].genome /\ Clone(s[i], i).genome[d] = <<gen + 1, i, d>>
        BY <2>1
      <4> QED
        BY <2>3, <2>5, <4>1
    <3>2. DOMAIN BestCandidates' = DOMAIN s
          /\ \A i \in DOMAIN s : BestCandidates'[i] = Clone(s[i], i)
      BY <1>1, <1>5
    <3>3. \A i \in DOMAIN BestCandidates' : Live(BestCandidates[i])'
      BY <3>1, <3>2 DEF Live
    <3>5. ASSUME NEW i \in DOMAIN s PROVE Born(Clone(s[i], i), gen + 1)
      BY <2>1, <1>3 DEF Born, Typed
    <3>6. \A i \in DOMAIN BestCandidates' : Born(BestCandidates[i], gen + 1)'
      BY <3>2, <3>5, <1>2 DEF Born
    <3>4. pc' = "evolve" /\ RankingTmp' = {}
      BY <1>1, <1>2, <1>3, <1>5
    <3> QED
      BY <1>2, <1>3, <3>3, <3>4, <3>6 DEF GenerationSound
  <2> QED
    BY <2>8, <2>10, <2>11, <2>12, <2>13 DEF IInv
<1>6. CASE s = <<>>
  <2>1. /\ BestCandidates' = [i \in 1..CandidatesNumber |-> EmptyCandidate]
        /\ elite' = <<>> /\ pc' = "evaluate" /\ heap' = heap
    BY <1>1, <1>6
  <2>2. EmptyCandidate \in Candidate
    <3>1. <<>> \in [{} -> Object]
      OBVIOUS
    <3> QED
      BY <3>1, CandidateIntro DEF EmptyCandidate
  <2>3. BestCandidates' \in Seq(Candidate)
    BY <2>1, <2>2, SeqDef, ParametersAssumption
  <2>4. Typed'
    BY <1>2, <1>3, <2>1, <2>3 DEF Typed
  <2>5. GenerationSound'
    BY <1>2, <1>3, <2>1 DEF GenerationSound, Live, Born, EmptyCandidate
  <2> QED
    BY <1>2, <2>1, <2>4, <2>5
    DEF IInv, KnowledgeSound, Live, Born, ClonesSound, EntriesDistinct, Equal, Key
<1> QED
  BY <1>5, <1>6

(* A step that writes no formula of an earlier generation leaves the         *)
(* knowledge base sound, and its order as it was.                           *)
LEMMA FrozenSound ==
  ASSUME IInv, KnowledgeBase' = KnowledgeBase, gen' = gen,
         pc # "update", pc' # "update",
         \A o \in DOMAIN heap :
           o \in DOMAIN heap' /\ (o[1] # gen + 1 => heap'[o] = heap[o])
  PROVE  KnowledgeSound' /\ EntriesDistinct'
<1>1. ASSUME NEW k \in KnowledgeBase, NEW d \in DOMAIN k.genome
      PROVE  k.genome[d] \in DOMAIN heap' /\ heap'[k.genome[d]] = heap[k.genome[d]]
  <2>1. k.genome[d] \in DOMAIN heap /\ k.genome[d][1] <= gen
    BY DEF IInv, KnowledgeSound, Live, Born
  <2>2. k.genome[d] \in Object /\ gen \in Nat
    BY <2>1 DEF IInv, Typed
  <2>3. k.genome[d][1] # gen + 1
    BY <2>1, <2>2 DEF Object
  <2> QED
    BY <2>1, <2>3
<1>2. KnowledgeSound'
  BY <1>1 DEF IInv, KnowledgeSound, Live, Born
<1>3. \A k \in KnowledgeBase : Key(k, heap') = Key(k, heap)
  BY <1>1 DEF Key
<1> QED
  BY <1>2, <1>3 DEF IInv, EntriesDistinct, Equal

LEMMA EvolveSound ==
  ASSUME IInv, EvolveCandidate PROVE IInv'
<1>1. /\ pc = "evolve" /\ pc' = pc /\ gen' = gen /\ at' = at + 1
      /\ KnowledgeBase' = KnowledgeBase /\ BestCandidates' = BestCandidates
      /\ elite' = elite /\ RankingTmp' = RankingTmp /\ Ranking' = Ranking
      /\ best' = best /\ file' = file /\ imported' = imported
      /\ measured' = measured /\ at \in DOMAIN BestCandidates
  BY DEF EvolveCandidate, results, history
<1> DEFINE c == BestCandidates[at]
<1>2. PICK D \in Evolutions(c) : \E f \in [{c.genome[d] : d \in D} -> Formula] :
        heap' = Written(heap, f)
  BY DEF EvolveCandidate
<1>3. D \subseteq DOMAIN c.genome
  BY <1>2 DEF Evolutions
<1> PICK f \in [{c.genome[d] : d \in D} -> Formula] : heap' = Written(heap, f)
  BY <1>2
<1>4. ASSUME NEW o \in DOMAIN f
      PROVE  o \in DOMAIN heap /\ o[1] = gen + 1 /\ f[o] \in Formula
  <2>1. PICK d \in DOMAIN c.genome : o = c.genome[d]
    BY <1>2, <1>3
  <2>2. c.genome[d] = <<gen + 1, at, d>>
    BY <1>1 DEF IInv, ClonesSound
  <2>3. c.genome[d] \in DOMAIN heap
    BY <1>1 DEF IInv, GenerationSound, Live
  <2> QED
    BY <1>2, <2>1, <2>2, <2>3
<1>5. \A o \in DOMAIN heap : heap[o] \in Formula
  BY DEF IInv, Typed
<1>6. /\ DOMAIN heap' = DOMAIN heap
      /\ heap' \in [DOMAIN heap' -> Formula]
      /\ \A o \in DOMAIN heap : o[1] # gen + 1 => heap'[o] = heap[o]
  <2>1. /\ DOMAIN Written(heap, f) = DOMAIN heap \cup DOMAIN f
        /\ \A o \in DOMAIN heap : o \notin DOMAIN f => Written(heap, f)[o] = heap[o]
        /\ Written(heap, f) \in [DOMAIN Written(heap, f) -> Formula]
    BY <1>4, <1>5, WrittenFacts
  <2> QED
    BY <1>2, <1>4, <2>1
<1>7. Typed'
  BY <1>1, <1>6 DEF IInv, Typed
<1>8. KnowledgeSound' /\ EntriesDistinct'
  BY <1>1, <1>6, FrozenSound
<1>9. ClonesSound' /\ GenerationSound'
  BY <1>1, <1>6 DEF IInv, ClonesSound, GenerationSound, Live, Born
<1> QED
  BY <1>7, <1>8, <1>9 DEF IInv

LEMMA KeepSound ==
  ASSUME IInv, KeepCandidate PROVE IInv'
BY DEF KeepCandidate, results, history, IInv, Typed, KnowledgeSound, ClonesSound,
       GenerationSound, EntriesDistinct, Live, Born, Equal, Key

LEMMA PushSound ==
  ASSUME IInv, PushElite PROVE IInv'
<1>1. /\ pc = "evolve" /\ pc' = "evaluate" /\ gen' = gen /\ at' = 1 /\ heap' = heap
      /\ BestCandidates' = Append(BestCandidates, elite[1])
      /\ KnowledgeBase' = KnowledgeBase
      /\ elite' = elite /\ RankingTmp' = RankingTmp /\ Ranking' = Ranking
      /\ best' = best /\ file' = file /\ imported' = imported
      /\ measured' = measured
  BY DEF PushElite, results, history
<1>2. elite[1] \in KnowledgeBase /\ BestCandidates \in Seq(Candidate)
  BY <1>1 DEF IInv, ClonesSound, Typed
<1>3. elite[1] \in Candidate
  BY <1>2 DEF IInv, Typed
<1>4. BestCandidates' \in Seq(Candidate)
  BY <1>1, <1>2, <1>3
<1>5. Typed'
  BY <1>1, <1>4 DEF IInv, Typed
<1>6. KnowledgeSound' /\ EntriesDistinct'
  BY <1>1, FrozenSound
<1>7. ASSUME NEW i \in DOMAIN BestCandidates'
      PROVE  Live(BestCandidates[i])' /\ Born(BestCandidates[i], gen + 1)'
  <2>1. CASE i \in DOMAIN BestCandidates
    <3>1. BestCandidates'[i] = BestCandidates[i]
      BY <1>1, <1>2, <1>3, <2>1
    <3> QED
      BY <1>1, <2>1, <3>1 DEF IInv, GenerationSound, Live, Born
  <2>2. CASE i = Len(BestCandidates) + 1
    <3>1. BestCandidates'[i] = elite[1]
      BY <1>1, <1>2, <1>3, <2>2
    <3>2. Live(elite[1]) /\ Born(elite[1], gen)
      BY <1>1, <1>2 DEF IInv, KnowledgeSound
    <3>3. \A d \in DOMAIN elite[1].genome : elite[1].genome[d][1] \in Int /\ gen \in Int
      <4>1. elite[1].genome \in [DOMAIN elite[1].genome -> Object]
        BY <1>3, CandidateFacts
      <4> QED
        BY <4>1 DEF Object, IInv, Typed
    <3>4. Born(elite[1], gen + 1)
      BY <3>2, <3>3 DEF Born
    <3> QED
      BY <1>1, <3>1, <3>2, <3>4 DEF Live, Born
  <2> QED
    BY <1>1, <1>2, <1>3, <2>1, <2>2
<1>8. ClonesSound' /\ GenerationSound'
  BY <1>1, <1>7 DEF IInv, ClonesSound, GenerationSound, Live, Born
<1> QED
  BY <1>5, <1>6, <1>8 DEF IInv

(* generateMissing() gives a candidate new objects, those of its position.   *)
LEMMA CompletedFacts ==
  ASSUME gen \in Nat, at \in Nat, NEW c \in Candidate
  PROVE  /\ Completed(c) \in Candidate
         /\ Missing(c) \subseteq DecisionPoints
         /\ Missing(c) \subseteq AllPoints
         /\ DOMAIN Completed(c).genome = DOMAIN c.genome \cup Missing(c)
         /\ \A d \in Missing(c) : Completed(c).genome[d] = <<gen + 1, at, d>>
         /\ \A d \in DOMAIN c.genome :
              d \notin Missing(c) => Completed(c).genome[d] = c.genome[d]
<1> DEFINE g == [d \in DOMAIN c.genome \cup Missing(c) |->
                   IF d \in Missing(c) THEN <<gen + 1, at, d>> ELSE c.genome[d]]
<1>1. /\ DOMAIN c.genome \subseteq AllPoints
      /\ c.genome \in [DOMAIN c.genome -> Object]
      /\ c.total \in Nat /\ c.count \in Nat
      /\ c = [genome |-> c.genome, total |-> c.total, count |-> c.count]
  BY CandidateFacts DEF IsCandidate
<1>2. Missing(c) \subseteq DecisionPoints /\ Missing(c) \subseteq AllPoints
  BY ParametersAssumption DEF Missing
<1>3. Completed(c) = [genome |-> g, total |-> c.total, count |-> c.count]
  BY <1>1 DEF Completed
<1>4. DOMAIN g = DOMAIN c.genome \cup Missing(c)
  OBVIOUS
<1>5. g \in [DOMAIN g -> Object]
  BY <1>1, <1>2, <1>4 DEF Object
<1>6. Completed(c) \in Candidate
  BY <1>1, <1>2, <1>3, <1>4, <1>5, CandidateIntro
<1>7. Completed(c).genome = g
  BY <1>3
<1> QED
  BY <1>2, <1>4, <1>6, <1>7

LEMMA EvaluateSound ==
  ASSUME IInv, NEW score \in Outcomes, Evaluate(score) PROVE IInv'
<1> DEFINE c == BestCandidates[at]
           full == Completed(c)
           pair == [score |-> score, cand |-> full]
<1>1. /\ pc = "evaluate" /\ pc' = pc /\ gen' = gen /\ at' = at + 1
      /\ at \in DOMAIN BestCandidates
      /\ BestCandidates' = [BestCandidates EXCEPT ![at] = full]
      /\ KnowledgeBase' = KnowledgeBase
      /\ elite' = elite /\ Ranking' = Ranking
      /\ best' = best /\ file' = file /\ imported' = imported
      /\ measured' = measured \cup {score}
      /\ RankingTmp' \subseteq RankingTmp \cup {pair}
  BY DEF Evaluate, results, history
<1>2. PICK f \in [{<<gen + 1, at, d>> : d \in Missing(c)} -> Formula] :
        heap' = Written(heap, f)
  BY DEF Evaluate
<1>3. c \in Candidate /\ gen \in Nat /\ at \in Nat
  BY <1>1 DEF IInv, Typed
<1>4. /\ full \in Candidate
      /\ Missing(c) \subseteq AllPoints
      /\ DOMAIN full.genome = DOMAIN c.genome \cup Missing(c)
      /\ \A d \in Missing(c) : full.genome[d] = <<gen + 1, at, d>>
      /\ \A d \in DOMAIN c.genome : d \notin Missing(c) => full.genome[d] = c.genome[d]
  BY <1>3, CompletedFacts
<1>5. \A o \in DOMAIN f : o \in Object /\ o[1] = gen + 1 /\ f[o] \in Formula
  BY <1>3, <1>4 DEF Object
<1>6. \A o \in DOMAIN heap : heap[o] \in Formula /\ o \in Object
  BY DEF IInv, Typed
<1>7. /\ DOMAIN heap' = DOMAIN heap \cup DOMAIN f
      /\ heap' \in [DOMAIN heap' -> Formula]
      /\ \A o \in DOMAIN heap : o[1] # gen + 1 => heap'[o] = heap[o]
  <2>1. /\ DOMAIN Written(heap, f) = DOMAIN heap \cup DOMAIN f
        /\ \A o \in DOMAIN heap : o \notin DOMAIN f => Written(heap, f)[o] = heap[o]
        /\ Written(heap, f) \in [DOMAIN Written(heap, f) -> Formula]
    BY <1>5, <1>6, WrittenFacts
  <2> QED
    BY <1>2, <1>5, <2>1
<1>8. KnowledgeSound' /\ EntriesDistinct'
  BY <1>1, <1>7, FrozenSound
<1>9. ASSUME NEW d \in DOMAIN full.genome
      PROVE  full.genome[d] \in DOMAIN heap' /\ full.genome[d][1] <= gen + 1
  <2>1. Live(c) /\ Born(c, gen + 1)
    BY <1>1 DEF IInv, GenerationSound
  <2>2. CASE d \in Missing(c)
    <3>1. full.genome[d] = <<gen + 1, at, d>> /\ <<gen + 1, at, d>> \in DOMAIN f
      BY <1>4, <2>2
    <3> QED
      BY <1>3, <1>7, <3>1
  <2>3. CASE d \notin Missing(c)
    BY <1>4, <1>7, <2>1, <2>3 DEF Live, Born
  <2> QED
    BY <2>2, <2>3
<1>10. BestCandidates' \in Seq(Candidate)
  BY <1>1, <1>4 DEF IInv, Typed
<1>11. RankingTmp' \subseteq Pair
  BY <1>1, <1>4 DEF IInv, Typed, Pair
<1>12. Typed'
  BY <1>1, <1>5, <1>6, <1>7, <1>10, <1>11 DEF IInv, Typed
<1>13. ASSUME NEW i \in DOMAIN BestCandidates'
       PROVE  Live(BestCandidates[i])' /\ Born(BestCandidates[i], gen + 1)'
  <2>1. CASE i = at
    <3>1. BestCandidates'[i] = full
      BY <1>1, <2>1 DEF IInv, Typed
    <3> HIDE DEF full
    <3> QED
      BY <1>1, <1>9, <3>1 DEF Live, Born
  <2>2. CASE i # at
    <3>1. i \in DOMAIN BestCandidates /\ BestCandidates'[i] = BestCandidates[i]
      BY <1>1, <2>2 DEF IInv, Typed
    <3> QED
      BY <1>1, <1>7, <3>1 DEF IInv, GenerationSound, Live, Born
  <2> QED
    BY <2>1, <2>2
<1>14. ASSUME NEW p \in RankingTmp'
       PROVE  Live(p.cand)' /\ Born(p.cand, gen + 1)'
  <2>1. CASE p = pair
    <3>1. p.cand = full
      BY <2>1
    <3> HIDE DEF full
    <3> QED
      BY <1>1, <1>9, <3>1 DEF Live, Born
  <2>2. CASE p \in RankingTmp
    BY <1>1, <1>7, <2>2 DEF IInv, GenerationSound, Live, Born
  <2> QED
    BY <1>1, <2>1, <2>2
<1>15. GenerationSound'
  BY <1>1, <1>13, <1>14 DEF IInv, GenerationSound
<1> QED
  BY <1>1, <1>8, <1>12, <1>15 DEF IInv, ClonesSound

LEMMA EvaluationEndsSound ==
  ASSUME IInv, EvaluationEnds PROVE IInv'
<1>1. /\ pc = "evaluate" /\ pc' = "update" /\ gen' = gen /\ at' = at /\ heap' = heap
      /\ BestCandidates' = BestCandidates /\ KnowledgeBase' = KnowledgeBase
      /\ elite' = elite /\ RankingTmp' = RankingTmp /\ Ranking' = Ranking
      /\ best' = best /\ file' = file /\ imported' = imported
      /\ measured' = measured
  BY DEF EvaluationEnds, generation, results, history
<1>2. Typed'
  BY <1>1 DEF IInv, Typed
<1>3. ASSUME NEW k \in KnowledgeBase, Born(k, gen) PROVE Born(k, gen + 1)
  <2>1. k.genome \in [DOMAIN k.genome -> Object] /\ gen \in Nat
    BY CandidateFacts DEF IInv, Typed
  <2> QED
    BY <1>3, <2>1 DEF Born, Object
<1>4. KnowledgeSound'
  BY <1>1, <1>3 DEF IInv, KnowledgeSound, Live, Born
<1> QED
  BY <1>1, <1>2, <1>4
  DEF IInv, ClonesSound, GenerationSound, EntriesDistinct, Live, Born, Equal, Key

(* What the base is told of a pair is a candidate with the same formulas.    *)
LEMMA LearnedFacts ==
  ASSUME NEW p \in Pair
  PROVE  /\ Learned(p) \in Candidate
         /\ Learned(p).genome = p.cand.genome
         /\ Learned(p).count > 0
<1>1. /\ p.cand \in Candidate
      /\ p.score \in Nat
  BY ParametersAssumption DEF Pair, Outcomes
<1>2. /\ p.cand.total \in Nat /\ p.cand.count \in Nat
      /\ p.cand = [genome |-> p.cand.genome, total |-> p.cand.total,
                   count |-> p.cand.count]
      /\ DOMAIN p.cand.genome \subseteq AllPoints
      /\ p.cand.genome \in [DOMAIN p.cand.genome -> Object]
  BY <1>1, CandidateFacts DEF IsCandidate
<1>3. CASE Has(p.cand)
  <2>1. Learned(p) = [genome |-> p.cand.genome, total |-> p.cand.total + p.score,
                      count |-> p.cand.count + 1]
    BY <1>2, <1>3 DEF Learned
  <2> QED
    BY <1>1, <1>2, <2>1, CandidateIntro
<1>4. CASE ~Has(p.cand)
  <2>1. Learned(p) = [genome |-> p.cand.genome, total |-> p.score, count |-> 1]
    BY <1>2, <1>4 DEF Learned
  <2> QED
    BY <1>1, <1>2, <2>1, CandidateIntro
<1> QED
  BY <1>3, <1>4

LEMMA UpdateSound ==
  ASSUME IInv, UpdateKnowledgeBase PROVE IInv'
<1>1. PICK p \in RankingTmp :
        /\ KnowledgeBase' = Update(Learned(p))
        /\ Ranking' = Ranking \cup {p.score}
        /\ RankingTmp' = RankingTmp \ {p}
  BY DEF UpdateKnowledgeBase
<1>2. /\ pc = "update" /\ pc' = pc /\ gen' = gen /\ at' = at /\ heap' = heap
      /\ BestCandidates' = BestCandidates /\ elite' = elite /\ best' = best
      /\ file' = file /\ imported' = imported /\ measured' = measured
  BY DEF UpdateKnowledgeBase, history
<1> DEFINE new == Learned(p)
<1>3. p \in Pair /\ p.score \in Outcomes
  BY DEF IInv, Typed, Pair
<1>4. new \in Candidate /\ new.genome = p.cand.genome /\ new.count > 0
  BY <1>3, LearnedFacts
<1> HIDE DEF new
<1>5. KnowledgeBase' = {k \in KnowledgeBase : ~Equal(k, new)} \cup {new}
  BY <1>1 DEF Update, new
<1>6. Live(new) /\ Born(new, gen + 1)
  BY <1>2, <1>4 DEF IInv, GenerationSound, Live, Born
<1>7. Typed'
  BY <1>1, <1>2, <1>3, <1>4, <1>5 DEF IInv, Typed
<1>8. KnowledgeSound'
  BY <1>2, <1>4, <1>5, <1>6 DEF IInv, KnowledgeSound, Live, Born
<1>9. EntriesDistinct'
  BY <1>2, <1>5 DEF IInv, EntriesDistinct, Equal
<1>10. ClonesSound' /\ GenerationSound'
  BY <1>1, <1>2 DEF IInv, ClonesSound, GenerationSound, Live, Born
<1> QED
  BY <1>7, <1>8, <1>9, <1>10 DEF IInv

LEMMA EndGenerationSound ==
  ASSUME IInv, EndGeneration PROVE IInv'
<1>1. /\ pc = "update" /\ RankingTmp = {} /\ gen' = gen + 1
      /\ pc' = NextGeneration(gen + 1) /\ at' = 1 /\ BestCandidates' = <<>>
      /\ elite' = <<>> /\ KnowledgeBase' = KnowledgeBase /\ RankingTmp' = RankingTmp
      /\ heap' = [o \in UNION {Objects(k) : k \in KnowledgeBase} |-> heap[o]]
      /\ Ranking' = Ranking /\ best' = best /\ file' = file
      /\ imported' = imported /\ measured' = measured
  BY DEF EndGeneration, results, history
<1>2. /\ pc' \in {"select", "report"}
      /\ pc' = "select" => gen' < GenerationsNumber
  BY <1>1 DEF NextGeneration
<1>3. ASSUME NEW k \in KnowledgeBase, NEW d \in DOMAIN k.genome
      PROVE  /\ k.genome[d] \in DOMAIN heap
             /\ k.genome[d] \in DOMAIN heap'
             /\ heap'[k.genome[d]] = heap[k.genome[d]]
  <2>1. k.genome[d] \in Objects(k)
    BY DEF Objects
  <2> QED
    BY <1>1, <2>1 DEF IInv, KnowledgeSound, Live
<1>4. ASSUME NEW o \in DOMAIN heap'
      PROVE  o \in DOMAIN heap /\ heap'[o] = heap[o]
  <2>1. PICK k \in KnowledgeBase : o \in Objects(k)
    BY <1>1
  <2> QED
    BY <1>1, <1>3, <2>1 DEF Objects
<1>5. DOMAIN heap' \subseteq Object /\ heap' \in [DOMAIN heap' -> Formula]
  BY <1>1, <1>4 DEF IInv, Typed
<1>6. gen' \in 0..GenerationsNumber
  BY <1>1, ParametersAssumption DEF IInv, Typed, GenerationSound
<1>7. BestCandidates' \in Seq(Candidate)
  BY <1>1
<1>8. Typed'
  BY <1>1, <1>2, <1>5, <1>6, <1>7 DEF IInv, Typed
<1>9. KnowledgeSound'
  BY <1>1, <1>2, <1>3 DEF IInv, KnowledgeSound, Live, Born
<1>10. EntriesDistinct'
  <2>1. \A k \in KnowledgeBase : Key(k, heap') = Key(k, heap)
    BY <1>3 DEF Key
  <2> QED
    BY <1>1, <2>1 DEF IInv, EntriesDistinct, Equal
<1>11. ClonesSound' /\ GenerationSound'
  BY <1>1, <1>2 DEF ClonesSound, GenerationSound
<1> QED
  BY <1>8, <1>9, <1>10, <1>11 DEF IInv

LEMMA ReportSound ==
  ASSUME IInv, ReportBest PROVE IInv'
<1>1. /\ pc = "report" /\ pc' = "export" /\ gen' = gen /\ at' = at
      /\ heap' = heap /\ BestCandidates' = BestCandidates
      /\ KnowledgeBase' = KnowledgeBase /\ elite' = elite
      /\ RankingTmp' = RankingTmp /\ Ranking' = Ranking /\ file' = file
      /\ imported' = imported /\ measured' = measured
      /\ best' = best \/ \E s \in Ranking : best' = <<s>>
  BY DEF ReportBest, generation, results, history
<1>2. Typed'
  BY <1>1 DEF IInv, Typed
<1> QED
  BY <1>1, <1>2
  DEF IInv, KnowledgeSound, ClonesSound, GenerationSound, EntriesDistinct, Live, Born,
      Equal, Key

(* What the base holds can be written to the file. *)
LEMMA SavedFacts ==
  ASSUME IInv, NEW k \in KnowledgeBase PROVE Saved(k) \in SavedCandidate
<1> DEFINE formulas == [d \in DOMAIN k.genome |-> heap[k.genome[d]]]
<1>1. k \in Candidate /\ Live(k) /\ k.count > 0
  BY DEF IInv, Typed, KnowledgeSound
<1>2. DOMAIN k.genome \subseteq AllPoints /\ k.total \in Nat /\ k.count \in Nat \ {0}
  BY <1>1, CandidateFacts
<1>3. formulas \in [DOMAIN k.genome -> Formula]
  BY <1>1 DEF Live, IInv, Typed
<1>4. formulas \in UNION {[D -> Formula] : D \in SUBSET AllPoints}
  BY <1>2, <1>3
<1> QED
  BY <1>2, <1>4 DEF Saved, SavedCandidate

LEMMA ExportSound ==
  ASSUME IInv, ExportKnowledgeBase PROVE IInv'
<1>1. /\ pc = "export" /\ pc' = "done" /\ gen' = gen /\ at' = at /\ heap' = heap
      /\ BestCandidates' = BestCandidates /\ KnowledgeBase' = KnowledgeBase
      /\ elite' = elite /\ RankingTmp' = RankingTmp /\ Ranking' = Ranking
      /\ best' = best /\ file' = {Saved(k) : k \in KnowledgeBase}
      /\ imported' = imported /\ measured' = measured
  BY DEF ExportKnowledgeBase, generation, history
<1>2. file' \subseteq SavedCandidate
  BY <1>1, SavedFacts
<1>3. Typed'
  BY <1>1, <1>2 DEF IInv, Typed
<1> QED
  BY <1>1, <1>3
  DEF IInv, KnowledgeSound, ClonesSound, GenerationSound, EntriesDistinct, Live, Born,
      Equal, Key

LEMMA NextSound ==
  ASSUME IInv, [Next]_vars PROVE IInv'
<1>1. CASE MeasureCandidate \/ FailCandidate
  <2>1. PICK s \in Outcomes : Evaluate(s)
    BY <1>1 DEF MeasureCandidate, FailCandidate, Outcomes
  <2> QED
    BY <2>1, EvaluateSound
<1>2. CASE Terminated \/ UNCHANGED vars
  BY <1>2, StutterSound DEF Terminated
<1> QED
  BY <1>1, <1>2, ImportSound, SelectSound, EvolveSound, KeepSound, PushSound,
     EvaluationEndsSound, UpdateSound, EndGenerationSound, ReportSound, ExportSound
  DEF Next

-----------------------------------------------------------------------------
(* The inductive invariant holds in every state of every run. *)
THEOREM Invariance == Spec => []IInv
<1>1. Init => IInv
  BY InitSound
<1>2. IInv /\ [Next]_vars => IInv'
  BY NextSound
<1> QED
  BY <1>1, <1>2, PTL DEF Spec

(* Every variable of a run keeps its type, for any number of decision        *)
(* points, candidates and generations.                                      *)
THEOREM TypeCorrect == Spec => []TypeOK
<1>1. IInv => TypeOK
  BY TypedImpliesTypeOK DEF IInv
<1> QED
  BY <1>1, Invariance, PTL

(* The knowledge base of SimpleGrammarEvolution::run never holds two         *)
(* candidates that compare equal, although evolve() and generateMissing()   *)
(* rewrite formulas while the base is ordered by the formulas it points to. *)
THEOREM KnowledgeIsASet == Spec => []EntriesDistinct
<1>1. IInv => EntriesDistinct
  BY DEF IInv
<1> QED
  BY <1>1, Invariance, PTL

-----------------------------------------------------------------------------
(* Action properties.  A known formula was created by an earlier generation; *)
(* the steps that write formulas write those of this one.                   *)
LEMMA OlderFormulas ==
  ASSUME IInv, pc # "update", NEW k \in KnowledgeBase, NEW o \in Objects(k)
  PROVE  o \in DOMAIN heap /\ o[1] # gen + 1
<1>1. PICK d \in DOMAIN k.genome : o = k.genome[d]
  BY DEF Objects
<1>2. o \in DOMAIN heap /\ o[1] <= gen
  BY <1>1 DEF IInv, KnowledgeSound, Live, Born
<1>3. o \in Object /\ gen \in Nat
  BY <1>2 DEF IInv, Typed
<1> QED
  BY <1>2, <1>3 DEF Object

LEMMA WrittenKeeps ==
  ASSUME NEW h, NEW w, NEW o \in DOMAIN h, o \notin DOMAIN w
  PROVE  o \in DOMAIN Written(h, w) /\ Written(h, w)[o] = h[o]
BY DEF Written

(* The three steps that write formulas write objects of this generation.    *)
LEMMA WritesAreNew ==
  ASSUME IInv, SelectBest \/ EvolveCandidate \/ (\E s \in Outcomes : Evaluate(s)),
         NEW o \in DOMAIN heap, o[1] # gen + 1
  PROVE  o \in DOMAIN heap' /\ heap'[o] = heap[o]
<1>1. gen \in Nat
  BY DEF IInv, Typed
<1>2. CASE SelectBest
  <2>1. PICK s \in BestFirst :
          \/ UNCHANGED heap
          \/ heap' = Written(heap,
               [x \in UNION {Objects(Clone(s[i], i)) : i \in DOMAIN s} |->
                  heap[s[x[2]].genome[x[3]]]])
    BY <1>2 DEF SelectBest
  <2> DEFINE copies == UNION {Objects(Clone(s[i], i)) : i \in DOMAIN s}
             w == [x \in copies |-> heap[s[x[2]].genome[x[3]]]]
  <2>2. ASSUME NEW x \in copies PROVE x[1] = gen + 1
    <3>1. PICK i \in DOMAIN s : x \in Objects(Clone(s[i], i))
      OBVIOUS
    <3>2. s[i] \in Candidate /\ i \in Nat
      BY BestFirstFacts
    <3>3. Objects(Clone(s[i], i)) = {<<gen + 1, i, d>> : d \in DOMAIN s[i].genome}
      BY <1>1, <3>2, CloneFacts
    <3> QED
      BY <3>1, <3>3
  <2>3. o \notin copies /\ DOMAIN w = copies
    BY <2>2
  <2>4. heap' = heap \/ heap' = Written(heap, w)
    BY <2>1
  <2> HIDE DEF w, copies
  <2> QED
    BY <2>3, <2>4, WrittenKeeps
<1>3. CASE EvolveCandidate
  <2>1. pc = "evolve" /\ at \in DOMAIN BestCandidates
    BY <1>3 DEF EvolveCandidate
  <2>2. PICK D \in Evolutions(BestCandidates[at]) :
          \E f \in [{BestCandidates[at].genome[d] : d \in D} -> Formula] :
            heap' = Written(heap, f)
    BY <1>3 DEF EvolveCandidate
  <2>3. PICK f \in [{BestCandidates[at].genome[d] : d \in D} -> Formula] :
            heap' = Written(heap, f)
    BY <2>2
  <2>4. \A d \in D : BestCandidates[at].genome[d] = <<gen + 1, at, d>>
    BY <2>1, <2>2 DEF IInv, ClonesSound, Evolutions
  <2>5. o \notin DOMAIN f
    BY <2>3, <2>4
  <2> QED
    BY <2>3, <2>5, WrittenKeeps
<1>4. CASE \E s \in Outcomes : Evaluate(s)
  <2>1. PICK f \in [{<<gen + 1, at, d>> : d \in Missing(BestCandidates[at])} -> Formula] :
          heap' = Written(heap, f)
    BY <1>4 DEF Evaluate
  <2>2. o \notin DOMAIN f
    BY <2>1
  <2> QED
    BY <2>1, <2>2, WrittenKeeps
<1> QED
  BY <1>2, <1>3, <1>4

LEMMA KnownFormulasStay ==
  ASSUME IInv, [Next]_vars, NEW k \in KnowledgeBase, NEW o \in Objects(k)
  PROVE  o \in DOMAIN heap' /\ heap'[o] = heap[o]
<1>1. o \in DOMAIN heap
  BY DEF Objects, IInv, KnowledgeSound, Live
<1>2. CASE SelectBest \/ EvolveCandidate \/ MeasureCandidate \/ FailCandidate
  <2>1. SelectBest \/ EvolveCandidate \/ (\E s \in Outcomes : Evaluate(s))
    BY <1>2 DEF MeasureCandidate, FailCandidate, Outcomes
  <2>2. pc # "update"
    BY <1>2 DEF SelectBest, EvolveCandidate, MeasureCandidate, FailCandidate, Evaluate
  <2> QED
    BY <2>1, <2>2, OlderFormulas, WritesAreNew
<1>3. CASE EndGeneration
  BY <1>1, <1>3 DEF EndGeneration
<1>4. CASE ImportKnowledgeBase
  BY <1>4 DEF ImportKnowledgeBase, IInv, GenerationSound
<1>5. CASE UNCHANGED heap
  BY <1>1, <1>5
<1>6. \/ <1>2!1 \/ <1>3!1 \/ <1>4!1 \/ <1>5!1
  BY DEF Next, vars, KeepCandidate, PushElite, EvaluationEnds, UpdateKnowledgeBase,
     ReportBest, ExportKnowledgeBase, Terminated
<1> QED
  BY <1>2, <1>3, <1>4, <1>5, <1>6

(* No step of a run rewrites or frees a formula of the knowledge base.       *)
THEOREM FormulasFrozen == Spec => KnowledgeFrozen
<1>1. IInv /\ [Next]_vars =>
        [\A k \in KnowledgeBase : \A o \in Objects(k) :
           o \in DOMAIN heap' /\ heap'[o] = heap[o]]_vars
  BY KnownFormulasStay
<1> QED
  BY <1>1, Invariance, PTL DEF Spec, KnowledgeFrozen

(* What is known stays known: only an equal candidate replaces another.      *)
LEMMA KnownStays ==
  ASSUME IInv, [Next]_vars, NEW k \in KnowledgeBase
  PROVE  \E j \in KnowledgeBase' : Key(j, heap') = Key(k, heap)
<1>1. Key(k, heap') = Key(k, heap)
  BY KnownFormulasStay DEF Key, Objects
<1>2. CASE UpdateKnowledgeBase
  <2>1. PICK p \in RankingTmp : KnowledgeBase' = Update(Learned(p))
    BY <1>2 DEF UpdateKnowledgeBase
  <2>2. heap' = heap
    BY <1>2 DEF UpdateKnowledgeBase
  <2> QED
    BY <2>1, <2>2 DEF Update, Equal
<1>3. CASE ImportKnowledgeBase
  BY <1>3 DEF ImportKnowledgeBase, IInv, GenerationSound
<1>4. CASE KnowledgeBase' = KnowledgeBase
  BY <1>1, <1>4
<1>5. UpdateKnowledgeBase \/ ImportKnowledgeBase \/ KnowledgeBase' = KnowledgeBase
  BY DEF Next, vars, SelectBest, EvolveCandidate, KeepCandidate, PushElite,
     MeasureCandidate, FailCandidate, Evaluate, EvaluationEnds, EndGeneration,
     ReportBest, ExportKnowledgeBase, Terminated
<1> QED
  BY <1>2, <1>3, <1>4, <1>5

(* A heuristic the knowledge base holds is held for the rest of the run.     *)
THEOREM KnowledgeGrows == Spec => NothingForgotten
<1>1. IInv /\ [Next]_vars =>
        [\A k \in KnowledgeBase :
           \E j \in KnowledgeBase' : Key(j, heap') = Key(k, heap)]_vars
  BY KnownStays
<1> QED
  BY <1>1, Invariance, PTL DEF Spec, NothingForgotten

-----------------------------------------------------------------------------
(***************************************************************************)
(* The run implements KnowledgeStore.                                      *)
(***************************************************************************)

LEMMA KeyIsHeuristic ==
  ASSUME Typed, NEW c \in Candidate, Live(c)
  PROVE  Key(c, heap) \in Heuristic
<1>1. DOMAIN c.genome \in SUBSET AllPoints
  BY CandidateFacts
<1>2. \A d \in DOMAIN c.genome : heap[c.genome[d]] \in Formula
  BY DEF Live, Typed
<1>3. Key(c, heap) \in [DOMAIN c.genome -> Shapes]
  BY <1>2 DEF Key, Formula
<1> QED
  BY <1>1, <1>3 DEF Heuristic

LEMMA StoreStart ==
  ASSUME Init
  PROVE  Store!StoreInit
<1>1. pc = "import" /\ KnowledgeBase = {} /\ file \in KnowledgeBaseFiles
  BY DEF Init
<1>2. ASSUME NEW a \in file
      PROVE  ShapeOf(a.formulas) \in Heuristic
  <2>1. PICK D \in SUBSET AllPoints : a.formulas \in [D -> Formula]
    BY <1>1, FilesAssumption DEF SavedCandidate
  <2>2. ShapeOf(a.formulas) \in [D -> Shapes]
    BY <2>1 DEF ShapeOf, Formula
  <2> QED
    BY <2>2 DEF Heuristic
<1> QED
  BY <1>1, <1>2 DEF Store!StoreInit, Phase, Known

(* The base is opened with what the file holds. *)
LEMMA ImportOpens ==
  ASSUME IInv, ImportKnowledgeBase
  PROVE  Store!Open
<1>1. PICK order \in [1..Cardinality(file) -> file] :
        /\ \A a \in file : \E i \in DOMAIN order : order[i] = a
        /\ heap' = [o \in UNION {{<<0, i, d>> : d \in DOMAIN order[i].formulas} :
                                   i \in DOMAIN order} |->
                      order[o[2]].formulas[o[3]]]
        /\ KnowledgeBase' =
             {[genome |-> [d \in DOMAIN order[i].formulas |-> <<0, i, d>>],
               total  |-> order[i].total,
               count  |-> order[i].count] : i \in DOMAIN order}
  BY DEF ImportKnowledgeBase
<1> DEFINE cand(i) == [genome |-> [d \in DOMAIN order[i].formulas |-> <<0, i, d>>],
                       total  |-> order[i].total,
                       count  |-> order[i].count]
<1>2. pc = "import" /\ pc' \in {"select", "report"} /\ file' = file
  BY DEF ImportKnowledgeBase, NextGeneration, results
<1>3. ASSUME NEW i \in DOMAIN order
      PROVE  Key(cand(i), heap') = ShapeOf(order[i].formulas)
  <2>1. \A d \in DOMAIN order[i].formulas : heap'[<<0, i, d>>] = order[i].formulas[d]
    BY <1>1
  <2> QED
    BY <2>1 DEF Key, ShapeOf
<1>4. Known' = {Key(cand(i), heap') : i \in DOMAIN order}
  BY <1>1 DEF Known
<1>5. /\ \A a \in file : \E i \in DOMAIN order : order[i] = a
      /\ \A i \in DOMAIN order : order[i] \in file
  BY <1>1
<1> HIDE DEF cand
<1>6. Known' = {ShapeOf(order[i].formulas) : i \in DOMAIN order}
  BY <1>3, <1>4
<1>7. Known' = {ShapeOf(a.formulas) : a \in file}
  BY <1>5, <1>6
<1> QED
  BY <1>2, <1>7 DEF Store!Open, Phase

(* Telling the base of a pair makes its heuristic known and forgets none.    *)
LEMMA UpdateLearns ==
  ASSUME IInv, UpdateKnowledgeBase
  PROVE  Store!Learn
<1>1. PICK p \in RankingTmp : KnowledgeBase' = Update(Learned(p))
  BY DEF UpdateKnowledgeBase
<1>2. pc = "update" /\ pc' = pc /\ heap' = heap /\ file' = file
  BY DEF UpdateKnowledgeBase
<1> DEFINE new == Learned(p)
<1>3. p \in Pair /\ p.cand \in Candidate /\ Live(p.cand)
  BY DEF IInv, Typed, Pair, GenerationSound
<1>4. new \in Candidate /\ new.genome = p.cand.genome
  BY <1>3, LearnedFacts
<1>5. Key(new, heap) \in Heuristic
  BY <1>3, <1>4, KeyIsHeuristic DEF IInv, Live
<1> HIDE DEF new
<1>6. KnowledgeBase' = {k \in KnowledgeBase : Key(k, heap) # Key(new, heap)} \cup {new}
  BY <1>1 DEF Update, Equal, new
<1>7. Known' = Known \cup {Key(new, heap)}
  BY <1>2, <1>6 DEF Known
<1> QED
  BY <1>2, <1>5, <1>7 DEF Store!Learn, Phase

(* The file is left with the heuristics that are known. *)
LEMMA ExportSaves ==
  ASSUME IInv, ExportKnowledgeBase
  PROVE  Store!Save
<1>1. /\ pc = "export" /\ pc' = "done" /\ UNCHANGED <<heap, KnowledgeBase>>
      /\ file' = {Saved(k) : k \in KnowledgeBase}
  BY DEF ExportKnowledgeBase
<1>2. ASSUME NEW k \in KnowledgeBase
      PROVE  ShapeOf(Saved(k).formulas) = Key(k, heap)
  BY DEF ShapeOf, Saved, Key
<1>3. {ShapeOf(a.formulas) : a \in file'} = Known
  BY <1>1, <1>2 DEF Known
<1>4. Known' = Known
  BY <1>1 DEF Known
<1> QED
  BY <1>1, <1>3, <1>4 DEF Store!Save, Phase

(* Between, a run rearranges what the store does not see: it selects, evolves *)
(* and ranks candidates whose formulas are not those of the base.           *)
LEMMA RunStutters ==
  ASSUME IInv,
         \/ SelectBest \/ EvolveCandidate \/ KeepCandidate \/ PushElite
         \/ MeasureCandidate \/ FailCandidate \/ EvaluationEnds \/ EndGeneration
         \/ ReportBest \/ UNCHANGED vars
  PROVE  UNCHANGED <<Phase, Known, {ShapeOf(a.formulas) : a \in file}>>
<1>1. KnowledgeBase' = KnowledgeBase /\ file' = file
  BY DEF SelectBest, EvolveCandidate, KeepCandidate, PushElite, MeasureCandidate,
         FailCandidate, Evaluate, EvaluationEnds, EndGeneration, ReportBest, vars, results
<1>2. pc' = pc \/ {pc, pc'} \cap {"import", "done"} = {}
  BY DEF SelectBest, EvolveCandidate, KeepCandidate, PushElite, MeasureCandidate,
         FailCandidate, Evaluate, EvaluationEnds, EndGeneration, NextGeneration,
         ReportBest, vars
<1>3. ASSUME NEW k \in KnowledgeBase
      PROVE  Key(k, heap') = Key(k, heap)
  <2>1. [Next]_vars
    BY DEF Next
  <2> QED
    BY <2>1, KnownFormulasStay DEF Key, Objects
<1> QED
  BY <1>1, <1>2, <1>3 DEF Phase, Known

(* A run is a KnowledgeStore: it opens with what was saved, learns heuristics *)
(* one at a time, forgets none and saves what it knows.                     *)
THEOREM RunIsAStore == Spec => ImplementsStore
<1>1. IInv /\ [Next]_vars =>
        [Store!StoreNext]_(Store!storeVars)
  BY ImportOpens, UpdateLearns, ExportSaves, RunStutters
  DEF Next, Terminated, Store!StoreNext, Store!storeVars
<1> QED
  BY <1>1, StoreStart, Invariance, PTL DEF Spec, ImplementsStore, Store!StoreSpec

-----------------------------------------------------------------------------
(***************************************************************************)
(* What a run may say of scores: how often a heuristic was measured, between *)
(* which measurements its score lies, that what is measured is complete, and *)
(* that the best is reported. A candidate is plausible if it could be in the *)
(* knowledge base; selecting, evolving and completing copy candidates with   *)
(* their Score and Count, and only the update gives them others.            *)
(***************************************************************************)

Comparable(D) == D \subseteq DecisionPoints \/ DecisionPoints \subseteq D

(* A candidate may average the scores of O. *)
Plausible(c, O) ==
  /\ Comparable(DOMAIN c.genome)
  /\ \A limit \in Outcomes :
       /\ (\A o \in O : AtLeast(o, limit)) => AtLeast(c, limit)
       /\ (\A o \in O : AtMost(o, limit)) => AtMost(c, limit)

(* A candidate of this generation that may be averaged once more.           *)
Sampled(c, O, g) == Plausible(c, O) /\ KeepsPace(c.count, imported, g)

SamplesSound ==
  /\ pc = "import" => imported = file
  /\ \A k \in KnowledgeBase : Plausible(k, Observed)
  /\ CountsKeepPace
  /\ \A i \in DOMAIN BestCandidates : Sampled(BestCandidates[i], Observed, gen)
  /\ \A p \in RankingTmp : p.score \in measured /\ Sampled(p.cand, Observed, gen)
  /\ EvaluatedComplete

(* Every score of the run is in the ranking, or will be with its pair.      *)
RankingSound ==
  /\ Ranking \subseteq measured
  /\ \A p \in RankingTmp : p.score \in measured
  /\ \A s \in measured : s \in Ranking \/ \E p \in RankingTmp : p.score = s
  /\ best # <<>> => pc \in {"export", "done"}
  /\ ReportsTheBest

(* The first of ScoreSet: no other candidate of the base is better, and it   *)
(* is the last that is evaluated, with the formulas it has in the base.     *)
IsBest(k) == k \in KnowledgeBase /\ \A other \in KnowledgeBase : ~Better(other, k)

EliteSound ==
  /\ pc = "evolve" => IsBest(elite[1])
  /\ pc = "evaluate" =>
       \/ KnowledgeBase = {}
       \/ \E i \in DOMAIN BestCandidates, k \in KnowledgeBase :
            /\ IsBest(k)
            /\ \A d \in DOMAIN k.genome :
                 /\ d \in DOMAIN BestCandidates[i].genome
                 /\ BestCandidates[i].genome[d] = k.genome[d]

-----------------------------------------------------------------------------
(***************************************************************************)
(* Plausible candidates.                                                   *)
(***************************************************************************)

LEMMA OutcomesAreNat == Outcomes \subseteq Nat
BY ParametersAssumption DEF Outcomes

(* More is observed as a run goes on. *)
LEMMA ObservedGrows ==
  ASSUME imported' = imported, measured \subseteq measured'
  PROVE  Observed \subseteq Observed'
BY DEF Observed

(* A candidate is as plausible as another of its score.                     *)
LEMMA CopyIsPlausible ==
  ASSUME NEW O, NEW P, O \subseteq P, NEW c, Plausible(c, O),
         NEW d, d.total = c.total, d.count = c.count, Comparable(DOMAIN d.genome)
  PROVE  Plausible(d, P)
BY DEF Plausible, AtLeast, AtMost

LEMMA EmptyIsPlausible ==
  ASSUME NEW O
  PROVE  Plausible(EmptyCandidate, O)
<1>1. DOMAIN EmptyCandidate.genome \subseteq DecisionPoints
  BY DEF EmptyCandidate
<1>2. ASSUME NEW limit \in Outcomes
      PROVE  AtLeast(EmptyCandidate, limit) /\ AtMost(EmptyCandidate, limit)
  BY <1>2, OutcomesAreNat DEF EmptyCandidate, AtLeast, AtMost
<1> QED BY <1>1, <1>2 DEF Plausible, Comparable

(* A sum between n and n + 1 times a limit. *)
LEMMA OneMore ==
  ASSUME NEW l \in Nat, NEW n \in Nat
  PROVE  l * (n + 1) = l * n + l
OBVIOUS

(* Averaging an observed score in leaves a candidate plausible, whatever     *)
(* Score and Count it had, if it was plausible with them.                   *)
LEMMA LearnedIsPlausible ==
  ASSUME NEW O, NEW p \in Pair, Plausible(p.cand, O),
         [total |-> p.score, count |-> 1] \in O
  PROVE  Plausible(Learned(p), O)
<1> DEFINE c == p.cand
           sample == [total |-> p.score, count |-> 1]
<1>1. /\ c.total \in Nat /\ c.count \in Nat
      /\ c = [genome |-> c.genome, total |-> c.total, count |-> c.count]
      /\ p.score \in Nat
  BY CandidateFacts, OutcomesAreNat DEF Pair, IsCandidate
<1>2. Learned(p).genome = c.genome
  BY LearnedFacts
<1>3. \/ /\ Learned(p).total = c.total + p.score
         /\ Learned(p).count = c.count + 1
      \/ /\ Learned(p).total = p.score
         /\ Learned(p).count = 1
  BY <1>1 DEF Learned
<1>4. ASSUME NEW limit \in Outcomes, \A o \in O : AtLeast(o, limit)
      PROVE  AtLeast(Learned(p), limit)
  <2>1. AtLeast(sample, limit) /\ AtLeast(c, limit)
    BY <1>4 DEF Plausible
  <2>2. limit \in Nat /\ limit * c.count \in Nat
    BY <1>1, OutcomesAreNat
  <2>3. limit <= p.score /\ limit * c.count <= c.total
    BY <1>1, <2>1, <2>2 DEF AtLeast
  <2>4. limit * (c.count + 1) = limit * c.count + limit
    BY <1>1, <2>2, OneMore
  <2>5. limit * (c.count + 1) <= c.total + p.score
    BY <1>1, <2>2, <2>3, <2>4
  <2> QED BY <1>1, <1>3, <2>2, <2>3, <2>5 DEF AtLeast
<1>5. ASSUME NEW limit \in Outcomes, \A o \in O : AtMost(o, limit)
      PROVE  AtMost(Learned(p), limit)
  <2>1. AtMost(sample, limit) /\ AtMost(c, limit)
    BY <1>5 DEF Plausible
  <2>2. limit \in Nat /\ limit * c.count \in Nat
    BY <1>1, OutcomesAreNat
  <2>3. p.score <= limit /\ c.total <= limit * c.count
    BY <1>1, <2>1, <2>2 DEF AtMost
  <2>4. limit * (c.count + 1) = limit * c.count + limit
    BY <1>1, <2>2, OneMore
  <2>5. c.total + p.score <= limit * (c.count + 1)
    BY <1>1, <2>2, <2>3, <2>4
  <2> QED BY <1>1, <1>3, <2>2, <2>3, <2>5 DEF AtMost
<1> QED BY <1>2, <1>4, <1>5 DEF Plausible

(* A Count keeps pace for a round more, also when it grew by one in it.      *)
LEMMA PaceGrows ==
  ASSUME NEW saved \in SUBSET SavedCandidate, NEW n \in Nat, NEW rounds \in Nat,
         KeepsPace(n, saved, rounds)
  PROVE  KeepsPace(n, saved, rounds + 1) /\ KeepsPace(n + 1, saved, rounds + 1)
<1>1. \A a \in saved : a.count \in Nat
  BY DEF SavedCandidate
<1> QED BY <1>1 DEF KeepsPace

(* generateMissing() gives a candidate every decision point it missed: it    *)
(* only returns early on sizes that are equal, hence on equal sets.         *)
LEMMA CompletedIsComplete ==
  ASSUME gen \in Nat, at \in Nat, NEW c \in Candidate, Comparable(DOMAIN c.genome)
  PROVE  /\ DecisionPoints \subseteq DOMAIN Completed(c).genome
         /\ Completed(c).total = c.total
         /\ Completed(c).count = c.count
<1>1. DOMAIN Completed(c).genome = DOMAIN c.genome \cup Missing(c)
  BY CompletedFacts
<1>2. c = [genome |-> c.genome, total |-> c.total, count |-> c.count]
  BY CandidateFacts DEF IsCandidate
<1>3. IsFiniteSet(DecisionPoints) /\ IsFiniteSet(DOMAIN c.genome)
  BY ParametersAssumption, CandidateFacts, FS_Subset
<1>4. Cardinality(DOMAIN c.genome) = Cardinality(DecisionPoints) =>
        DecisionPoints \subseteq DOMAIN c.genome
  BY <1>3, FS_Subset DEF Comparable
<1>5. DecisionPoints \subseteq DOMAIN Completed(c).genome
  BY <1>1, <1>4 DEF Missing
<1> QED BY <1>2, <1>5 DEF Completed

-----------------------------------------------------------------------------
(***************************************************************************)
(* Steps.                                                                  *)
(***************************************************************************)

LEMMA SamplesInit ==
  ASSUME Init
  PROVE  SamplesSound /\ RankingSound
BY DEF Init, SamplesSound, RankingSound, CountsKeepPace, EvaluatedComplete,
       ReportsTheBest

(* What the file holds is observed, and its lists are comparable with ours.  *)
LEMMA ImportSamples ==
  ASSUME IInv, SamplesSound, ImportKnowledgeBase
  PROVE  SamplesSound'
<1>1. PICK order \in [1..Cardinality(file) -> file] :
        KnowledgeBase' =
          {[genome |-> [d \in DOMAIN order[i].formulas |-> <<0, i, d>>],
            total  |-> order[i].total,
            count  |-> order[i].count] : i \in DOMAIN order}
  BY DEF ImportKnowledgeBase
<1>2. /\ pc = "import" /\ pc' \in {"select", "report"}
      /\ UNCHANGED <<gen, BestCandidates, RankingTmp, imported, measured>>
  BY DEF ImportKnowledgeBase, NextGeneration, generation, history
<1>3. /\ file \in KnowledgeBaseFiles /\ imported = file
      /\ BestCandidates = <<>> /\ RankingTmp = {} /\ gen \in Nat
  BY <1>2 DEF IInv, GenerationSound, SamplesSound, Typed
<1>4. Observed' = Observed
  BY <1>2 DEF Observed
<1>5. ASSUME NEW k \in KnowledgeBase'
      PROVE  Plausible(k, Observed) /\ KeepsPace(k.count, imported, gen)
  <2>1. PICK i \in DOMAIN order :
          k = [genome |-> [d \in DOMAIN order[i].formulas |-> <<0, i, d>>],
               total  |-> order[i].total,
               count  |-> order[i].count]
    BY <1>1, <1>5
  <2>2. order[i] \in file
    BY <2>1
  <2>3. order[i].count \in Nat /\ order[i] \in imported
    BY <1>3, <2>2, FilesAssumption DEF SavedCandidate
  <2>4. Comparable(DOMAIN order[i].formulas)
    BY <1>3, <2>2, FilesAssumption DEF Comparable
  <2>5. [total |-> order[i].total, count |-> order[i].count] \in Observed
    BY <1>3, <2>2 DEF Observed
  <2>6. Plausible(k, Observed)
    BY <2>1, <2>4, <2>5 DEF Plausible, AtLeast, AtMost
  <2>7. KeepsPace(order[i].count, imported, gen)
    BY <1>3, <2>3 DEF KeepsPace
  <2> QED BY <2>1, <2>6, <2>7
<1>6. CountsKeepPace'
  BY <1>2, <1>3, <1>5 DEF CountsKeepPace
<1> QED BY <1>2, <1>3, <1>4, <1>5, <1>6
        DEF SamplesSound, EvaluatedComplete

LEMMA SelectSamples ==
  ASSUME IInv, SamplesSound, SelectBest
  PROVE  SamplesSound'
<1>1. PICK s \in BestFirst :
        \/ BestCandidates' = [i \in DOMAIN s |-> Clone(s[i], i)]
        \/ BestCandidates' = [i \in 1..CandidatesNumber |-> EmptyCandidate]
  BY DEF SelectBest
<1>2. /\ pc = "select" /\ pc' \in {"evolve", "evaluate"}
      /\ UNCHANGED <<gen, KnowledgeBase, RankingTmp, imported, measured>>
  BY DEF SelectBest, results, history
<1>3. gen \in Nat /\ Observed' = Observed
  BY <1>2 DEF IInv, Typed, Observed
<1>4. ASSUME NEW i \in DOMAIN s
      PROVE  Sampled(Clone(s[i], i), Observed, gen)
  <2>1. s[i] \in KnowledgeBase /\ s[i] \in Candidate /\ i \in Nat
    BY BestFirstFacts
  <2>2. Plausible(s[i], Observed) /\ KeepsPace(s[i].count, imported, gen)
    BY <1>2, <1>3, <2>1 DEF SamplesSound, CountsKeepPace
  <2>3. /\ DOMAIN Clone(s[i], i).genome = DOMAIN s[i].genome
        /\ Clone(s[i], i).total = s[i].total
        /\ Clone(s[i], i).count = s[i].count
    BY <1>3, <2>1, CloneFacts
  <2>4. Comparable(DOMAIN Clone(s[i], i).genome)
    BY <2>2, <2>3 DEF Plausible
  <2> QED BY <2>2, <2>3, <2>4, CopyIsPlausible DEF Sampled
<1>5. Sampled(EmptyCandidate, Observed, gen)
  BY <1>3, EmptyIsPlausible DEF Sampled, KeepsPace, EmptyCandidate
<1>6. \A i \in DOMAIN BestCandidates' : Sampled(BestCandidates'[i], Observed, gen)
  BY <1>1, <1>4, <1>5
<1> QED BY <1>2, <1>3, <1>6 DEF SamplesSound, CountsKeepPace, EvaluatedComplete, Sampled

(* Evolving changes formulas; what ends a stage or the run changes no        *)
(* candidate.                                                              *)
LEMMA OtherSamples ==
  ASSUME IInv, SamplesSound,
         \/ EvolveCandidate \/ KeepCandidate \/ EvaluationEnds \/ ReportBest
         \/ ExportKnowledgeBase \/ UNCHANGED vars
  PROVE  SamplesSound'
<1>1. /\ UNCHANGED <<gen, KnowledgeBase, BestCandidates, RankingTmp, imported, measured>>
      /\ \/ pc' = pc /\ file' = file
         \/ pc # "update" /\ pc' # "import"
  BY DEF EvolveCandidate, KeepCandidate, EvaluationEnds, ReportBest, ExportKnowledgeBase,
         vars, generation, results, history
<1>2. Observed' = Observed
  BY <1>1 DEF Observed
<1>3. gen \in Nat /\ \A k \in KnowledgeBase : k.count \in Nat
  BY CandidateFacts DEF IInv, Typed
<1>4. CountsKeepPace'
  <2>1. CASE pc' = pc
    BY <1>1, <2>1 DEF SamplesSound, CountsKeepPace
  <2>2. CASE pc # "update"
    <3>0. gen + (IF pc = "update" THEN 1 ELSE 0) = gen
      BY <1>3, <2>2
    <3>1. ASSUME NEW k \in KnowledgeBase
          PROVE  KeepsPace(k.count, imported, gen) /\ KeepsPace(k.count, imported, gen + 1)
      <4>1. KeepsPace(k.count, imported, gen)
        BY <3>0 DEF SamplesSound, CountsKeepPace
      <4> QED BY <1>3, <4>1, PaceGrows DEF IInv, Typed
    <3> QED BY <1>1, <1>3, <3>1 DEF CountsKeepPace
  <2> QED BY <1>1, <2>1, <2>2
<1> QED BY <1>1, <1>2, <1>4 DEF SamplesSound, EvaluatedComplete, Sampled

LEMMA PushSamples ==
  ASSUME IInv, SamplesSound, PushElite
  PROVE  SamplesSound'
<1>1. /\ pc = "evolve" /\ pc' = "evaluate"
      /\ BestCandidates' = Append(BestCandidates, elite[1])
      /\ UNCHANGED <<gen, KnowledgeBase, RankingTmp, imported, measured>>
  BY DEF PushElite, results, history
<1>2. Observed' = Observed /\ gen \in Nat
  BY <1>1 DEF Observed, IInv, Typed
<1>3. elite[1] \in KnowledgeBase /\ BestCandidates \in Seq(Candidate)
  BY <1>1 DEF IInv, ClonesSound, Typed
<1>4. Sampled(elite[1], Observed, gen)
  BY <1>1, <1>2, <1>3
  DEF SamplesSound, CountsKeepPace, Sampled
<1>5. ASSUME NEW i \in DOMAIN BestCandidates'
      PROVE  Sampled(BestCandidates'[i], Observed, gen)
  <2>1. elite[1] \in Candidate
    BY <1>3 DEF IInv, Typed
  <2>2. \/ i \in DOMAIN BestCandidates /\ BestCandidates'[i] = BestCandidates[i]
        \/ BestCandidates'[i] = elite[1]
    BY <1>1, <1>3, <1>5, <2>1
  <2> QED BY <1>4, <2>2 DEF SamplesSound
<1> QED BY <1>1, <1>2, <1>5 DEF SamplesSound, CountsKeepPace, EvaluatedComplete, Sampled

(* The pair that is ranked has the Score and Count of the candidate, and all *)
(* decision points.                                                        *)
LEMMA EvaluateSamples ==
  ASSUME IInv, SamplesSound, NEW score \in Outcomes, Evaluate(score)
  PROVE  SamplesSound'
<1> DEFINE c == BestCandidates[at]
           full == Completed(c)
           pair == [score |-> score, cand |-> full]
<1>1. /\ pc = "evaluate" /\ pc' = pc
      /\ at \in DOMAIN BestCandidates
      /\ BestCandidates' = [BestCandidates EXCEPT ![at] = full]
      /\ UNCHANGED <<gen, KnowledgeBase, imported>>
      /\ measured' = measured \cup {score}
      /\ RankingTmp' \subseteq RankingTmp \cup {pair}
  BY DEF Evaluate, results
<1>2. c \in Candidate /\ gen \in Nat /\ at \in Nat
  BY <1>1 DEF IInv, Typed
<1>3. Observed \subseteq Observed'
  BY <1>1, ObservedGrows
<1>4. Sampled(c, Observed, gen)
  BY <1>1 DEF SamplesSound
<1>5. /\ DecisionPoints \subseteq DOMAIN full.genome
      /\ full.total = c.total
      /\ full.count = c.count
  BY <1>2, <1>4, CompletedIsComplete DEF Sampled, Plausible
<1> HIDE DEF full, c
<1>6. Sampled(full, Observed', gen)
  BY <1>3, <1>4, <1>5, CopyIsPlausible DEF Sampled, Comparable
<1>7. ASSUME NEW d, Plausible(d, Observed)
      PROVE  Plausible(d, Observed')
  BY <1>3, <1>7, CopyIsPlausible DEF Plausible
<1>8. ASSUME NEW i \in DOMAIN BestCandidates'
      PROVE  Sampled(BestCandidates'[i], Observed', gen)
  <2>1. \/ BestCandidates'[i] = full
        \/ i \in DOMAIN BestCandidates /\ BestCandidates'[i] = BestCandidates[i]
    BY <1>1, <1>8
  <2> QED BY <1>6, <1>7, <2>1 DEF SamplesSound, Sampled
<1>9. ASSUME NEW p \in RankingTmp'
      PROVE  /\ p.score \in measured' /\ Sampled(p.cand, Observed', gen)
             /\ DecisionPoints \subseteq DOMAIN p.cand.genome
  <2>1. CASE p = pair
    BY <1>1, <1>5, <1>6, <2>1
  <2>2. CASE p \in RankingTmp
    BY <1>1, <1>7, <2>2 DEF SamplesSound, Sampled, EvaluatedComplete
  <2> QED BY <1>1, <1>9, <2>1, <2>2
<1>10. \A k \in KnowledgeBase' : Plausible(k, Observed')
  BY <1>1, <1>7 DEF SamplesSound
<1>11. CountsKeepPace'
  BY <1>1 DEF SamplesSound, CountsKeepPace
<1> QED BY <1>1, <1>8, <1>9, <1>10, <1>11 DEF SamplesSound, EvaluatedComplete, Sampled

(* Equal candidates of a generation replace each other, and each counts one  *)
(* measurement more than the candidate that was cloned.                     *)
LEMMA UpdateSamples ==
  ASSUME IInv, SamplesSound, UpdateKnowledgeBase
  PROVE  SamplesSound'
<1>1. PICK p \in RankingTmp :
        /\ KnowledgeBase' = Update(Learned(p))
        /\ RankingTmp' = RankingTmp \ {p}
  BY DEF UpdateKnowledgeBase
<1>2. /\ pc = "update" /\ pc' = pc
      /\ UNCHANGED <<gen, BestCandidates, imported, measured>>
  BY DEF UpdateKnowledgeBase, history
<1>3. Observed' = Observed /\ gen \in Nat
  BY <1>2 DEF Observed, IInv, Typed
<1>4. /\ p \in Pair /\ p.score \in measured
      /\ Sampled(p.cand, Observed, gen)
  BY DEF IInv, Typed, SamplesSound
<1>5. [total |-> p.score, count |-> 1] \in Observed
  BY <1>4 DEF Observed
<1>6. Plausible(Learned(p), Observed)
  BY <1>4, <1>5, LearnedIsPlausible DEF Sampled
<1>7. KeepsPace(Learned(p).count, imported, gen + 1)
  <2>1. p.cand \in Candidate
    BY <1>4 DEF Pair
  <2>2. /\ p.cand.count \in Nat
        /\ p.cand = [genome |-> p.cand.genome, total |-> p.cand.total, count |-> p.cand.count]
    BY <2>1, CandidateFacts DEF IsCandidate
  <2>3. Learned(p).count \in {p.cand.count + 1, 1}
    BY <2>2 DEF Learned
  <2>4. KeepsPace(p.cand.count + 1, imported, gen + 1)
    BY <1>3, <1>4, <2>2, PaceGrows DEF Sampled, IInv, Typed
  <2>5. KeepsPace(1, imported, gen + 1)
    BY <1>3 DEF KeepsPace
  <2> QED BY <2>3, <2>4, <2>5
<1>8. KnowledgeBase' \subseteq KnowledgeBase \cup {Learned(p)}
  BY <1>1 DEF Update
<1>9. CountsKeepPace'
  BY <1>2, <1>7, <1>8 DEF SamplesSound, CountsKeepPace
<1>10. \A k \in KnowledgeBase' : Plausible(k, Observed')
  BY <1>3, <1>6, <1>8 DEF SamplesSound
<1>11. EvaluatedComplete'
  BY <1>1 DEF SamplesSound, EvaluatedComplete
<1> QED BY <1>1, <1>2, <1>3, <1>9, <1>10, <1>11 DEF SamplesSound, Sampled

LEMMA EndGenerationSamples ==
  ASSUME IInv, SamplesSound, EndGeneration
  PROVE  SamplesSound'
<1>1. /\ pc = "update" /\ pc' \in {"select", "report"} /\ gen' = gen + 1
      /\ BestCandidates' = <<>> /\ RankingTmp' = {}
      /\ UNCHANGED <<KnowledgeBase, imported, measured>>
  BY DEF EndGeneration, NextGeneration, history
<1>2. Observed' = Observed /\ gen \in Nat
  BY <1>1 DEF Observed, IInv, Typed
<1>3. CountsKeepPace'
  BY <1>1, <1>2 DEF SamplesSound, CountsKeepPace
<1> QED BY <1>1, <1>2, <1>3 DEF SamplesSound, EvaluatedComplete

LEMMA StepSamples ==
  ASSUME IInv, SamplesSound, [Next]_vars
  PROVE  SamplesSound'
<1>1. CASE MeasureCandidate \/ FailCandidate
  BY <1>1, EvaluateSamples DEF MeasureCandidate, FailCandidate, Outcomes
<1> QED
  BY <1>1, ImportSamples, SelectSamples, OtherSamples, PushSamples, UpdateSamples,
     EndGenerationSamples
  DEF Next, Terminated

(* A score that is measured goes to the ranking with its pair, or with one   *)
(* of the same score that was there before.                                 *)
LEMMA StepRanking ==
  ASSUME IInv, RankingSound, [Next]_vars
  PROVE  RankingSound'
<1>1. CASE MeasureCandidate \/ FailCandidate
  <2>1. PICK score \in Outcomes : Evaluate(score)
    BY <1>1 DEF MeasureCandidate, FailCandidate, Outcomes
  <2>2. /\ pc = "evaluate" /\ UNCHANGED <<pc, Ranking, best>>
        /\ measured' = measured \cup {score}
    BY <2>1 DEF Evaluate, results
  <2>3. /\ RankingTmp \subseteq RankingTmp'
        /\ \A p \in RankingTmp' : p \in RankingTmp \/ p.score = score
        /\ \E p \in RankingTmp' : p.score = score
    <3> DEFINE full == Completed(BestCandidates[at])
               pair == [score |-> score, cand |-> full]
               same(q) == q.score = score /\ Key(q.cand, heap') = Key(full, heap')
    <3>1. RankingTmp' = IF \E q \in RankingTmp : same(q) THEN RankingTmp
                        ELSE RankingTmp \cup {pair}
      BY <2>1 DEF Evaluate
    <3>2. pair.score = score
      OBVIOUS
    <3>3. \A q : same(q) => q.score = score
      OBVIOUS
    <3> HIDE DEF pair, same
    <3> QED BY <3>1, <3>2, <3>3
  <2>4. best = <<>>
    BY <2>2 DEF RankingSound
  <2> QED BY <2>2, <2>3, <2>4 DEF RankingSound, ReportsTheBest
<1>2. CASE UpdateKnowledgeBase
  <2>1. PICK p \in RankingTmp : /\ Ranking' = Ranking \cup {p.score}
                                /\ RankingTmp' = RankingTmp \ {p}
    BY <1>2 DEF UpdateKnowledgeBase
  <2>2. UNCHANGED <<pc, best, measured>>
    BY <1>2 DEF UpdateKnowledgeBase, history
  <2> QED BY <2>1, <2>2 DEF RankingSound, ReportsTheBest
<1>3. CASE ReportBest
  <2>1. PICK s \in Ranking : (\A r \in Ranking : r <= s) /\ best' = <<s>>
    BY <1>3 DEF ReportBest
  <2>2. pc = "report" /\ pc' = "export" /\ UNCHANGED <<Ranking, RankingTmp, measured>>
    BY <1>3 DEF ReportBest, generation, history
  <2>3. RankingTmp = {}
    BY <2>2 DEF IInv, GenerationSound
  <2>4. measured = Ranking
    BY <2>3 DEF RankingSound
  <2> QED BY <2>1, <2>2, <2>4 DEF RankingSound, ReportsTheBest
<1>4. CASE UNCHANGED <<Ranking, RankingTmp, measured, best>>
           /\ (pc \in {"export", "done"} => pc' \in {"export", "done"})
  BY <1>4 DEF RankingSound, ReportsTheBest
<1>5. \/ <1>1!1 \/ <1>2!1 \/ <1>3!1 \/ <1>4!1
  BY DEF Next, vars, ImportKnowledgeBase, SelectBest, EvolveCandidate, KeepCandidate,
     PushElite, EvaluationEnds, EndGeneration, ExportKnowledgeBase, Terminated,
     generation, results, history
<1> QED BY <1>1, <1>2, <1>3, <1>4, <1>5

(* A candidate is pushed back with the formulas of the base, and completing   *)
(* it only adds others.                                                     *)
LEMMA StepElite ==
  ASSUME IInv, EliteSound, [Next]_vars
  PROVE  EliteSound'
<1>1. CASE SelectBest
  <2>1. PICK s \in BestFirst :
          IF s # <<>> THEN elite' = <<s[1]>> /\ pc' = "evolve" ELSE pc' = "evaluate"
    BY <1>1 DEF SelectBest
  <2>2. KnowledgeBase' = KnowledgeBase
    BY <1>1 DEF SelectBest
  <2>3. PICK n \in 0..CandidatesNumber :
          /\ s \in [1..n -> KnowledgeBase]
          /\ \A i, j \in DOMAIN s : i < j => ~Better(s[j], s[i])
          /\ \A k \in KnowledgeBase :
               \/ \E i \in DOMAIN s : s[i] = k
               \/ Len(s) = CandidatesNumber /\ \A i \in DOMAIN s : ~Better(k, s[i])
    BY DEF BestFirst
  <2>4. n \in Nat /\ s \in Seq(KnowledgeBase) /\ Len(s) = n
    BY <2>3, ParametersAssumption, SeqDef
  <2>5. CASE s = <<>>
    <3>1. KnowledgeBase = {}
      BY <2>3, <2>4, <2>5, ParametersAssumption
    <3> QED BY <2>1, <2>2, <2>5, <3>1 DEF EliteSound
  <2>6. CASE s # <<>>
    <3>1. 1 \in DOMAIN s
      BY <2>3, <2>4, <2>6
    <3>2. s[1] \in KnowledgeBase /\ s[1].total \in Nat /\ s[1].count \in Nat
      BY <2>3, <3>1, CandidateFacts DEF IInv, Typed
    <3>3. ~Better(s[1], s[1])
      BY <3>2 DEF Better
    <3>4. \A i \in DOMAIN s : ~Better(s[i], s[1])
      <4>1. \A i \in DOMAIN s : i = 1 \/ 1 < i
        BY <2>3
      <4> QED BY <2>3, <3>1, <3>3, <4>1
    <3>5. IsBest(s[1])
      BY <2>3, <3>1, <3>2, <3>4 DEF IsBest
    <3> QED BY <2>1, <2>2, <2>6, <3>5 DEF EliteSound, IsBest, Better
  <2> QED BY <2>5, <2>6
<1>2. CASE PushElite
  <2>1. /\ pc = "evolve" /\ pc' = "evaluate"
        /\ BestCandidates' = Append(BestCandidates, elite[1])
        /\ KnowledgeBase' = KnowledgeBase
    BY <1>2 DEF PushElite
  <2>2. IsBest(elite[1])
    BY <2>1 DEF EliteSound
  <2>3. BestCandidates \in Seq(Candidate) /\ elite[1] \in Candidate
    BY <2>2 DEF IInv, Typed, IsBest
  <2> DEFINE last == Len(BestCandidates) + 1
  <2>4. last \in DOMAIN BestCandidates' /\ BestCandidates'[last] = elite[1]
    BY <2>1, <2>3
  <2> QED BY <2>1, <2>2, <2>4 DEF EliteSound, IsBest, Better
<1>3. CASE MeasureCandidate \/ FailCandidate
  <2>1. PICK score \in Outcomes : Evaluate(score)
    BY <1>3 DEF MeasureCandidate, FailCandidate, Outcomes
  <2>2. /\ pc = "evaluate" /\ pc' = pc /\ KnowledgeBase' = KnowledgeBase
        /\ at \in DOMAIN BestCandidates
        /\ BestCandidates' = [BestCandidates EXCEPT ![at] = Completed(BestCandidates[at])]
    BY <2>1 DEF Evaluate
  <2>3. gen \in Nat /\ at \in Nat /\ BestCandidates[at] \in Candidate
    BY <2>2 DEF IInv, Typed
  <2>4. \A d \in DOMAIN BestCandidates[at].genome :
          /\ d \in DOMAIN Completed(BestCandidates[at]).genome
          /\ Completed(BestCandidates[at]).genome[d] = BestCandidates[at].genome[d]
    BY <2>3, CompletedFacts DEF Missing
  <2>5. \A i \in DOMAIN BestCandidates : \A d \in DOMAIN BestCandidates[i].genome :
          /\ i \in DOMAIN BestCandidates'
          /\ d \in DOMAIN BestCandidates'[i].genome
          /\ BestCandidates'[i].genome[d] = BestCandidates[i].genome[d]
    BY <2>2, <2>4
  <2>6. DOMAIN BestCandidates' = DOMAIN BestCandidates
    BY <2>2
  <2>7. CASE KnowledgeBase = {}
    BY <2>2, <2>7 DEF EliteSound
  <2>8. CASE KnowledgeBase # {}
    <3>1. PICK i \in DOMAIN BestCandidates, k \in KnowledgeBase :
            /\ IsBest(k)
            /\ \A d \in DOMAIN k.genome :
                 /\ d \in DOMAIN BestCandidates[i].genome
                 /\ BestCandidates[i].genome[d] = k.genome[d]
      BY <2>2, <2>8 DEF EliteSound
    <3>2. IsBest(k)' /\ i \in DOMAIN BestCandidates' /\ k \in KnowledgeBase'
      BY <2>2, <2>6, <3>1 DEF IsBest, Better
    <3>3. \A d \in DOMAIN k.genome :
            /\ d \in DOMAIN BestCandidates'[i].genome
            /\ BestCandidates'[i].genome[d] = k.genome[d]
      BY <2>5, <3>1
    <3> QED BY <2>2, <3>2, <3>3 DEF EliteSound
  <2> QED BY <2>7, <2>8
<1>4. CASE pc' = pc /\ UNCHANGED <<KnowledgeBase, BestCandidates, elite>>
  BY <1>4 DEF EliteSound, IsBest, Better
<1>5. CASE pc' \notin {"evolve", "evaluate"}
  BY <1>5 DEF EliteSound
<1>6. \/ <1>1!1 \/ <1>2!1 \/ <1>3!1 \/ <1>4!1 \/ <1>5!1
  BY DEF Next, vars, ImportKnowledgeBase, NextGeneration, EvolveCandidate, KeepCandidate,
     EvaluationEnds, UpdateKnowledgeBase, EndGeneration, ReportBest,
     ExportKnowledgeBase, Terminated, generation
<1> QED BY <1>1, <1>2, <1>3, <1>4, <1>5, <1>6

-----------------------------------------------------------------------------
LEMMA Samples == Spec => []SamplesSound
BY SamplesInit, StepSamples, Invariance, PTL DEF Spec

(* However many copies of a heuristic a generation measures and tells the    *)
(* base, the largest Count of the base grows by at most one in it.          *)
THEOREM CountsKeepUp == Spec => []CountsKeepPace
<1>1. SamplesSound => CountsKeepPace
  BY DEF SamplesSound
<1> QED BY <1>1, Samples, PTL

(* However stale the Score and Count that a known heuristic is averaged      *)
(* from, its score stays between the lowest and the highest score there was. *)
THEOREM ScoresAreAverages == Spec => []ScoresBounded
<1>1. SamplesSound => ScoresBounded
  BY DEF SamplesSound, Plausible, ScoresBounded
<1> QED BY <1>1, Samples, PTL

(* What is compiled has a formula for every decision point, whichever lists  *)
(* of decision points earlier runs saved.                                   *)
THEOREM EvaluatesComplete == Spec => []EvaluatedComplete
<1>1. SamplesSound => EvaluatedComplete
  BY DEF SamplesSound
<1> QED BY <1>1, Samples, PTL

(* The best score that was measured is the one reported, although pairs are  *)
(* lost from RankingTmp and candidates overwritten in the base.             *)
THEOREM BestIsReported == Spec => []ReportsTheBest
<1>1. RankingSound => ReportsTheBest
  BY DEF RankingSound
<1> QED BY <1>1, SamplesInit, StepRanking, Invariance, PTL DEF Spec

(* Every generation measures a heuristic again that none of the base beats,  *)
(* with the formulas it is known by, however the clones of it evolve.       *)
THEOREM EliteIsMeasured == Spec => []BestMeasuredAgain
<1>1. Init => EliteSound
  BY DEF Init, EliteSound
<1>2. EliteSound => BestMeasuredAgain
  BY DEF EliteSound, IsBest, BestMeasuredAgain
<1> QED BY <1>1, <1>2, StepElite, Invariance, PTL DEF Spec

-----------------------------------------------------------------------------
(***************************************************************************)
(* What is proved of the loop holds of every strategy that runs it. A step   *)
(* of a strategy is one of the loop, or ends a profiler's run whose best      *)
(* candidate failed; what the loop keeps is kept, or the run is over.        *)
(***************************************************************************)
LoopSound == IInv /\ SamplesSound

RunSound == LoopSound \/ (pc = "aborted" /\ EvaluatedComplete)

LEMMA StrategyStep ==
  ASSUME [StrategyNext]_<<vars, strategy>>
  PROVE  [Next]_vars \/ BestFails
BY DEF StrategyNext, CyclesRun, GEOSRun, SProfRun, Aborted, vars

(* A loop that was aborted stays so.                                        *)
LEMMA OverIsOver ==
  ASSUME pc = "aborted", [Next]_vars \/ BestFails
  PROVE  UNCHANGED vars
BY DEF Next, BestFails, ImportKnowledgeBase, SelectBest, EvolveCandidate, KeepCandidate,
       PushElite, MeasureCandidate, FailCandidate, Evaluate, EvaluationEnds,
       UpdateKnowledgeBase, EndGeneration, ReportBest, ExportKnowledgeBase, Terminated

LEMMA RunStart == StrategyInit => RunSound
BY InitSound, SamplesInit DEF StrategyInit, RunSound, LoopSound

LEMMA RunStep ==
  ASSUME RunSound, [StrategyNext]_<<vars, strategy>>
  PROVE  RunSound'
<1>1. CASE LoopSound /\ [Next]_vars
  BY <1>1, NextSound, StepSamples DEF RunSound, LoopSound
<1>2. CASE LoopSound /\ BestFails
  BY <1>2 DEF RunSound, LoopSound, SamplesSound, BestFails, EvaluatedComplete, generation
<1>3. CASE pc = "aborted" /\ EvaluatedComplete
  BY <1>3, StrategyStep, OverIsOver DEF RunSound, EvaluatedComplete, vars, generation
<1> QED BY <1>1, <1>2, <1>3, StrategyStep DEF RunSound

LEMMA RunInvariance == StrategySpec => []RunSound
BY RunStart, RunStep, PTL DEF StrategySpec

(* Whatever scores a candidate, it is compiled with a formula for every      *)
(* decision point of the run.                                               *)
THEOREM StrategiesEvaluateComplete == StrategySpec => []EvaluatedComplete
<1>1. RunSound => EvaluatedComplete
  BY DEF RunSound, LoopSound, SamplesSound
<1> QED BY <1>1, RunInvariance, PTL

(* Every strategy is a KnowledgeStore; a profiler's run that is aborted is    *)
(* one that never saves.                                                    *)
THEOREM StrategiesAreStores == StrategySpec => ImplementsStore
<1>1. StrategyInit => Store!StoreInit
  BY StoreStart DEF StrategyInit
<1>2. RunSound /\ [StrategyNext]_<<vars, strategy>> =>
        [Store!StoreNext]_(Store!storeVars)
  <2>1. ASSUME IInv, [Next]_vars
        PROVE  [Store!StoreNext]_(Store!storeVars)
    BY <2>1, ImportOpens, UpdateLearns, ExportSaves, RunStutters
    DEF Next, Terminated, Store!StoreNext, Store!storeVars
  <2>2. ASSUME BestFails \/ UNCHANGED vars
        PROVE  UNCHANGED <<Phase, Known, {ShapeOf(a.formulas) : a \in file}>>
    BY <2>2 DEF BestFails, vars, results, Phase, Known
  <2> QED BY <2>1, <2>2, StrategyStep, OverIsOver DEF RunSound, LoopSound, Store!storeVars
<1> QED BY <1>1, <1>2, RunInvariance, PTL DEF StrategySpec, ImplementsStore, Store!StoreSpec
=============================================================================
