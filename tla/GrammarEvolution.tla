-------------------------- MODULE GrammarEvolution --------------------------
(***************************************************************************)
(* The autotuning loop of pinhao: SimpleGrammarEvolution::run, the          *)
(* Candidate it evolves and the KnowledgeBase (a SerialSet<Candidate>) it   *)
(* learns into.                                                            *)
(*                                                                         *)
(* A Candidate is a std::map from decision points to POINTERS to formulas,  *)
(* and it is copied in two ways: clone() copies the formulas, the copy      *)
(* constructor shares them.  The model keeps the formulas in a heap, so     *)
(* that what a copy shares is what the program's copy shares.  A formula    *)
(* is abstracted to its shape (kinds, types and leaves: all that            *)
(* FormulaBase::operator== and operator< look at) and its operators (which  *)
(* they do not look at); a feature is taken to find itself different from   *)
(* any other formula, whatever it misreads there (see Formula).  A score is  *)
(* kept as total/count, the sum and the number of the speed-ups it averages, *)
(* in exact arithmetic.                                                    *)
(***************************************************************************)
EXTENDS Integers, Sequences, FiniteSets

CONSTANTS
  AllPoints,          \* decision points any saved knowledge base may name
  DecisionPoints,     \* the decision points of this run
  Shapes,             \* what formula comparison tells apart
  Operators,          \* what it does not
  CandidatesNumber,   \* run's first argument
  GenerationsNumber,  \* run's second argument
  MaxEvolutionRate,   \* percentage of a candidate's formulas evolve() visits
  SpeedUps,           \* scores a successful measurement may yield
  FallbackScore,      \* the score of a candidate that cannot be measured (0.7)
  KnowledgeBaseFiles  \* the possible contents of the knowledge base file

Formula == [shape : Shapes, op : Operators]

(* A candidate as the YAML file holds it: its formulas by value. *)
SavedCandidate ==
  [formulas : UNION {[D -> Formula] : D \in SUBSET AllPoints},
   total : Nat, count : Nat \ {0}]

Outcomes == SpeedUps \cup {FallbackScore}

ShapeOf(formulas) == [d \in DOMAIN formulas |-> formulas[d].shape]

(* A run that is asked for no candidate or no generation dereferences the    *)
(* end of an empty ranking when it reports, and is left out.                *)
ASSUME ParametersAssumption ==
  /\ DecisionPoints \subseteq AllPoints
  /\ IsFiniteSet(AllPoints)
  /\ CandidatesNumber \in Nat \ {0}
  /\ GenerationsNumber \in Nat \ {0}
  /\ MaxEvolutionRate \in 0..100
  /\ SpeedUps \subseteq Nat
  /\ FallbackScore \in Nat

(* The file is one that exportKnowledgeBase wrote: no two of its candidates  *)
(* compare equal.  The lists of decision points of the runs that wrote it    *)
(* only grew (a parameterised run adds its own to the plain ones): of two    *)
(* different lists one contains the other, or Candidate::operator< throws.   *)
ASSUME FilesAssumption ==
  \A saved \in KnowledgeBaseFiles :
    /\ saved \subseteq SavedCandidate
    /\ IsFiniteSet(saved)
    /\ \A a, b \in saved : ShapeOf(a.formulas) = ShapeOf(b.formulas) => a = b
    /\ LET lists == {DOMAIN a.formulas : a \in saved} \cup {DecisionPoints}
       IN  \A D, E \in lists : D \subseteq E \/ E \subseteq D

VARIABLES
  pc,             \* where run() is
  gen,            \* I, the number of generations finished
  at,             \* position of the loop over BestCandidates, from 1
  heap,           \* formula objects: Object -> Formula, partial
  KnowledgeBase,  \* set of candidates, no two of them equal
  BestCandidates, \* the vector of this generation
  elite,          \* << the first of ScoreSet >>, or << >> with an empty base
  RankingTmp,     \* (score, candidate) pairs of this generation
  Ranking,        \* scores of all pairs of the run so far
  best,           \* << the score printed as the best >>, or << >>
  file,           \* the knowledge base file, a set of saved candidates
  imported,       \* history: what the file held when the run began
  measured        \* history: the scores this run gave to candidates

vars == <<pc, gen, at, heap, KnowledgeBase, BestCandidates, elite, RankingTmp,
          Ranking, best, file, imported, measured>>

generation == <<at, BestCandidates, elite, RankingTmp>>
results    == <<Ranking, best, file>>
history    == <<imported, measured>>

-----------------------------------------------------------------------------
(* Formula objects and candidates. *)

(* The object some candidate was given for decision point d: slot i of       *)
(* BestCandidates in generation g, or, with g = 0, the i-th of the file.     *)
Object == Nat \X Nat \X AllPoints

IsCandidate(c) ==
  /\ c = [genome |-> c.genome, total |-> c.total, count |-> c.count]
  /\ DOMAIN c.genome \subseteq AllPoints
  /\ c.genome \in [DOMAIN c.genome -> Object]
  /\ c.total \in Nat
  /\ c.count \in Nat

IsPair(p) ==
  /\ p = [score |-> p.score, cand |-> p.cand]
  /\ p.score \in Outcomes
  /\ IsCandidate(p.cand)

EmptyCandidate == [genome |-> <<>>, total |-> 0, count |-> 0]

Objects(c) == {c.genome[d] : d \in DOMAIN c.genome}

(* The heap h after the objects of w were written (created or changed).     *)
Written(h, w) ==
  [o \in DOMAIN h \cup DOMAIN w |-> IF o \in DOMAIN w THEN w[o] ELSE h[o]]

(* Candidate::operator< orders by size, then by the formulas; two candidates *)
(* are equivalent when they have the same decision points and formulas of    *)
(* the same shapes, whatever their operators.                               *)
Key(c, h) == [d \in DOMAIN c.genome |-> h[c.genome[d]].shape]

Equal(a, b) == Key(a, heap) = Key(b, heap)

(* CompareByScore, without its tie break: total/count compared exactly.     *)
Better(a, b) == a.total * b.count > b.total * a.count

Saved(c) == [formulas |-> [d \in DOMAIN c.genome |-> heap[c.genome[d]]],
             total    |-> c.total,
             count    |-> c.count]

(* Candidate::clone() for slot i of the generation: every formula is copied  *)
(* to an object of its own, Score and Count are kept.                       *)
Clone(c, i) ==
  [c EXCEPT !.genome = [d \in DOMAIN c.genome |-> <<gen + 1, i, d>>]]

-----------------------------------------------------------------------------
(* SerialSet and std::set. *)

Has(c) == \E k \in KnowledgeBase : Equal(k, c)

(* Mutant: the equal candidate is erased, and nothing is inserted.           *)
UpdateErases(c) == {k \in KnowledgeBase : ~Equal(k, c)}

Update(c) == {k \in KnowledgeBase : ~Equal(k, c)} \cup {c}

(* Mutant: the candidates are taken as the knowledge base orders them.       *)
AnyFirst ==
  {s \in UNION {[1..n -> KnowledgeBase] : n \in 0..CandidatesNumber} :
     /\ \A i, j \in DOMAIN s : i < j => s[i] # s[j]
     /\ Len(s) = CandidatesNumber \/ \A k \in KnowledgeBase : \E i \in DOMAIN s : s[i] = k}

(* The ways ScoreSet may begin: CandidatesNumber candidates of the knowledge *)
(* base, or all of them, best first.  Equal scores are ordered by pointers,  *)
(* that is in any order.                                                    *)
BestFirst ==
  {s \in UNION {[1..n -> KnowledgeBase] : n \in 0..CandidatesNumber} :
     /\ \A i, j \in DOMAIN s : i < j => s[i] # s[j] /\ ~Better(s[j], s[i])
     /\ \A k \in KnowledgeBase :
          \/ \E i \in DOMAIN s : s[i] = k
          \/ /\ Len(s) = CandidatesNumber
             /\ \A i \in DOMAIN s : ~Better(k, s[i])}

-----------------------------------------------------------------------------
Init ==
  /\ pc = "import"
  /\ gen = 0
  /\ at = 1
  /\ heap = <<>>
  /\ KnowledgeBase = {}
  /\ BestCandidates = <<>>
  /\ elite = <<>>
  /\ RankingTmp = {}
  /\ Ranking = {}
  /\ best = <<>>
  /\ file \in KnowledgeBaseFiles
  /\ imported = file
  /\ measured = {}

(* Mutant: one generation too many. *)
NextGenerationTooFar(g) == IF g <= GenerationsNumber THEN "select" ELSE "report"

NextGeneration(g) == IF g < GenerationsNumber THEN "select" ELSE "report"

(* importKnowledgeBase: fill() creates one candidate, with formulas of its   *)
(* own, for every candidate of the file, in the file's order.               *)
ImportKnowledgeBase ==
  /\ pc = "import"
  /\ \E order \in [1..Cardinality(file) -> file] :
       /\ \A i, j \in DOMAIN order : order[i] = order[j] => i = j
       /\ \A a \in file : \E i \in DOMAIN order : order[i] = a
       /\ heap' = [o \in UNION {{<<0, i, d>> : d \in DOMAIN order[i].formulas} :
                                  i \in DOMAIN order} |->
                     order[o[2]].formulas[o[3]]]
       /\ KnowledgeBase' =
            {[genome |-> [d \in DOMAIN order[i].formulas |-> <<0, i, d>>],
              total  |-> order[i].total,
              count  |-> order[i].count] : i \in DOMAIN order}
  /\ pc' = NextGeneration(gen)
  /\ UNCHANGED <<gen, generation, results, history>>

(* Mutant: the best candidates are copied, not cloned. *)
SelectShared ==
  /\ pc = "select"
  /\ at' = 1
  /\ \E s \in BestFirst \ {<<>>} : BestCandidates' = s /\ elite' = <<s[1]>>
  /\ pc' = "evolve"
  /\ UNCHANGED <<gen, heap, KnowledgeBase, RankingTmp, results, history>>

(* The head of a generation: the best candidates are cloned; with an empty   *)
(* knowledge base, or none asked for, the generation is made of             *)
(* CandidatesNumber empty candidates instead.                               *)
SelectBest ==
  /\ pc = "select"
  /\ at' = 1
  /\ \E s \in BestFirst :
       IF s # <<>>
       THEN /\ BestCandidates' = [i \in DOMAIN s |-> Clone(s[i], i)]
            /\ heap' = Written(heap,
                 [o \in UNION {Objects(Clone(s[i], i)) : i \in DOMAIN s} |->
                    heap[s[o[2]].genome[o[3]]]])
            /\ elite' = <<s[1]>>
            /\ pc' = "evolve"
       ELSE /\ BestCandidates' = [i \in 1..CandidatesNumber |-> EmptyCandidate]
            /\ elite' = <<>>
            /\ pc' = "evaluate"
            /\ UNCHANGED heap
  /\ UNCHANGED <<gen, KnowledgeBase, RankingTmp, results, history>>

(* Candidate::evolve visits int(E * size()) formulas, some of them perhaps   *)
(* twice (Processed is never set), and turns each in place into some other.  *)
Evolutions(c) ==
  {D \in SUBSET DOMAIN c.genome :
     LET quantity == (MaxEvolutionRate * Cardinality(DOMAIN c.genome)) \div 100
     IN  IF quantity = 0 THEN D = {} ELSE Cardinality(D) \in 1..quantity}

EvolveCandidate ==
  /\ pc = "evolve"
  /\ at \in DOMAIN BestCandidates
  /\ LET c == BestCandidates[at]
     IN  \E D \in Evolutions(c) : \E f \in [{c.genome[d] : d \in D} -> Formula] :
           heap' = Written(heap, f)
  /\ at' = at + 1
  /\ UNCHANGED <<pc, gen, KnowledgeBase, BestCandidates, elite, RankingTmp,
                 results, history>>

(* The die spares the candidate. *)
KeepCandidate ==
  /\ pc = "evolve"
  /\ at \in DOMAIN BestCandidates
  /\ at' = at + 1
  /\ UNCHANGED <<pc, gen, heap, KnowledgeBase, BestCandidates, elite, RankingTmp,
                 results, history>>

(* The first of ScoreSet is pushed back: a shallow copy, which shares        *)
(* its formulas with the knowledge base.                                    *)
PushElite ==
  /\ pc = "evolve"
  /\ at \notin DOMAIN BestCandidates
  /\ BestCandidates' = Append(BestCandidates, elite[1])
  /\ at' = 1
  /\ pc' = "evaluate"
  /\ UNCHANGED <<gen, heap, KnowledgeBase, elite, RankingTmp, results, history>>

(* Mutant: only new candidates are completed. *)
MissingOfEmpty(c) == IF DOMAIN c.genome = {} THEN DecisionPoints ELSE {}

(* The decision points generateMissing adds: it returns early on the sizes.  *)
Missing(c) ==
  IF Cardinality(DOMAIN c.genome) = Cardinality(DecisionPoints)
  THEN {}
  ELSE DecisionPoints \ DOMAIN c.genome

(* The candidate at position at, once generateMissing gave it an object for  *)
(* each of the decision points it missed.                                   *)
Completed(c) ==
  [c EXCEPT !.genome = [d \in DOMAIN c.genome \cup Missing(c) |->
                          IF d \in Missing(c) THEN <<gen + 1, at, d>>
                          ELSE c.genome[d]]]

(* One round of the loop over BestCandidates: generateMissing, then the      *)
(* candidate is compiled and run, and the pair goes to RankingTmp, a         *)
(* std::set that ignores a pair equal to one it has.                        *)
Evaluate(score) ==
  /\ pc = "evaluate"
  /\ at \in DOMAIN BestCandidates
  /\ LET c    == BestCandidates[at]
         full == Completed(c)
         same(q) == q.score = score /\ Key(q.cand, heap') = Key(full, heap')
     IN  /\ \E f \in [{<<gen + 1, at, d>> : d \in Missing(c)} -> Formula] :
              heap' = Written(heap, f)
         /\ BestCandidates' = [BestCandidates EXCEPT ![at] = full]
         /\ RankingTmp' = IF \E q \in RankingTmp : same(q) THEN RankingTmp
                          ELSE RankingTmp \cup {[score |-> score, cand |-> full]}
  /\ measured' = measured \cup {score}
  /\ at' = at + 1
  /\ UNCHANGED <<pc, gen, KnowledgeBase, elite, results, imported>>

(* The compiled module ran and its cycles were counted. *)
MeasureCandidate == \E s \in SpeedUps : Evaluate(s)

(* It could not be compiled, or its run did not end with status 0.          *)
FailCandidate == Evaluate(FallbackScore)

EvaluationEnds ==
  /\ pc = "evaluate"
  /\ at \notin DOMAIN BestCandidates
  /\ pc' = "update"
  /\ UNCHANGED <<gen, heap, KnowledgeBase, generation, results, history>>

(* Mutants: Count stays; the equal candidate of the base is averaged with.   *)
LearnedUncounted(p) == [p.cand EXCEPT !.total = @ + p.score, !.count = IF @ = 0 THEN 1 ELSE @]

LearnedOfBase(p) ==
  IF Has(p.cand)
  THEN LET k == CHOOSE k \in KnowledgeBase : Equal(k, p.cand)
       IN  [p.cand EXCEPT !.total = k.total + p.score, !.count = k.count + 1]
  ELSE [p.cand EXCEPT !.total = p.score, !.count = 1]

(* What the knowledge base is told of a pair.  A candidate the base has      *)
(* averages in the new score with ITS OWN Score and Count, those it had when *)
(* it was cloned or copied, not with those of the base's equal candidate.    *)
Learned(p) ==
  IF Has(p.cand)
  THEN [p.cand EXCEPT !.total = @ + p.score, !.count = @ + 1]
  ELSE [p.cand EXCEPT !.total = p.score, !.count = 1]

(* One round of the loop over RankingTmp, from the highest score down.      *)
UpdateKnowledgeBase ==
  /\ pc = "update"
  /\ \E p \in RankingTmp :
       /\ \A q \in RankingTmp : q.score <= p.score
       /\ KnowledgeBase' = Update(Learned(p))
       /\ Ranking' = Ranking \cup {p.score}
       /\ RankingTmp' = RankingTmp \ {p}
  /\ UNCHANGED <<pc, gen, at, heap, BestCandidates, elite, best, file, history>>

(* Mutant: the generation is not counted. *)
EndUncounted ==
  /\ pc = "update"
  /\ RankingTmp = {}
  /\ pc' = NextGeneration(gen)
  /\ at' = 1
  /\ BestCandidates' = <<>>
  /\ elite' = <<>>
  /\ heap' = [o \in UNION {Objects(k) : k \in KnowledgeBase} |-> heap[o]]
  /\ UNCHANGED <<gen, KnowledgeBase, RankingTmp, results, history>>

(* The generation ends.  Formulas nothing points to any more are leaked; the *)
(* model forgets them.                                                      *)
EndGeneration ==
  /\ pc = "update"
  /\ RankingTmp = {}
  /\ gen' = gen + 1
  /\ pc' = NextGeneration(gen + 1)
  /\ at' = 1
  /\ BestCandidates' = <<>>
  /\ elite' = <<>>
  /\ heap' = [o \in UNION {Objects(k) : k \in KnowledgeBase} |-> heap[o]]
  /\ UNCHANGED <<KnowledgeBase, RankingTmp, results, history>>

(* Mutant: the last of Ranking is printed. *)
ReportLast ==
  /\ pc = "report"
  /\ \E s \in Ranking : (\A r \in Ranking : r >= s) /\ best' = <<s>>
  /\ pc' = "export"
  /\ UNCHANGED <<gen, heap, KnowledgeBase, generation, Ranking, file, history>>

(* The score of the first of Ranking is printed. *)
ReportBest ==
  /\ pc = "report"
  /\ \E s \in Ranking : (\A r \in Ranking : r <= s) /\ best' = <<s>>
  /\ pc' = "export"
  /\ UNCHANGED <<gen, heap, KnowledgeBase, generation, Ranking, file, history>>

(* stop(): the file is replaced by the candidates of the knowledge base.    *)
ExportKnowledgeBase ==
  /\ pc = "export"
  /\ file' = {Saved(k) : k \in KnowledgeBase}
  /\ pc' = "done"
  /\ UNCHANGED <<gen, heap, KnowledgeBase, generation, Ranking, best, history>>

Terminated ==
  /\ pc = "done"
  /\ UNCHANGED vars

Next ==
  \/ ImportKnowledgeBase
  \/ SelectBest
  \/ EvolveCandidate
  \/ KeepCandidate
  \/ PushElite
  \/ MeasureCandidate
  \/ FailCandidate
  \/ EvaluationEnds
  \/ UpdateKnowledgeBase
  \/ EndGeneration
  \/ ReportBest
  \/ ExportKnowledgeBase
  \/ Terminated

(* run() is one thread, and every program it forks is waited for: it goes on *)
(* as long as the programs it measures terminate.                           *)
Spec == Init /\ [][Next]_vars /\ WF_vars(Next)

-----------------------------------------------------------------------------
(* Properties. *)

(* Every variable has its type: heap and genomes are partial functions, and  *)
(* a score is a total over a count.                                         *)
TypeOK ==
  /\ pc \in {"import", "select", "evolve", "evaluate", "update", "report",
             "export", "done"}
  /\ gen \in 0..GenerationsNumber
  /\ at \in Nat \ {0}
  /\ DOMAIN heap \subseteq Object
  /\ heap \in [DOMAIN heap -> Formula]
  /\ \A k \in KnowledgeBase : IsCandidate(k)
  /\ BestCandidates = [i \in 1..Len(BestCandidates) |-> BestCandidates[i]]
  /\ \A i \in DOMAIN BestCandidates : IsCandidate(BestCandidates[i])
  /\ elite = <<>> \/ (elite = <<elite[1]>> /\ IsCandidate(elite[1]))
  /\ \A p \in RankingTmp : IsPair(p)
  /\ Ranking \subseteq Outcomes
  /\ best = <<>> \/ best \in {<<s>> : s \in Outcomes}
  /\ file \subseteq SavedCandidate
  /\ imported \subseteq SavedCandidate
  /\ measured \subseteq Outcomes

(* The knowledge base stays a set under Candidate::operator<: two of its     *)
(* candidates never compare equal, although the order is computed from       *)
(* formulas that are reached through pointers and that evolve() rewrites.    *)
EntriesDistinct ==
  \A a, b \in KnowledgeBase : Equal(a, b) => a = b

(* No step of a run rewrites or frees a formula the knowledge base points    *)
(* to: neither evolve() on the clones nor generateMissing() on the shallow   *)
(* copy of the best candidate reaches them.                                 *)
KnowledgeFrozen ==
  [][\A k \in KnowledgeBase : \A o \in Objects(k) :
       o \in DOMAIN heap' /\ heap'[o] = heap[o]]_vars

(* A heuristic that is known stays known: update() erases a candidate only   *)
(* to insert one that compares equal to it.                                 *)
NothingForgotten ==
  [][\A k \in KnowledgeBase :
       \E j \in KnowledgeBase' : Key(j, heap') = Key(k, heap)]_vars

(* What a candidate's score may be an average of. *)
Observed == {[total |-> a.total, count |-> a.count] : a \in imported}
              \cup {[total |-> s, count |-> 1] : s \in measured}

AtLeast(c, limit) == limit * c.count <= c.total
AtMost(c, limit)  == c.total <= limit * c.count

(* The score of a known candidate lies between the lowest and the highest    *)
(* score imported or measured, however stale the Score and Count it is       *)
(* averaged from: stated for every limit that all observations respect.      *)
ScoresBounded ==
  \A limit \in Outcomes :
    /\ (\A o \in Observed : AtLeast(o, limit)) =>
         \A k \in KnowledgeBase : AtLeast(k, limit)
    /\ (\A o \in Observed : AtMost(o, limit)) =>
         \A k \in KnowledgeBase : AtMost(k, limit)

(* A Count that one measurement in each of so many rounds may reach, from     *)
(* nothing or from that of a saved candidate.                               *)
KeepsPace(n, saved, rounds) == n <= rounds \/ \E a \in saved : n <= a.count + rounds

(* A generation raises the largest Count of the knowledge base by at most    *)
(* one, however many equal candidates it measured and tells the base of one  *)
(* after the other: the measurements of all but the last are lost.  The      *)
(* Count of one heuristic may rise by more than that, and may fall: a clone  *)
(* of another that evolved into it replaces it, with the Count it was cloned *)
(* with (SimpleGrammarEvolution.cpp:164-166).                               *)
CountsKeepPace ==
  LET rounds == gen + (IF pc = "update" THEN 1 ELSE 0)
  IN  \A k \in KnowledgeBase : KeepsPace(k.count, imported, rounds)

(* A candidate that is compiled has a formula for each decision point of the *)
(* run, also when it came from the file of a run that had fewer of them.     *)
EvaluatedComplete ==
  \A p \in RankingTmp : DecisionPoints \subseteq DOMAIN p.cand.genome

(* Elitism: once a generation is evaluated, a best candidate the knowledge   *)
(* base had is among those evaluated, with the formulas it was known by.     *)
BestMeasuredAgain ==
  pc = "evaluate" /\ at \notin DOMAIN BestCandidates
    /\ KnowledgeBase # {}
  => \E i \in DOMAIN BestCandidates, k \in KnowledgeBase :
       /\ \A other \in KnowledgeBase : ~Better(other, k)
       /\ \A d \in DOMAIN k.genome :
            /\ d \in DOMAIN BestCandidates[i].genome
            /\ heap[BestCandidates[i].genome[d]] = heap[k.genome[d]]

(* The score that is printed is the best of all scores of the run, also of   *)
(* those whose pair RankingTmp ignored or whose candidate was overwritten.   *)
ReportsTheBest ==
  best # <<>> => best[1] \in measured /\ \A s \in measured : s <= best[1]

-----------------------------------------------------------------------------
(* The run implements a KnowledgeStore of heuristics, a heuristic being what *)
(* the order of the knowledge base tells apart.                             *)
Heuristic == UNION {[D -> Shapes] : D \in SUBSET AllPoints}

Phase == IF pc = "import" THEN "closed"
         ELSE IF pc = "done" THEN "saved"
         ELSE "open"

Known == {Key(k, heap) : k \in KnowledgeBase}

Store == INSTANCE KnowledgeStore
           WITH Heuristics <- Heuristic,
                phase      <- Phase,
                known      <- Known,
                saved      <- {ShapeOf(a.formulas) : a \in file}

(* Every step of a run is one of the store's, or changes nothing it sees:    *)
(* in particular evolving, completing and ranking candidates do not.        *)
ImplementsStore == Store!StoreSpec

=============================================================================
