# Verification of pinhao

pinhao is an autotuner built on LLVM. It looks for *heuristics*: for each
optimization of a fixed sequence, a formula over static features of the program
that says whether (or with which argument) the optimization is applied. Formulas
are evolved by grammar evolution, the modules they produce are compiled and
measured in forked children, and what was learned is kept in a knowledge base
file that later runs start from.

This directory holds TLA+ models of that program, TLC configurations that check
them on small instances, and theorems with proofs checked by TLAPS.
`PROJECT.json` lists, for each definition, the source lines it models.

    tlc -workers 2 -config MCGrammarEvolution.cfg MCGrammarEvolution.tla
    tlapm GrammarEvolutionProofs.tla

## 1. The system

| Component | State it keeps | Operations | Talks to |
|---|---|---|---|
| Grammar evolution: `lib/MachineLearning/GrammarEvolution/{Simple…,Candidate}.cpp` | knowledge base (a `std::set` of candidates), the generation's candidates, two rankings, formulas reached by pointer | import, select and clone, evolve, complete (`generateMissing`), evaluate, update, report, export | formulas, features, optimizer, measurement, session files |
| Strategy variants: `GEOS…`, `SProfSimpleGrammarEvolution.cpp`, the tool's `Main.cpp` | the same | the same loop scored by estimated costs | GEOS, SProf |
| Compilation of a candidate: `compileWithCandidate` of `Simple…` and `ParSimpleGrammarEvolution.cpp` | an optimization set and a sequence per call | decide, write arguments, arrange, apply | formulas, optimization sets, forked compilation |
| Forked compilation and measurement: `Optimizer/Optimizations.cpp`, `PerformanceAnalyser/PAPIWrapper.cpp`, `Support/JITExecutor.cpp` | processes, exit statuses, files named after `time(0)` | `applyOptimizations`, `PAPIWrapper::run`, each a fork, a wait and a file | LLVM passes, PAPI, the measured program |
| Optimization sets and sequences: `Optimizer/OptimizationSet.cpp`, `OptimizationSequence.cpp` | a multimap from optimization to (arguments, repetition), a default sequence | enable, disable, add, set repetition, write arguments, draw a sequence | `rand()` |
| Formulas: `MachineLearning/GrammarEvolution/*Formula*` | a tree of literals, features, operators and ifs | generate, evolve, simplify, solve, compare, print, read | feature sets |
| Feature sets: `Features/FeatureSet.*`, `FeatureRegistry.*` | enabled names, a set of features, an iterator's position | enable, disable, get, run on a module, iterate, index | feature implementations |
| Control flow features: `FeaturesImpl/CFG*` | counters of blocks, functions and the module | process, sum up | LLVM's IR, containers |
| Other features: `FeaturesImpl/{FunctionsGene,PAPIMult,FunctionStaticCost}*`, `GEOSFeatures/*` | genes, frequencies, costs, counted events | process a module, run it under PAPI | LLVM's IR, PAPI, GEOS, SProf |
| Cost estimation: `PerformanceAnalyser/{GEOS,SProf}Wrapper.cpp` | none | loads a module and asks for its costs | GEOS, SProf |
| Feature containers and key iterators: `Features/{Map,Vector,MapVector}Feature.h`, `Support/Iterator.h`, `FeatureYAMLWrapper.h` | rows by key; one pair of static iterators for each class | set, loop over keys, print, read | options (`print-reduced`) |
| Options: `Support/YamlOptions.*`, `PinhaoOptions.*` | a registry of options by name | register, unregister, parse once, check what is required | every unit that includes an option's header, `main` |
| YAML form of the optimizer: `OptimizationInfo.*`, `OptimizerYAMLWrapper.cpp` | sequences of infos with typed arguments | make, draw, assign, set arguments, print, read | optimization names |
| Session files: `GrammarEvolution.h`, `SerialSetYAMLWrapper.h`, the tool's `Main.cpp` | the sequence file and the knowledge base file | look for or generate the sequence, import, export | every other run |
| Passes for `opt`, initialization and build | see section 8 | | |

How one run goes: `main` gets the sequence (reading the file or generating it)
and the decision points; `run` imports the knowledge base, measures a baseline,
and repeats for each generation: clone known candidates at random (and the best
one, by a shallow copy), evolve the clones, generate the formulas that miss,
solve each formula on the module's features to decide which optimization is
applied, compile in one child, measure in another, rank by speed-up, and fold the scores
into the knowledge base; `stop` exports it.

Where it is hard:

* **Aliasing and order.** `KnowledgeBase` is a `std::set` whose order is
  computed through pointers into formulas that other code rewrites. `clone()`
  copies formulas, the copy constructor shares them.
* **Stale copies.** A score is averaged from the score a candidate had when it
  was cloned; in the meantime another equal candidate may have been measured.
* **Processes.** Results cross from child to parent through files named by the
  second; a child may return from the function its parent is waiting in.
* **Restarts.** The two files outlive runs that overlap and die.
* **Random loops** that end only because the dice eventually fall right.
* **Client-driven mutation** of the set an iterator is walking, and iterators
  that are the same static object for all tables of a class.
* **Static order.** Options register themselves when units are initialized, in an
  order nobody chose, and one name has a copy in every unit that includes its header.
* **Places for names.** Measures, costs, arguments and counters travel as positions in
  vectors whose order is decided somewhere else.

What makes each component correct is stated as the properties of section 4.
The list of hazards, each at its line, is in `PROJECT.json`.

## 2. Modules

    KnowledgeStore   <-- implemented by --  GrammarEvolution
                                              |  extended by Strategies, which implements it too
                                              |  --  GrammarEvolutionProofs
    OptimizationBag  <-- implemented by --  OptimizationSet, which extends SequenceGenerator
                                              |  extended by Compilation, the set's clients
                                              |  --  CompilationProofs
    ForkedTools         processes and temporary files of one evaluation, several runs
                          --  ForkedToolsProofs
    Formula             the algorithms;  FormulaLife: one formula through generations
    Session             runs that share files
                          --  KnowledgeBaseProofs, of both: what the knowledge base keeps
    FeatureSet          enabling, running and iterating  --  FeatureSetProofs
    CFGFeatures         counters of blocks, functions, modules
                          |  extended by ProgramFeatures: all other features of the program
                          |  --  ProgramFeaturesProofs
    Options             one life of the program's options
                          |  extended by FeatureTables: containers, loops, their form
    OptimizationInfos   infos, sequences and their form
                          |  composed with FeatureTables by YAMLForms  --  OptionsProofs
    Inductions          lemmas that several of the proofs need

Two modules meet at an abstraction: `GrammarEvolution` takes a formula to be its
shape and its operators and any outcome of an evaluation, `Formula` and
`ForkedTools` say what happens inside; `Compilation` starts from the values of
the formulas and ends at the sequence that `ForkedTools` has a child apply; `CFGFeatures` and
`ProgramFeatures` say which value is computed for which key, and `FeatureTables`, whose
values are zero or not, how containers keep, print and read them; an info's arguments
are one value in `OptimizationSet` and one by one in `OptimizationInfos`; `Session` takes
from `GrammarEvolution` only that a run never forgets (`NothingForgotten`, proved
there) and models what happens between runs.

### GrammarEvolution

The state is that of `SimpleGrammarEvolution::run`: `pc` and the loop counters
`gen` and `at`; `KnowledgeBase`, `BestCandidates`, `RankingTmp`, `Ranking` as in
the code; a `heap` of formulas, so that what shares a formula in the program
shares it in the model; the `elite` (the shallow copy); the `file`. There is one
action per stage of the loop: `ImportKnowledgeBase`, `SelectBest`, for each clone
`EvolveCandidate` or `KeepCandidate`, `PushElite`, for each candidate
`MeasureCandidate` or `FailCandidate`, for each pair `UpdateKnowledgeBase`,
`EndGeneration`, `ReportBest`, `ExportKnowledgeBase`. `UpdateKnowledgeBase`
erases the candidate that compares equal and inserts the new one with the
average computed from *its own* score and count, as the code does.

Abstractions: what `evolve()` makes of one formula is any formula; an evaluation
gives any speed-up or the fallback score 0.7; the order of shapes takes a feature to find
itself different from any other formula (`Formula` has what `operator==` can do instead); scores are exact fractions
(total/count), where the code uses doubles; objects nobody points to leave the
heap at the end of a generation (they leak in the program, and nothing sees
them). At least one candidate and one generation are asked for: otherwise the
code dereferences `begin()` of an empty ranking.

### Strategies

`main` chooses between runs scored by cycles, by GEOS and by the static profiler.
The three `run` functions have the same loop; what an evaluation says is any
score of the constants anyway. The profiler's run compiles and measures the best
candidate once more before `stop()`, and asserts that this succeeds: `BestFails`
ends the run, without saving. The parameterised strategy brings more decision
points (a value of `DecisionPoints`) and its own `compileWithCandidate`.

### ForkedTools

A tuner is a stack of processes; each but the last waits for its child. Actions
are the forks, everything a child can do (run the passes and print, fail,
crash; open the counters, return early when PAPI refuses the event, run the
program, which may return, exit or crash), and what the parent does with the
status and the file. `time(0)` is `now`, which ticks at any time. A child that
returns from `PAPIWrapper::run` is in its parent's code with its parent's frame, and
goes on. `printModule` opens and writes the file in one step.

### OptimizationSet, SequenceGenerator, OptimizationBag

`SequenceGenerator` is `OptimizationSequence::generate`, one round of the inner
loop per action. `OptimizationSet` adds the operations of the set, with the
entries in multimap order, and callers that write arguments through the reference
`getOptimizationInfo` returns (`overwritten` remembers that one did). `OptimizationBag`
is what the set promises: a map. All arguments of an info are one value. Operations that
enable several optimizations at once, whichever vector or kind of pass they take them
from, are one action over any set of them; `generateSet` makes a set of any sequence
that is at hand.

### Compilation

A client of a set is either anyone, who calls its operations in any order (`ClientCalls`),
or `compileWithCandidate`. The latter is the loop of `compileWithCandidate` over a candidate's decision points in the order
of their names (`points` are those still to come, `point` the first of them), using the
operations of `OptimizationSet`, and then the sequence
arranged from the set, and what is applied: the sequence, or for the parameterised
strategy the set, for which `applyOptimizations` draws a random sequence. An empty
set has none, and its null pointer kills the child (`failed`).

### Formula, FormulaLife

`Formula` has generation, evolution, simplification, evaluation, order and the
YAML form as recursive functions on `Tree`, what the fields of a formula can hold whether or
not types and operators fit, of at most `MaxNodes` levels. What the dice decide is a set: `Generated[n]`
are the formulas made of `n`, `Simplified[f]` and `Evolved[f]` the outcomes. Ints have `Width` bits and
wrap. Operators are kept as the code keeps them, as a distance from the first of their kind.
`FormulaLife` takes one formula through the generations of a run and through the knowledge base:
`LifeInit` and `Evolve` are its generation and evolution, each with the simplification after it,
and `SaveAndLoad` the way through the file; `raw` remembers what was simplified last.

`operator==` of a feature returns early only if kind *and* type differ (`FeatureFormula.h` 74). Compared
with another formula of its type it reads a name that is not there (`Misread`). What it reads is
anyone's guess, so that `Equal[f][g]` and `Less[f][g]` are *sets* of outcomes: `{TRUE}`, `{FALSE}`, or, where
the answer depends on such a read, possibly below the operands of `f`, both.

### FeatureSet

`Enabled` is `EnabledFeatures`, `Features` the set's features with the modules
whose values each serves, `it` the iterator. Names are numbers in `std::map` order. Setting
`Processed` is up to each feature: `Registered` says which do. All but geos-bbfreq do
(`GEOSBasicBlockFreqFeature.cpp` 29–40), which the pass processes again with every module.
A null feature that is dereferenced sets `crashed`, after which nothing happens.
Indices have `Width` bits.

### CFGFeatures, ProgramFeatures

One action per level fills counters from blocks to functions to the module, by sums over
the level below. A counter
is a name; opcodes the code treats alike are one opcode. `IsModule` says what LLVM
guarantees of a module: a block ends with its only terminator, whose opcode tells how
many successors it has, and names are not used twice. Keys are names, real ones and those that
levels make of "Nameless" and a number, and a real function may have a made one: then
`processFunctions` sums both up in one row, `processModule` adds that row twice, and genes and costs
keep one of the two. `NamesApart` says that this does not happen; the properties
say which of their parts need it. `Reaches` is the two switches over degrees, whose cases fall
through. Once the module is counted,
`ProgramFeatures` processes the other features in the order of their names, each as a stage: genes
(a letter for each instruction), block frequencies, GEOS's costs (by the index of an
analysis), PAPI's events (by the place of a code among those available), static costs
(by name, in the order of addresses). What a tool measures is modelled by what it
measures: event `e` counts `e`. `asserts` is the build: with `NDEBUG` the calls of PAPI
that sit inside `assert()` are not made.

### Options, FeatureTables

`Options` is one life of the program: units construct their static options in the order
of a `scenario`, `main` parses the configuration name by name into every copy (`ParseName`), the
check of required options follows, and options are destroyed in the reverse order. Values are
"default" or "given". `EnterFunction`/`LeaveFunction` construct and destroy a local option, as
`cfg_bb_static` does when it prints.

`FeatureTables` adds tables: a row for each key, a value for each sub-feature. `It` and `End`
are the static iterators of `beginKeys` and `endKeys`, one pair for each class. A loop over
keys is three actions, as its `for` statement is: `LoopTest`, body, `LoopIncrement` (or `LoopBreak`);
loops nest, and everything else may happen in a body. `append` prints (leaving out
zeros if `print-reduced` has its default), `fill` reads into any table of the class,
fresh or not.

### OptimizationInfos, YAMLForms

A sequence is made of optimizations (`generateOf`, `randomize`), arguments are set and infos
assigned; `print`, `getSequence` and `fillSequence` are its form. Assignment is what the code
does: it appends. An argument read over one of another type leaves any value of that type.
`YAMLForms` puts these next to `FeatureTables` in one program, whose options have been parsed.

### Session

Runs look for the sequence file, generate and print it, import, learn, and
export, and may die at any step but idle. The sequence is short: its file is
empty or whole. The knowledge base is truncated, printed in parts, and finished; parts
are any subset of the candidates or a text that does not parse, and two writers at once
leave any mixture. `Observe` keeps the history that the properties need: which
runs know less than the file may hold, and whether a save was interrupted.

## 3. Plan

Built, most important first: `GrammarEvolution` and its proofs,
`ForkedTools`, `SequenceGenerator`/`OptimizationSet`, `Formula`, `FeatureSet`,
`CFGFeatures`, `Session` and its proofs, `Strategies`, `Compilation`; then
`ProgramFeatures`, `Options`, `FeatureTables`, `OptimizationInfos` and their composition
`YAMLForms`; then, once induction over finite sets and bounded ranks was at hand
(`Inductions`), the proofs of `ForkedTools`, `OptimizationSet` and `Compilation`, of
loops and searches over features, of the forms, and of all features of a program. One run
answers what clients of a set and `compileWithCandidate` ask together, and one what
options, containers and forms do.

Last, `Formula` with recursive functions in the place of recursive operators, and the theorems
about simplification, order and the file's form of formulas.

What a next step could be: floats, whose rounding `operator<` on literals and simplification
would have to do with; the roulette's weights, for how large formulas get; and a `Session` whose
runs learn one heuristic at a time, to compose `KnowledgeStore` with runs that overlap.

## 4. What the runs check

| Run | Instance | Checks |
|---|---|---|
| `evolution` | 2 candidates, 1 decision point, 2 generations, 2 shapes × 2 operators, scores 10 and 7 (fallback), three files: empty, one averaged entry, two entries of which one lacks the decision point | types; `EntriesDistinct`, `KnowledgeFrozen`, `NothingForgotten`: the set stays a set, its formulas are never rewritten, nothing known is lost; `ScoresBounded`: an average never leaves the range of its observations; `CountsKeepPace`: a generation raises the largest `Count` by at most one, however many copies it measures; `BestMeasuredAgain`: elitism; `ReportsTheBest` |
| `strategies` | all strategies, 1 candidate, 2 decision points and a third in the files, 2 generations, evolution rate 50 % | `EvaluatedComplete`: what is compiled has every decision point; `EventuallyEnds`; `ImplementsStore` (refinement) |
| `forked_tools` | 2 tuners in one directory, one candidate each, 2 seconds, PAPI knowing the event or not | `OwnModule`, `HonestMeasurement`: whose module and counters a tuner gets; `OnlyFailuresLeak`; `ExportsBounded`; no deadlock |
| `compilation` | any client of a set with infos (0,0), (0,1), (1,0), repetitions ≤ 2, ≤ 2 entries, sizes −1…3, arguments overwritten; and every candidate and every sequence file over 3 optimizations, two with arguments | `OneEntryPerInfo`; `ImplementsBag` (refinement, until arguments are overwritten); `Budget`, `LeavesOutTheLast`, `GenerationEnds`: what is drawn, and that drawing ends; `AppliesDecisions`: the module is compiled with what the candidate decides, once, and in a plain run in the file's order |
| `formula_life` | 2-bit ints, literals ≤ 1, ≤ 6 nodes, one feature with values 0, 1 | `NothingLeftToCompute`, with types; `SimplifyKeepsValue`, `KnowledgeBaseKeepsFormula`; `OrderIsStrict`: of the comparisons that do not depend on a misread |
| `feature_set` | 4 names (one not registered, one that does not mark itself processed), 2 sub-names, 2 modules, symmetric, 3-bit indices | `LoopFindsAll` while the client enables and disables; `OneModule`: which modules' values are served together; `NthOfKindAndType` |
| `program_features` | every kind of instruction, every graph of up to 3 blocks, every naming of 3 functions with and without bodies, by a name of their own, none, or one that is made for a nameless function, 2 events, debug and release builds | `NothingLost`, `DegreesAddUp`: what counters of one level say of another and of the graph; `TablesAgree`: genes, frequencies and static costs describe the functions the counters do, under the same keys; `MeasuresInPlace` |
| `yaml_forms` | 7 options of 3 names in 2 units, one local, every configuration; pairs of tables of every container with 2 keys and 2 sub-features, loops 2 deep; 4 optimizations with 0, 1 and 2 arguments, sequences of ≤ 2 | `RegisteredAreAlive`, `CopiesAgree`, `RequiredGiven`; `LoopVisitsAll`; `ReadsBack`, `SequenceReadsBack` |
| `session` | 3 runs, 2 heuristics, 2 orders, symmetric | `KnowledgeKept`, `OneSequence` |
| `parameterised_order`, `formula_operators`, `feature_set_index` | as the component's run (`formula_operators` with 5 nodes) | one violated property each, section 6 |

Why the bounds suffice. Two candidates in a generation are the fewest that can
be equal, collide in `RankingTmp` and update one known candidate twice; two
generations let the second select what the first learned and stale scores meet;
one decision point of two shapes gives equal, smaller and larger
candidates. Lists of decision points matter only through their sizes and containment,
so that two points and a third in the file have every case of `generateMissing`. A
collision of temporary files needs two tuners and one second, an earlier failure
that leaves a file needs a second call. Three infos have two of one optimization
and one of another, which is what the multimap tells apart; three optimizations
have one between two others in every order. Two units are the fewest with a copy each, two
tables of one class those that share iterators, and a scenario has either options, loops or
forms vary, which meet only in `print-reduced` and in loops inside loops. With six nodes a
formula has an operator below an operator below an if. Three runs are one that
saves, one that is stale and one that is damaged by both; the proofs
cover any number.

Symmetry is used for the tuners, for the modules a pass is given, and for runs, heuristics and
orders, in configurations that check no liveness.

## 5. Fairness

* `GrammarEvolution` and `Strategies`: weak fairness of the next-state relation. A run is one thread that blocks
  only in `waitpid`, and the children it waits for are assumed to end.
* `Compilation!ClientSpec`, for `SequenceGenerator`: weak fairness of a round (a loop of one thread), and strong
  fairness of `Pick`. `rand()` is a draw against 0.5: a generation in which no
  entry with repetitions left is ever picked has probability zero. Weak fairness
  of `Pick` would say nothing, as rounds that skip used-up entries disable it.
* All other modules have none and claim no liveness.

## 6. Findings

1. `parameterised_order`: `ParSimpleGrammarEvolution::compileWithCandidate`
   arranges a sequence in the order of the sequence file and then applies the
   *set*, for which a random sequence is generated; the one arranged is not used.
   `GrammarEvolution.h:81`: "Gets the sequence from a file, for the execution."
2. `formula_operators`: `BoolBinOpFormula::doOperation` adds `DIV` to the
   operator's id where `getOperator`, and so the knowledge base, adds the first operator of
   the operands' type. A formula written `a<b` is always false, `a>b`
   computes `a<b`, and operations on bools are always false.
   `BinOpFormula.h:21`: "Executes the specified operation, and returns the value."
3. `feature_set_index`: `FeatureSet::get(N, type)` counts features of every type.
   `FeatureSet.h:130` promises the Nth of the type.

Four more disagreements decide what a property can say. They have no run of their own: the models do
what the code does, and the property names the exception.

* `FeatureFormula.h` 74 has `&&` for `||`, so that a feature reads a name out of any formula of its type it
  is compared with. `OrderIsStrict` holds of the comparisons that come out one way whatever is read; where
  a feature meets another formula, nothing is promised, and `std::set` and `std::map` of candidates may
  lose or duplicate one.
* geos-bbfreq never marks itself processed: with a second module it serves the values of both, next to
  features that serve the first (`OneModule`).
* A function called `Nameless0` shares its row with the nameless function the code makes that name for
  (`CFGFunctionStaticFeatures.cpp` 118–120, `CFGModuleStaticFeatures.cpp` 65–66). The module counts
  both functions twice, and one gene and one cost are lost (`NothingLost`, `TablesAgree`, under `NamesApart`).
* The cases in `CFGFunctionStaticFeatures.cpp` 74–86 fall through, so that `nof_2pred_bb` is of one *and*
  two predecessors and `nof_g2pred_bb` of any, where 172–177 describe them as "2-pred" and
  "-gt 2-pred". `DegreesAddUp` states what the numbers are, read as cumulative; were there a `break` after
  each case, as the descriptions have it, it would be violated.

Seen while reading, modelled as they are or outside the models:

* `setRepetition(Opt, Rep)` looks for *any* entry of `Opt`, then sets the entry
  with default arguments; if `Opt` is enabled with other arguments only, nothing is
  set, where `OptimizationSet.h:85` says it sets the repetition if the
  optimization is enabled;
* a parameterised candidate that enables nothing crashes the child that compiles it
  and gets the fallback score, where a plain one is measured;
* nameless functions are numbered over all functions at one level and over those
  with bodies at the next: a declaration among nameless functions fails an
  assertion (`CFGFeatures`, phase `no such key`);
* in `CFGFunctionStaticFeatures.cpp` names of predecessors and successors are swapped at
  90–93, and the counters of 183–185 are never computed;
* `FeatureInfo.h` 76–80 swaps `isStaticFeature` and `isDynamicFeature`;
* `OptimizationInfo.cpp` 107–110: assignment appends arguments, which is harmless only
  where an info without arguments is assigned to, as reading does (`SequenceReadsBack`);
* `cfg_bb_static` constructs its `print-reduced` when it prints: the configuration,
  parsed long before, does not reach it (`CopiesAgree`, second half);
* the check of required options (`YamlOptions.cpp` 100–111) leaves a name at its first
  option that is not required (`RequiredGiven` is what is left of it);
* `beginKeys` and `endKeys` share their iterators between all tables of a class: a loop
  in a loop over such tables ends early, or never, or runs off the end (`LoopVisitsAll` is for
  loops alone);
* `FormulaYAMLWrapper.h` 45 has no `break`: a boolean operation is read a second time, through a
  cast to an arithmetic one. The two have one layout and one order of virtual functions, so that it
  finds the operands and the first operator it found before (`Read`);
* `CFGStaticFeaturesDiffPass.cpp` 55 skips a function only if both collections lack it: one that
  only one of them has ends `opt` with an exception;
* `OptimizationSequence.cpp` 95–100 creates each pass twice;
* `PAPIMultFeatures.cpp` has side effects inside assertions: a release build counts
  nothing and reports zeros (`ProgramFeatures`);
* `SProfSimpleGrammarEvolution.cpp` 113–115 asserts on a compilation before what was learned is saved;
* a run that dies between creating and printing the sequence leaves an empty
  file that stops every later run (`Session`).

## 7. What is proved

Proofs are in `GrammarEvolutionProofs`, `ForkedToolsProofs`, `CompilationProofs`,
`FeatureSetProofs`, `ProgramFeaturesProofs`, `OptionsProofs` and `KnowledgeBaseProofs`, and the
lemmas several of them need in `Inductions`, for every value of the constants
that satisfies the assumptions declared next to them. These assumptions say:

| Assumption | Module | Says |
|---|---|---|
| `ParametersAssumption`, `FilesAssumption` | `GrammarEvolution` | candidates, generations and counts are positive; files hold finitely many candidates, no two of them equal, with lists of decision points that contain one another |
| `ToolsAssumption` | `ForkedTools` | finitely many tuners; steps and seconds are natural numbers |
| `SetAssumption` | `OptimizationSet` | finitely many infos, pairs of numbers, with the default one of each optimization among them |
| `NamesAssumption`, `WidthAssumption`, `ModulesAssumption` | `FeatureSet` | names are positive numbers and there is at least one; `Width` bits; the marks of a feature that is not processed and of a null one are no modules |
| `ProgramsAssumption`, `FeaturesAssumption` | `CFGFeatures`, `ProgramFeatures` | programs are modules as LLVM has them (`IsModule`); events are finitely many positive numbers |
| `OptionsAssumption`, `TablesAssumption`, `InfosAssumption`, `FormsAssumption` | `Options` to `YAMLForms` | options are finitely many and every static one is constructed once; tables of one class are of one kind, keys are positive numbers, sub-features are finitely many and there is one; names of optimizations are not repeated, default arguments have values of their types |
| `FormulaAssumption` | `Formula` | `Width`, the largest literal and `MaxNodes` are positive, a literal fits an int, half the number of ints is a positive number; features are finitely many numbers and there is one; counts are numbers |
| `FilesAssumption` | `Session` | the marks of a file are no permutations |

**Inductions.** The library states induction with an operator as a parameter, which none
of the provers can instantiate. It can be had all the same where the fact to be proved
defines a *set*: a set of numbers with 0 and all successors of its members is
`Nat` (`SetInduction`, from the well-foundedness of `<`), and the same for subsets
of a finite set (`FiniteInduction`) and members of lower rank (`RankInduction`). A fold or
a recursive function is a `CHOOSE` of a function that satisfies equations; that there is
one at all is `FoldExists`, over the subsets of a finite set, and `RecursionExists`,
`IterationExists` and `FunctionExists`, for steps that lower a bounded rank. With these, what folds of the
community modules and recursive functions of the models compute is proved, and not taken
for granted.

**GrammarEvolution** (from `ParametersAssumption` and `FilesAssumption`). None of
the properties is inductive alone. `IInv` is the conjunction of

* `Typed`, the variables' types with the bounds on `gen`, `at` and lengths;
* `KnowledgeSound`: the candidates of the base have been measured, point to
  formulas that are in the heap, and until the generation's update to formulas
  of *earlier* generations;
* `ClonesSound`: while the clones evolve, each points only to formulas of its own
  slot and of *this* generation, and the elite is in the base;
* `GenerationSound`: what vectors and rankings hold at each stage, and that their
  candidates point to formulas that are in the heap;
* `EntriesDistinct`.

The argument: `evolve` writes through the clones' pointers, to formulas of this
generation, and `KnowledgeSound` has none of those; `generateMissing` only adds
formulas; `update` erases every candidate equal to the one it inserts. The proof has one
step per action and, under it, one per conjunct. It gives

| Theorem | States |
|---|---|
| `Invariance` | `Spec => []IInv`, on which the others rest |
| `TypeCorrect` | `Spec => []TypeOK` |
| `KnowledgeIsASet` | `Spec => []EntriesDistinct` |
| `FormulasFrozen` | `Spec => KnowledgeFrozen` |
| `KnowledgeGrows` | `Spec => NothingForgotten` |
| `RunIsAStore` | `Spec => ImplementsStore` |

For the refinement, import opens the store, an update learns, the export saves, and all
other steps stutter, for which `FormulasFrozen` is needed: the keys of the base are read
through the heap that they write.

For scores, the invariant is extended by what candidates carry along. A candidate is
`Plausible` if its list of decision points is comparable with the run's and its score
respects every limit that all observations do. `SamplesSound` says so of the base, the
vector and the ranking, with the pace `Count`s keep (`KeepsPace`): a candidate of the vector or the
ranking has not used up this generation's round, whichever candidate it was cloned from, so that replacing
a known one by it, with a `Count` that may be larger or smaller, stays within the pace. It follows from `FilesAssumption` at the import, clones and
copies keep it, and averaging one more observation in keeps it (`LearnedIsPlausible`),
whatever the candidate's `Score` was when it was cloned. `generateMissing` returns
early on equal sizes; on comparable lists these are equal lists (`CompletedIsComplete`).
`RankingSound` has every measured score in one of the rankings, and `EliteSound` follows the
first of `ScoreSet` to the end of the evaluation.

| Theorem | States |
|---|---|
| `CountsKeepUp` | `Spec => []CountsKeepPace` |
| `ScoresAreAverages` | `Spec => []ScoresBounded` |
| `EvaluatesComplete` | `Spec => []EvaluatedComplete` |
| `EliteIsMeasured` | `Spec => []BestMeasuredAgain` |
| `BestIsReported` | `Spec => []ReportsTheBest` |

Two of these are lifted to every strategy, since a step of one is a
step of the loop or the end of an aborted run:

| Theorem | States |
|---|---|
| `StrategiesEvaluateComplete` | `StrategySpec => []EvaluatedComplete` |
| `StrategiesAreStores` | `StrategySpec => ImplementsStore` |

**ForkedTools.** The properties speak of the top of a tuner's stack of processes; the
invariant has to say what the processes below wait for. `Inv` is `Typed`, `NoCounters`
(on a machine whose PAPI does not know the event there is no file of counters), `Held`
(every file is one that a failed call left or one that some process of some tuner is
about to remove) and, for each tuner,

* `Nested`: all processes but the last two wait for a measurement, a child in a call
  has the name and the step of the process that waits for it, and where PAPI knows the
  event no stack is deeper than two;
* `Named`: a process in a call names a file of the second the call was made in;
* `OwnFile`, `OwnCounters`: from where the child has written to where the parent
  removes, the file has this step's module, or counters, or another call of that
  second is known to have been made;
* `ExportsLeft`: where PAPI knows the event, one export is made at the end. Where it does
  not, what the tuner has exported and what each of its processes is `Worth` (the exports
  it and its children can still lead to) add up to at most `Copies[Steps + 1]`: a
  process that measures becomes two, so that each is worth half of what it was a step before;
* `Honest`: what was measured so far is honest.

A step of one tuner is a change of its top, a fork or an exit (`ReplacedKeeps`, `PushedKeeps`,
`PoppedKeeps`), and it does not disturb the others (`Bystander`) unless their file has
the same name, which makes them collide (`NamesCollide`).

| Theorem | States |
|---|---|
| `ModulesAreOwn` | `Spec => []OwnModule` |
| `MeasurementsAreHonest` | `Spec => []HonestMeasurement` |
| `OnlyFailedFilesStay` | `Spec => []OnlyFailuresLeak` |
| `ExportsAreBounded` | `Spec => []ExportsBounded` |

**OptimizationSet and Compilation** (from `SetAssumption`, for `ClientSpec`, which
starts as either client). `SetSound` says that the entries are a
multimap, in order and, until arguments are written through a reference, without two of
one info; and, in the middle of `generate`, `GenerationSound`: which entries
the round has looked at, and that those before it have nothing left if it is to finish.
`Budget` needs both. Every operation either
inserts an entry behind those of its optimization, cuts one out, or writes one
(`InsertedKeeps`, `ErasedKeeps`, `GivenKeeps`, `WrittenKeeps`); the ones that enable several at once
are folds of the first. The refinement is one lemma for each operation (`EnableChange`, `DisableOptChange`,
and so on): read as a map from infos to repetitions (`Reps`), the multimap makes the
bag's step or stutters, early returns included.

For a compilation, `DecideInv` says what was decided by the points already passed:
`PointsInOrder` (points are taken in order), `Made` (the set has one entry for each
optimization decided on, with its arguments, of repetition one) and `Phase` (after the loop,
the sequences have each of these entries once, and in the file's order in a plain run). That
`generate` with the size of the set leaves none out is counting: as many picks as
infos, none of them twice (`AllPicked`). The arranged sequence is a fold over the file's (`ArrangedIs`).

| Theorem | States |
|---|---|
| `InfosHaveOneEntry` | `ClientSpec => []OneEntryPerInfo` |
| `RepetitionsAreSpent` | `ClientSpec => []Budget` |
| `OnlyTheLastAreLeftOut` | `ClientSpec => LeavesOutTheLast` |
| `SetIsABag` | `ClientSpec => ImplementsBag` |
| `DecisionsAreApplied` | `ClientSpec => []AppliesDecisions` |

**Session** (from `FilesAssumption`). For `KnowledgeKept` the invariant has to say
what the runs under way know. `KnowledgeInv` is `Typed`, `StaleSound` (while one run
saves, every other that has read the file is stale), `KnownSound` (as long as
nothing is damaged, a run that is not stale knows all that was saved) and
`KnowledgeKept`. A step moves one run and leaves the others where they are (`OthersWait`); one
lemma follows for each conjunct, of which `SavedStep` says that `saved` grows only
by what a completed export wrote. `OneSequence` needs `SequenceInv`: a run has a
sequence only after the file was created, and without contention the one run
that generates finds no file when it creates it and its own empty one when it
prints.

| Theorem | States |
|---|---|
| `KnowledgeStays` | `Spec => []KnowledgeKept` |
| `SequenceShared` | `Spec => []OneSequence` |

**FeatureSet** (from `ModulesAssumption`: the marks of a feature that is not processed and of
one that is null are no modules). `OneModule` compares a feature that is processed with
every other after the next step, so its invariant, `IInv`, adds `AllOrNone`: unless a null
feature ended the program, a set in which one feature is marked processed serves one module
throughout (`AllServe`), alone where features mark themselves and among others where they do not. Only `get` and
`runOnModule` change features (`FeaturesStep`); the second adds to a processed set only where
features do not mark themselves (`RunSound`).

| Theorem | States |
|---|---|
| `ServesOneModule` | `Spec => OneModule` |
| `LoopMissesNone` | `Spec => []LoopFindsAll` |
| `NthIsFound` | `Spec => []NthOfKindAndType` |

For loops, `LInv` is `Named` (what is enabled has a name, what is in the set and not null is
registered) and `LoopSound`: what the loop has seen is in order, its iterator is on the
pair seen last, and what was enabled all along is seen or ahead of it (`Between`). That
`++` ends, and on which pair, rests on the distance of an iterator from the end
(`IncComesCloser`), which also bounds the recursion of `update()`. The search of
`get(N, kind, type)` is the same walk with an index that counts down: as long as the
index is below the number of pairs of that kind and type that remain,
it ends on one, and `SearchFinds` says which.

**CFGFeatures and ProgramFeatures** (from `ProgramsAssumption` and `FeaturesAssumption`).
Counters are sums over finite sets, so that sums come first: they exist, add up over
disjoint parts, and what is counted place by place is counted as a whole (`CountedByPlaces`, used for
edges from both of their ends). `Computed` says what each level holds in each phase, as a
function of the module. The two ways of numbering nameless functions agree
where every key is found (`KeysAgree`): were there functions whose
numbers differ, the key the module makes for the first of them would be no function's.
Rows of functions that share a key add up to all functions, whatever the keys are
(`SumByPlaces`); the module's sum needs one key to each function, hence `NamesApart`.
`DegreesAddUp` counts edges at their sources and at their targets (`DegreesCountEdges`, of cases that are
reached cumulatively, `CasesReached`), and the terminators of
`IsModule` give the edges that branches and invokes have (`BranchesGoOn`). A row may be of several graphs,
but what `DegreesAddUp` says is kept by addition: it holds of no graph (`NoGraph`), of one more
(`MoreGraphs`, `FunctionIsGraph`), and so of any set of functions (`AnyGraphs`).

`Described` says that genes, frequencies and costs are, from their stage on, what the
module gives: the flattened genes have as many letters of each kind as instructions were
counted (`LettersAddUp`, by a table of which counters a letter stands for), and
numbering functions in *any* order of their addresses gives every key below
their number (`RanksFill`). `Measuring` has events and measures in the same places, as long as nothing asks
for them.

| Theorem | States |
|---|---|
| `CountersAddUp` | `Spec => []NothingLost` |
| `DegreesAlwaysAddUp` | `Spec => []DegreesAddUp` |
| `MeasuresStayInPlace` | `Spec => []MeasuresInPlace` |
| `TablesAlwaysAgree` | `Spec => []TablesAgree` |

**Options** (from `OptionsAssumption`, for the composition `YAMLForms`, so that an option
which comes and goes while a table is printed is included, and `TablesAssumption`, which
says that this one is not static). Of all steps, only those that construct or destroy an
option change what is alive or registered (`OptionStep`). `IInv` is `RegisteredAreAlive`
and `AliveOnce`: were an option alive twice, the first of its destructors would unregister both. `ValuesSound` adds what the
parser has written at each stage: it reaches the copies that are registered, hence alive
and, before main goes on, static. `RequiredSound` adds that the options alive before main
are those the order of construction begins with, so that all static ones are registered
when the check of required options looks at them.

| Theorem | States |
|---|---|
| `RegistryIsAlive` | `FormsSpec => []RegisteredAreAlive` |
| `CopiesHaveOneValue` | `FormsSpec => []CopiesAgree` |
| `RequiredAreGiven` | `FormsSpec => []RequiredGiven` |

**FeatureTables and OptimizationInfos** (from all assumptions of `YAMLForms`, for that composition). `KeysSound` says that
tables have rows of their container's shape, and a printed document what `append` leaves of the
table it was printed from. `LoopsSound` says of a loop that has run alone that the
class's iterators are its own and that it `Follows` them: what it has seen is in order and every key it began
with is seen or ahead; `LastChanges` and `LoopEnds` say that only the innermost loop
moves, `DisturbedSound` that a loop which loses its iterators to another is not alone any more. Reading a table is a
fold over the document, in any order (`FilledWith`). `SequenceSound`
says that infos have at least the arguments they take and, unless one was assigned over
another, exactly those and of their types (`Fits`).

| Theorem | States |
|---|---|
| `LoopsVisitAll` | `FormsSpec => []LoopVisitsAll` |
| `FormsReadBack` | `FormsSpec => ReadsBack` |
| `SequencesReadBack` | `FormsSpec => SequenceReadsBack` |

**FormulaLife** (from `FormulaAssumption`). The inductive invariant, `LifeInvariant`, is short: `raw` is a tree
whose types fit, made of at most `MaxNodes`, and `form` is one of its simplifications. The work is in
the functions. `TreeInduction` is induction over trees, by their level, and `TreeFunctionExists`, by
`FunctionExists` of `Inductions`, that a function computed from its values for the parts exists.
From these each function of the model satisfies its equation, stated for each kind of tree
(`NodesAre`, `SubformulasAre`, `SolveIs`, `NodeIs`, `ReadIs`, `SimplifiedIs`, `GeneratedIs`, `EvolvedIs`, `EqualIs`,
`LessIs`). Then:

* what is generated has its type and size (`GeneratedTyped`, by size), and what replaces
  a part in an evolution has the part's type and fits the room it leaves (`ReplacedTyped`,
  `EvolvedTyped`); a tree of few enough nodes has few enough levels (`SmallEnough`);
* what is simplified is simple, keeps its type and does not grow (`SimplifiedTyped`): a divisor that
  becomes a literal zero only by being simplified is replaced before the operation is folded;
* simplification keeps values (`ValueKept`): folding executes what evaluation executes, on
  values that are ints (`WrapIsInt`, `DoOperationIs`), so long as no divisor is replaced;
* reading takes away the offset that writing added (`ReadsWhatWasWritten`), in every tree;
* for the order, `Same` and `Sooner` are what the operators answer where a feature finds itself different
  from any other formula. They are an equivalence (`SameIsEquivalence`) and a transitive order (`SoonerIsTransitive`), and exactly one of before,
  same and after holds (`OneOfThree`), by induction over the operands: the first that differ decide (`FirstDecides`). The outcomes of `operator==` and
  `operator<` always include theirs, so where there is one outcome only it is theirs, and what is sure inherits the order;
  and without features in the left formula every comparison is sure (`FeaturelessIsSure`).

| Theorem | States |
|---|---|
| `FormulasFit` | `LifeSpec => []LifeInvariant` |
| `SimplifiedFormulas` | `LifeSpec => []NothingLeftToCompute` |
| `SimplificationKeepsValues` | `LifeSpec => []SimplifyKeepsValue` |
| `FormulaReadBack` | `LifeSpec => KnowledgeBaseKeepsFormula` |
| `FormulaOrderIsStrict` | `LifeSpec => []OrderIsStrict` |
| `FormulasAreOrdered` | for any three formulas, the sure comparisons are of a strict order whose ties are `operator==` |
| `FeaturelessIsSure` | a formula without features has one outcome in every comparison |
| `SimplificationYields` | `\A f \in Tree : Simplified[f] # {}` |

Only model-checked: liveness (`EventuallyEnds`, `GenerationEnds`), which is out of the
prover's reach, and the three properties that the code violates (section 6). Every other
property of a passing run is stated by a theorem.

## 8. What is not modelled

* The estimates of GEOS and SProf, and what PAPI counts: libraries outside the
  repository. Where their results go is in `ProgramFeatures`, what they do to a run in `Strategies`.
* `createPass`, `populatePassManager`, `populateWithOLevel`, `getPassKind`: they translate
  an info or a level into LLVM objects and keep nothing. The level of a sequence is
  not part of its form, and sets have none.
* The passes under `tools/OptLibraries`: they print what `append` prints or differences of
  two tables; what they call is in `ProgramFeatures` and `FeatureTables`.
* how doubles are written and read: a value of `FeatureTables` is zero or one, so that what
  the decimal form of a double loses is not examined.
* float and string formulas, which no decision point generates, and the roulette's weights.
* `YamlOptions::remove(name)` and `printHelp`, which nothing calls; comments and the index of
  blocks in printed features.
* Initialization routines (empty functions that keep registrations linked), build
  files, tests, logging and the wording of YAML documents.
