---------------------------- MODULE ProgramFeatures ----------------------------
(***************************************************************************)
(* The features of a module other than the counters of CFGFeatures: the      *)
(* genes of its functions (function-dna), how often GEOS says its blocks run *)
(* (geos-bbfreq) and what it estimates them to cost (geos-features), the      *)
(* events that PAPI counts while it runs (papi-feat-m), and the static costs *)
(* of its functions (static-cost). They are processed one after the other,   *)
(* in the order of their names, once the counters are.                      *)
(***************************************************************************)
EXTENDS CFGFeatures, SequencesExt

CONSTANTS
  Events,  \* the sub-features of papi-feat-m, by number; event e counts e
  Asserts  \* the builds: whether assert() evaluates its argument

ASSUME FeaturesAssumption ==
  Events \subseteq Nat \ {0} /\ IsFiniteSet(Events) /\ Asserts \subseteq BOOLEAN

VARIABLES
  asserts,     \* the build
  stage,       \* the feature that is processed next
  gene,        \* genes by function name
  frequency,   \* the blocks that have a frequency
  geos,        \* the values of geos-features
  EventCodes,  \* the events that are available, in the order they are added
  Values,      \* what PAPI_stop fills, one value for each of them
  papi,        \* the values of papi-feat-m
  cost         \* the function whose cost is kept at a function name

tables   == <<gene, frequency, geos, cost>>
papiVars == <<EventCodes, Values, papi>>
features == <<asserts, stage, tables, papiVars>>

(***************************************************************************)
(* GEOS estimates costs by several analyses, of which one is not run.        *)
(***************************************************************************)
Analyses == <<"RegisterUse", "InstructionCache", "StaticInstruction",
              "TTIInstruction", "Branch", "Call", "NoArchSensitive", "ArchSensitive">>

GEOSSubFeatures == Range(Analyses)
None == "none"

FeaturesInit ==
  /\ Init
  /\ asserts \in Asserts
  /\ stage = "function-dna"
  /\ gene = <<>>
  /\ frequency = {}
  /\ geos = [s \in GEOSSubFeatures |-> None]
  /\ EventCodes = <<>>
  /\ Values = <<>>
  /\ papi = Zero(Events)
  /\ cost = <<>>

Stage(from, to) ==
  /\ phase = "module"
  /\ stage = from
  /\ stage' = to
  /\ UNCHANGED <<vars, asserts>>

-----------------------------------------------------------------------------
(***************************************************************************)
(* Genes: a letter for each instruction.                                    *)
(***************************************************************************)
getInstructionGene ==
  [condbr |-> "A", uncondbr |-> "A", switch |-> "B", indirectbr |-> "C",
   terminator |-> "D", invoke |-> "D", binop_int |-> "E", binop_flt |-> "F",
   bitwise |-> "G", vector |-> "H", aggregate |-> "I", load |-> "J", store |-> "K",
   alloca |-> "L", fence |-> "M", atomic |-> "M", getelemptr |-> "N", conv_int |-> "O",
   conv_flt |-> "P", other |-> "Q", phi |-> "R", call |-> "S", unlisted |-> "X"]

BlockGene(blk) == [k \in DOMAIN blk.insts |-> getInstructionGene[blk.insts[k].op]]

(* Mutant: the string is emptied for every block.                           *)
LastBlockGene(f) == BlockGene(module[f].blocks[Len(module[f].blocks)])

getFunctionGene(f) ==
  FlattenSeq([b \in Blocks(f) |-> BlockGene(module[f].blocks[b])])

(* Functions without a name are numbered among those that have a body.      *)
GeneKey(f) == Key(f, Defined)

(* Where two functions have one key the later one's gene is kept.            *)
processGenes ==
  /\ Stage("function-dna", "geos-bbfreq")
  /\ gene' = [n \in {GeneKey(f) : f \in Defined} |->
                getFunctionGene(Max({f \in Defined : GeneKey(f) = n}))]
  /\ UNCHANGED <<papiVars, frequency, geos, cost>>

(***************************************************************************)
(* What GEOS says: a frequency for every block, and the costs of the module. *)
(***************************************************************************)
processFrequencies ==
  /\ Stage("geos-bbfreq", "geos-features")
  /\ frequency' = UNION {{f} \X Blocks(f) : f \in Defined}
  /\ UNCHANGED <<papiVars, gene, geos, cost>>

(* The costs come in the order in which the analyses are run.               *)
getAnalysisCost ==
  [k \in DOMAIN Analyses |-> IF k = 2 THEN None ELSE Analyses[k]]

(* processModule of GEOSFeatures, which knows them by their index.          *)
CostIndex ==
  [RegisterUse |-> 1, StaticInstruction |-> 3, TTIInstruction |-> 4, Branch |-> 5,
   Call |-> 6, NoArchSensitive |-> 7, ArchSensitive |-> 8]

processCosts ==
  /\ Stage("geos-features", "papi-feat-m")
  /\ geos' = [s \in GEOSSubFeatures |->
                IF s \in DOMAIN CostIndex THEN getAnalysisCost[CostIndex[s]] ELSE geos[s]]
  /\ UNCHANGED <<papiVars, gene, frequency, cost>>

-----------------------------------------------------------------------------
(***************************************************************************)
(* Counting events. Every call of PAPI that has an effect, but for the       *)
(* queries, is the argument of an assert(): without assertions nothing is    *)
(* added, started or stopped, and Values stay the zeros they are created as. *)
(***************************************************************************)
Ascending(codes) == \A j, k \in DOMAIN codes : j < k => codes[j] < codes[k]

getAvailableEvents ==
  /\ Stage("papi-feat-m", "events")
  /\ \E available \in SUBSET Events :
       \E codes \in SetToSeqs(available) : Ascending(codes) /\ EventCodes' = codes
  /\ UNCHANGED <<tables, Values, papi>>

(* PAPI refuses something, or the counters, on an assertion.                *)
PAPIFails ==
  /\ asserts
  /\ Stage("papi-feat-m", "aborted") \/ Stage("events", "aborted")
  /\ UNCHANGED <<tables, papiVars>>

(* The program runs in this process, which goes where the program goes.     *)
RunProgram ==
  /\ Stage("events", "measured")
  /\ Values' = [k \in DOMAIN EventCodes |-> IF asserts THEN EventCodes[k] ELSE 0]
  /\ UNCHANGED <<tables, EventCodes, papi>>

ProgramExits ==
  /\ Stage("events", "aborted")
  /\ UNCHANGED <<tables, papiVars>>

(* Mutant: the value of the event's number, not of its place.               *)
MeasureByCode(e) == IF e \in DOMAIN Values THEN Values[e] ELSE 0

(* The value at the place of an event's code, none if it has no place.      *)
MeasureOf(e) ==
  IF Contains(EventCodes, e)
  THEN Values[CHOOSE k \in DOMAIN EventCodes : EventCodes[k] = e]
  ELSE papi[e]

getMeasures ==
  /\ Stage("measured", "static-cost")
  /\ papi' = [e \in Events |-> MeasureOf(e)]
  /\ UNCHANGED <<tables, EventCodes, Values>>

-----------------------------------------------------------------------------
(***************************************************************************)
(* Static costs come in a map from pointers to functions: those without a    *)
(* name are numbered in the order of their addresses.                       *)
(***************************************************************************)
CostKey(order, k) ==
  LET f == order[k]
  IN  IF Nameless(f)
      THEN <<"Nameless", Cardinality({j \in 1..(k - 1) : Nameless(order[j])})>>
      ELSE module[f].name

processStaticCosts ==
  /\ Stage("static-cost", "processed")
  /\ \E order \in SetToSeqs(Defined) :
       cost' = [n \in {CostKey(order, k) : k \in DOMAIN order} |->
                  order[Max({k \in DOMAIN order : CostKey(order, k) = n})]]
  /\ UNCHANGED <<papiVars, gene, frequency, geos>>

FeaturesNext ==
  \/ Next /\ UNCHANGED features
  \/ processGenes
  \/ processFrequencies
  \/ processCosts
  \/ getAvailableEvents
  \/ PAPIFails
  \/ RunProgram
  \/ ProgramExits
  \/ getMeasures
  \/ processStaticCosts

FeaturesSpec == FeaturesInit /\ [][FeaturesNext]_<<vars, features>>

-----------------------------------------------------------------------------
(***************************************************************************)
(* Properties.                                                             *)
(***************************************************************************)

(* The letters that count what counters of CFGFeatures count.               *)
CountersOfLetter ==
  [A |-> {"nof_condbr_inst", "nof_uncondbr_inst"}, B |-> {"nof_switch_inst"},
   C |-> {"nof_indirectbr_inst"}, D |-> {"nof_terminator_inst"},
   E |-> {"nof_binop_int_inst"}, F |-> {"nof_binop_flt_inst"},
   G |-> {"nof_binop_bitw_inst"}, H |-> {"nof_vector_inst"},
   I |-> {"nof_aggregate_inst"}, J |-> {"nof_load_inst"}, K |-> {"nof_store_inst"},
   N |-> {"nof_getelemptr_inst"}, O |-> {"nof_conv_int_inst"},
   P |-> {"nof_conv_flt_inst"}, R |-> {"nof_phinode_inst"}, S |-> {"nof_call_inst"}]

Occurs(letter, n) == Cardinality({k \in DOMAIN gene[n] : gene[n][k] = letter})

(* The genes, which are computed from the module, and the counters, summed   *)
(* up over two levels, describe the same functions under the same keys: a    *)
(* gene has a letter for each instruction counted, and of each kind as many  *)
(* as were counted; and static costs are kept by the same keys as genes, for *)
(* functions with a name for that function. But not if a function has a name *)
(* that is made for another one: of the two one gene and one cost are kept,   *)
(* of different ones perhaps, and the counters of both.                     *)
TablesAgree ==
  /\ gene # <<>> /\ phase = "module" /\ NamesApart =>
       \A n \in DOMAIN gene :
         /\ n \in DOMAIN fn
         /\ Len(gene[n]) = fn[n]["nof_inst"]
         /\ \A l \in DOMAIN CountersOfLetter :
              Occurs(l, n) = SumFunction([c \in CountersOfLetter[l] |-> fn[n][c]])
         /\ Occurs("L", n) + Occurs("M", n) = fn[n]["nof_memory_adress_inst"]
  /\ stage = "processed" =>
       /\ frequency = UNION {{f} \X DOMAIN bb[f] : f \in DOMAIN bb}
       /\ DOMAIN cost = DOMAIN gene
       /\ NamesApart => \A f \in Defined : ~ Nameless(f) => cost[module[f].name] = f

(* A measure is kept under the name of what was measured, although it comes  *)
(* by its place among the events that are available, or among the analyses   *)
(* that were run: a sub-feature never gets another's, and in a build with    *)
(* assertions every available event has its own.                            *)
MeasuresInPlace ==
  /\ \A e \in Events : papi[e] \in {0, e}
  /\ \A s \in GEOSSubFeatures : geos[s] \in {None, s}
  /\ asserts /\ stage \in {"static-cost", "processed"} =>
       \A e \in Events : Contains(EventCodes, e) => papi[e] = e
=============================================================================
