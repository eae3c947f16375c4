------------------------------ MODULE CFGFeatures ------------------------------
(***************************************************************************)
(* The static features of a module's control flow: counters of every basic  *)
(* block, summed up into counters of every function, to which those of the  *)
(* graph's shape are added, summed up into the counters of the module, which *)
(* are what the formulas of a candidate read.                              *)
(*                                                                         *)
(* A module is a sequence of functions, a function its name and its blocks,  *)
(* a block its instructions, the last of them its terminator, and the blocks *)
(* the terminator goes on to, 1 being the entry. A name is the letters and   *)
(* the number that it is put together from: <<>> when there is none, <<"f">>, *)
(* and <<"Nameless", 0>> for Nameless0, whether the code made it or not.      *)
(* The opcodes the code treats alike are one opcode here.                   *)
(***************************************************************************)
EXTENDS Integers, FiniteSets, Functions, Sequences

CONSTANT Programs  \* the modules to process

VARIABLES
  module,  \* the module
  phase,   \* how far it is processed
  bb,      \* counters of each block of each function
  fn,      \* counters by function name
  md       \* counters of the module

vars == <<module, phase, bb, fn, md>>

Defined == {f \in DOMAIN module : module[f].blocks # <<>>}
Blocks(f) == DOMAIN module[f].blocks

(***************************************************************************)
(* What one instruction adds to the counters of its block.                  *)
(***************************************************************************)
CounterOf ==
  [condbr |-> "nof_condbr_inst", uncondbr |-> "nof_uncondbr_inst",
   switch |-> "nof_switch_inst", indirectbr |-> "nof_indirectbr_inst",
   terminator |-> "nof_terminator_inst", invoke |-> "nof_terminator_inst",
   binop_int |-> "nof_binop_int_inst", binop_flt |-> "nof_binop_flt_inst",
   bitwise |-> "nof_binop_bitw_inst",
   vector |-> "nof_vector_inst", aggregate |-> "nof_aggregate_inst",
   load |-> "nof_load_inst", store |-> "nof_store_inst",
   fence |-> "nof_memory_adress_inst", atomic |-> "nof_memory_adress_inst",
   alloca |-> "nof_memory_adress_inst",
   getelemptr |-> "nof_getelemptr_inst", conv_int |-> "nof_conv_int_inst",
   conv_flt |-> "nof_conv_flt_inst", phi |-> "nof_phinode_inst",
   call |-> "nof_call_inst", other |-> "nof_assign_inst", unlisted |-> "nof_inst"]

Opcodes == DOMAIN CounterOf
Terminators == {"condbr", "uncondbr", "switch", "indirectbr", "terminator", "invoke"}
Assignments == Opcodes \ (Terminators \cup {"store", "fence", "unlisted"})

Returned == [int |-> "nof_callret_int_inst", flt |-> "nof_callret_flt_inst",
             ptr |-> "nof_callret_ptr_inst"]

BBCounters ==
  {CounterOf[o] : o \in Opcodes} \cup {Returned[t] : t \in DOMAIN Returned}
    \cup {"nof_inst", "nof_callarg_g4_inst", "nof_callarg_ptr_inst"}

One(condition) == IF condition THEN 1 ELSE 0

(* What a call passes and returns is only counted for calls.                *)
Added(i, c) ==
  CASE c = "nof_inst" -> 1
    [] c = "nof_assign_inst" -> One(i.op \in Assignments)
    [] c = "nof_callarg_g4_inst" -> One(i.op = "call" /\ i.args > 4)
    [] c = "nof_callarg_ptr_inst" -> IF i.op = "call" THEN i.pointers ELSE 0
    [] c \in {Returned[t] : t \in DOMAIN Returned} ->
         One(i.op = "call" /\ i.returns \in DOMAIN Returned /\ Returned[i.returns] = c)
    [] OTHER -> One(CounterOf[i.op] = c)

processInstructionsOfBB(blk) ==
  [c \in BBCounters |-> SumFunction([k \in DOMAIN blk.insts |-> Added(blk.insts[k], c)])]

(***************************************************************************)
(* A module as LLVM has it: a block ends with its terminator, which says how *)
(* many blocks it goes on to, and names are not used twice. A function may    *)
(* have a name such as those that are made for functions without one.        *)
(***************************************************************************)
Instruction == [op : Opcodes, args : Nat, pointers : Nat, returns : STRING]

GoesOnTo ==
  [condbr |-> {2}, uncondbr |-> {1}, switch |-> Nat \ {0}, indirectbr |-> Nat,
   terminator |-> {0}, invoke |-> {2}]

IsBlock(blk, n) ==
  /\ blk.insts \in Seq(Instruction) /\ blk.insts # <<>>
  /\ \A k \in DOMAIN blk.insts : blk.insts[k].op \in Terminators <=> k = Len(blk.insts)
  /\ blk.succs \in Seq(1..n)
  /\ Len(blk.succs) \in GoesOnTo[blk.insts[Len(blk.insts)].op]

IsModule(m) ==
  /\ m \in Seq(Range(m))
  /\ \A f \in DOMAIN m :
       /\ m[f].blocks \in Seq(Range(m[f].blocks))
       /\ \A b \in DOMAIN m[f].blocks : IsBlock(m[f].blocks[b], Len(m[f].blocks))
       /\ \A g \in DOMAIN m : m[f].name = m[g].name => f = g \/ m[f].name = <<>>

ASSUME ProgramsAssumption == \A m \in Programs : IsModule(m)

(***************************************************************************)
(* What one block adds to the counters of its function's graph.             *)
(***************************************************************************)
Succs(f, b) == module[f].blocks[b].succs

Edges(f) == UNION {{p} \X DOMAIN Succs(f, p) : p \in Blocks(f)}
EdgesTo(f, b) == {e \in Edges(f) : Succs(f, e[1])[e[2]] = b}

NumSuccessors(f, b) == Len(Succs(f, b))
NumPredecessors(f, b) == Cardinality(EdgesTo(f, b))

(* llvm::isCriticalEdge, which takes several edges from one block for one.  *)
isCriticalEdge(f, b, k) ==
  /\ NumSuccessors(f, b) > 1
  /\ \E e \in EdgesTo(f, Succs(f, b)[k]) : e[1] # b

GraphCounters ==
  {"nof_bb", "nof_cfg_edges", "nof_cfg_crit_edges",
   "nof_1pred_bb", "nof_2pred_bb", "nof_g2pred_bb",
   "nof_1suc_bb", "nof_2suc_bb", "nof_g2suc_bb",
   "nof_1pred_1suc_bb", "nof_1pred_2suc_bb", "nof_2pred_1suc_bb",
   "nof_2pred_2suc_bb", "nof_g2pred_g2suc_bb",
   "nof_l15inst_bb", "nof_ge15le500inst_bb", "nof_g500inst_bb"}

(* Mutant: a break at the end of each case.                                 *)
Breaks(degree, case) == IF case = 3 THEN degree > 2 ELSE degree = case

(* Each case of the two switches falls through to the ones below it, the     *)
(* last being the default.                                                 *)
Reaches(degree, case) == degree # 0 /\ (degree <= case \/ case = 3)

(* The counters of sizes are declared and never added to.                    *)
processBasicBlockOfFunction(f, b, c) ==
  LET P == NumPredecessors(f, b)
      S == NumSuccessors(f, b)
  IN CASE c = "nof_bb" -> 1
       [] c = "nof_1pred_bb" -> One(Reaches(P, 1))
       [] c = "nof_2pred_bb" -> One(Reaches(P, 2))
       [] c = "nof_g2pred_bb" -> One(Reaches(P, 3))
       [] c = "nof_1suc_bb" -> One(Reaches(S, 1))
       [] c = "nof_2suc_bb" -> One(Reaches(S, 2))
       [] c = "nof_g2suc_bb" -> One(Reaches(S, 3))
       [] c = "nof_1pred_1suc_bb" -> One(S = 1 /\ P = 1)
       [] c = "nof_1pred_2suc_bb" -> One(S = 1 /\ P = 2)
       [] c = "nof_2pred_1suc_bb" -> One(S = 2 /\ P = 1)
       [] c = "nof_2pred_2suc_bb" -> One(S = 2 /\ P = 2)
       [] c = "nof_g2pred_g2suc_bb" -> One(S > 2 /\ P > 2)
       [] c = "nof_cfg_edges" -> S
       [] c = "nof_cfg_crit_edges" ->
            Cardinality({k \in 1..S : isCriticalEdge(f, b, k)})
       [] OTHER -> 0

FnCounters == BBCounters \cup GraphCounters
MdCounters == FnCounters \cup {"nof_functions"}

-----------------------------------------------------------------------------
(***************************************************************************)
(* The keys of functions without a name: the functions' features number all *)
(* of them, the module's those that have a body. What is made for them is a  *)
(* name like any other, which another function may have.                    *)
(***************************************************************************)
Nameless(f) == module[f].name = <<>>
Key(f, numbered) ==
  IF Nameless(f) THEN <<"Nameless", Cardinality({g \in numbered : g < f /\ Nameless(g)})>>
  ELSE module[f].name

FnKey(f) == Key(f, DOMAIN module)
MdKey(f) == Key(f, Defined)

Zero(counters) == [c \in counters |-> 0]

Init ==
  /\ module \in Programs
  /\ phase = "read"
  /\ bb = <<>>
  /\ fn = <<>>
  /\ md = Zero(MdCounters)

processBasicBlocks ==
  /\ phase = "read"
  /\ phase' = "blocks"
  /\ bb' = [f \in DOMAIN module |->
              [b \in Blocks(f) |-> processInstructionsOfBB(module[f].blocks[b])]]
  /\ UNCHANGED <<module, fn, md>>

(* Mutant: setValueOfKey without the total so far.                          *)
LastBlock(f) ==
  [c \in FnCounters |->
     IF c \in BBCounters THEN bb[f][Len(bb[f])][c]
     ELSE SumFunction([b \in Blocks(f) |-> processBasicBlockOfFunction(f, b, c)])]

(* copyFeaturesFromBB and the graph's counters, block by block.             *)
featuresOfFunction(f) ==
  [c \in FnCounters |->
     SumFunction([b \in Blocks(f) |->
       IF c \in BBCounters THEN bb[f][b][c] ELSE processBasicBlockOfFunction(f, b, c)])]

(* What a function adds to the counters that are kept under a key, where     *)
(* those of a function with the same key may be.                            *)
AddedTo(n, f, c) == IF FnKey(f) = n THEN featuresOfFunction(f)[c] ELSE 0

processFunctions ==
  /\ phase = "blocks"
  /\ phase' = "functions"
  /\ fn' = [n \in {FnKey(f) : f \in Defined} |->
              [c \in FnCounters |-> SumFunction([f \in Defined |-> AddedTo(n, f, c)])]]
  /\ UNCHANGED <<module, bb, md>>

(* A key the functions' features do not have fails getValueOfKey's assertion. *)
processModule ==
  /\ phase = "functions"
  /\ IF \A f \in Defined : MdKey(f) \in DOMAIN fn
     THEN /\ phase' = "module"
          /\ md' = [c \in MdCounters |->
                      IF c = "nof_functions" THEN Cardinality(Defined)
                      ELSE SumFunction([f \in Defined |-> fn[MdKey(f)][c]])]
     ELSE phase' = "no such key" /\ UNCHANGED md
  /\ UNCHANGED <<module, bb, fn>>

Next ==
  \/ processBasicBlocks
  \/ processFunctions
  \/ processModule

Spec == Init /\ [][Next]_vars

(***************************************************************************)
(* Properties.                                                             *)
(***************************************************************************)

(* No function with a body has the name that a level makes for another one.   *)
NamesApart ==
  \A f, g \in Defined :
    Nameless(f) /\ ~ Nameless(g) => module[g].name \notin {FnKey(f), MdKey(f)}

InAllBlocks(c) ==
  SumFunction([f \in Defined |-> SumFunction([b \in Blocks(f) |-> bb[f][b][c]])])

(* No block is lost between the levels and none is counted twice. Whatever    *)
(* the functions are called, what is kept for them adds up to all blocks; and *)
(* so does what is kept for the module, in whatever order they come, unless a *)
(* function has the name that is made for another one: then both are counted  *)
(* under it, and what is under it is added to the module's once for each.    *)
NothingLost ==
  /\ phase \in {"functions", "module", "no such key"} =>
       \A c \in BBCounters :
         SumFunction([n \in DOMAIN fn |-> fn[n][c]]) = InAllBlocks(c)
  /\ phase = "module" /\ NamesApart =>
       \A c \in BBCounters : md[c] = InAllBlocks(c)

(* What the counters of degrees say of the edges: that each of a switch's     *)
(* cases counts for all below it.                                           *)
DegreesOfEdges(v, one, two, more) ==
  LET atLeast == v[one] + 2 * (v[two] - v[one]) + 3 * (v[more] - v[two])
  IN  /\ v["nof_cfg_edges"] >= atLeast
      /\ v[more] = v[two] => v["nof_cfg_edges"] = atLeast
      /\ v["nof_cfg_crit_edges"] <= v["nof_cfg_edges"] - v[one]

(* Without switches and indirect branches only conditional branches and       *)
(* invokes, which are among the other terminators, go on to two blocks.      *)
DegreesOfBranches(v) ==
  \E invokes \in 0..v["nof_terminator_inst"] :
    /\ v["nof_1suc_bb"] = v["nof_uncondbr_inst"]
    /\ v["nof_2suc_bb"] = v["nof_1suc_bb"] + v["nof_condbr_inst"] + invokes
    /\ v["nof_g2suc_bb"] = v["nof_2suc_bb"]
    /\ v["nof_bb"] = v["nof_g2suc_bb"] + v["nof_terminator_inst"] - invokes

(* The counters of degrees are cumulative, as the fall-through makes them:    *)
(* nof_2pred_bb is of the blocks with one predecessor and with two, and       *)
(* nof_g2pred_bb of those with any, although SubFeatures describes them as    *)
(* "2-pred" and "-gt 2-pred" (CFGFunctionStaticFeatures.cpp:172-177). Read so *)
(* they account for the edges from both ends, exactly where no block has more *)
(* than two; critical edges neither leave a block with one successor nor      *)
(* enter one with one predecessor; and without switches the degrees are what  *)
(* the terminators, which another level counts, go on to. This is so of one   *)
(* graph and of several that are counted under one name.                    *)
DegreesAddUp ==
  \A n \in DOMAIN fn :
    LET v == fn[n]
    IN  /\ DegreesOfEdges(v, "nof_1pred_bb", "nof_2pred_bb", "nof_g2pred_bb")
        /\ DegreesOfEdges(v, "nof_1suc_bb", "nof_2suc_bb", "nof_g2suc_bb")
        /\ v["nof_switch_inst"] + v["nof_indirectbr_inst"] = 0 => DegreesOfBranches(v)

=============================================================================
