--------------------------- MODULE OptimizationInfos ---------------------------
(***************************************************************************)
(* Optimizations with their arguments one by one: how an info is made,       *)
(* copied and assigned, sequences of them, and the form in which a sequence  *)
(* is printed and read back. A printed info has the name of its optimization *)
(* and, if there are any, the type and the value of each argument.          *)
(***************************************************************************)
EXTENDS Integers, Sequences, SequencesExt, Functions

CONSTANTS
  Optimizations, \* the names, at the numbers of the enumeration plus one
  DefaultArgs,   \* of each optimization: the types and values it begins with
  ValuesOf       \* the values there are of each type

ASSUME InfosAssumption ==
  /\ Optimizations \in Seq(Range(Optimizations)) /\ IsInjective(Optimizations)
  /\ DOMAIN DefaultArgs = 0..(Len(Optimizations) - 1)
  /\ \A o \in DOMAIN DefaultArgs :
       /\ DefaultArgs[o] \in Seq(Range(DefaultArgs[o]))
       /\ \A a \in Range(DefaultArgs[o]) :
            /\ a = [type |-> a.type, value |-> a.value]
            /\ a.type \in DOMAIN ValuesOf /\ a.value \in ValuesOf[a.type]

VARIABLES
  sequence, \* a sequence of infos
  file,     \* what is printed and not read yet
  assigned  \* history: an info that had arguments was assigned to, or is one
            \* that was read from the form of such an info

sequenceVars == <<sequence, file, assigned>>

Unprinted == <<>>
Optimization == 0..(Len(Optimizations) - 1)

getOptimizationName(o) == Optimizations[o + 1]
getOptimization(name) ==
  CHOOSE o \in Optimization :
    /\ getOptimizationName(o) = name
    /\ \A p \in 0..(o - 1) : getOptimizationName(p) # name

(* OptimizationInfo(Opt).                                                   *)
New(o) == [opt |-> o, args |-> DefaultArgs[o]]

(* operator=, which is the copy constructor's copy() and no more: arguments  *)
(* that are there stay, in front of the new ones.                           *)
Assigned(info, from) == [opt |-> from.opt, args |-> info.args \o from.args]

SequencesInit ==
  /\ sequence = <<>>
  /\ file = Unprinted
  /\ assigned = FALSE

-----------------------------------------------------------------------------
(***************************************************************************)
(* Making and changing a sequence.                                         *)
(***************************************************************************)
Made(seq) ==
  /\ sequence' = seq
  /\ assigned' = FALSE
  /\ UNCHANGED file

(* From a vector of optimizations; of none, there is no sequence.            *)
generateOf(opts) == opts # <<>> /\ Made([k \in DOMAIN opts |-> New(opts[k])])

(* The same of random optimizations, as many as asked for.                  *)
randomize(size) ==
  /\ size # 0
  /\ \E opts \in [1..size -> Optimization] : Made([k \in 1..size |-> New(opts[k])])

setArg(k, n, v) ==
  /\ k \in DOMAIN sequence
  /\ n \in DOMAIN sequence[k].args
  /\ sequence' = [sequence EXCEPT ![k].args[n].value = v]
  /\ UNCHANGED <<file, assigned>>

Assign(k, o) ==
  /\ k \in DOMAIN sequence
  /\ sequence' = [sequence EXCEPT ![k] = Assigned(@, New(o))]
  /\ assigned' = (assigned \/ sequence[k].args # <<>>)
  /\ UNCHANGED file

-----------------------------------------------------------------------------
(***************************************************************************)
(* Printing and reading.                                                   *)
(***************************************************************************)
PrintedInfo(info) == [opt |-> getOptimizationName(info.opt), args |-> info.args]

print ==
  /\ file' = [infos |-> [k \in DOMAIN sequence |-> PrintedInfo(sequence[k])],
              source |-> sequence, assigned |-> assigned]
  /\ UNCHANGED <<sequence, assigned>>

(* An argument has the type in the file from then on; if it was made of      *)
(* another one, the value ends in memory of that, and can be anything.      *)
FilledArgs(arg, node) ==
  {[type |-> node.type, value |-> v] :
     v \in IF arg.type = node.type THEN {node.value} ELSE ValuesOf[node.type]}

(* Mutant: the last argument is left at its default.                        *)
FilledButLast(node) ==
  LET info == New(getOptimization(node.opt))
      n == Len(info.args)
  IN  {[info EXCEPT !.args = [k \in 1..n |-> IF k < n THEN node.args[k] ELSE @[k]]]}

(* The arguments the optimization has are filled from the first ones of the  *)
(* file.                                                                   *)
FilledInfos(node) ==
  LET info == New(getOptimization(node.opt))
      n == Len(info.args)
  IN  {[info EXCEPT !.args = args] :
         args \in {a \in [1..n -> UNION {FilledArgs(info.args[k], node.args[k]) : k \in 1..n}] :
                     \A k \in 1..n : a[k] \in FilledArgs(info.args[k], node.args[k])}}

(* get makes a sequence of its own, fill reads behind what is there.         *)
ReadBehind(front) ==
  /\ file # Unprinted
  /\ \E infos \in [DOMAIN file.infos -> UNION {FilledInfos(node) : node \in Range(file.infos)}] :
       /\ \A k \in DOMAIN infos : infos[k] \in FilledInfos(file.infos[k])
       /\ sequence' = front \o infos
  /\ file' = Unprinted

getSequence == ReadBehind(<<>>) /\ assigned' = file.assigned
fillSequence == ReadBehind(sequence) /\ assigned' = (assigned \/ file.assigned)

(* Bounds: up to MaxInfos infos, one of which may be assigned to; and what   *)
(* was printed is read next, but that a sequence of one is made before.     *)
SequencesNext(MaxInfos) ==
  /\ \/ \E n \in 1..IF file = Unprinted THEN MaxInfos ELSE 1 :
          randomize(n) \/ \E opts \in [1..n -> Optimization] : generateOf(opts)
     \/ /\ file = Unprinted
        /\ \E k \in DOMAIN sequence :
             \/ \E n \in DOMAIN sequence[k].args :
                  \E v \in ValuesOf[sequence[k].args[n].type] : setArg(k, n, v)
             \/ \E o \in Optimization : ~assigned /\ Assign(k, o)
     \/ file = Unprinted /\ print
     \/ getSequence
     \/ fillSequence
  /\ Len(sequence') <= MaxInfos

-----------------------------------------------------------------------------
(***************************************************************************)
(* Properties.                                                             *)
(***************************************************************************)

(* A sequence is read back as it was printed, with every argument any of its *)
(* infos was given, behind what the sequence had; and also when an info was  *)
(* assigned over another, with the optimizations it had and with as many     *)
(* arguments as each of them takes.                                         *)
SequenceReadsBack ==
  [][file # Unprinted /\ file' = Unprinted =>
       LET n == Len(file.source)
           behind == SubSeq(sequence', Len(sequence') - n + 1, Len(sequence'))
       IN  /\ Len(sequence') - n \in {0, Len(sequence)}
           /\ \A k \in 1..(Len(sequence') - n) : sequence'[k] = sequence[k]
           /\ IF ~file.assigned THEN behind = file.source
              ELSE \A k \in 1..n :
                     /\ behind[k].opt = file.source[k].opt
                     /\ Len(behind[k].args) = Len(DefaultArgs[behind[k].opt])]_sequenceVars
================================================================================
