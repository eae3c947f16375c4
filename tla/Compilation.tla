------------------------------ MODULE Compilation ------------------------------
(***************************************************************************)
(* The clients of an optimization set: any that call its operations, and     *)
(* compileWithCandidate, from the values of a candidate's formulas to the   *)
(* sequence of optimizations that applyOptimizations is given, for the plain *)
(* strategies and for the parameterised one, whose candidates also decide    *)
(* arguments.                                                              *)
(*                                                                         *)
(* A decision point is <<0, o>>, whether optimization o is applied, or       *)
(* <<1, o>>, with which arguments: "~" comes after every letter, so that a   *)
(* std::map of them has the first kind before the second.                   *)
(***************************************************************************)
EXTENDS OptimizationSet

VARIABLES
  Parameterized, \* whether it is ParSimpleGrammarEvolution that compiles
  Sequence,      \* the optimizations in the order of the sequence file
  values,        \* the candidate: decision points to values of their formulas
  pc,            \* "client", "decide", "apply", "applied" or "failed"
  points,        \* the decision points the loop has not come to
  OptSequence    \* the sequence made of the enabled optimizations

candidate == <<Parameterized, Sequence, values>>
compiling == <<candidate, pc, points, OptSequence>>

ArgsOf(o) == {i[2] : i \in {j \in Infos : j[1] = o}}
HaveArgs == {o \in Optimizations : Cardinality(ArgsOf(o)) > 1}

EnablingPoints == {<<0, o>> : o \in Optimizations}
ArgPoints      == {<<1, o>> : o \in HaveArgs}

ValuesOf(p) == IF p[1] = 0 THEN {0, 1} ELSE ArgsOf(p[2])

(* Mutant: the order of names without the "~".                              *)
ByOptimization(p, q) == p[2] < q[2] \/ (p[2] = q[2] /\ p[1] > q[1])

(* The order of the names of points.                                        *)
Before(p, q) == p[1] < q[1] \/ (p[1] = q[1] /\ p[2] < q[2])

(* A plain run may have got its candidate from a parameterised one.         *)
CompilationInit ==
  /\ Init
  /\ Parameterized \in BOOLEAN
  /\ Sequence \in SetToSeqs(Optimizations)
  /\ \E S \in {EnablingPoints, EnablingPoints \cup ArgPoints} :
       /\ Parameterized => ArgPoints \subseteq S
       /\ values \in {v \in [S -> UNION {ValuesOf(p) : p \in S}] :
                        \A p \in S : v[p] \in ValuesOf(p)}
       /\ points = S
  /\ pc = "decide"
  /\ OptSequence = <<>>

(* Or a client that is not a strategy has the set, as the tests do.         *)
ClientInit ==
  /\ Init
  /\ Parameterized = FALSE
  /\ Sequence = <<>>
  /\ values = <<>>
  /\ points = {}
  /\ pc = "client"
  /\ OptSequence = <<>>

ClientCalls ==
  /\ pc = "client"
  /\ Updates \/ WriteArgs \/ Generate
  /\ UNCHANGED compiling

-----------------------------------------------------------------------------
(***************************************************************************)
(* The loop over the candidate, one decision point at a time: the first of   *)
(* the map that is left.                                                    *)
(***************************************************************************)
point == CHOOSE p \in points : \A q \in points : p = q \/ Before(p, q)

NextPoint(kind) ==
  /\ pc = "decide"
  /\ points # {}
  /\ point[1] = kind
  /\ points' = points \ {point}
  /\ UNCHANGED <<candidate, pc, OptSequence>>

Enable ==
  /\ NextPoint(0)
  /\ values[point] = 1
  /\ addOptimization(<<point[2], Default>>)

(* A decision against the optimization; in a plain run, a point of another   *)
(* kind; in a parameterised one, arguments of what is not enabled.          *)
SkipPoint ==
  /\ \/ NextPoint(0) /\ values[point] = 0
     \/ NextPoint(1) /\ ~(Parameterized /\ hasEnabledOpt(point[2]))
  /\ UNCHANGED vars

WriteArg ==
  /\ NextPoint(1)
  /\ Parameterized
  /\ setArg(point[2], values[point])

(* What getOptimizationInfo returns.                                        *)
InfoOf(o) == Enabled[CHOOSE k \in EntriesOf(o) : \A m \in EntriesOf(o) : k <= m].info

Arranged ==
  FoldLeft(LAMBDA seq, o : IF hasEnabledOpt(o) THEN Append(seq, InfoOf(o)) ELSE seq,
           <<>>, Sequence)

ArrangeSequence ==
  /\ pc = "decide"
  /\ points = {}
  /\ pc' = "apply"
  /\ OptSequence' = Arranged
  /\ UNCHANGED <<vars, candidate, points>>

-----------------------------------------------------------------------------
(***************************************************************************)
(* applyOptimizations, of the sequence or, when parameterised, of the set:   *)
(* a set is given a random sequence of its own, and without one, because it *)
(* is empty, the child that applies it dies of the null pointer.            *)
(***************************************************************************)
ApplySequence ==
  /\ pc = "apply"
  /\ ~Parameterized
  /\ pc' = "applied"
  /\ UNCHANGED <<vars, candidate, points, OptSequence>>

GenerateDefault ==
  /\ pc = "apply"
  /\ Parameterized
  /\ generateRandomSequenceIfNone
  /\ UNCHANGED compiling

GenerateRound == Round /\ UNCHANGED compiling

ApplySet ==
  /\ pc = "apply"
  /\ Parameterized
  /\ call = "none"
  /\ \/ DefaultSequence # Null /\ pc' = "applied"
     \/ Enabled = <<>> /\ pc' = "failed"
  /\ UNCHANGED <<vars, candidate, points, OptSequence>>

CompilationNext ==
  \/ ClientCalls
  \/ Enable
  \/ SkipPoint
  \/ WriteArg
  \/ ArrangeSequence
  \/ ApplySequence
  \/ GenerateDefault
  \/ GenerateRound
  \/ ApplySet

CompilationSpec ==
  CompilationInit /\ [][CompilationNext]_<<vars, compiling>>

(* rand() does not keep missing: a round in which an entry could be picked  *)
(* infinitely often picks it infinitely often.                              *)
ClientSpec ==
  /\ CompilationInit \/ ClientInit
  /\ [][CompilationNext]_<<vars, compiling>>
  /\ WF_<<vars, compiling>>(GenerateRound)
  /\ SF_<<vars, compiling>>(Pick /\ UNCHANGED <<op, overwritten, compiling>>)

-----------------------------------------------------------------------------
(***************************************************************************)
(* Properties.                                                             *)
(***************************************************************************)
Applied == IF Parameterized THEN DefaultSequence[1] ELSE OptSequence

Decided == {o \in Optimizations : values[<<0, o>>] = 1}
DecidedInfo(o) ==
  <<o, IF Parameterized /\ o \in HaveArgs THEN values[<<1, o>>] ELSE Default>>

(* GrammarEvolution.h:81 of getSequence: "Gets the sequence from a file, for *)
(* the execution." A module is compiled in the order of that sequence.      *)
AppliesInOrder ==
  pc = "applied" =>
    \A j, k \in DOMAIN Sequence : j < k =>
      \A m, n \in DOMAIN Applied :
        Applied[m][1] = Sequence[j] /\ Applied[n][1] = Sequence[k] => m < n

(* A module is compiled with each optimization the candidate decides for,    *)
(* once, with the arguments it decides, and with no other, whatever order    *)
(* the set, its map and the dice bring them in; and a plain run compiles in  *)
(* the order of the sequence file.                                          *)
AppliesDecisions ==
  /\ pc = "applied" =>
       /\ Len(Applied) = Cardinality(Decided)
       /\ {Applied[k] : k \in DOMAIN Applied} = {DecidedInfo(o) : o \in Decided}
  /\ Parameterized \/ AppliesInOrder
=============================================================================
