---------------------------- MODULE OptimizationSet ----------------------------
(***************************************************************************)
(* OptimizationSet: the enabled optimizations with their repetitions, and   *)
(* the default sequence generated from them.                                *)
(*                                                                         *)
(* The set is a multimap from an optimization to its infos: entries are     *)
(* ordered by optimization, those of one optimization by age.  An info of   *)
(* optimization o with its default arguments is <<o, Default>>.             *)
(***************************************************************************)
EXTENDS SequenceGenerator, FiniteSets

CONSTANTS
  Infos,       \* pairs of an optimization, by its number, and its arguments
  Default,     \* the arguments of OptimizationInfo(Opt)
  ClientInfos, \* bound: those a client of the set calls it with
  MaxRep,      \* bound: a repetition does not pass it
  MaxEntries,  \* bound: nor does the set this many entries
  MaxSize      \* bound: nor does the size a caller asks for

ASSUME SetAssumption ==
  /\ Infos \subseteq (Nat \X Nat)
  /\ IsFiniteSet(Infos)
  /\ \A i \in Infos : <<i[1], Default>> \in Infos
  /\ ClientInfos \subseteq Infos
  /\ {MaxRep, MaxEntries, MaxSize} \subseteq Nat

Optimizations == {i[1] : i \in Infos}
Entry == [info : Infos, rep : 0..MaxRep]

VARIABLES
  op,          \* history: the call made last
  overwritten  \* history: a caller wrote arguments through a reference

vars == <<Enabled, DefaultSequence, call, generating, op, overwritten>>

Init ==
  /\ Enabled = <<>>
  /\ DefaultSequence = Null
  /\ call = "none"
  /\ Fresh
  /\ op = <<>>
  /\ overwritten = FALSE

Bounded(entries) ==
  /\ Len(entries) <= MaxEntries
  /\ \A k \in DOMAIN entries : entries[k].rep <= MaxRep

(***************************************************************************)
(* Looking things up.                                                      *)
(***************************************************************************)
Entries == DOMAIN Enabled
EntriesOf(o) == {k \in Entries : Enabled[k].info[1] = o}

hasEnabledOpt(o) == EntriesOf(o) # {}

(* The entries an info is found at; the iterator is that of the first.      *)
Found(i) == {k \in Entries : Enabled[k].info = i}
hasEnabled(i) == Found(i) # {}

(* Mutant: the first entry of the optimization, whatever its arguments. *)
findAnyInfo(i) == CHOOSE k \in EntriesOf(i[1]) : \A m \in EntriesOf(i[1]) : k <= m

findOptimizationInfo(i) == CHOOSE k \in Found(i) : \A m \in Found(i) : k <= m

getRepetition(i) ==
  IF hasEnabled(i) THEN Enabled[findOptimizationInfo(i)].rep ELSE 0

(***************************************************************************)
(* The operations.  What a finished generation left is gone with them.      *)
(***************************************************************************)
Operation(name) ==
  /\ call = "none"
  /\ op' = name
  /\ overwritten' = (overwritten \/ name[1] = "setArg")
  /\ Forget
  /\ UNCHANGED <<call, DefaultSequence>>

(* Where the entries of an optimization end, as equal_range finds it.        *)
UpTo(entries, o) == Cardinality({k \in DOMAIN entries : entries[k].info[1] <= o})

(* A multimap inserts behind the entries of the same key, and erases them.  *)
Inserted(entries, i, r) ==
  InsertAt(entries, UpTo(entries, i[1]) + 1, [info |-> i, rep |-> r])

Erased(entries, o) ==
  SubSeq(entries, 1, UpTo(entries, o - 1))
    \o SubSeq(entries, UpTo(entries, o) + 1, Len(entries))

(* Mutant: without the early return of enableOptimization. *)
WithAnother(entries, i, r) == Inserted(entries, i, r)

(* What enabling an info, and giving it a repetition, makes of the set.     *)
WithEnabled(entries, i, r) ==
  IF \E k \in DOMAIN entries : entries[k].info = i THEN entries ELSE Inserted(entries, i, r)

WithRepetition(i, r) ==
  IF hasEnabled(i)
  THEN [Enabled EXCEPT ![findOptimizationInfo(i)].rep = r]
  ELSE Enabled

enableOptimization(i, r) ==
  /\ Operation(<<"enableOptimization", i, r>>)
  /\ Enabled' = WithEnabled(Enabled, i, r)

(* The others that enable several, all or those of a kind of pass, do it one *)
(* after the other as well.                                                 *)
enableOptimizations(S) ==
  /\ Operation(<<"enableOptimizations", S>>)
  /\ Enabled' = FoldSet(LAMBDA o, entries : WithEnabled(entries, <<o, Default>>, 1), Enabled, S)

disableOptimizationOpt(o) ==
  /\ Operation(<<"disableOptimizationOpt", o>>)
  /\ Enabled' = Erased(Enabled, o)

disableOptimization(i) ==
  /\ Operation(<<"disableOptimization", i>>)
  /\ Enabled' = IF hasEnabled(i) THEN RemoveAt(Enabled, findOptimizationInfo(i))
                                 ELSE Enabled

setRepetition(i, r) ==
  /\ Operation(<<"setRepetition", i, r>>)
  /\ Enabled' = WithRepetition(i, r)

setRepetitionOpt(o, r) ==
  /\ Operation(<<"setRepetitionOpt", o, r>>)
  /\ Enabled' = IF hasEnabledOpt(o) THEN WithRepetition(<<o, Default>>, r)
                                    ELSE Enabled

addOptimization(i) ==
  /\ Operation(<<"addOptimization", i>>)
  /\ Enabled' = IF hasEnabled(i) THEN WithRepetition(i, getRepetition(i) + 1)
                                 ELSE WithEnabled(Enabled, i, 1)

(* getOptimizationInfo returns a reference to the first entry's info, and   *)
(* setArg writes through it: nothing looks whether that info is there.      *)
setArg(o, a) ==
  /\ Operation(<<"setArg", o, a>>)
  /\ hasEnabledOpt(o)
  /\ <<o, a>> \in Infos
  /\ LET first == CHOOSE k \in EntriesOf(o) : \A m \in EntriesOf(o) : k <= m
     IN  Enabled' = [Enabled EXCEPT ![first].info = <<o, a>>]

(* A new set in place of this one, of the infos of a sequence.              *)
generateSet(seq) ==
  LET times(i) == Cardinality({k \in DOMAIN seq : seq[k] = i})
  IN  /\ call = "none"
      /\ op' = <<"generateSet", seq>>
      /\ Enabled' = FoldLeft(LAMBDA entries, i : WithEnabled(entries, i, times(i)), <<>>, seq)
      /\ DefaultSequence' = Null
      /\ overwritten' = FALSE
      /\ Forget
      /\ UNCHANGED call

generateRandomSequenceIfNone ==
  /\ DefaultSequence = Null
  /\ Call("default", -1)
  /\ op' = <<"generate">>
  /\ UNCHANGED overwritten

generate(size) ==
  /\ Call("generate", size)
  /\ op' = <<"generate">>
  /\ UNCHANGED overwritten

(***************************************************************************)
(* Callers use the set's own operations, and may write arguments through    *)
(* the reference, as ParSimpleGrammarEvolution does.                        *)
(***************************************************************************)
Clients == {i[1] : i \in ClientInfos}

Updates ==
  /\ \/ \E i \in ClientInfos, r \in 0..MaxRep :
          enableOptimization(i, r) \/ setRepetition(i, r)
     \/ \E i \in ClientInfos : disableOptimization(i) \/ addOptimization(i)
     \/ \E o \in Clients : disableOptimizationOpt(o)
     \/ \E S \in SUBSET Clients : enableOptimizations(S)
     \/ \E seq \in {OptSeq} \cup Range(DefaultSequence) : generateSet(seq)
     \/ \E o \in Clients, r \in 0..MaxRep : setRepetitionOpt(o, r)
  /\ Bounded(Enabled')

Generate ==
  \/ generateRandomSequenceIfNone
  \/ \E size \in {-1} \cup 0..MaxSize : generate(size)

WriteArgs == \E i \in ClientInfos : setArg(i[1], i[2])

Round == Generating /\ UNCHANGED <<op, overwritten>>

Next == Updates \/ WriteArgs \/ Generate \/ Round

Spec == Init /\ [][Next]_vars

(***************************************************************************)
(* Properties.                                                             *)
(***************************************************************************)

(* Callers see a map from infos to repetitions: no order of calls makes the *)
(* multimap hold an info twice, hide an entry behind another or touch that  *)
(* of other arguments, until one of them writes through the reference.      *)
Repetitions == [i \in {Enabled[k].info : k \in Entries} |-> getRepetition(i)]
Bag == INSTANCE OptimizationBag WITH repetition <- Repetitions
ImplementsBag ==
  Bag!BagInit /\ [][overwritten' \/ Bag!BagNext]_<<op, Repetitions>>

(* An entry is found where the multimap's order says: by its optimization.  *)
(* No info has two entries, until a caller writes through the reference.    *)
OneEntryPerInfo ==
  \A k, m \in Entries : k < m =>
    /\ overwritten \/ Enabled[k].info # Enabled[m].info
    /\ Enabled[k].info[1] <= Enabled[m].info[1]

Occurrences(i, seq) == Cardinality({k \in DOMAIN seq : seq[k] = i})

(* However the passes go, and also after arguments were overwritten so that *)
(* entries share an info, what was picked of an info and what is left of it *)
(* make up the repetition of its first entry.                              *)
Budget ==
  call # "none" =>
    \A i \in Infos :
      Occurrences(i, OptSeq) + (IF i \in DOMAIN Repetition THEN Repetition[i]
                               ELSE getRepetition(i)) = getRepetition(i)

Returned == call # "none" /\ call' = "none"
UsedUp(k) == Occurrences(Enabled[k].info, OptSeq') = getRepetition(Enabled[k].info)

(* A generation leaves repetitions out only when the sequence has exactly   *)
(* the size asked for, and then only of entries behind the last it looked   *)
(* at: those before are used up, however often they were spared.            *)
LeavesOutTheLast ==
  [][Returned => \A k \in Entries :
       UsedUp(k) \/ (Len(OptSeq') = Size /\ k > at)]_vars

(* A generation ends, although an entry may be spared any number of times.  *)
GenerationEnds == call # "none" ~> call = "none"
=============================================================================
