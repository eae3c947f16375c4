--------------------------- MODULE OptimizationBag ---------------------------
(***************************************************************************)
(* What an OptimizationSet promises: a map from the enabled optimization    *)
(* infos to their repetitions, and what each call does to it.  Nothing here *)
(* knows that the set keeps a multimap, or in which order.                  *)
(***************************************************************************)
EXTENDS Integers, FiniteSets, Sequences, Functions

CONSTANTS Infos, Default, MaxRep

VARIABLES
  op,         \* the call: its name and arguments
  repetition  \* the repetition of each enabled info

enabled == DOMAIN repetition
Reps    == 0..MaxRep

(* A repetition given to an info that is enabled, or to one that is not.    *)
Enable(i, r) ==
  repetition' = IF i \in enabled THEN repetition
                ELSE [j \in enabled \cup {i} |-> IF j = i THEN r ELSE repetition[j]]

SetRep(i, r) ==
  repetition' = IF i \in enabled THEN [repetition EXCEPT ![i] = r] ELSE repetition

Add(i) == IF i \in enabled THEN SetRep(i, repetition[i] + 1) ELSE Enable(i, 1)

Disable(S) == repetition' = Restrict(repetition, enabled \ S)

EnableAll(S) ==
  repetition' = [i \in enabled \cup (S \X {Default}) |-> IF i \in enabled THEN repetition[i] ELSE 1]

(* The infos of a sequence, each as often as it is in it.                    *)
Collect(seq) ==
  repetition' = [i \in Range(seq) |-> Cardinality({k \in DOMAIN seq : seq[k] = i})]

BagInit == op = <<>> /\ repetition = <<>>

BagNext ==
  \/ \E i \in Infos, r \in Reps :
       \/ op' = <<"enableOptimization", i, r>> /\ Enable(i, r)
       \/ op' = <<"setRepetition", i, r>> /\ SetRep(i, r)
       \/ op' = <<"setRepetitionOpt", i[1], r>> /\ SetRep(<<i[1], Default>>, r)
  \/ \E i \in Infos :
       \/ op' = <<"addOptimization", i>> /\ Add(i)
       \/ op' = <<"disableOptimization", i>> /\ Disable({i})
       \/ op' = <<"disableOptimizationOpt", i[1]>>
          /\ Disable({j \in Infos : j[1] = i[1]})
  \/ \E S \in SUBSET {i[1] : i \in Infos} :
       op' = <<"enableOptimizations", S>> /\ EnableAll(S)
  \/ op' # <<>> /\ op'[1] = "generateSet" /\ Collect(op'[2])
  \/ op' = <<"generate">> /\ UNCHANGED repetition

BagSpec == BagInit /\ [][BagNext]_<<op, repetition>>
=============================================================================
