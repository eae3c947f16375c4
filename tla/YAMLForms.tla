------------------------------- MODULE YAMLForms -------------------------------
(***************************************************************************)
(* What the program prints and reads back through YAMLWrapper, in one life   *)
(* of the program: the features, as its options tell, and sequences of       *)
(* optimizations. A scenario also bounds the length of a sequence, maxInfos.  *)
(***************************************************************************)
EXTENDS FeatureTables, OptimizationInfos

ASSUME FormsAssumption == \A s \in Scenarios : s.maxInfos \in Nat

FormsInit == TablesInit /\ SequencesInit

FormsNext ==
  \/ TablesNext /\ UNCHANGED sequenceVars
  \/ /\ Idle
     /\ scenario.maxInfos > 0
     /\ SequencesNext(scenario.maxInfos)
     /\ UNCHANGED allVars

FormsSpec == FormsInit /\ [][FormsNext]_<<allVars, sequenceVars>>
================================================================================
