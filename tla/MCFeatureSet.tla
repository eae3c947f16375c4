----------------------------- MODULE MCFeatureSet -----------------------------
(* Two composite features of different kinds and types around a simple one   *)
(* that does not mark itself processed, and a name nothing is registered for. *)
EXTENDS FeatureSet, TLC

MCRegistered ==
  [n \in {1, 2, 4} |->
     CASE n = 1 -> [subs |-> {1, 2}, kind |-> "linear", type |-> "Float", marks |-> TRUE]
       [] n = 2 -> [subs |-> {}, kind |-> "mapped", type |-> "Int", marks |-> FALSE]
       [] n = 4 -> [subs |-> {1}, kind |-> "linear", type |-> "Int", marks |-> TRUE]]

ModulesInterchange == Permutations(Modules)

=============================================================================
