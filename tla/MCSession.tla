------------------------------- MODULE MCSession -------------------------------
(* Three runs, what two or three of them learn, two permutations.           *)
EXTENDS Session, TLC

Symmetry == Permutations(Runs) \cup Permutations(Heuristics) \cup Permutations(Orders)

=============================================================================
