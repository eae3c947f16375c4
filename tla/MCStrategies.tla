----------------------------- MODULE MCStrategies -----------------------------
(* Values of the constants of Strategies: those of GrammarEvolution.         *)
EXTENDS MCGrammarEvolution, Strategies
=============================================================================
