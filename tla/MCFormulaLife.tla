----------------------------- MODULE MCFormulaLife -----------------------------
(* The formulas of the grammar up to the sizes the configurations give.     *)
EXTENDS FormulaLife
================================================================================
