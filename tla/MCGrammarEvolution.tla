------------------------- MODULE MCGrammarEvolution -------------------------
(***************************************************************************)
(* Values of the constants of GrammarEvolution for TLC.                     *)
(*                                                                         *)
(* Scores are speed-ups in tenths: 7 is the fallback 0.7.  Three knowledge  *)
(* base files are tried: an empty one, one with two complete candidates     *)
(* (one of them measured twice) and one with a candidate that lacks a       *)
(* decision point of this run.                                             *)
(***************************************************************************)
EXTENDS GrammarEvolution

CONSTANTS s1, s2, plus, minus

F(s, o) == [shape |-> s, op |-> o]

Entry(f, t, c) == [formulas |-> f, total |-> t, count |-> c]

(* One decision point: two equal candidates of a generation are likely.     *)
OnePoint == {"licm"}

OnePointFiles ==
  {{},
   {Entry([d \in OnePoint |-> F(s1, plus)], 18, 2)},
   {Entry([d \in OnePoint |-> F(s1, plus)], 8, 1), Entry(<<>>, 9, 1)}}

(* Two decision points, one of which an older file does not know, and a      *)
(* third that only a parameterised run knows.                               *)
TwoPoints   == {"gvn", "licm"}
ThreePoints == TwoPoints \cup {"~gvn.0"}

TwoPointFiles ==
  {{},
   {Entry([d \in {"gvn"} |-> F(s1, plus)], 10, 1)},
   {Entry([d \in TwoPoints |-> F(s1, plus)], 18, 2),
    Entry([d \in ThreePoints |-> F(s2, minus)], 7, 1)}}

=============================================================================
