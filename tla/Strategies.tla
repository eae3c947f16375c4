------------------------------- MODULE Strategies -------------------------------
(***************************************************************************)
(* The strategies main() chooses between. Their runs have the loop of        *)
(* GrammarEvolution and differ in what they score a candidate by: cycles it  *)
(* ran for, plain or parameterised, costs GEOS estimates, or costs the       *)
(* static profiler does. A cost that is too low to divide by, like a         *)
(* candidate that cannot be compiled, gets the fallback score, which is 0.3  *)
(* for estimated costs. The profiler's run compiles and measures the best    *)
(* candidate once more before it stops.                                     *)
(***************************************************************************)
EXTENDS GrammarEvolution

VARIABLE strategy  \* "cycles", "geos" or "sprof"

StrategyInit == Init /\ strategy \in {"cycles", "geos", "sprof"}

CyclesRun == strategy = "cycles" /\ Next
GEOSRun   == strategy = "geos" /\ Next

(* The best candidate cannot be compiled, or fails: an assertion, or a null  *)
(* pointer where assertions are left out, ends the run before stop().       *)
BestFails ==
  /\ pc = "report"
  /\ pc' = "aborted"
  /\ UNCHANGED <<gen, heap, KnowledgeBase, generation, results, history>>

SProfRun == strategy = "sprof" /\ (Next \/ BestFails)

Aborted == pc = "aborted" /\ UNCHANGED vars

StrategyNext ==
  /\ \/ CyclesRun
     \/ GEOSRun
     \/ SProfRun
     \/ Aborted
  /\ UNCHANGED strategy

(* Any of the runs is one thread, as in GrammarEvolution.                   *)
StrategySpec ==
  StrategyInit /\ [][StrategyNext]_<<vars, strategy>> /\ WF_<<vars, strategy>>(StrategyNext)

-----------------------------------------------------------------------------
(***************************************************************************)
(* Properties.                                                             *)
(***************************************************************************)

(* A run ends, and only one whose best candidate failed in the end ends      *)
(* without having saved what it learned.                                    *)
EventuallyEnds ==
  <>(pc = "done" \/ (pc = "aborted" /\ strategy = "sprof" /\ gen = GenerationsNumber))
=============================================================================
