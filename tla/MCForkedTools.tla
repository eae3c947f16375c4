---------------------------- MODULE MCForkedTools ----------------------------
(* Values of the constants of ForkedTools for TLC. *)
EXTENDS ForkedTools

CONSTANTS t1, t2

(* Runs are interchangeable, and none of the safety properties names one.   *)
TunersInterchange == Permutations({t1, t2})

=============================================================================
