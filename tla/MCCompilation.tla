----------------------------- MODULE MCCompilation -----------------------------
(* Three optimizations, two of which have arguments to decide; a client that *)
(* is not a strategy uses two of them, the first with both its arguments.    *)
EXTENDS Compilation

MCInfos == {<<0, 0>>, <<0, 1>>, <<1, 0>>, <<2, 0>>, <<2, 1>>}
MCClientInfos == {<<0, 0>>, <<0, 1>>, <<1, 0>>}
================================================================================
