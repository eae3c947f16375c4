---------------------------- MODULE KnowledgeStore ----------------------------
(***************************************************************************)
(* What a run of the autotuner promises about its knowledge base, whatever  *)
(* the strategy that evolves the candidates: the run reads what was saved,  *)
(* learns heuristics one at a time, never forgets one, and when it stops    *)
(* leaves exactly what it knows.                                            *)
(***************************************************************************)
CONSTANT Heuristics

VARIABLES phase, known, saved

storeVars == <<phase, known, saved>>

StoreInit ==
  /\ phase = "closed"
  /\ known = {}
  /\ saved \subseteq Heuristics

Open ==
  /\ phase = "closed"
  /\ phase' = "open"
  /\ known' = saved
  /\ UNCHANGED saved

Learn ==
  /\ phase = "open"
  /\ \E h \in Heuristics : known' = known \cup {h}
  /\ UNCHANGED <<phase, saved>>

Save ==
  /\ phase = "open"
  /\ phase' = "saved"
  /\ saved' = known
  /\ UNCHANGED known

StoreNext == Open \/ Learn \/ Save

StoreSpec == StoreInit /\ [][StoreNext]_storeVars

=============================================================================
