-------------------------------- MODULE Session --------------------------------
(***************************************************************************)
(* Runs of the program that share the two files they keep: the sequence the *)
(* optimizations are applied in, which the first run generates and the later *)
(* ones must use for their measurements to be comparable, and the knowledge  *)
(* base, which a run reads at its beginning and writes over at its end. A    *)
(* run may die anywhere, and runs may overlap.                              *)
(*                                                                         *)
(* What happens inside one run is GrammarEvolution; here a run only learns.  *)
(* The sequence is short, so that its file is empty or whole; the knowledge *)
(* base is written in parts. Two writers of the sequence write texts of the  *)
(* same length, of which the last remains; two of the knowledge base may     *)
(* leave any mixture.                                                       *)
(***************************************************************************)
CONSTANTS
  Runs,       \* the runs
  Heuristics, \* what there is to know
  Orders,     \* the permutations of the optimizations
  Missing,    \* a sequence file that does not exist
  Empty,      \* one with nothing in it
  None        \* the sequence of a run that has none yet

(* What is no permutation, and what is no file, is told from what is.       *)
ASSUME FilesAssumption ==
  /\ Missing \notin Orders /\ Empty \notin Orders /\ None \notin Orders
  /\ Missing # Empty

VARIABLES
  SequenceFile,      \* Missing, Empty or a permutation
  KnowledgeBaseFile, \* << heuristics >>, or << >> if it cannot be read
  pc,                \* where each run is
  Sequence,          \* the permutation each run uses
  KnowledgeBase,     \* what each run knows
  torn,              \* the runs that write while another does
  \* History, for the properties.
  saved,             \* what was ever saved to the end
  stale,             \* the runs that know less than the file may hold
  damaged,           \* a save was interrupted, or made by a stale run
  contended          \* two runs generated a sequence at once

files == <<SequenceFile, KnowledgeBaseFile>>
seen == <<saved, stale, damaged, contended>>
vars == <<files, pc, Sequence, KnowledgeBase, torn, seen>>

GoTo(r, label) == pc' = [pc EXCEPT ![r] = label]

-----------------------------------------------------------------------------
(* Mutant: the file is not looked for.                                      *)
AlwaysGenerates(r) ==
  /\ pc[r] = "idle"
  /\ GoTo(r, "generate")
  /\ UNCHANGED <<files, Sequence, KnowledgeBase>>

(* A file without anything in it does not convert to a sequence: the run dies. *)
getSequence(r) ==
  /\ pc[r] = "idle"
  /\ \/ SequenceFile = Missing /\ GoTo(r, "generate") /\ UNCHANGED Sequence
     \/ SequenceFile = Empty /\ GoTo(r, "dead") /\ UNCHANGED Sequence
     \/ SequenceFile \in Orders /\ GoTo(r, "import")
          /\ Sequence' = [Sequence EXCEPT ![r] = SequenceFile]
  /\ UNCHANGED <<files, KnowledgeBase>>

generateSequence(r) ==
  /\ pc[r] = "generate"
  /\ GoTo(r, "print")
  /\ \E o \in Orders : Sequence' = [Sequence EXCEPT ![r] = o]
  /\ SequenceFile' = Empty
  /\ UNCHANGED <<KnowledgeBaseFile, KnowledgeBase>>

printSequence(r) ==
  /\ pc[r] = "print"
  /\ GoTo(r, "import")
  /\ SequenceFile' = Sequence[r]
  /\ UNCHANGED <<KnowledgeBaseFile, Sequence, KnowledgeBase>>

(***************************************************************************)
(* importKnowledgeBase, the generations, exportKnowledgeBase.               *)
(***************************************************************************)
importKnowledgeBase(r) ==
  /\ pc[r] = "import"
  /\ IF KnowledgeBaseFile = <<>>
     THEN GoTo(r, "dead") /\ UNCHANGED KnowledgeBase
     ELSE /\ GoTo(r, "learn")
          /\ KnowledgeBase' = [KnowledgeBase EXCEPT ![r] = KnowledgeBaseFile[1]]
  /\ UNCHANGED <<files, Sequence>>

(* Mutant: what was known is not kept.                                      *)
Replace(r) ==
  /\ pc[r] = "learn"
  /\ GoTo(r, "export")
  /\ \E new \in SUBSET Heuristics : KnowledgeBase' = [KnowledgeBase EXCEPT ![r] = new]
  /\ UNCHANGED <<files, Sequence>>

(* GrammarEvolution: update never takes a heuristic away.                   *)
run(r) ==
  /\ pc[r] = "learn"
  /\ GoTo(r, "export")
  /\ \E new \in SUBSET Heuristics :
       KnowledgeBase' = [KnowledgeBase EXCEPT ![r] = @ \cup new]
  /\ UNCHANGED <<files, Sequence>>

(* What a file may hold that is not printed to the end: some of the          *)
(* heuristics, or what does not parse.                                      *)
Texts(heuristics) == {<<S>> : S \in SUBSET heuristics} \cup {<<>>}

(* The output stream truncates the file, prints some of it, and the rest.   *)
exportKnowledgeBase(r) ==
  /\ pc[r] = "export"
  /\ GoTo(r, "save")
  /\ KnowledgeBaseFile' = <<{}>>
  /\ UNCHANGED <<SequenceFile, Sequence, KnowledgeBase>>

printSome(r) ==
  /\ pc[r] = "save"
  /\ KnowledgeBaseFile' \in Texts(KnowledgeBase[r])
  /\ UNCHANGED <<SequenceFile, pc, Sequence, KnowledgeBase>>

printKnowledgeBase(r) ==
  /\ pc[r] = "save"
  /\ GoTo(r, "done")
  /\ IF r \in torn
     THEN KnowledgeBaseFile' \in Texts(Heuristics)
     ELSE KnowledgeBaseFile' = <<KnowledgeBase[r]>>
  /\ UNCHANGED <<SequenceFile, Sequence, KnowledgeBase>>

Die(r) ==
  /\ pc[r] \notin {"idle", "done", "dead"}
  /\ GoTo(r, "dead")
  /\ UNCHANGED <<files, Sequence, KnowledgeBase>>

(***************************************************************************)
(* What the runs were doing at once.                                        *)
(***************************************************************************)
At(labels, where) == {r \in Runs : where[r] \in labels}
BesidesSaving(r) == (At({"save"}, pc') \ {r}) # {}

Observe ==
  /\ torn' = {r \in At({"save"}, pc') : r \in torn \/ BesidesSaving(r)}
  /\ stale' = {r \in At({"learn", "export", "save"}, pc') : r \in stale \/ BesidesSaving(r)}
  /\ damaged' = \/ damaged
                \/ At({"save"}, pc) \cap At({"dead"}, pc') # {}
                \/ stale' \cap At({"save"}, pc') # {}
  /\ saved' = saved \cup UNION {KnowledgeBase[r] : r \in At({"done"}, pc') \ At({"done"}, pc)}
  /\ contended' = \/ contended
                  \/ \E r, q \in At({"generate", "print"}, pc') : r # q

Init ==
  /\ SequenceFile = Missing
  /\ KnowledgeBaseFile \in {<<>>, <<{}>>}
  /\ pc = [r \in Runs |-> "idle"]
  /\ Sequence = [r \in Runs |-> None]
  /\ KnowledgeBase = [r \in Runs |-> {}]
  /\ torn = {} /\ saved = {} /\ stale = {}
  /\ damaged = FALSE /\ contended = FALSE

Step(r) ==
  \/ getSequence(r)
  \/ generateSequence(r)
  \/ printSequence(r)
  \/ importKnowledgeBase(r)
  \/ run(r)
  \/ exportKnowledgeBase(r)
  \/ printSome(r)
  \/ printKnowledgeBase(r)
  \/ Die(r)

Next == (\E r \in Runs : Step(r)) /\ Observe

Spec == Init /\ [][Next]_vars

-----------------------------------------------------------------------------
(***************************************************************************)
(* Properties.                                                             *)
(***************************************************************************)

(* What a run saved to the end is in the file whenever nobody is writing it, *)
(* however many runs came after, died while they learned or could not start, *)
(* as long as none died while it saved and none saved over what another had  *)
(* saved since it read the file.                                            *)
KnowledgeKept ==
  ~damaged /\ At({"save"}, pc) = {} =>
    \/ KnowledgeBaseFile = <<>> /\ saved = {}
    \/ KnowledgeBaseFile # <<>> /\ saved \subseteq KnowledgeBaseFile[1]

(* All runs apply the optimizations in the same order, so that the scores in *)
(* the knowledge base are of one kind, unless two of them were generating a  *)
(* sequence at once. A death in between stops later runs, and gives them no  *)
(* sequence of their own.                                                   *)
OneSequence ==
  ~contended =>
    \A r, q \in Runs : Sequence[r] = Sequence[q] \/ None \in {Sequence[r], Sequence[q]}

=============================================================================
