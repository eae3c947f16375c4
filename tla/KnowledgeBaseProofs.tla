-------------------------- MODULE KnowledgeBaseProofs --------------------------
(***************************************************************************)
(* Proofs of what the knowledge base keeps: for any number of runs that share*)
(* its file, and for any formula that is written to it.                     *)
(*                                                                         *)
(* Session: neither property is inductive. KnowledgeKept needs to know what  *)
(* the runs under way know: one that is not stale knows everything saved, and*)
(* while one saves, all others that read the file are stale. OneSequence    *)
(* needs to know that a lone generator still finds the file as it left it.  *)
(*                                                                         *)
(* FormulaLife: a formula is always what simplification made of one whose    *)
(* types fit (LifeInvariant).  That it stays so is shown of the functions    *)
(* the model is built from: each is shown to satisfy the equation that       *)
(* defines it, and then, by induction over trees, what it does to every     *)
(* tree whose types fit.                                                   *)
(***************************************************************************)
EXTENDS Session, FormulaLife, Inductions

(***************************************************************************)
(* Runs that share the files.                                              *)
(***************************************************************************)
Labels == {"idle", "generate", "print", "import", "learn", "export", "save",
           "done", "dead"}

Typed ==
  /\ SequenceFile \in {Missing, Empty, None} \cup Orders
  /\ KnowledgeBaseFile \in Texts(Heuristics)
  /\ pc \in [Runs -> Labels]
  /\ Sequence \in [Runs -> Orders \cup {None}]
  /\ KnowledgeBase \in [Runs -> SUBSET Heuristics]
  /\ saved \subseteq Heuristics

Saving  == At({"save"}, pc)
Holding == At({"learn", "export", "save"}, pc)

(* A run that another saves beside is stale, and so is one that is torn.    *)
StaleSound ==
  /\ torn \subseteq stale
  /\ \A q \in Saving, r \in Holding : r = q \/ r \in stale
  /\ ~damaged => stale \cap Saving = {}

(* As long as nothing is damaged, what was saved is known to every run that  *)
(* is not stale.                                                           *)
KnownSound ==
  ~damaged => \A r \in Holding : r \in stale \/ saved \subseteq KnowledgeBase[r]

KnowledgeInv == Typed /\ StaleSound /\ KnownSound /\ KnowledgeKept

Generating == At({"generate", "print"}, pc)

(* A run has a sequence only after the file was created.                    *)
SequencesSound ==
  /\ SequenceFile = Missing => \A r \in Runs : Sequence[r] = None
  /\ \A r \in Runs : /\ pc[r] \in {"idle", "generate"} => Sequence[r] = None
                     /\ pc[r] = "print" => Sequence[r] \in Orders

(* As long as runs did not generate at once, the one that does finds no file *)
(* when it creates it, and its own empty one when it prints; and all have    *)
(* the sequence that was printed.                                          *)
LoneGenerator ==
  ~contended =>
    /\ \A r, q \in Generating : r = q
    /\ \A r \in Runs : /\ pc[r] = "generate" => SequenceFile = Missing
                       /\ pc[r] = "print" => SequenceFile = Empty
    /\ SequenceFile \in Orders =>
         \A r \in Runs : Sequence[r] \in {None, SequenceFile}

SequenceInv == Typed /\ SequencesSound /\ LoneGenerator /\ OneSequence

-----------------------------------------------------------------------------
(* Every step of a run keeps the types.                                     *)
LEMMA TypedStep ==
  ASSUME Typed, NEW r \in Runs, Step(r), Observe
  PROVE  Typed'
<1>0. saved' \subseteq Heuristics
  BY DEF Typed, Observe, At
<1>1. CASE getSequence(r)
  BY <1>0, <1>1 DEF Typed, getSequence, GoTo, Labels, files
<1>2. CASE generateSequence(r)
  BY <1>0, <1>2 DEF Typed, generateSequence, GoTo, Labels
<1>3. CASE printSequence(r)
  BY <1>0, <1>3 DEF Typed, printSequence, GoTo, Labels
<1>4. CASE importKnowledgeBase(r)
  <2>1. KnowledgeBaseFile # <<>> => KnowledgeBaseFile[1] \in SUBSET Heuristics
    BY DEF Typed, Texts
  <2> QED BY <1>0, <1>4, <2>1 DEF Typed, importKnowledgeBase, GoTo, Labels, files
<1>5. CASE run(r)
  BY <1>0, <1>5 DEF Typed, run, GoTo, Labels, files
<1>6. CASE exportKnowledgeBase(r)
  BY <1>0, <1>6 DEF Typed, exportKnowledgeBase, GoTo, Labels, Texts
<1>7. CASE printSome(r)
  BY <1>0, <1>7 DEF Typed, printSome, Texts
<1>8. CASE printKnowledgeBase(r)
  BY <1>0, <1>8 DEF Typed, printKnowledgeBase, GoTo, Labels, Texts
<1>9. CASE Die(r)
  BY <1>0, <1>9 DEF Typed, Die, GoTo, Labels, files
<1> QED
  BY <1>1, <1>2, <1>3, <1>4, <1>5, <1>6, <1>7, <1>8, <1>9 DEF Step

(* Only r moves.                                                            *)
LEMMA OthersWait ==
  ASSUME Typed, NEW r \in Runs, Step(r), NEW q \in Runs \ {r}
  PROVE  /\ pc'[q] = pc[q]
         /\ Sequence'[q] = Sequence[q]
         /\ KnowledgeBase'[q] = KnowledgeBase[q]
  BY DEF Typed, Step, GoTo, getSequence, generateSequence, printSequence,
         importKnowledgeBase, run, exportKnowledgeBase, printSome,
         printKnowledgeBase, Die

(* StaleSound is what Observe maintains, whatever the step.                 *)
LEMMA StaleStep ==
  ASSUME StaleSound, Observe
  PROVE  StaleSound'
  BY DEF StaleSound, Observe, BesidesSaving, At, Saving, Holding

(* saved grows by what a run knows that prints the last of it.              *)
LEMMA SavedStep ==
  ASSUME Typed, NEW r \in Runs, Step(r), Observe
  PROVE  saved' = IF printKnowledgeBase(r) THEN saved \cup KnowledgeBase[r] ELSE saved
<1>1. At({"done"}, pc') \ At({"done"}, pc) = IF printKnowledgeBase(r) THEN {r} ELSE {}
  <2>1. \A q \in Runs \ {r} : pc'[q] = pc[q]
    BY OthersWait
  <2>2. pc'[r] = "done" /\ pc[r] # "done" <=> printKnowledgeBase(r)
    BY DEF Typed, Step, GoTo, getSequence, generateSequence, printSequence,
           importKnowledgeBase, run, exportKnowledgeBase, printSome,
           printKnowledgeBase, Die
  <2> QED BY <2>1, <2>2 DEF At
<1>2. UNION {KnowledgeBase[q] : q \in {r}} = KnowledgeBase[r]
  OBVIOUS
<1> QED
  BY <1>1, <1>2 DEF Observe

(* A run that is not stale after a step knows what is saved then: nobody      *)
(* else saved beside it, and what it read was all there was.                *)
LEMMA KnownStep ==
  ASSUME KnowledgeInv, NEW r \in Runs, Step(r), Observe
  PROVE  KnownSound'
<1> SUFFICES ASSUME ~damaged', NEW q \in Holding', q \notin stale'
             PROVE  saved' \subseteq KnowledgeBase'[q]
  BY DEF KnownSound
<1> USE DEF KnowledgeInv
<1>1. /\ q \in Runs
      /\ ~damaged
      /\ q \notin stale
      /\ \A p \in Runs : pc'[p] = "save" => p = q
  BY DEF Observe, BesidesSaving, At, Holding
<1>2. ~printKnowledgeBase(r)
  <2> SUFFICES ASSUME printKnowledgeBase(r) PROVE FALSE
    OBVIOUS
  <2>1. r # q /\ q \in Holding
    BY <1>1, OthersWait DEF Typed, printKnowledgeBase, GoTo, Holding, At
  <2> QED BY <1>1, <2>1 DEF StaleSound, Saving, printKnowledgeBase, At
<1>3. saved' = saved
  BY <1>2, SavedStep
<1>4. CASE q # r
  BY <1>1, <1>3, <1>4, OthersWait DEF KnownSound, Holding, At
<1>5. CASE q = r /\ importKnowledgeBase(r)
  <2>1. Saving = {}
    BY <1>1, <1>5, OthersWait DEF Saving, At, importKnowledgeBase, Typed
  <2>2. KnowledgeBaseFile # <<>> /\ KnowledgeBase'[r] = KnowledgeBaseFile[1]
    BY <1>5 DEF importKnowledgeBase, Typed, Holding, At, GoTo
  <2> QED BY <1>1, <1>3, <1>5, <2>1, <2>2 DEF KnowledgeKept, Saving
<1>6. CASE q = r /\ ~importKnowledgeBase(r)
  <2>1. q \in Holding /\ KnowledgeBase[q] \subseteq KnowledgeBase'[q]
    BY <1>6 DEF Typed, Step, GoTo, getSequence, generateSequence, printSequence,
                run, exportKnowledgeBase, printSome, printKnowledgeBase, Die,
                Holding, At
  <2> QED BY <1>1, <1>3, <2>1 DEF KnownSound
<1> QED
  BY <1>4, <1>5, <1>6

(* A save that ends leaves all that was saved in the file, and no other step  *)
(* touches the file while nobody saves.                                     *)
LEMMA KeptStep ==
  ASSUME KnowledgeInv, NEW r \in Runs, Step(r), Observe
  PROVE  KnowledgeKept'
<1> SUFFICES ASSUME ~damaged', Saving' = {}
             PROVE  \/ KnowledgeBaseFile' = <<>> /\ saved' = {}
                    \/ KnowledgeBaseFile' # <<>> /\ saved' \subseteq KnowledgeBaseFile'[1]
  BY DEF KnowledgeKept, Saving
<1> USE DEF KnowledgeInv
<1>1. ~damaged /\ \A q \in Runs : pc'[q] # "save"
  BY DEF Observe, Saving, At
<1>2. CASE printKnowledgeBase(r)
  <2>1. r \in Saving \cap Holding /\ r \notin stale /\ r \notin torn
    BY <1>1, <1>2 DEF StaleSound, printKnowledgeBase, Saving, Holding, At
  <2>2. saved' = KnowledgeBase[r]
    BY <1>1, <1>2, <2>1, SavedStep DEF KnownSound
  <2>3. KnowledgeBaseFile' = <<KnowledgeBase[r]>>
    BY <1>2, <2>1 DEF printKnowledgeBase
  <2> QED BY <2>2, <2>3
<1>3. CASE ~printKnowledgeBase(r)
  <2>1. pc[r] # "save"
    BY <1>1, <1>3 DEF Step, GoTo, getSequence, generateSequence, printSequence,
                importKnowledgeBase, run, exportKnowledgeBase, printSome, Die,
                Observe, At, Typed
  <2>2. Saving = {}
    BY <1>1, <2>1, OthersWait DEF Saving, At
  <2>3. KnowledgeBaseFile' = KnowledgeBaseFile
    BY <1>1, <1>3, <2>1 DEF Step, GoTo, getSequence, generateSequence, printSequence,
                importKnowledgeBase, run, exportKnowledgeBase, printSome, Die,
                files, Typed
  <2> QED BY <1>1, <1>3, <2>2, <2>3, SavedStep DEF KnowledgeKept, Saving
<1> QED
  BY <1>2, <1>3

(* What a run saved stays in the file, for any number of runs that overlap   *)
(* and die, but for the interrupted and stale saves the property names.      *)
THEOREM KnowledgeStays == Spec => []KnowledgeKept
<1>1. Init => KnowledgeInv
  BY DEF Init, KnowledgeInv, Typed, Labels, Texts, StaleSound, KnownSound,
         KnowledgeKept, Saving, Holding, At
<1>2. KnowledgeInv /\ [Next]_vars => KnowledgeInv'
  <2> SUFFICES ASSUME KnowledgeInv, [Next]_vars PROVE KnowledgeInv'
    OBVIOUS
  <2>1. ASSUME NEW r \in Runs, Step(r), Observe PROVE KnowledgeInv'
    BY <2>1, TypedStep, StaleStep, KnownStep, KeptStep DEF KnowledgeInv
  <2>2. CASE UNCHANGED vars
    BY <2>2 DEF vars, files, seen, KnowledgeInv, Typed, StaleSound, KnownSound,
                KnowledgeKept, Saving, Holding, At
  <2> QED BY <2>1, <2>2 DEF Next
<1>3. KnowledgeInv => KnowledgeKept
  BY DEF KnowledgeInv
<1> QED
  BY <1>1, <1>2, <1>3, PTL DEF Spec

-----------------------------------------------------------------------------
(* Every step of a run keeps the sequences as the invariant has them.       *)
LEMMA SequenceStep ==
  ASSUME SequenceInv, NEW r \in Runs, Step(r), Observe
  PROVE  SequencesSound' /\ LoneGenerator' /\ OneSequence'
<1> USE FilesAssumption DEF SequenceInv
<1>0. /\ \A q \in Runs \ {r} : pc'[q] = pc[q] /\ Sequence'[q] = Sequence[q]
      /\ pc' \in [Runs -> Labels] /\ Sequence' \in [Runs -> Orders \cup {None}]
      /\ ~contended' => /\ ~contended
                        /\ \A p, q \in Runs : /\ pc'[p] \in {"generate", "print"}
                                              /\ pc'[q] \in {"generate", "print"}
                                              => p = q
  BY OthersWait, TypedStep DEF Typed, Observe, At
<1>1. CASE getSequence(r)
  BY <1>0, <1>1 DEF getSequence, GoTo, files, Typed, SequencesSound,
                    LoneGenerator, OneSequence, Generating, At
<1>2. CASE generateSequence(r)
  <2>1. PICK o \in Orders : Sequence' = [Sequence EXCEPT ![r] = o]
    BY <1>2 DEF generateSequence
  <2>2. pc[r] = "generate" /\ pc'[r] = "print" /\ SequenceFile' = Empty
        /\ Sequence'[r] = o
    BY <1>2, <2>1 DEF generateSequence, GoTo, Typed
  <2>3. SequencesSound'
    BY <1>0, <2>2 DEF SequencesSound
  <2>4. ~contended' => \A q \in Runs \ {r} : Sequence'[q] = None
    BY <1>0, <2>2 DEF LoneGenerator, SequencesSound
  <2>5. LoneGenerator'
    BY <1>0, <2>2 DEF LoneGenerator, Generating, At
  <2> QED BY <2>3, <2>4, <2>5 DEF OneSequence
<1>3. CASE printSequence(r)
  <2>1. pc[r] = "print" /\ pc'[r] = "import" /\ SequenceFile' = Sequence[r]
        /\ Sequence' = Sequence /\ Sequence[r] \in Orders
    BY <1>3 DEF printSequence, GoTo, Typed, SequencesSound
  <2>2. SequencesSound'
    BY <1>0, <2>1 DEF SequencesSound
  <2>3. OneSequence'
    BY <1>0, <2>1 DEF OneSequence
  <2>4. ~contended' => \A q \in Runs : pc'[q] \notin {"generate", "print"}
    BY <1>0, <2>1 DEF LoneGenerator, Generating, At
  <2>5. LoneGenerator'
    BY <1>0, <2>1, <2>3, <2>4 DEF LoneGenerator, OneSequence, Generating, At
  <2> QED BY <2>2, <2>3, <2>5
<1>4. CASE importKnowledgeBase(r) \/ run(r) \/ exportKnowledgeBase(r)
           \/ printSome(r) \/ printKnowledgeBase(r) \/ Die(r)
  <2>1. /\ SequenceFile' = SequenceFile /\ Sequence' = Sequence
        /\ pc'[r] \notin {"idle", "generate", "print"}
    BY <1>4 DEF importKnowledgeBase, run, exportKnowledgeBase, printSome,
                printKnowledgeBase, Die, GoTo, files, Typed
  <2> QED BY <1>0, <2>1 DEF SequencesSound, LoneGenerator, OneSequence,
                            Generating, At
<1> QED
  BY <1>1, <1>2, <1>3, <1>4 DEF Step

(* All runs use one sequence, for any number of runs and permutations, unless *)
(* two of them generated one at once.                                       *)
THEOREM SequenceShared == Spec => []OneSequence
<1>1. Init => SequenceInv
  BY FilesAssumption DEF Init, SequenceInv, Typed, Labels, Texts, SequencesSound,
     LoneGenerator, OneSequence, Generating, At
<1>2. SequenceInv /\ [Next]_vars => SequenceInv'
  <2> SUFFICES ASSUME SequenceInv, [Next]_vars PROVE SequenceInv'
    OBVIOUS
  <2>1. ASSUME NEW r \in Runs, Step(r), Observe PROVE SequenceInv'
    BY <2>1, TypedStep, SequenceStep DEF SequenceInv
  <2>2. CASE UNCHANGED vars
    BY <2>2 DEF vars, files, seen, SequenceInv, Typed, SequencesSound,
                LoneGenerator, OneSequence, Generating, At
  <2> QED BY <2>1, <2>2 DEF Next
<1>3. SequenceInv => OneSequence
  BY DEF SequenceInv
<1> QED
  BY <1>1, <1>2, <1>3, PTL DEF Spec

(***************************************************************************)
(* Trees: what the fields of a formula can hold.                           *)
(***************************************************************************)
(* Level by level, there are such sets.                                     *)
HasTrees(n) ==
  \E T : T = [i \in 0..n |-> IF i = 0 THEN {} ELSE Atoms \cup BinOps(T[i - 1]) \cup Ifs(T[i - 1])]

LEMMA TreesExist == \A n \in Nat : HasTrees(n)
<1> DEFINE S == {n \in Nat : HasTrees(n)}
           On(s) == Atoms \cup BinOps(s) \cup Ifs(s)
<1>1. 0 \in S
  <2> DEFINE f == [i \in 0..0 |-> {}]
  <2>1. f = [i \in 0..0 |-> IF i = 0 THEN {} ELSE On(f[i - 1])]
    <3> HIDE DEF On
    <3> QED OBVIOUS
  <2> HIDE DEF f
  <2> QED
    BY <2>1 DEF HasTrees
<1>2. ASSUME NEW n \in Nat, n \in S
      PROVE  n + 1 \in S
  <2>1. PICK f : f = [i \in 0..n |-> IF i = 0 THEN {} ELSE On(f[i - 1])]
    BY <1>2 DEF HasTrees
  <2> DEFINE g == [i \in 0..(n + 1) |-> IF i = n + 1 THEN On(f[n]) ELSE f[i]]
  <2>2. ASSUME NEW i \in 0..(n + 1)
        PROVE  g[i] = IF i = 0 THEN {} ELSE On(g[i - 1])
    <3> HIDE DEF On
    <3>1. CASE i = n + 1
      <4>1. n \in 0..(n + 1) /\ n # n + 1 /\ i # 0 /\ i - 1 = n
        BY <3>1
      <4>2. g[i] = On(f[n]) /\ g[i - 1] = f[n]
        BY <3>1, <4>1
      <4> QED
        BY <4>1, <4>2
    <3>2. CASE i # n + 1
      <4>1. i \in 0..n /\ (i # 0 => i - 1 \in 0..n /\ i - 1 # n + 1)
        BY <3>2
      <4>2. f[i] = IF i = 0 THEN {} ELSE On(f[i - 1])
        BY <2>1, <4>1
      <4> QED
        BY <4>1, <4>2
    <3> QED
      BY <3>1, <3>2
  <2>3. g = [i \in 0..(n + 1) |-> IF i = 0 THEN {} ELSE On(g[i - 1])]
    <3> HIDE DEF g, On
    <3> QED BY <2>2 DEF g
  <2> HIDE DEF g
  <2>4. HasTrees(n + 1)
    BY ONLY <2>3, Zenon DEF HasTrees
  <2> QED
    BY <2>4
<1> HIDE DEF S
<1>3. Nat \subseteq S
  BY <1>1, <1>2, SetInduction
<1> QED
  BY <1>3 DEF S

(* Trees satisfies its equations.                                           *)
LEMMA TreesAre ==
  /\ Trees[0] = {}
  /\ \A n \in Nat : Trees[n + 1] = Atoms \cup BinOps(Trees[n]) \cup Ifs(Trees[n])
<1> DEFINE On(s) == Atoms \cup BinOps(s) \cup Ifs(s)
           Goes(T, n) == T = [i \in 0..n |-> IF i = 0 THEN {} ELSE On(T[i - 1])]
           To == [n \in Nat |-> CHOOSE T : Goes(T, n)]
           All == [n \in Nat |-> To[n][n]]
<1>1. \A n \in Nat : Goes(To[n], n)
  <2>1. ASSUME NEW n \in Nat
        PROVE  \E T : Goes(T, n)
    BY TreesExist DEF HasTrees
  <2> HIDE DEF Goes
  <2> QED
    BY <2>1
<1>2. \A n \in Nat : \A i \in 0..n : To[n][i] = IF i = 0 THEN {} ELSE On(To[n][i - 1])
  <2> HIDE DEF On, To
  <2> QED
    BY <1>1
<1> HIDE DEF To, On
<1>3. ASSUME NEW n \in Nat
      PROVE  \A i \in 0..n : To[n + 1][i] = To[n][i]
  <2> DEFINE S == {i \in Nat : i <= n => To[n + 1][i] = To[n][i]}
  <2>1. 0 \in S
    BY <1>2
  <2>2. ASSUME NEW i \in Nat, i \in S
        PROVE  i + 1 \in S
    <3>1. CASE i + 1 <= n
      <4>1. To[n][i + 1] = On(To[n][i])
        BY <1>2, <3>1
      <4>2. To[n + 1][i + 1] = On(To[n + 1][i])
        BY <1>2, <3>1
      <4> QED
        BY <2>2, <3>1, <4>1, <4>2
    <3> QED
      BY <3>1
  <2> HIDE DEF S
  <2>3. Nat \subseteq S
    BY <2>1, <2>2, SetInduction
  <2> QED
    BY <2>3 DEF S
<1>4. \A n \in Nat : All[n] = IF n = 0 THEN {} ELSE On(All[n - 1])
  <2>1. ASSUME NEW n \in Nat, n # 0
        PROVE  All[n] = On(All[n - 1])
    <3>1. n - 1 \in Nat /\ n \in 0..n /\ n - 1 \in 0..n - 1 /\ n - 1 + 1 = n
      BY <2>1
    <3>2. To[n][n] = On(To[n][n - 1])
      BY <1>2, <2>1, <3>1
    <3>3. To[n][n - 1] = To[n - 1][n - 1]
      BY <1>3, <3>1
    <3> QED
      BY <3>1, <3>2, <3>3
  <2>2. To[0][0] = {}
    BY <1>2
  <2>3. All[0] = {}
    BY <2>2
  <2> QED
    BY <2>1, <2>3
<1>5. All = [n \in Nat |-> IF n = 0 THEN {} ELSE On(All[n - 1])]
  <2> HIDE DEF All
  <2> QED
    BY <1>4 DEF All
<1> HIDE DEF All
<1>6. Trees = [n \in Nat |-> IF n = 0 THEN {} ELSE On(Trees[n - 1])]
  BY ONLY <1>5, Zenon DEF Trees, On
<1>7. \A n \in Nat : Trees[n] = IF n = 0 THEN {} ELSE On(Trees[n - 1])
  BY <1>6
<1>8. \A n \in Nat : Trees[n + 1] = On(Trees[n])
  BY <1>7
<1>9. Trees[0] = {}
  BY <1>7
<1> QED
  BY <1>8, <1>9 DEF On

(* A tree of more levels is a tree.                                          *)
LEMMA TreesGrow ==
  ASSUME NEW n \in Nat, NEW m \in Nat, n <= m
  PROVE  Trees[n] \subseteq Trees[m]
<1> DEFINE S == {i \in Nat : Trees[i] \subseteq Trees[i + 1]}
           R == {i \in Nat : n <= i => Trees[n] \subseteq Trees[i]}
<1>1. 0 \in S
  BY TreesAre
<1>2. ASSUME NEW i \in Nat, i \in S
      PROVE  i + 1 \in S
  <2>1. BinOps(Trees[i]) \subseteq BinOps(Trees[i + 1])
    BY <1>2 DEF BinOps
  <2>2. Ifs(Trees[i]) \subseteq Ifs(Trees[i + 1])
    BY <1>2 DEF Ifs
  <2>3. /\ Trees[i + 1] = Atoms \cup BinOps(Trees[i]) \cup Ifs(Trees[i])
        /\ Trees[i + 1 + 1] = Atoms \cup BinOps(Trees[i + 1]) \cup Ifs(Trees[i + 1])
    BY TreesAre
  <2>4. Trees[i + 1] \subseteq Trees[i + 1 + 1]
    BY ONLY <2>1, <2>2, <2>3, Zenon
  <2> QED
    BY <2>4
<1>3. Nat \subseteq S
  <2> HIDE DEF S
  <2> QED
    BY <1>1, <1>2, SetInduction
<1>4. 0 \in R
  BY TreesAre
<1>5. ASSUME NEW i \in Nat, i \in R
      PROVE  i + 1 \in R
  <2>1. Trees[i] \subseteq Trees[i + 1]
    BY <1>3
  <2>2. n <= i + 1 => n <= i \/ n = i + 1
    OBVIOUS
  <2> QED
    BY <1>5, <2>1, <2>2
<1> HIDE DEF R
<1>6. Nat \subseteq R
  BY <1>4, <1>5, SetInduction
<1> QED
  BY <1>6 DEF R

(* All the trees, of any number of levels.                                   *)
AllTrees == UNION {Trees[n] : n \in Nat}

(* What a tree is made of, level by level.                                   *)
LEMMA TreeAtLevel ==
  ASSUME NEW n \in Nat, NEW f \in Trees[n]
  PROVE  /\ n # 0 /\ n - 1 \in Nat
         /\ f \in Atoms \/ f \in BinOps(Trees[n - 1]) \/ f \in Ifs(Trees[n - 1])
<1>1. n # 0 /\ n - 1 \in Nat
  BY TreesAre
<1>2. Trees[n - 1 + 1] = Atoms \cup BinOps(Trees[n - 1]) \cup Ifs(Trees[n - 1])
  BY <1>1, TreesAre
<1> QED
  BY <1>1, <1>2

(* What is made of trees is a tree.                                          *)
LEMMA MadeOfTrees ==
  /\ Atoms \subseteq AllTrees
  /\ BinOps(AllTrees) \subseteq AllTrees
  /\ Ifs(AllTrees) \subseteq AllTrees
<1>1. Atoms \subseteq AllTrees
  <2>1. Atoms \subseteq Trees[0 + 1]
    BY TreesAre
  <2> QED
    BY <2>1 DEF AllTrees
<1>2. ASSUME NEW f \in BinOps(AllTrees)
      PROVE  f \in AllTrees
  <2>1. PICK i \in Nat, j \in Nat : f.lhs \in Trees[i] /\ f.rhs \in Trees[j]
    BY DEF BinOps, AllTrees
  <2>2. PICK n \in Nat : i <= n /\ j <= n
    BY <2>1
  <2>3. f.lhs \in Trees[n] /\ f.rhs \in Trees[n]
    BY <2>1, <2>2, TreesGrow
  <2>4. f \in BinOps(Trees[n])
    BY <2>3 DEF BinOps
  <2>5. f \in Trees[n + 1]
    BY <2>4, TreesAre
  <2> QED
    BY <2>5 DEF AllTrees
<1>3. ASSUME NEW f \in Ifs(AllTrees)
      PROVE  f \in AllTrees
  <2>1. PICK i \in Nat, j \in Nat, k \in Nat :
          f.cond \in Trees[i] /\ f.then \in Trees[j] /\ f.else \in Trees[k]
    BY DEF Ifs, AllTrees
  <2>2. PICK n \in Nat : i <= n /\ j <= n /\ k <= n
    <3>1. PICK m \in Nat : i <= m /\ j <= m
      BY <2>1
    <3> QED
      BY <2>1, <3>1
  <2>3. f.cond \in Trees[n] /\ f.then \in Trees[n] /\ f.else \in Trees[n]
    BY <2>1, <2>2, TreesGrow
  <2>4. f \in Ifs(Trees[n])
    BY <2>3 DEF Ifs
  <2>5. f \in Trees[n + 1]
    BY <2>4, TreesAre
  <2> QED
    BY <2>5 DEF AllTrees
<1> QED
  BY <1>1, <1>2, <1>3

(* Every tree is one of some level.                                          *)
LEMMA TreeIsTree == Tree \subseteq AllTrees
BY FormulaAssumption DEF Tree, AllTrees

(* The kinds of trees, each of its fields.                                   *)
LEMMA TreeKinds ==
  ASSUME NEW f \in Tree
  PROVE  \/ f \in Atoms
         \/ f \in BinOps(Tree)
         \/ f \in Ifs(Tree)
<1>1. MaxNodes \in Nat /\ f \in Trees[MaxNodes]
  BY FormulaAssumption DEF Tree
<1>2. /\ MaxNodes - 1 \in Nat
      /\ f \in Atoms \/ f \in BinOps(Trees[MaxNodes - 1]) \/ f \in Ifs(Trees[MaxNodes - 1])
  BY <1>1, TreeAtLevel
<1>3. Trees[MaxNodes - 1] \subseteq Tree
  BY <1>1, <1>2, TreesGrow DEF Tree
<1>4. BinOps(Trees[MaxNodes - 1]) \subseteq BinOps(Tree)
  BY <1>3 DEF BinOps
<1>5. Ifs(Trees[MaxNodes - 1]) \subseteq Ifs(Tree)
  BY <1>3 DEF Ifs
<1> QED
  BY <1>2, <1>4, <1>5

(* The fields of a literal, or of a feature.                                 *)
LEMMA AtomFacts ==
  ASSUME NEW f \in Atoms
  PROVE  /\ Parts(f) = {} /\ ~isBinOp(f) /\ f.kind # "if"
         /\ f.type \in Types
         /\ f.kind \in {"literal", "feature"}
         /\ f.kind = "literal" => f.value \in Int
         /\ f.kind = "feature" => f.pair \in Features /\ f.type = "Int"
BY DEF Atoms, Parts, isBinOp, Types

(* The fields of a binary operation, whatever its operands are from.         *)
LEMMA BinOpFacts ==
  ASSUME NEW S, NEW f \in BinOps(S)
  PROVE  /\ Parts(f) = {"lhs", "rhs"} /\ isBinOp(f)
         /\ f.kind \in {"arith-binop", "bool-binop"} /\ f.type \in Types
         /\ f.optype \in Types /\ f.op \in Int
         /\ f.lhs \in S /\ f.rhs \in S
         /\ f["lhs"] = f.lhs /\ f["rhs"] = f.rhs
         /\ f.kind # "if" /\ ~isLiteral(f) /\ f.kind # "feature"
BY DEF BinOps, Parts, isBinOp, Types, isLiteral

(* The fields of an if, whatever its parts are from.                         *)
LEMMA IfFacts ==
  ASSUME NEW S, NEW f \in Ifs(S)
  PROVE  /\ Parts(f) = {"cond", "then", "else"} /\ ~isBinOp(f)
         /\ f.kind = "if" /\ f.type \in Types
         /\ f.cond \in S /\ f.then \in S /\ f.else \in S
         /\ f["cond"] = f.cond /\ f["then"] = f.then /\ f["else"] = f.else
         /\ ~isLiteral(f) /\ f.kind # "feature"
BY DEF Ifs, Parts, isBinOp, Types, isLiteral

(* What holds of a tree if it holds of its parts holds of every tree.        *)
LEMMA TreeInduction ==
  ASSUME NEW Good,
         \A f \in Tree \cap Atoms : f \in Good,
         \A f \in Tree \cap BinOps(Tree) : f.lhs \in Good /\ f.rhs \in Good => f \in Good,
         \A f \in Tree \cap Ifs(Tree) :
           f.cond \in Good /\ f.then \in Good /\ f.else \in Good => f \in Good
  PROVE  Tree \subseteq Good
<1> DEFINE S == {n \in Nat : n <= MaxNodes => Trees[n] \subseteq Good}
<1>1. 0 \in S
  BY TreesAre
<1>2. ASSUME NEW n \in Nat, n \in S
      PROVE  n + 1 \in S
  <2>1. ASSUME n + 1 <= MaxNodes, NEW f \in Trees[n + 1]
        PROVE  f \in Good
    <3>1. MaxNodes \in Nat /\ Trees[n] \subseteq Good
      BY <1>2, <2>1, FormulaAssumption
    <3>2. Trees[n + 1] \subseteq Tree /\ Trees[n] \subseteq Tree
      <4>1. n + 1 \in Nat /\ n <= MaxNodes
        BY <2>1, <3>1
      <4> QED
        BY <2>1, <3>1, <4>1, TreesGrow DEF Tree
    <3>3. f \in Atoms \/ f \in BinOps(Trees[n]) \/ f \in Ifs(Trees[n])
      BY <2>1, TreesAre
    <3>4. CASE f \in Atoms
      BY <2>1, <3>2, <3>4
    <3>5. CASE f \in BinOps(Trees[n])
      <4>1. f.lhs \in Trees[n] /\ f.rhs \in Trees[n]
        BY <3>5, BinOpFacts
      <4>2. f \in BinOps(Tree)
        BY <3>2, <3>5 DEF BinOps
      <4> QED
        BY <2>1, <3>1, <3>2, <4>1, <4>2
    <3>6. CASE f \in Ifs(Trees[n])
      <4>1. f.cond \in Trees[n] /\ f.then \in Trees[n] /\ f.else \in Trees[n]
        BY <3>6, IfFacts
      <4>2. f \in Ifs(Tree)
        BY <3>2, <3>6 DEF Ifs
      <4> QED
        BY <2>1, <3>1, <3>2, <4>1, <4>2
    <3> QED
      BY <3>3, <3>4, <3>5, <3>6
  <2> QED
    BY <2>1
<1> HIDE DEF S
<1>3. Nat \subseteq S
  BY <1>1, <1>2, SetInduction
<1> QED
  BY <1>3, FormulaAssumption DEF S, Tree

(* A tree has fewer levels below it than there are.                          *)
LEMMA TreeRanks ==
  ASSUME NEW below, below = [f \in Tree |-> {f[part] : part \in Parts(f)}]
  PROVE  \E rank : RanksBelow(below, Tree, rank, MaxNodes)
<1> DEFINE rank == [f \in Tree |-> CHOOSE n \in 0..MaxNodes :
                      f \in Trees[n] /\ \A m \in 0..MaxNodes : f \in Trees[m] => n <= m]
<1>1. MaxNodes \in Nat
  BY FormulaAssumption
<1>2. ASSUME NEW f \in Tree
      PROVE  \E n \in 0..MaxNodes :
               f \in Trees[n] /\ \A m \in 0..MaxNodes : f \in Trees[m] => n <= m
  <2>1. PICK T : T = {n \in 0..MaxNodes : f \in Trees[n]}
    OBVIOUS
  <2>2. T \subseteq Nat /\ T # {}
    BY <1>1, <1>2, <2>1 DEF Tree
  <2>3. PICK n \in T : \A m \in T : n <= m
    BY <2>2, SmallestOf
  <2> QED
    BY <2>1, <2>3
<1>3. ASSUME NEW f \in Tree
      PROVE  /\ rank[f] \in 0..MaxNodes
             /\ f \in Trees[rank[f]]
             /\ \A m \in 0..MaxNodes : f \in Trees[m] => rank[f] <= m
  <2>1. rank[f] = CHOOSE n \in 0..MaxNodes :
                    f \in Trees[n] /\ \A m \in 0..MaxNodes : f \in Trees[m] => n <= m
    OBVIOUS
  <2> HIDE DEF rank
  <2> QED
    BY <1>2, <2>1
<1>4. rank \in [Tree -> 0..MaxNodes]
  <2>1. rank = [f \in Tree |-> rank[f]]
    OBVIOUS
  <2> HIDE DEF rank
  <2> QED
    BY <1>3, <2>1
<1> HIDE DEF rank
<1>5. ASSUME NEW f \in Tree, NEW g \in below[f]
      PROVE  g \in Tree /\ rank[g] < rank[f]
  <2>1. PICK n \in Nat : n = rank[f] /\ n <= MaxNodes /\ f \in Trees[n]
    BY <1>1, <1>3
  <2>2. /\ n # 0 /\ n - 1 \in Nat
        /\ f \in Atoms \/ f \in BinOps(Trees[n - 1]) \/ f \in Ifs(Trees[n - 1])
    BY <2>1, TreeAtLevel
  <2>3. g \in {f[part] : part \in Parts(f)}
    BY <1>5
  <2>4. g \in Trees[n - 1]
    <3>1. CASE f \in Atoms
      BY <2>3, <3>1, AtomFacts
    <3>2. CASE f \in BinOps(Trees[n - 1])
      BY <2>3, <3>2, BinOpFacts
    <3>3. CASE f \in Ifs(Trees[n - 1])
      BY <2>3, <3>3, IfFacts
    <3> QED
      BY <2>2, <3>1, <3>2, <3>3
  <2>5. n - 1 \in 0..MaxNodes /\ n - 1 <= MaxNodes
    BY <1>1, <2>1, <2>2
  <2>6. g \in Tree
    BY <1>1, <2>2, <2>4, <2>5, TreesGrow DEF Tree
  <2>7. rank[g] <= n - 1
    BY <1>3, <2>4, <2>5, <2>6
  <2>8. rank[g] \in 0..MaxNodes
    BY <1>3, <2>6
  <2> QED
    BY <2>1, <2>6, <2>7, <2>8
<1>6. \A f \in Tree : below[f] \subseteq Tree /\ \A g \in below[f] : rank[g] < rank[f]
  BY <1>5
<1> QED
  BY <1>1, <1>4, <1>6 DEF RanksBelow

(* What is computed of a tree from what is computed of its parts.            *)
OnTrees(V, atom, binop, branch) ==
  /\ V # {}
  /\ \A f \in Tree \cap Atoms : atom[f] \in V
  /\ \A f \in Tree \cap BinOps(Tree) : \A u, v \in V : binop[f][u][v] \in V
  /\ \A f \in Tree \cap Ifs(Tree) : \A u, v, w \in V : branch[f][u][v][w] \in V

(* The values of such a function, from those of the parts.                   *)
Computed(F, atom, binop, branch) ==
  /\ \A f \in Tree \cap Atoms : F[f] = atom[f]
  /\ \A f \in Tree \cap BinOps(Tree) : F[f] = binop[f][F[f.lhs]][F[f.rhs]]
  /\ \A f \in Tree \cap Ifs(Tree) : F[f] = branch[f][F[f.cond]][F[f.then]][F[f.else]]

(* There is a function on trees that is computed so, and its values are in V.*)
LEMMA TreeFunctionExists ==
  ASSUME NEW V, NEW atom, NEW binop, NEW branch, OnTrees(V, atom, binop, branch)
  PROVE  \E F \in [Tree -> V] : Computed(F, atom, binop, branch)
<1>1. PICK below : below = [f \in Tree |-> {f[part] : part \in Parts(f)}]
  OBVIOUS
<1>2. PICK rank : RanksBelow(below, Tree, rank, MaxNodes)
  BY <1>1, TreeRanks
<1> DEFINE On(f, r) ==
             CASE isBinOp(f) -> binop[f][r[f.lhs]][r[f.rhs]]
               [] f.kind = "if" -> branch[f][r[f.cond]][r[f.then]][r[f.else]]
               [] OTHER -> atom[f]
<1>3. PICK step : step = [f \in Tree |-> [r \in [below[f] -> V] |-> On(f, r)]]
  OBVIOUS
<1>4. ASSUME NEW f \in Tree
      PROVE  /\ f \in Atoms => below[f] = {} /\ \A r : On(f, r) = atom[f]
             /\ f \in BinOps(Tree) => /\ below[f] = {f.lhs, f.rhs}
                                      /\ \A r : On(f, r) = binop[f][r[f.lhs]][r[f.rhs]]
             /\ f \in Ifs(Tree) =>
                  /\ below[f] = {f.cond, f.then, f.else}
                  /\ \A r : On(f, r) = branch[f][r[f.cond]][r[f.then]][r[f.else]]
  <2>1. below[f] = {f[part] : part \in Parts(f)}
    BY <1>1
  <2>2. CASE f \in Atoms
    <3>1. ~isBinOp(f) /\ f.kind # "if" /\ Parts(f) = {}
      BY <2>2, AtomFacts
    <3> QED
      BY <2>1, <2>2, <3>1, BinOpFacts, IfFacts
  <2>3. CASE f \in BinOps(Tree)
    <3>1. /\ isBinOp(f) /\ Parts(f) = {"lhs", "rhs"}
          /\ f["lhs"] = f.lhs /\ f["rhs"] = f.rhs /\ f.kind # "if"
      BY <2>3, BinOpFacts
    <3>2. f \notin Atoms /\ f \notin Ifs(Tree)
      BY <3>1, AtomFacts, IfFacts
    <3> QED
      BY <2>1, <3>1, <3>2
  <2>4. CASE f \in Ifs(Tree)
    <3>1. /\ ~isBinOp(f) /\ f.kind = "if" /\ Parts(f) = {"cond", "then", "else"}
          /\ f["cond"] = f.cond /\ f["then"] = f.then /\ f["else"] = f.else
      BY <2>4, IfFacts
    <3>2. f \notin Atoms /\ f \notin BinOps(Tree)
      BY <3>1, AtomFacts, BinOpFacts
    <3> QED
      BY <2>1, <3>1, <3>2
  <2> HIDE DEF On
  <2> QED
    BY <2>2, <2>3, <2>4, TreeKinds
<1> HIDE DEF On
<1>5. StepsBelow(step, below, Tree, V)
  <2>1. ASSUME NEW f \in Tree, NEW r \in [below[f] -> V]
        PROVE  step[f][r] \in V
    <3>1. step[f][r] = On(f, r)
      BY <1>3
    <3>2. CASE f \in Atoms
      BY <1>4, <3>1, <3>2 DEF OnTrees
    <3>3. CASE f \in BinOps(Tree)
      BY <1>4, <3>1, <3>3 DEF OnTrees
    <3>4. CASE f \in Ifs(Tree)
      BY <1>4, <3>1, <3>4 DEF OnTrees
    <3> QED
      BY <3>2, <3>3, <3>4, TreeKinds
  <2> QED
    BY <2>1 DEF StepsBelow, OnTrees
<1>6. PICK F \in [Tree -> V] : \A f \in Tree : F[f] = step[f][[g \in below[f] |-> F[g]]]
  BY <1>2, <1>5, FunctionExists
<1>7. ASSUME NEW f \in Tree
      PROVE  F[f] = On(f, [g \in below[f] |-> F[g]])
  <2>1. below[f] \subseteq Tree
    BY <1>2 DEF RanksBelow
  <2>2. [g \in below[f] |-> F[g]] \in [below[f] -> V]
    BY <2>1
  <2> QED
    BY <1>3, <1>6, <2>2
<1>8. \A f \in Tree \cap Atoms : F[f] = atom[f]
  BY <1>4, <1>7
<1>9. ASSUME NEW f \in Tree, f \in BinOps(Tree)
      PROVE  F[f] = binop[f][F[f.lhs]][F[f.rhs]]
  <2>1. PICK r : r = [g \in below[f] |-> F[g]]
    OBVIOUS
  <2>2. F[f] = binop[f][r[f.lhs]][r[f.rhs]]
    BY <1>4, <1>7, <1>9, <2>1
  <2>3. r[f.lhs] = F[f.lhs] /\ r[f.rhs] = F[f.rhs]
    BY <1>4, <1>9, <2>1
  <2> QED
    BY <2>2, <2>3
<1>10. ASSUME NEW f \in Tree, f \in Ifs(Tree)
       PROVE  F[f] = branch[f][F[f.cond]][F[f.then]][F[f.else]]
  <2>1. PICK r : r = [g \in below[f] |-> F[g]]
    OBVIOUS
  <2>2. F[f] = branch[f][r[f.cond]][r[f.then]][r[f.else]]
    <3>1. F[f] = On(f, r)
      BY <1>7, <2>1
    <3>2. \A q : On(f, q) = branch[f][q[f.cond]][q[f.then]][q[f.else]]
      BY <1>4, <1>10
    <3> QED
      BY <3>1, <3>2
  <2>3. r[f.cond] = F[f.cond] /\ r[f.then] = F[f.then] /\ r[f.else] = F[f.else]
    BY <1>4, <1>10, <2>1
  <2> QED
    BY <2>2, <2>3
<1> QED
  BY <1>8, <1>9, <1>10 DEF Computed

(* How many formulas a tree is made of.                                      *)
LEMMA NodesAre ==
  /\ \A f \in Tree : Nodes[f] \in Nat \ {0}
  /\ \A f \in Tree \cap Atoms : Nodes[f] = 1
  /\ \A f \in Tree \cap BinOps(Tree) : Nodes[f] = 1 + Nodes[f.lhs] + Nodes[f.rhs]
  /\ \A f \in Tree \cap Ifs(Tree) :
       Nodes[f] = 1 + Nodes[f.cond] + Nodes[f.then] + Nodes[f.else]
<1> DEFINE V == Nat \ {0}
           atom == [f \in Tree |-> 1]
           binop == [f \in Tree |-> [u \in V |-> [v \in V |-> 1 + u + v]]]
           branch == [f \in Tree |-> [u \in V |-> [v \in V |-> [w \in V |-> 1 + u + v + w]]]]
           On(f, F) == CASE isBinOp(f) -> 1 + F[f.lhs] + F[f.rhs]
                         [] f.kind = "if" -> 1 + F[f.cond] + F[f.then] + F[f.else]
                         [] OTHER -> 1
           Adds(F) == /\ \A f \in Tree \cap Atoms : F[f] = 1
                      /\ \A f \in Tree \cap BinOps(Tree) : F[f] = 1 + F[f.lhs] + F[f.rhs]
                      /\ \A f \in Tree \cap Ifs(Tree) :
                           F[f] = 1 + F[f.cond] + F[f.then] + F[f.else]
<1>1. OnTrees(V, atom, binop, branch)
  BY DEF OnTrees
<1>2. PICK F \in [Tree -> V] : Computed(F, atom, binop, branch)
  <2> HIDE DEF V, atom, binop, branch
  <2> QED
    BY <1>1, TreeFunctionExists
<1>3. Adds(F)
  BY <1>2, BinOpFacts, IfFacts DEF Computed
<1>4. \A G : Adds(G) <=> \A f \in Tree : G[f] = On(f, G)
  BY TreeKinds, AtomFacts, BinOpFacts, IfFacts
<1>5. F = [f \in Tree |-> On(f, F)]
  <2>1. \A f \in Tree : F[f] = On(f, F)
    BY ONLY <1>3, <1>4
  <2> HIDE DEF On
  <2> QED
    BY <2>1
<1>6. Nodes = [f \in Tree |-> On(f, Nodes)]
  BY ONLY <1>5, Zenon DEF Nodes
<1>7. Adds(Nodes)
  <2>1. \A f \in Tree : Nodes[f] = On(f, Nodes)
    <3> HIDE DEF On
    <3> QED
      BY <1>6
  <2> HIDE DEF On, Adds
  <2> QED
    BY <1>4, <2>1
<1>8. \A f \in Tree : Nodes[f] \in V
  <2> DEFINE Good == {f \in Tree : Nodes[f] \in V}
  <2>1. \A f \in Tree \cap Atoms : f \in Good
    BY <1>7
  <2>2. \A f \in Tree \cap BinOps(Tree) : f.lhs \in Good /\ f.rhs \in Good => f \in Good
    BY <1>7
  <2>3. \A f \in Tree \cap Ifs(Tree) :
          f.cond \in Good /\ f.then \in Good /\ f.else \in Good => f \in Good
    BY <1>7
  <2> HIDE DEF Good
  <2>4. Tree \subseteq Good
    BY <2>1, <2>2, <2>3, TreeInduction
  <2> QED
    BY <2>4 DEF Good
<1> QED
  BY <1>7, <1>8

(* The formulas a tree is made of.                                           *)
LEMMA SubformulasAre ==
  /\ \A f \in Tree : f \in Subformulas[f] /\ Subformulas[f] \subseteq Tree
  /\ \A f \in Tree \cap Atoms : Subformulas[f] = {f}
  /\ \A f \in Tree \cap BinOps(Tree) :
       Subformulas[f] = {f} \cup Subformulas[f.lhs] \cup Subformulas[f.rhs]
  /\ \A f \in Tree \cap Ifs(Tree) :
       Subformulas[f] = {f} \cup Subformulas[f.cond] \cup Subformulas[f.then]
                            \cup Subformulas[f.else]
<1> DEFINE V == SUBSET Tree
           atom == [f \in Tree |-> {f}]
           binop == [f \in Tree |-> [u \in V |-> [v \in V |-> {f} \cup u \cup v]]]
           branch == [f \in Tree |->
                        [u \in V |-> [v \in V |-> [w \in V |-> {f} \cup u \cup v \cup w]]]]
           On(f, F) == {f} \cup UNION {F[f[part]] : part \in Parts(f)}
           Joins(F) ==
             /\ \A f \in Tree \cap Atoms : F[f] = {f}
             /\ \A f \in Tree \cap BinOps(Tree) : F[f] = {f} \cup F[f.lhs] \cup F[f.rhs]
             /\ \A f \in Tree \cap Ifs(Tree) :
                  F[f] = {f} \cup F[f.cond] \cup F[f.then] \cup F[f.else]
<1>1. OnTrees(V, atom, binop, branch)
  BY DEF OnTrees
<1>2. PICK F \in [Tree -> V] : Computed(F, atom, binop, branch)
  <2> HIDE DEF V, atom, binop, branch
  <2> QED
    BY <1>1, TreeFunctionExists
<1>3. Joins(F)
  BY <1>2, BinOpFacts, IfFacts DEF Computed
<1>4. ASSUME NEW G, NEW f \in Tree
      PROVE  /\ f \in Atoms => On(f, G) = {f}
             /\ f \in BinOps(Tree) => On(f, G) = {f} \cup G[f.lhs] \cup G[f.rhs]
             /\ f \in Ifs(Tree) => On(f, G) = {f} \cup G[f.cond] \cup G[f.then] \cup G[f.else]
  <2>1. ASSUME f \in Atoms
        PROVE  On(f, G) = {f}
    BY <2>1, AtomFacts
  <2>2. ASSUME f \in BinOps(Tree)
        PROVE  On(f, G) = {f} \cup G[f.lhs] \cup G[f.rhs]
    BY <2>2, BinOpFacts
  <2>3. ASSUME f \in Ifs(Tree)
        PROVE  On(f, G) = {f} \cup G[f.cond] \cup G[f.then] \cup G[f.else]
    BY <2>3, IfFacts
  <2> QED
    BY <2>1, <2>2, <2>3
<1>5. F = [f \in Tree |-> On(f, F)]
  <2>1. \A f \in Tree : F[f] = On(f, F)
    <3> HIDE DEF On
    <3> QED
      BY <1>3, <1>4, TreeKinds
  <2> HIDE DEF On
  <2> QED
    BY <2>1
<1>6. Subformulas = [f \in Tree |-> On(f, Subformulas)]
  BY ONLY <1>5, Zenon DEF Subformulas
<1>7. Joins(Subformulas)
  <2>1. \A f \in Tree : Subformulas[f] = On(f, Subformulas)
    <3> HIDE DEF On
    <3> QED
      BY <1>6
  <2> HIDE DEF On
  <2> QED
    BY <1>4, <2>1
<1>8. \A f \in Tree : f \in Subformulas[f] /\ Subformulas[f] \subseteq Tree
  <2> DEFINE Good == {f \in Tree : f \in Subformulas[f] /\ Subformulas[f] \subseteq Tree}
  <2>1. \A f \in Tree \cap Atoms : f \in Good
    BY <1>7
  <2>2. \A f \in Tree \cap BinOps(Tree) : f.lhs \in Good /\ f.rhs \in Good => f \in Good
    BY <1>7
  <2>3. \A f \in Tree \cap Ifs(Tree) :
          f.cond \in Good /\ f.then \in Good /\ f.else \in Good => f \in Good
    BY <1>7
  <2> HIDE DEF Good
  <2>4. Tree \subseteq Good
    BY <2>1, <2>2, <2>3, TreeInduction
  <2> QED
    BY <2>4 DEF Good
<1> QED
  BY <1>7, <1>8

(* A tree has no more levels than formulas it is made of, so what is made of *)
(* few enough is a tree.                                                    *)
LEMMA NodesBoundLevels == \A f \in Tree : f \in Trees[Nodes[f]]
<1> DEFINE Good == {f \in Tree : f \in Trees[Nodes[f]]}
<1>1. ASSUME NEW f \in Tree \cap Atoms
      PROVE  f \in Trees[Nodes[f]]
  <2>1. Nodes[f] = 1 /\ Trees[0 + 1] = Atoms \cup BinOps(Trees[0]) \cup Ifs(Trees[0])
    BY NodesAre, TreesAre
  <2> QED
    BY <2>1
<1>2. ASSUME NEW f \in Tree \cap BinOps(Tree), f.lhs \in Good, f.rhs \in Good
      PROVE  f \in Trees[Nodes[f]]
  <2>1. PICK n \in Nat : n = Nodes[f.lhs] + Nodes[f.rhs] /\ Nodes[f] = n + 1
    BY NodesAre, BinOpFacts
  <2>2. Nodes[f.lhs] \in Nat /\ Nodes[f.rhs] \in Nat /\ Nodes[f.lhs] <= n /\ Nodes[f.rhs] <= n
    BY <2>1, NodesAre, BinOpFacts
  <2>3. f.lhs \in Trees[n] /\ f.rhs \in Trees[n]
    BY <1>2, <2>2, TreesGrow
  <2>4. f \in BinOps(Trees[n])
    BY <2>3 DEF BinOps
  <2> QED
    BY <2>1, <2>4, TreesAre
<1>3. ASSUME NEW f \in Tree \cap Ifs(Tree), f.cond \in Good, f.then \in Good, f.else \in Good
      PROVE  f \in Trees[Nodes[f]]
  <2>1. PICK n \in Nat : n = Nodes[f.cond] + Nodes[f.then] + Nodes[f.else] /\ Nodes[f] = n + 1
    BY NodesAre, IfFacts
  <2>2. /\ Nodes[f.cond] \in Nat /\ Nodes[f.then] \in Nat /\ Nodes[f.else] \in Nat
        /\ Nodes[f.cond] <= n /\ Nodes[f.then] <= n /\ Nodes[f.else] <= n
    BY <2>1, NodesAre, IfFacts
  <2>3. f.cond \in Trees[n] /\ f.then \in Trees[n] /\ f.else \in Trees[n]
    BY <1>3, <2>2, TreesGrow
  <2>4. f \in Ifs(Trees[n])
    BY <2>3 DEF Ifs
  <2> QED
    BY <2>1, <2>4, TreesAre
<1>4. Tree \subseteq Good
  <2>1. \A f \in Tree \cap Atoms : f \in Good
    BY <1>1
  <2>2. \A f \in Tree \cap BinOps(Tree) : f.lhs \in Good /\ f.rhs \in Good => f \in Good
    BY <1>2
  <2>3. \A f \in Tree \cap Ifs(Tree) :
          f.cond \in Good /\ f.then \in Good /\ f.else \in Good => f \in Good
    BY <1>3
  <2> HIDE DEF Good
  <2> QED
    BY <2>1, <2>2, <2>3, TreeInduction
<1> QED
  BY <1>4

(* What is made of few enough formulas is a tree: the levels suffice for it. *)
LEMMA SmallEnough ==
  /\ Atoms \subseteq Tree
  /\ \A f \in BinOps(Tree) : 1 + Nodes[f.lhs] + Nodes[f.rhs] <= MaxNodes => f \in Tree
  /\ \A f \in Ifs(Tree) :
       1 + Nodes[f.cond] + Nodes[f.then] + Nodes[f.else] <= MaxNodes => f \in Tree
<1>1. MaxNodes \in Nat \ {0}
  BY FormulaAssumption
<1>2. Atoms \subseteq Tree
  <2>1. Trees[0 + 1] = Atoms \cup BinOps(Trees[0]) \cup Ifs(Trees[0])
    BY TreesAre
  <2>2. Trees[1] \subseteq Tree
    BY <1>1, TreesGrow DEF Tree
  <2> QED
    BY <2>1, <2>2
<1>3. ASSUME NEW f \in BinOps(Tree), 1 + Nodes[f.lhs] + Nodes[f.rhs] <= MaxNodes
      PROVE  f \in Tree
  <2>1. f.lhs \in Tree /\ f.rhs \in Tree
    BY BinOpFacts
  <2>2. PICK n \in Nat : n = Nodes[f.lhs] + Nodes[f.rhs]
    BY <2>1, NodesAre
  <2>3. Nodes[f.lhs] \in Nat /\ Nodes[f.rhs] \in Nat /\ Nodes[f.lhs] <= n /\ Nodes[f.rhs] <= n
    BY <2>1, <2>2, NodesAre
  <2>4. f.lhs \in Trees[n] /\ f.rhs \in Trees[n]
    BY <2>1, <2>3, NodesBoundLevels, TreesGrow
  <2>5. f \in BinOps(Trees[n])
    BY <2>4 DEF BinOps
  <2>6. f \in Trees[n + 1]
    BY <2>5, TreesAre
  <2> QED
    BY <1>1, <1>3, <2>2, <2>3, <2>6, TreesGrow DEF Tree
<1>4. ASSUME NEW f \in Ifs(Tree),
             1 + Nodes[f.cond] + Nodes[f.then] + Nodes[f.else] <= MaxNodes
      PROVE  f \in Tree
  <2>1. f.cond \in Tree /\ f.then \in Tree /\ f.else \in Tree
    BY IfFacts
  <2>2. PICK n \in Nat : n = Nodes[f.cond] + Nodes[f.then] + Nodes[f.else]
    BY <2>1, NodesAre
  <2>3. /\ Nodes[f.cond] \in Nat /\ Nodes[f.then] \in Nat /\ Nodes[f.else] \in Nat
        /\ Nodes[f.cond] <= n /\ Nodes[f.then] <= n /\ Nodes[f.else] <= n
    BY <2>1, <2>2, NodesAre
  <2>4. f.cond \in Trees[n] /\ f.then \in Trees[n] /\ f.else \in Trees[n]
    BY <2>1, <2>3, NodesBoundLevels, TreesGrow
  <2>5. f \in Ifs(Trees[n])
    BY <2>4 DEF Ifs
  <2>6. f \in Trees[n + 1]
    BY <2>5, TreesAre
  <2> QED
    BY <1>1, <1>4, <2>2, <2>3, <2>6, TreesGrow DEF Tree
<1> QED
  BY <1>2, <1>3, <1>4

(***************************************************************************)
(* Operators.                                                              *)
(***************************************************************************)
(* Whatever is computed of ints is an int again.                             *)
LEMMA WrapIsInt == \A n \in Int : Wrap(n) \in Ints
<1> SUFFICES ASSUME NEW n \in Int PROVE Wrap(n) \in Ints
  OBVIOUS
<1>1. PICK h : h = Half
  OBVIOUS
<1>2. h \in Nat \ {0}
  BY <1>1, FormulaAssumption
<1>3. n + h \in Int /\ 2 * h \in Nat \ {0}
  BY <1>2
<1>4. \A i \in Int : \A m \in Nat \ {0} : i % m \in 0..(m - 1)
  OBVIOUS
<1>5. (n + h) % (2 * h) \in 0..(2 * h - 1)
  BY <1>3, <1>4
<1>6. ((n + h) % (2 * h)) - h \in -h .. h - 1
  BY <1>2, <1>5
<1> QED
  BY <1>1, <1>6 DEF Wrap, Ints

(* A quotient is an integer.                                                 *)
LEMMA QuotientIsInt ==
  ASSUME NEW a \in Int, NEW b \in Int, b # 0
  PROVE  Quotient(a, b) \in Int
<1>1. Abs(a) \in Nat /\ Abs(b) \in Nat \ {0}
  BY DEF Abs
<1>2. Abs(a) \div Abs(b) \in Int
  BY <1>1
<1> QED
  BY <1>2 DEF Quotient

(* An operator on numbers yields an int, the others yield 0 or 1.            *)
LEMMA ApplyIsInt ==
  ASSUME NEW a \in Int, NEW b \in Int
  PROVE  /\ \A k \in PLUS..DIV : Apply(k, a, b) \in Ints
         /\ \A k \in LT..OR : Apply(k, a, b) \in 0..1
<1> USE DEF PLUS, MIN, MUL, DIV, LT, GT, LEQ, GEQ, EQ, NEQ, AND, OR
<1>1. \A P : Truth(P) \in 0..1
  BY DEF Truth
<1>2. Wrap(a + b) \in Ints /\ Wrap(a - b) \in Ints /\ Wrap(a * b) \in Ints
  <2>1. a + b \in Int /\ a - b \in Int /\ a * b \in Int
    OBVIOUS
  <2> QED
    BY <2>1, WrapIsInt
<1>3. b # 0 => Wrap(Quotient(a, b)) \in Ints
  BY WrapIsInt, QuotientIsInt
<1>4. 0 \in Ints
  BY FormulaAssumption DEF Ints
<1>5. ASSUME NEW k \in 0..3
      PROVE  Apply(k, a, b) \in Ints
  <2>1. k = 0 \/ k = 1 \/ k = 2 \/ k = 3
    OBVIOUS
  <2>2. CASE k = 0
    BY <1>2, <2>2 DEF Apply
  <2>3. CASE k = 1
    BY <1>2, <2>3 DEF Apply
  <2>4. CASE k = 2
    BY <1>2, <2>4 DEF Apply
  <2>5. CASE k = 3
    BY <1>3, <1>4, <2>5 DEF Apply
  <2> QED
    BY <2>1, <2>2, <2>3, <2>4, <2>5
<1>6. ASSUME NEW k \in 4..11
      PROVE  Apply(k, a, b) \in 0..1
  <2>1. k \notin 0..3
    OBVIOUS
  <2>2. k = 4 \/ k = 5 \/ k = 6 \/ k = 7 \/ k = 8 \/ k = 9 \/ k = 10 \/ k = 11
    OBVIOUS
  <2>3. \E P : Apply(k, a, b) = Truth(P)
    <3>1. CASE k = 4
      BY <3>1 DEF Apply
    <3>2. CASE k = 5
      BY <3>2 DEF Apply
    <3>3. CASE k = 6
      BY <3>3 DEF Apply
    <3>4. CASE k = 7
      BY <3>4 DEF Apply
    <3>5. CASE k = 8
      BY <3>5 DEF Apply
    <3>6. CASE k = 9
      BY <3>6 DEF Apply
    <3>7. CASE k = 10
      BY <3>7 DEF Apply
    <3>8. CASE k = 11
      BY <3>8 DEF Apply
    <3> QED
      BY <2>2, <3>1, <3>2, <3>3, <3>4, <3>5, <3>6, <3>7, <3>8
  <2> QED
    BY <1>1, <2>3
<1> QED
  BY <1>5, <1>6

(* So does the operator a formula executes, also where it is not its own.    *)
LEMMA DoOperationIs ==
  ASSUME NEW S, NEW f \in BinOps(S), NEW a \in Int, NEW b \in Int
  PROVE  /\ f.kind = "arith-binop" => doOperation(f, a, b) \in Ints
         /\ f.kind = "bool-binop" => doOperation(f, a, b) \in 0..1
         /\ doOperation(f, a, b) \in Int
<1>1. 0 \in Ints /\ Ints \subseteq Int
  BY FormulaAssumption DEF Ints
<1>2. f.kind \in {"arith-binop", "bool-binop"} /\ f.optype \in {"Int", "Bool"}
  BY BinOpFacts DEF Types
<1>3. CASE f.kind = "arith-binop"
  <2>1. OperatorsOf(f.kind, f.optype) = PLUS..DIV
    BY <1>3 DEF OperatorsOf
  <2>2. doOperation(f, a, b) \in Ints
    BY <1>1, <1>3, <2>1, ApplyIsInt DEF doOperation
  <2> QED
    BY <1>1, <1>3, <2>2
<1>4. CASE f.kind = "bool-binop"
  <2>1. OperatorsOf(f.kind, f.optype) \subseteq LT..OR
    BY <1>2, <1>4 DEF OperatorsOf, LT, GT, LEQ, GEQ, EQ, NEQ, AND, OR
  <2>2. doOperation(f, a, b) \in 0..1
    BY <1>4, <2>1, ApplyIsInt DEF doOperation
  <2> QED
    BY <1>4, <2>2
<1> QED
  BY <1>2, <1>3, <1>4

(* What a tree evaluates to.                                                 *)
LEMMA SolveIs ==
  /\ \A f \in Tree : Solve[f] \in [FeatureSets -> Int]
  /\ \A f \in Tree \cap Atoms : \A set \in FeatureSets :
       Solve[f][set] = IF isLiteral(f) THEN f.value ELSE set[f.pair]
  /\ \A f \in Tree \cap BinOps(Tree) : \A set \in FeatureSets :
       Solve[f][set] = doOperation(f, Solve[f.lhs][set], Solve[f.rhs][set])
  /\ \A f \in Tree \cap Ifs(Tree) : \A set \in FeatureSets :
       Solve[f][set] = IF Solve[f.cond][set] = 1 THEN Solve[f.then][set] ELSE Solve[f.else][set]
<1> DEFINE V == [FeatureSets -> Int]
           Atom(f) == [set \in FeatureSets |-> IF isLiteral(f) THEN f.value ELSE set[f.pair]]
           Op(f, u, v) == [set \in FeatureSets |-> doOperation(f, u[set], v[set])]
           Choice(u, v, w) == [set \in FeatureSets |-> IF u[set] = 1 THEN v[set] ELSE w[set]]
           atom == [f \in Tree |-> Atom(f)]
           binop == [f \in Tree |-> [u \in V |-> [v \in V |-> Op(f, u, v)]]]
           branch == [f \in Tree |-> [u \in V |-> [v \in V |-> [w \in V |-> Choice(u, v, w)]]]]
           Value(f, F, set) ==
             CASE isLiteral(f)       -> f.value
               [] f.kind = "feature" -> set[f.pair]
               [] isBinOp(f)         -> doOperation(f, F[f.lhs][set], F[f.rhs][set])
               [] OTHER              -> IF F[f.cond][set] = 1 THEN F[f.then][set]
                                                              ELSE F[f.else][set]
           On(f, F) == [set \in FeatureSets |-> Value(f, F, set)]
           Solves(F) ==
             /\ \A f \in Tree \cap Atoms : F[f] = Atom(f)
             /\ \A f \in Tree \cap BinOps(Tree) : F[f] = Op(f, F[f.lhs], F[f.rhs])
             /\ \A f \in Tree \cap Ifs(Tree) : F[f] = Choice(F[f.cond], F[f.then], F[f.else])
<1>1. /\ \A f \in Tree \cap Atoms : Atom(f) \in V
      /\ \A f \in Tree \cap BinOps(Tree) : \A u, v \in V : Op(f, u, v) \in V
      /\ \A f \in Tree \cap Ifs(Tree) : \A u, v, w \in V : Choice(u, v, w) \in V
  <2>1. ASSUME NEW f \in Tree \cap Atoms
        PROVE  Atom(f) \in V
    <3>1. \A set \in FeatureSets : ~isLiteral(f) => set[f.pair] \in Int
      <4>1. ~isLiteral(f) => f.pair \in Features
        BY AtomFacts DEF isLiteral
      <4>2. \A set \in FeatureSets : \A p \in Features : set[p] \in Counts
        BY DEF FeatureSets
      <4>3. Counts \subseteq Int
        BY FormulaAssumption
      <4> QED
        BY ONLY <4>1, <4>2, <4>3
    <3>2. isLiteral(f) => f.value \in Int
      BY AtomFacts DEF isLiteral
    <3> QED
      BY <3>1, <3>2
  <2>2. ASSUME NEW f \in Tree \cap BinOps(Tree), NEW u \in V, NEW v \in V
        PROVE  Op(f, u, v) \in V
    <3>1. \A set \in FeatureSets : u[set] \in Int /\ v[set] \in Int
      OBVIOUS
    <3>2. \A set \in FeatureSets : doOperation(f, u[set], v[set]) \in Int
      BY <3>1, DoOperationIs
    <3> QED
      BY <3>2
  <2> QED
    BY <2>1, <2>2
<1>2. V # {}
  <2>1. [set \in FeatureSets |-> 0] \in V
    OBVIOUS
  <2> QED
    BY <2>1
<1> HIDE DEF V, Atom, Op, Choice
<1>3. OnTrees(V, atom, binop, branch)
  BY <1>1, <1>2 DEF OnTrees
<1>4. PICK F \in [Tree -> V] : Computed(F, atom, binop, branch)
  <2> HIDE DEF atom, binop, branch
  <2> QED
    BY <1>3, TreeFunctionExists
<1>5. Solves(F)
  BY <1>4, BinOpFacts, IfFacts DEF Computed
<1>6. ASSUME NEW G, NEW f \in Tree
      PROVE  /\ f \in Atoms => On(f, G) = Atom(f)
             /\ f \in BinOps(Tree) => On(f, G) = Op(f, G[f.lhs], G[f.rhs])
             /\ f \in Ifs(Tree) => On(f, G) = Choice(G[f.cond], G[f.then], G[f.else])
  <2>1. ASSUME f \in Atoms
        PROVE  On(f, G) = Atom(f)
    <3>1. /\ ~isBinOp(f)
          /\ \/ isLiteral(f) /\ f.kind # "feature"
             \/ ~isLiteral(f) /\ f.kind = "feature"
      BY <2>1, AtomFacts DEF isLiteral
    <3>2. ASSUME NEW set
          PROVE  Value(f, G, set) = IF isLiteral(f) THEN f.value ELSE set[f.pair]
      <4>1. CASE isLiteral(f) /\ f.kind # "feature"
        BY <3>1, <4>1
      <4>2. CASE ~isLiteral(f) /\ f.kind = "feature"
        BY <3>1, <4>2
      <4> QED
        BY <3>1, <4>1, <4>2
    <3> HIDE DEF Value
    <3> QED
      BY <3>2 DEF Atom
  <2>2. ASSUME f \in BinOps(Tree)
        PROVE  On(f, G) = Op(f, G[f.lhs], G[f.rhs])
    <3>1. ~isLiteral(f) /\ f.kind # "feature" /\ isBinOp(f)
      BY <2>2, BinOpFacts
    <3>2. \A set : Value(f, G, set) = doOperation(f, G[f.lhs][set], G[f.rhs][set])
      BY <3>1
    <3> HIDE DEF Value
    <3> QED
      BY <3>2 DEF Op
  <2>3. ASSUME f \in Ifs(Tree)
        PROVE  On(f, G) = Choice(G[f.cond], G[f.then], G[f.else])
    <3>1. ~isLiteral(f) /\ f.kind # "feature" /\ ~isBinOp(f) /\ f.kind = "if"
      BY <2>3, IfFacts
    <3>2. \A set : Value(f, G, set) =
                    IF G[f.cond][set] = 1 THEN G[f.then][set] ELSE G[f.else][set]
      BY <3>1
    <3> HIDE DEF Value
    <3> QED
      BY <3>2 DEF Choice
  <2> QED
    BY <2>1, <2>2, <2>3
<1>7. F = [f \in Tree |-> On(f, F)]
  <2>1. \A f \in Tree : F[f] = On(f, F)
    <3> HIDE DEF On
    <3> QED
      BY <1>5, <1>6, TreeKinds
  <2> HIDE DEF On
  <2> QED
    BY <2>1
<1>8. Solve = [f \in Tree |-> On(f, Solve)]
  BY ONLY <1>7, Zenon DEF Solve
<1>9. Solves(Solve)
  <2>1. \A f \in Tree : Solve[f] = On(f, Solve)
    <3> HIDE DEF On
    <3> QED
      BY <1>8
  <2> HIDE DEF On
  <2> QED
    BY <1>6, <2>1
<1>10. \A f \in Tree : Solve[f] \in V
  <2> DEFINE Good == {f \in Tree : Solve[f] \in V}
  <2>1. \A f \in Tree \cap Atoms : f \in Good
    BY <1>1, <1>9
  <2>2. \A f \in Tree \cap BinOps(Tree) : f.lhs \in Good /\ f.rhs \in Good => f \in Good
    BY <1>1, <1>9
  <2>3. \A f \in Tree \cap Ifs(Tree) :
          f.cond \in Good /\ f.then \in Good /\ f.else \in Good => f \in Good
    BY <1>1, <1>9
  <2> HIDE DEF Good
  <2>4. Tree \subseteq Good
    BY <2>1, <2>2, <2>3, TreeInduction
  <2> QED
    BY <2>4 DEF Good
<1>11. ASSUME NEW f \in Tree \cap Atoms, NEW set \in FeatureSets
       PROVE  Solve[f][set] = IF isLiteral(f) THEN f.value ELSE set[f.pair]
  <2>1. Solve[f] = Atom(f)
    BY <1>9
  <2> QED
    BY ONLY <2>1, set \in FeatureSets DEF Atom
<1>12. ASSUME NEW f \in Tree \cap BinOps(Tree), NEW set \in FeatureSets
       PROVE  Solve[f][set] = doOperation(f, Solve[f.lhs][set], Solve[f.rhs][set])
  <2>1. Solve[f] = Op(f, Solve[f.lhs], Solve[f.rhs])
    BY <1>9
  <2> QED
    BY ONLY <2>1, set \in FeatureSets DEF Op
<1>13. ASSUME NEW f \in Tree \cap Ifs(Tree), NEW set \in FeatureSets
       PROVE  Solve[f][set] = IF Solve[f.cond][set] = 1 THEN Solve[f.then][set]
                                                        ELSE Solve[f.else][set]
  <2>1. Solve[f] = Choice(Solve[f.cond], Solve[f.then], Solve[f.else])
    BY <1>9
  <2> QED
    BY ONLY <2>1, set \in FeatureSets DEF Choice
<1> QED
  BY <1>10, <1>11, <1>12, <1>13 DEF V

(***************************************************************************)
(* The knowledge base.                                                     *)
(***************************************************************************)
(* A formula with other operands.                                            *)
WithOperands(f, o, l, r) == [f EXCEPT !.op = o, !.lhs = l, !.rhs = r]
WithBranches(f, c, a, b) == [f EXCEPT !.cond = c, !.then = a, !.else = b]

(* A binary operation with other operands, and another operator, is one.     *)
LEMMA WithOperandsIs ==
  ASSUME NEW S, NEW T, NEW f, NEW o, NEW l, NEW r,
         f \in BinOps(S), o \in Int, l \in T, r \in T
  PROVE  /\ WithOperands(f, o, l, r) \in BinOps(T)
         /\ WithOperands(f, o, l, r).kind = f.kind
         /\ WithOperands(f, o, l, r).type = f.type
         /\ WithOperands(f, o, l, r).optype = f.optype
         /\ WithOperands(f, o, l, r).op = o
         /\ WithOperands(f, o, l, r).lhs = l
         /\ WithOperands(f, o, l, r).rhs = r
BY DEF BinOps, WithOperands

(* An if with other parts is one.                                            *)
LEMMA WithBranchesIs ==
  ASSUME NEW S, NEW T, NEW f, NEW c, NEW a, NEW b,
         f \in Ifs(S), c \in T, a \in T, b \in T
  PROVE  /\ WithBranches(f, c, a, b) \in Ifs(T)
         /\ WithBranches(f, c, a, b).type = f.type
         /\ WithBranches(f, c, a, b).cond = c
         /\ WithBranches(f, c, a, b).then = a
         /\ WithBranches(f, c, a, b).else = b
BY DEF Ifs, WithBranches

(* Binary operations that agree in all fields are the same.                  *)
LEMMA SameBinOp ==
  ASSUME NEW S, NEW f \in BinOps(S), NEW T, NEW g \in BinOps(T),
         f.kind = g.kind, f.type = g.type, f.optype = g.optype, f.op = g.op,
         f.lhs = g.lhs, f.rhs = g.rhs
  PROVE  f = g
BY DEF BinOps

(* So are ifs.                                                               *)
LEMMA SameIf ==
  ASSUME NEW S, NEW f \in Ifs(S), NEW T, NEW g \in Ifs(T),
         f.type = g.type, f.cond = g.cond, f.then = g.then, f.else = g.else
  PROVE  f = g
BY DEF Ifs

(* Trees whose operators are rewritten, throughout.                          *)
Rewritten(f, o, F) ==
  CASE isBinOp(f) -> WithOperands(f, o, F[f.lhs], F[f.rhs])
    [] f.kind = "if" -> WithBranches(f, F[f.cond], F[f.then], F[f.else])
    [] OTHER -> f

(* What becomes of each kind of tree.                                        *)
LEMMA RewrittenIs ==
  ASSUME NEW f \in Tree, NEW o, NEW F
  PROVE  /\ f \in Atoms => Rewritten(f, o, F) = f
         /\ f \in BinOps(Tree) => Rewritten(f, o, F) = WithOperands(f, o, F[f.lhs], F[f.rhs])
         /\ f \in Ifs(Tree) =>
              Rewritten(f, o, F) = WithBranches(f, F[f.cond], F[f.then], F[f.else])
<1>1. ASSUME f \in Atoms
      PROVE  Rewritten(f, o, F) = f
  BY <1>1, AtomFacts DEF Rewritten
<1>2. ASSUME f \in BinOps(Tree)
      PROVE  Rewritten(f, o, F) = WithOperands(f, o, F[f.lhs], F[f.rhs])
  BY <1>2, BinOpFacts DEF Rewritten
<1>3. ASSUME f \in Ifs(Tree)
      PROVE  Rewritten(f, o, F) = WithBranches(f, F[f.cond], F[f.then], F[f.else])
  BY <1>3, IfFacts DEF Rewritten
<1> QED
  BY <1>1, <1>2, <1>3

(* There is a function that rewrites a tree and all its parts.               *)
LEMMA RewritingExists ==
  ASSUME NEW op, \A f \in Tree \cap BinOps(Tree) : op[f] \in Int
  PROVE  \E F : F = [f \in Tree |-> Rewritten(f, op[f], F)]
<1> DEFINE V == AllTrees
           atom == [f \in Tree |-> f]
           binop == [f \in Tree |-> [u \in V |-> [v \in V |-> WithOperands(f, op[f], u, v)]]]
           branch == [f \in Tree |->
                        [u \in V |-> [v \in V |-> [w \in V |-> WithBranches(f, u, v, w)]]]]
<1>1. \A f \in Tree \cap Atoms : atom[f] \in V
  BY TreeIsTree
<1>2. ASSUME NEW f \in Tree \cap BinOps(Tree), NEW u \in V, NEW v \in V
      PROVE  WithOperands(f, op[f], u, v) \in V
  <2>1. WithOperands(f, op[f], u, v) \in BinOps(AllTrees)
    BY WithOperandsIs
  <2> QED
    BY <2>1, MadeOfTrees
<1>3. ASSUME NEW f \in Tree \cap Ifs(Tree), NEW u \in V, NEW v \in V, NEW w \in V
      PROVE  WithBranches(f, u, v, w) \in V
  <2>1. WithBranches(f, u, v, w) \in Ifs(AllTrees)
    BY WithBranchesIs
  <2> QED
    BY <2>1, MadeOfTrees
<1>4. V # {}
  <2>1. Lit("Int", 0) \in Atoms
    BY DEF Lit, Atoms, Types
  <2> QED
    BY <2>1, MadeOfTrees
<1> HIDE DEF V
<1>5. OnTrees(V, atom, binop, branch)
  BY <1>1, <1>2, <1>3, <1>4 DEF OnTrees
<1>6. PICK F \in [Tree -> V] : Computed(F, atom, binop, branch)
  <2> HIDE DEF atom, binop, branch
  <2> QED
    BY <1>5, TreeFunctionExists
<1>7. ASSUME NEW f \in Tree
      PROVE  F[f] = Rewritten(f, op[f], F)
  <2>1. CASE f \in Atoms
    BY <1>6, <2>1, RewrittenIs DEF Computed
  <2>2. CASE f \in BinOps(Tree)
    <3>1. F[f] = WithOperands(f, op[f], F[f.lhs], F[f.rhs])
      BY <1>6, <2>2, BinOpFacts DEF Computed
    <3> QED
      BY <2>2, <3>1, RewrittenIs
  <2>3. CASE f \in Ifs(Tree)
    <3>1. F[f] = WithBranches(f, F[f.cond], F[f.then], F[f.else])
      BY <1>6, <2>3, IfFacts DEF Computed
    <3> QED
      BY <2>3, <3>1, RewrittenIs
  <2> QED
    BY <2>1, <2>2, <2>3, TreeKinds
<1>8. F = [f \in Tree |-> Rewritten(f, op[f], F)]
  BY <1>6, <1>7
<1> QED
  BY <1>8

(* What is written, and what is read.                                        *)
LEMMA NodeIs == \A f \in Tree : Node[f] = Rewritten(f, getOperator(f), Node)
<1>1. PICK op : op = [f \in Tree |-> getOperator(f)]
  OBVIOUS
<1>2. \A f \in Tree \cap BinOps(Tree) : op[f] \in Int
  BY <1>1, BinOpFacts DEF getOperator, getMinOperator, PLUS, LT, EQ, Types
<1>3. PICK F : F = [f \in Tree |-> Rewritten(f, op[f], F)]
  BY <1>2, RewritingExists
<1>4. F = [f \in Tree |-> Rewritten(f, getOperator(f), F)]
  BY <1>1, <1>3
<1>5. Node = [f \in Tree |-> Rewritten(f, getOperator(f), Node)]
  BY ONLY <1>4, Zenon DEF Node, Rewritten, WithOperands, WithBranches
<1> QED
  BY <1>5

LEMMA ReadIs == \A n \in Tree : Read[n] = Rewritten(n, setOperator(n, n.op), Read)
<1>1. PICK op : op = [n \in Tree |-> setOperator(n, n.op)]
  OBVIOUS
<1>2. \A n \in Tree \cap BinOps(Tree) : op[n] \in Int
  BY <1>1, BinOpFacts DEF setOperator, getMinOperator, PLUS, LT, EQ, Types
<1>3. PICK F : F = [n \in Tree |-> Rewritten(n, op[n], F)]
  BY <1>2, RewritingExists
<1>4. F = [n \in Tree |-> Rewritten(n, setOperator(n, n.op), F)]
  BY <1>1, <1>3
<1>5. Read = [n \in Tree |-> Rewritten(n, setOperator(n, n.op), Read)]
  BY ONLY <1>4, Zenon DEF Read, Rewritten, WithOperands, WithBranches
<1> QED
  BY <1>5

(* What was written is read back.                                           *)
LEMMA ReadsWhatWasWritten ==
  ASSUME NEW f \in Tree, Nodes[f] <= MaxNodes
  PROVE  /\ Node[f] \in Tree
         /\ Read[Node[f]] = f
<1> DEFINE Good == {t \in Tree : Nodes[t] <= MaxNodes =>
                                   /\ Node[t] \in Tree
                                   /\ Nodes[Node[t]] = Nodes[t]
                                   /\ Read[Node[t]] = t}
<1>0. MaxNodes \in Nat
  BY FormulaAssumption
<1>1. ASSUME NEW t \in Tree \cap Atoms
      PROVE  t \in Good
  <2>1. Node[t] = t /\ Read[t] = t
    BY NodeIs, ReadIs, RewrittenIs
  <2> QED
    BY <2>1
<1>2. ASSUME NEW t \in Tree \cap BinOps(Tree), t.lhs \in Good, t.rhs \in Good,
             Nodes[t] <= MaxNodes
      PROVE  t \in Good
  <2>1. /\ t.lhs \in Tree /\ t.rhs \in Tree /\ t.op \in Int
        /\ Nodes[t] = 1 + Nodes[t.lhs] + Nodes[t.rhs]
        /\ Nodes[t.lhs] \in Nat /\ Nodes[t.rhs] \in Nat
    BY BinOpFacts, NodesAre
  <2>2. Nodes[t.lhs] <= MaxNodes /\ Nodes[t.rhs] <= MaxNodes
    BY <1>0, <1>2, <2>1
  <2>3. PICK l \in Tree, r \in Tree :
          /\ l = Node[t.lhs] /\ Nodes[l] = Nodes[t.lhs] /\ Read[l] = t.lhs
          /\ r = Node[t.rhs] /\ Nodes[r] = Nodes[t.rhs] /\ Read[r] = t.rhs
    BY <1>2, <2>2
  <2>4. PICK k \in Int : k = getMinOperator(t.kind, t.optype)
    BY BinOpFacts DEF getMinOperator, PLUS, LT, EQ, Types
  <2>5. PICK n : n = Node[t]
    OBVIOUS
  <2>6. n = Rewritten(t, t.op + k, Node)
    BY <2>4, <2>5, NodeIs DEF getOperator
  <2>7. /\ n \in BinOps(Tree)
        /\ n.kind = t.kind /\ n.type = t.type /\ n.optype = t.optype
        /\ n.op = t.op + k /\ n.lhs = l /\ n.rhs = r
    <3>1. n = WithOperands(t, t.op + k, l, r)
      BY <2>3, <2>6, RewrittenIs
    <3>2. t.op + k \in Int
      BY <2>1, <2>4
    <3> QED
      BY <3>1, <3>2, WithOperandsIs
  <2>8. 1 + Nodes[n.lhs] + Nodes[n.rhs] <= MaxNodes
    BY <1>2, <2>1, <2>3, <2>7
  <2>9. n \in Tree
    BY <2>7, <2>8, SmallEnough
  <2>10. Nodes[n] = Nodes[t]
    BY <2>1, <2>3, <2>7, <2>9, NodesAre
  <2>11. Read[n] = Rewritten(n, t.op, Read)
    <3>1. setOperator(n, n.op) = t.op
      BY <2>1, <2>4, <2>7 DEF setOperator
    <3> QED
      BY <2>9, <3>1, ReadIs
  <2>12. Read[n] = t
    <3>1. PICK m : m = Read[n]
      OBVIOUS
    <3>2. /\ m \in BinOps(Tree)
          /\ m.kind = n.kind /\ m.type = n.type /\ m.optype = n.optype
          /\ m.op = t.op /\ m.lhs = t.lhs /\ m.rhs = t.rhs
      <4>1. m = WithOperands(n, t.op, t.lhs, t.rhs)
        BY <2>3, <2>7, <2>9, <2>11, <3>1, RewrittenIs
      <4>2. PICK o \in Int, u \in Tree, v \in Tree : o = t.op /\ u = t.lhs /\ v = t.rhs
        BY <2>1
      <4>3. n \in BinOps(Tree) /\ m = WithOperands(n, o, u, v)
        BY <2>7, <4>1, <4>2
      <4>4. /\ m \in BinOps(Tree)
            /\ m.kind = n.kind /\ m.type = n.type /\ m.optype = n.optype
            /\ m.op = o /\ m.lhs = u /\ m.rhs = v
        BY <4>3, WithOperandsIs
      <4> QED
        BY <4>2, <4>4
    <3>3. m = t
      BY <2>7, <3>2, SameBinOp
    <3> QED
      BY <3>1, <3>3
  <2> QED
    BY <2>5, <2>9, <2>10, <2>12
<1>3. ASSUME NEW t \in Tree \cap Ifs(Tree), t.cond \in Good, t.then \in Good, t.else \in Good,
             Nodes[t] <= MaxNodes
      PROVE  t \in Good
  <2>1. /\ t.cond \in Tree /\ t.then \in Tree /\ t.else \in Tree
        /\ Nodes[t] = 1 + Nodes[t.cond] + Nodes[t.then] + Nodes[t.else]
        /\ Nodes[t.cond] \in Nat /\ Nodes[t.then] \in Nat /\ Nodes[t.else] \in Nat
    BY IfFacts, NodesAre
  <2>2. Nodes[t.cond] <= MaxNodes /\ Nodes[t.then] <= MaxNodes /\ Nodes[t.else] <= MaxNodes
    BY <1>0, <1>3, <2>1
  <2>3. PICK c \in Tree, a \in Tree, b \in Tree :
          /\ c = Node[t.cond] /\ Nodes[c] = Nodes[t.cond] /\ Read[c] = t.cond
          /\ a = Node[t.then] /\ Nodes[a] = Nodes[t.then] /\ Read[a] = t.then
          /\ b = Node[t.else] /\ Nodes[b] = Nodes[t.else] /\ Read[b] = t.else
    BY <1>3, <2>2
  <2>4. PICK n : n = Node[t]
    OBVIOUS
  <2>5. n = Rewritten(t, getOperator(t), Node)
    BY <2>4, NodeIs
  <2>6. /\ n \in Ifs(Tree)
        /\ n.type = t.type /\ n.cond = c /\ n.then = a /\ n.else = b
    <3>1. n = WithBranches(t, c, a, b)
      BY <2>3, <2>5, RewrittenIs
    <3>2. t \in Ifs(Tree) /\ c \in Tree /\ a \in Tree /\ b \in Tree
      OBVIOUS
    <3> QED
      BY ONLY <3>1, <3>2, WithBranchesIs
  <2>7. 1 + Nodes[n.cond] + Nodes[n.then] + Nodes[n.else] <= MaxNodes
    BY <1>3, <2>1, <2>3, <2>6
  <2>8. n \in Tree
    BY <2>6, <2>7, SmallEnough
  <2>9. Nodes[n] = Nodes[t]
    BY <2>1, <2>3, <2>6, <2>8, NodesAre
  <2>10. Read[n] = Rewritten(n, setOperator(n, n.op), Read)
    BY <2>8, ReadIs
  <2>11. Read[n] = t
    <3>1. PICK m : m = Read[n]
      OBVIOUS
    <3>2. /\ m \in Ifs(Tree)
          /\ m.type = n.type /\ m.cond = t.cond /\ m.then = t.then /\ m.else = t.else
      <4>1. m = WithBranches(n, t.cond, t.then, t.else)
        BY <2>3, <2>6, <2>8, <2>10, <3>1, RewrittenIs
      <4>2. n \in Ifs(Tree) /\ t.cond \in Tree /\ t.then \in Tree /\ t.else \in Tree
        BY <2>1, <2>6
      <4> QED
        BY ONLY <4>1, <4>2, WithBranchesIs
    <3>3. m = t
      BY <2>6, <3>2, SameIf
    <3> QED
      BY <3>1, <3>3
  <2> QED
    BY <2>4, <2>8, <2>9, <2>11
<1>4. Tree \subseteq Good
  <2>1. \A t \in Tree \cap Atoms : t \in Good
    BY <1>1
  <2>2. \A t \in Tree \cap BinOps(Tree) : t.lhs \in Good /\ t.rhs \in Good => t \in Good
    BY <1>2
  <2>3. \A t \in Tree \cap Ifs(Tree) :
          t.cond \in Good /\ t.then \in Good /\ t.else \in Good => t \in Good
    BY <1>3
  <2> HIDE DEF Good
  <2> QED
    BY <2>1, <2>2, <2>3, TreeInduction
<1> QED
  BY <1>4

(***************************************************************************)
(* Simplification.                                                         *)
(***************************************************************************)
LEMMA LiteralIs ==
  ASSUME NEW t \in Types, NEW v \in Int
  PROVE  /\ Lit(t, v) \in Atoms
         /\ isLiteral(Lit(t, v)) /\ Lit(t, v).kind = "literal"
         /\ Lit(t, v).type = t /\ Lit(t, v).value = v
BY DEF Lit, Atoms, isLiteral

(* A literal is one of the trees that are not made of others.                *)
LEMMA LiteralsAreAtoms ==
  ASSUME NEW f \in AllTrees, isLiteral(f)
  PROVE  f \in Atoms /\ f.type \in Types /\ f.value \in Int /\ f = Lit(f.type, f.value)
<1>1. PICK n \in Nat : f \in Trees[n]
  BY DEF AllTrees
<1>2. f \in Atoms
  BY <1>1, TreeAtLevel, BinOpFacts, IfFacts
<1>3. f \in [kind : {"literal"}, type : Types, value : Int]
  <2>1. f.kind # "feature"
    BY DEF isLiteral
  <2> QED
    BY <1>2, <2>1 DEF Atoms
<1>4. f.type \in Types /\ f.value \in Int
  BY <1>3
<1>5. f = Lit(f.type, f.value)
  BY <1>3 DEF Lit
<1> QED
  BY <1>2, <1>4, <1>5

(* What may be divided by instead.                                           *)
LEMMA DivisorsAre ==
  ASSUME NEW S, NEW f \in BinOps(S)
  PROVE  /\ checkZeroDivision(f) = {WithOperands(f, f.op, f.lhs, d) : d \in Divisors(f)}
         /\ \A d \in Divisors(f) :
              \/ d = f.rhs
              \/ /\ f.kind = "arith-binop" /\ getOperator(f) = DIV
                 /\ isLiteral(f.rhs) /\ f.rhs.value = 0
                 /\ \E v \in 1..MaxLiteral : d = Lit("Int", v)
         /\ f.kind = "arith-binop" /\ getOperator(f) = DIV =>
              Lit("Int", 0) \notin Divisors(f)
<1>1. \A d : [f EXCEPT !.rhs = d] = WithOperands(f, f.op, f.lhs, d)
  BY DEF BinOps, WithOperands
<1>2. checkZeroDivision(f) = {WithOperands(f, f.op, f.lhs, d) : d \in Divisors(f)}
  BY <1>1 DEF checkZeroDivision
<1>3. MaxLiteral \in Nat
  BY FormulaAssumption
<1>4. \A v \in 1..MaxLiteral : Lit("Int", v) # Lit("Int", 0)
  BY <1>3, LiteralIs DEF Types
<1>5. Lit("Int", 0).value = 0 /\ isLiteral(Lit("Int", 0))
  BY LiteralIs DEF Types
<1>6. f.kind = "arith-binop" /\ getOperator(f) = DIV => Lit("Int", 0) \notin Divisors(f)
  <2>1. ASSUME f.kind = "arith-binop", getOperator(f) = DIV
        PROVE  Lit("Int", 0) \notin Divisors(f)
    <3>1. CASE isLiteral(f.rhs) /\ f.rhs.value = 0
      <4>1. Divisors(f) = {Lit("Int", v) : v \in 1..MaxLiteral}
        BY <2>1, <3>1 DEF Divisors
      <4> QED
        BY <1>4, <4>1
    <3>2. CASE ~(isLiteral(f.rhs) /\ f.rhs.value = 0)
      <4>1. Divisors(f) = {f.rhs}
        BY <3>2 DEF Divisors
      <4> QED
        BY <1>5, <3>2, <4>1
    <3> QED
      BY <3>1, <3>2
  <2> QED
    BY <2>1
<1>7. \A d \in Divisors(f) :
        \/ d = f.rhs
        \/ /\ f.kind = "arith-binop" /\ getOperator(f) = DIV
           /\ isLiteral(f.rhs) /\ f.rhs.value = 0
           /\ \E v \in 1..MaxLiteral : d = Lit("Int", v)
  BY DEF Divisors
<1> QED
  BY <1>2, <1>6, <1>7

(* What the operands of an operation, or of an if, simplify to.              *)
Outcome(g, f, U, W) ==
  \E l \in U, r \in W : \E d \in Divisors(WithOperands(f, f.op, l, r)) :
    g = Folded(WithOperands(f, f.op, l, d))

(* What simplification makes of a binary operation, and that it is a tree.   *)
LEMMA OutcomesAre ==
  ASSUME NEW S, NEW f \in BinOps(S), NEW U, NEW W,
         U \subseteq AllTrees, W \subseteq AllTrees, NEW g
  PROVE  /\ g \in SimplifiedOp(f, U, W) <=> Outcome(g, f, U, W)
         /\ Outcome(g, f, U, W) => g \in AllTrees
<1> DEFINE With(l, r) == WithOperands(f, f.op, l, r)
<1>1. \A l, r : [f EXCEPT !.lhs = l, !.rhs = r] = With(l, r)
  BY DEF BinOps, WithOperands
<1>2. f.op \in Int
  BY BinOpFacts
<1>3. \A l, r \in AllTrees :
        /\ With(l, r) \in BinOps(AllTrees)
        /\ With(l, r).lhs = l /\ With(l, r).rhs = r /\ With(l, r).op = f.op
        /\ With(l, r).type = f.type
  BY <1>2, WithOperandsIs
<1>4. \A l, r \in AllTrees : \A d : WithOperands(With(l, r), f.op, l, d) = With(l, d)
  BY DEF BinOps, WithOperands
<1>5. \A l, r \in AllTrees :
        checkZeroDivision(With(l, r)) = {With(l, d) : d \in Divisors(With(l, r))}
  <2>1. ASSUME NEW l \in AllTrees, NEW r \in AllTrees
        PROVE  checkZeroDivision(With(l, r)) = {With(l, d) : d \in Divisors(With(l, r))}
    <3>1. checkZeroDivision(With(l, r)) =
            {WithOperands(With(l, r), f.op, l, d) : d \in Divisors(With(l, r))}
      <4>1. PICK w \in BinOps(AllTrees) : w = With(l, r) /\ w.op = f.op /\ w.lhs = l
        BY <1>3
      <4>2. checkZeroDivision(w) = {WithOperands(w, w.op, w.lhs, d) : d \in Divisors(w)}
        BY DivisorsAre
      <4> QED
        BY <4>1, <4>2
    <3> QED
      BY <1>4, <3>1
  <2> QED
    BY <2>1
<1>6. g \in SimplifiedOp(f, U, W)
        <=> \E l \in U, r \in W : \E h \in checkZeroDivision(With(l, r)) : g = Folded(h)
  <2> DEFINE Checked(l, r) == checkZeroDivision([f EXCEPT !.lhs = l, !.rhs = r])
             T == {Checked(l, r) : l \in U, r \in W}
  <2>1. \A l, r : Checked(l, r) = checkZeroDivision(With(l, r))
    BY <1>1
  <2> HIDE DEF Checked, With
  <2>2. \A t : t \in T <=> \E l \in U, r \in W : t = Checked(l, r)
    OBVIOUS
  <2> HIDE DEF T
  <2>3. \A h : h \in UNION T <=> \E l \in U, r \in W : h \in checkZeroDivision(With(l, r))
    BY <2>1, <2>2
  <2>4. g \in {Folded(h) : h \in UNION T} <=> \E h \in UNION T : g = Folded(h)
    OBVIOUS
  <2>5. (\E h \in UNION T : g = Folded(h))
          <=> \E l \in U, r \in W : \E h \in checkZeroDivision(With(l, r)) : g = Folded(h)
    BY <2>3
  <2>6. g \in {Folded(h) : h \in UNION T}
          <=> \E l \in U, r \in W : \E h \in checkZeroDivision(With(l, r)) : g = Folded(h)
    BY ONLY <2>4, <2>5
  <2>7. SimplifiedOp(f, U, W) = {Folded(h) : h \in UNION T}
    BY DEF SimplifiedOp, T, Checked
  <2> QED
    BY ONLY <2>6, <2>7
<1>7. ASSUME Outcome(g, f, U, W)
      PROVE  g \in AllTrees
  <2>1. PICK l \in U, r \in W : \E d \in Divisors(With(l, r)) : g = Folded(With(l, d))
    BY <1>7 DEF Outcome
  <2>2. PICK d \in Divisors(With(l, r)) : g = Folded(With(l, d))
    BY <2>1
  <2>3. l \in AllTrees /\ r \in AllTrees
    OBVIOUS
  <2>4. d \in AllTrees
    <3>1. PICK w \in BinOps(AllTrees) : w = With(l, r) /\ w.rhs = r
      BY <1>3, <2>3
    <3>2. \A v \in 1..MaxLiteral : Lit("Int", v) \in AllTrees
      BY LiteralIs, MadeOfTrees, FormulaAssumption DEF Types
    <3>3. d = r \/ \E v \in 1..MaxLiteral : d = Lit("Int", v)
      BY <3>1, DivisorsAre
    <3> QED
      BY <2>3, <3>2, <3>3
  <2>5. PICK h \in BinOps(AllTrees) :
          h = With(l, d) /\ h.lhs = l /\ h.rhs = d /\ h.type = f.type
    BY <1>3, <2>3, <2>4
  <2>6. g = Folded(h)
    BY <2>2, <2>5
  <2>7. CASE isLiteral(h.lhs) /\ isLiteral(h.rhs)
    <3>1. g = Lit(h.type, doOperation(h, h.lhs.value, h.rhs.value))
      BY <2>6, <2>7 DEF Folded
    <3>2. h.lhs.value \in Int /\ h.rhs.value \in Int /\ h.type \in Types
      BY <2>3, <2>4, <2>5, <2>7, LiteralsAreAtoms, BinOpFacts
    <3>3. doOperation(h, h.lhs.value, h.rhs.value) \in Int
      BY <3>2, DoOperationIs
    <3> QED
      BY <3>1, <3>2, <3>3, LiteralIs, MadeOfTrees
  <2>8. CASE ~(isLiteral(h.lhs) /\ isLiteral(h.rhs))
    <3>1. g = h
      BY <2>6, <2>8 DEF Folded
    <3> QED
      BY <3>1, MadeOfTrees
  <2> QED
    BY <2>7, <2>8
<1>8. (\E l \in U, r \in W : \E h \in checkZeroDivision(With(l, r)) : g = Folded(h))
        <=> Outcome(g, f, U, W)
  <2>1. \A l \in U, r \in W :
          (\E h \in checkZeroDivision(With(l, r)) : g = Folded(h))
            <=> \E d \in Divisors(With(l, r)) : g = Folded(With(l, d))
    BY <1>5
  <2> HIDE DEF With
  <2> QED
    BY <2>1 DEF Outcome, With
<1> QED
  BY <1>6, <1>7, <1>8

(* What simplification makes of an if.                                       *)
LEMMA ChoicesAre ==
  ASSUME NEW S, NEW f \in Ifs(S), NEW U, NEW W, NEW X, NEW g
  PROVE  g \in SimplifiedIf(f, U, W, X)
           <=> \E c \in U, a \in W, b \in X : g = Chosen(WithBranches(f, c, a, b))
<1> DEFINE One(c, a, b) == Chosen([f EXCEPT !.cond = c, !.then = a, !.else = b])
<1>1. SimplifiedIf(f, U, W, X) = {One(c, a, b) : c \in U, a \in W, b \in X}
  BY DEF SimplifiedIf
<1>2. \A c, a, b : One(c, a, b) = Chosen(WithBranches(f, c, a, b))
  BY DEF WithBranches
<1> HIDE DEF One
<1> QED
  BY <1>1, <1>2

(* An if is one of its branches if its condition is a literal, or itself.    *)
LEMMA ChosenIsTree ==
  ASSUME NEW S, NEW f \in Ifs(S), NEW c \in AllTrees, NEW a \in AllTrees, NEW b \in AllTrees
  PROVE  /\ Chosen(WithBranches(f, c, a, b)) \in AllTrees
         /\ Chosen(WithBranches(f, c, a, b)) =
              IF isLiteral(c) THEN IF c.value = 1 THEN a ELSE b ELSE WithBranches(f, c, a, b)
<1>1. PICK h : h = WithBranches(f, c, a, b)
  OBVIOUS
<1>2. h \in Ifs(AllTrees) /\ h.cond = c /\ h.then = a /\ h.else = b
  BY <1>1, WithBranchesIs
<1>3. Chosen(h) = IF isLiteral(c) THEN IF c.value = 1 THEN a ELSE b ELSE h
  BY <1>2 DEF Chosen
<1>4. h \in AllTrees
  BY <1>2, MadeOfTrees
<1> QED
  BY <1>1, <1>3, <1>4

(* What trees simplify to.                                                   *)
LEMMA SimplifiedIs ==
  /\ \A f \in Tree : Simplified[f] \subseteq AllTrees
  /\ \A f \in Tree \cap Atoms : Simplified[f] = {f}
  /\ \A f \in Tree \cap BinOps(Tree) : \A g :
       g \in Simplified[f] <=> Outcome(g, f, Simplified[f.lhs], Simplified[f.rhs])
  /\ \A f \in Tree \cap Ifs(Tree) : \A g :
       g \in Simplified[f] <=>
         \E c \in Simplified[f.cond], a \in Simplified[f.then], b \in Simplified[f.else] :
           g = Chosen(WithBranches(f, c, a, b))
<1> DEFINE V == SUBSET AllTrees
           atom == [f \in Tree |-> {f}]
           binop == [f \in Tree |-> [u \in V |-> [v \in V |-> SimplifiedOp(f, u, v)]]]
           branch == [f \in Tree |->
                        [u \in V |-> [v \in V |-> [w \in V |-> SimplifiedIf(f, u, v, w)]]]]
           On(f, F) ==
             CASE isBinOp(f) -> SimplifiedOp(f, F[f.lhs], F[f.rhs])
               [] f.kind = "if" -> SimplifiedIf(f, F[f.cond], F[f.then], F[f.else])
               [] OTHER -> {f}
           Goes(F) ==
             /\ \A f \in Tree \cap Atoms : F[f] = {f}
             /\ \A f \in Tree \cap BinOps(Tree) : F[f] = SimplifiedOp(f, F[f.lhs], F[f.rhs])
             /\ \A f \in Tree \cap Ifs(Tree) :
                  F[f] = SimplifiedIf(f, F[f.cond], F[f.then], F[f.else])
<1>1. ASSUME NEW f \in Tree \cap BinOps(Tree), NEW u \in V, NEW v \in V
      PROVE  SimplifiedOp(f, u, v) \in V
  <2>1. f \in BinOps(Tree) /\ u \subseteq AllTrees /\ v \subseteq AllTrees
    OBVIOUS
  <2>2. \A g : g \in SimplifiedOp(f, u, v) => g \in AllTrees
    BY ONLY <2>1, OutcomesAre
  <2> QED
    BY <2>2
<1>2. ASSUME NEW f \in Tree \cap Ifs(Tree), NEW u \in V, NEW v \in V, NEW w \in V
      PROVE  SimplifiedIf(f, u, v, w) \in V
  <2>1. ASSUME NEW g \in SimplifiedIf(f, u, v, w)
        PROVE  g \in AllTrees
    <3>1. PICK c \in u, a \in v, b \in w : g = Chosen(WithBranches(f, c, a, b))
      BY ChoicesAre
    <3> QED
      BY <3>1, ChosenIsTree
  <2> QED
    BY <2>1
<1>3. \A f \in Tree : {f} \in V
  BY TreeIsTree
<1>4. OnTrees(V, atom, binop, branch)
  <2>1. V # {}
    OBVIOUS
  <2> HIDE DEF V
  <2> QED
    BY <1>1, <1>2, <1>3, <2>1 DEF OnTrees
<1>5. PICK F \in [Tree -> V] : Computed(F, atom, binop, branch)
  <2> HIDE DEF V, atom, binop, branch
  <2> QED
    BY <1>4, TreeFunctionExists
<1>6. Goes(F)
  <2> HIDE DEF V
  <2> QED
    BY <1>5, BinOpFacts, IfFacts DEF Computed
<1>7. ASSUME NEW G, NEW f \in Tree
      PROVE  /\ f \in Atoms => On(f, G) = {f}
             /\ f \in BinOps(Tree) => On(f, G) = SimplifiedOp(f, G[f.lhs], G[f.rhs])
             /\ f \in Ifs(Tree) =>
                  On(f, G) = SimplifiedIf(f, G[f.cond], G[f.then], G[f.else])
  <2>1. ASSUME f \in Atoms
        PROVE  On(f, G) = {f}
    BY <2>1, AtomFacts
  <2>2. ASSUME f \in BinOps(Tree)
        PROVE  On(f, G) = SimplifiedOp(f, G[f.lhs], G[f.rhs])
    BY <2>2, BinOpFacts
  <2>3. ASSUME f \in Ifs(Tree)
        PROVE  On(f, G) = SimplifiedIf(f, G[f.cond], G[f.then], G[f.else])
    BY <2>3, IfFacts
  <2> QED
    BY <2>1, <2>2, <2>3
<1>8. F = [f \in Tree |-> On(f, F)]
  <2>1. \A f \in Tree : F[f] = On(f, F)
    <3> HIDE DEF On
    <3>1. ASSUME NEW f \in Tree
          PROVE  F[f] = On(f, F)
      <4>1. CASE f \in Atoms
        BY <1>6, <1>7, <4>1
      <4>2. CASE f \in BinOps(Tree)
        BY <1>6, <1>7, <4>2
      <4>3. CASE f \in Ifs(Tree)
        BY <1>6, <1>7, <4>3
      <4> QED
        BY <4>1, <4>2, <4>3, TreeKinds
    <3> QED
      BY <3>1
  <2> HIDE DEF On
  <2> QED
    BY <2>1
<1>9. Simplified = [f \in Tree |-> On(f, Simplified)]
  BY ONLY <1>8, Zenon DEF Simplified
<1>10. Goes(Simplified)
  <2>1. \A f \in Tree : Simplified[f] = On(f, Simplified)
    <3> HIDE DEF On
    <3> QED
      BY <1>9
  <2> HIDE DEF On
  <2> QED
    BY <1>7, <2>1
<1>11. \A f \in Tree : Simplified[f] \in V
  <2> DEFINE Good == {f \in Tree : Simplified[f] \in V}
  <2> HIDE DEF V
  <2>1. \A f \in Tree \cap Atoms : f \in Good
    BY <1>3, <1>10
  <2>2. \A f \in Tree \cap BinOps(Tree) : f.lhs \in Good /\ f.rhs \in Good => f \in Good
    BY <1>1, <1>10
  <2>3. \A f \in Tree \cap Ifs(Tree) :
          f.cond \in Good /\ f.then \in Good /\ f.else \in Good => f \in Good
    BY <1>2, <1>10
  <2> HIDE DEF Good
  <2>4. Tree \subseteq Good
    BY <2>1, <2>2, <2>3, TreeInduction
  <2> QED
    BY <2>4 DEF Good
<1>12. ASSUME NEW f \in Tree \cap BinOps(Tree), NEW g
       PROVE  g \in Simplified[f] <=> Outcome(g, f, Simplified[f.lhs], Simplified[f.rhs])
  <2>1. PICK u, v : u = Simplified[f.lhs] /\ v = Simplified[f.rhs]
    OBVIOUS
  <2>2. f \in BinOps(Tree) /\ u \subseteq AllTrees /\ v \subseteq AllTrees
    BY <1>11, <2>1, BinOpFacts
  <2>3. g \in SimplifiedOp(f, u, v) <=> Outcome(g, f, u, v)
    BY ONLY <2>2, OutcomesAre
  <2> QED
    BY <1>10, <2>1, <2>3
<1>13. ASSUME NEW f \in Tree \cap Ifs(Tree), NEW g
       PROVE  g \in Simplified[f] <=>
                \E c \in Simplified[f.cond], a \in Simplified[f.then], b \in Simplified[f.else] :
                  g = Chosen(WithBranches(f, c, a, b))
  <2>1. Simplified[f] =
          SimplifiedIf(f, Simplified[f.cond], Simplified[f.then], Simplified[f.else])
    BY <1>10
  <2> QED
    BY <2>1, ChoicesAre
<1> QED
  BY <1>10, <1>11, <1>12, <1>13

(* The trees whose types fit throughout, and those with nothing left to      *)
(* compute, of no more formulas than the bound.                             *)
TypedTrees ==
  {f \in Tree : Nodes[f] <= MaxNodes /\ \A g \in Subformulas[f] : WellTyped(g)}
SimpleTrees == {f \in TypedTrees : \A g \in Subformulas[f] : Simple(g)}

(* The types that fit, for each kind of tree.                                *)
LEMMA WellTypedIs ==
  /\ \A f \in Atoms :
       WellTyped(f) <=> (isLiteral(f) => f.value \in IF f.type = "Bool" THEN 0..1 ELSE Ints)
  /\ \A S : \A f \in BinOps(S) :
       WellTyped(f) <=> /\ f.type = IF f.kind = "arith-binop" THEN "Int" ELSE "Bool"
                        /\ f.kind = "arith-binop" => f.optype = "Int"
                        /\ getOperator(f) \in OperatorsOf(f.kind, f.optype)
                        /\ f.lhs.type = f.optype
                        /\ f.rhs.type = f.optype
  /\ \A S : \A f \in Ifs(S) :
       WellTyped(f) <=> /\ f.cond.type = "Bool"
                        /\ f.then.type = f.type
                        /\ f.else.type = f.type
<1>1. ASSUME NEW f \in Atoms
      PROVE  WellTyped(f) <=> (isLiteral(f) => f.value \in IF f.type = "Bool" THEN 0..1 ELSE Ints)
  <2>1. CASE isLiteral(f)
    BY <2>1 DEF WellTyped, isLiteral, isBinOp
  <2>2. CASE ~isLiteral(f)
    <3>1. f.kind = "feature" /\ f.type = "Int" /\ f.pair \in Features
      BY <2>2, AtomFacts DEF isLiteral
    <3> QED
      BY <2>2, <3>1 DEF WellTyped, isLiteral, isBinOp
  <2> QED
    BY <2>1, <2>2
<1>2. ASSUME NEW S, NEW f \in BinOps(S)
      PROVE  WellTyped(f) <=> /\ f.type = IF f.kind = "arith-binop" THEN "Int" ELSE "Bool"
                              /\ f.kind = "arith-binop" => f.optype = "Int"
                              /\ getOperator(f) \in OperatorsOf(f.kind, f.optype)
                              /\ f.lhs.type = f.optype
                              /\ f.rhs.type = f.optype
  BY BinOpFacts DEF WellTyped
<1>3. ASSUME NEW S, NEW f \in Ifs(S)
      PROVE  WellTyped(f) <=> /\ f.cond.type = "Bool"
                              /\ f.then.type = f.type
                              /\ f.else.type = f.type
  BY IfFacts DEF WellTyped
<1> QED
  BY <1>1, <1>2, <1>3

(* The types of a tree fit if they fit at its root and in its parts.         *)
LEMMA TypedTreesAre ==
  /\ \A f \in Atoms : f \in TypedTrees <=> WellTyped(f)
  /\ \A f \in BinOps(Tree) :
       f \in TypedTrees <=> /\ f.lhs \in TypedTrees /\ f.rhs \in TypedTrees
                            /\ WellTyped(f)
                            /\ 1 + Nodes[f.lhs] + Nodes[f.rhs] <= MaxNodes
  /\ \A f \in Ifs(Tree) :
       f \in TypedTrees <=> /\ f.cond \in TypedTrees /\ f.then \in TypedTrees
                            /\ f.else \in TypedTrees
                            /\ WellTyped(f)
                            /\ 1 + Nodes[f.cond] + Nodes[f.then] + Nodes[f.else] <= MaxNodes
<1>1. MaxNodes \in Nat \ {0}
  BY FormulaAssumption
<1>2. ASSUME NEW f \in Atoms
      PROVE  f \in TypedTrees <=> WellTyped(f)
  <2>1. f \in Tree /\ Subformulas[f] = {f} /\ Nodes[f] = 1
    BY SmallEnough, SubformulasAre, NodesAre
  <2> QED
    BY <1>1, <2>1 DEF TypedTrees
<1>3. ASSUME NEW f \in BinOps(Tree)
      PROVE  f \in TypedTrees <=> /\ f.lhs \in TypedTrees /\ f.rhs \in TypedTrees
                                  /\ WellTyped(f)
                                  /\ 1 + Nodes[f.lhs] + Nodes[f.rhs] <= MaxNodes
  <2>1. /\ f.lhs \in Tree /\ f.rhs \in Tree
        /\ Nodes[f.lhs] \in Nat \ {0} /\ Nodes[f.rhs] \in Nat \ {0}
    BY BinOpFacts, NodesAre
  <2>2. f \in Tree => /\ Nodes[f] = 1 + Nodes[f.lhs] + Nodes[f.rhs]
                      /\ Subformulas[f] = {f} \cup Subformulas[f.lhs] \cup Subformulas[f.rhs]
    BY NodesAre, SubformulasAre
  <2>3. 1 + Nodes[f.lhs] + Nodes[f.rhs] <= MaxNodes =>
          f \in Tree /\ Nodes[f.lhs] <= MaxNodes /\ Nodes[f.rhs] <= MaxNodes
    BY <1>1, <2>1, SmallEnough
  <2> QED
    BY ONLY <2>1, <2>2, <2>3 DEF TypedTrees
<1>4. ASSUME NEW f \in Ifs(Tree)
      PROVE  f \in TypedTrees <=>
               /\ f.cond \in TypedTrees /\ f.then \in TypedTrees /\ f.else \in TypedTrees
               /\ WellTyped(f)
               /\ 1 + Nodes[f.cond] + Nodes[f.then] + Nodes[f.else] <= MaxNodes
  <2>1. /\ f.cond \in Tree /\ f.then \in Tree /\ f.else \in Tree
        /\ Nodes[f.cond] \in Nat \ {0} /\ Nodes[f.then] \in Nat \ {0}
        /\ Nodes[f.else] \in Nat \ {0}
    BY IfFacts, NodesAre
  <2>2. f \in Tree => /\ Nodes[f] = 1 + Nodes[f.cond] + Nodes[f.then] + Nodes[f.else]
                      /\ Subformulas[f] = {f} \cup Subformulas[f.cond] \cup Subformulas[f.then]
                                              \cup Subformulas[f.else]
    BY NodesAre, SubformulasAre
  <2>3. 1 + Nodes[f.cond] + Nodes[f.then] + Nodes[f.else] <= MaxNodes =>
          /\ f \in Tree
          /\ Nodes[f.cond] <= MaxNodes /\ Nodes[f.then] <= MaxNodes /\ Nodes[f.else] <= MaxNodes
    BY <1>1, <2>1, SmallEnough
  <2> QED
    BY ONLY <2>1, <2>2, <2>3 DEF TypedTrees
<1> QED
  BY <1>2, <1>3, <1>4

(* Nothing is left to compute in a tree if nothing is at its root and parts. *)
LEMMA SimpleTreesAre ==
  /\ SimpleTrees \subseteq TypedTrees
  /\ \A f \in Atoms : f \in SimpleTrees <=> WellTyped(f)
  /\ \A f \in BinOps(Tree) :
       f \in SimpleTrees <=> /\ f.lhs \in SimpleTrees /\ f.rhs \in SimpleTrees
                             /\ WellTyped(f) /\ Simple(f)
                             /\ 1 + Nodes[f.lhs] + Nodes[f.rhs] <= MaxNodes
  /\ \A f \in Ifs(Tree) :
       f \in SimpleTrees <=> /\ f.cond \in SimpleTrees /\ f.then \in SimpleTrees
                             /\ f.else \in SimpleTrees
                             /\ WellTyped(f) /\ Simple(f)
                             /\ 1 + Nodes[f.cond] + Nodes[f.then] + Nodes[f.else] <= MaxNodes
<1>1. SimpleTrees \subseteq TypedTrees /\ TypedTrees \subseteq Tree
  BY DEF SimpleTrees, TypedTrees
<1>2. ASSUME NEW f \in Atoms
      PROVE  f \in SimpleTrees <=> WellTyped(f)
  <2>1. Subformulas[f] = {f}
    BY SmallEnough, SubformulasAre
  <2>2. Simple(f)
    BY AtomFacts DEF Simple
  <2> QED
    BY <2>1, <2>2, TypedTreesAre DEF SimpleTrees
<1>3. ASSUME NEW f \in BinOps(Tree)
      PROVE  f \in SimpleTrees <=> /\ f.lhs \in SimpleTrees /\ f.rhs \in SimpleTrees
                                   /\ WellTyped(f) /\ Simple(f)
                                   /\ 1 + Nodes[f.lhs] + Nodes[f.rhs] <= MaxNodes
  <2>1. f \in TypedTrees <=> /\ f.lhs \in TypedTrees /\ f.rhs \in TypedTrees
                             /\ WellTyped(f)
                             /\ 1 + Nodes[f.lhs] + Nodes[f.rhs] <= MaxNodes
    BY TypedTreesAre
  <2>2. f \in TypedTrees =>
          Subformulas[f] = {f} \cup Subformulas[f.lhs] \cup Subformulas[f.rhs]
    BY <1>1, SubformulasAre
  <2> QED
    BY ONLY <2>1, <2>2 DEF SimpleTrees
<1>4. ASSUME NEW f \in Ifs(Tree)
      PROVE  f \in SimpleTrees <=>
               /\ f.cond \in SimpleTrees /\ f.then \in SimpleTrees /\ f.else \in SimpleTrees
               /\ WellTyped(f) /\ Simple(f)
               /\ 1 + Nodes[f.cond] + Nodes[f.then] + Nodes[f.else] <= MaxNodes
  <2>1. f \in TypedTrees <=>
          /\ f.cond \in TypedTrees /\ f.then \in TypedTrees /\ f.else \in TypedTrees
          /\ WellTyped(f)
          /\ 1 + Nodes[f.cond] + Nodes[f.then] + Nodes[f.else] <= MaxNodes
    BY TypedTreesAre
  <2>2. f \in TypedTrees =>
          Subformulas[f] = {f} \cup Subformulas[f.cond] \cup Subformulas[f.then]
                               \cup Subformulas[f.else]
    BY <1>1, SubformulasAre
  <2> QED
    BY ONLY <2>1, <2>2 DEF SimpleTrees
<1> QED
  BY <1>1, <1>2, <1>3, <1>4

(* A literal that replaces a divisor of zero, or what the operation yields.  *)
LEMMA TypedLiteral ==
  /\ \A v \in Ints : Lit("Int", v) \in SimpleTrees
  /\ \A v \in 0..1 : Lit("Bool", v) \in SimpleTrees
  /\ \A v \in 1..MaxLiteral : v \in Ints /\ v # 0
<1>1. Ints \subseteq Int
  BY FormulaAssumption DEF Ints
<1>2. \A v \in Ints : Lit("Int", v) \in SimpleTrees
  BY <1>1, LiteralIs, WellTypedIs, SimpleTreesAre DEF Types
<1>3. \A v \in 0..1 : Lit("Bool", v) \in SimpleTrees
  BY LiteralIs, WellTypedIs, SimpleTreesAre DEF Types
<1>4. \A v \in 1..MaxLiteral : v \in Ints /\ v # 0
  <2>1. PICK h \in Nat : h = Half /\ MaxLiteral \in Nat /\ MaxLiteral < h
    BY FormulaAssumption
  <2>2. \A v \in 1..MaxLiteral : v \in -h .. h - 1 /\ v # 0
    BY <2>1
  <2> QED
    BY <2>1, <2>2 DEF Ints
<1> QED
  BY <1>2, <1>3, <1>4

(* An operation on operands that have the types it takes.                    *)
LEMMA OperationTyped ==
  ASSUME NEW f \in BinOps(Tree), WellTyped(f),
         NEW l \in SimpleTrees, NEW r \in SimpleTrees, l.type = f.optype, r.type = f.optype,
         1 + Nodes[l] + Nodes[r] <= MaxNodes,
         NEW d \in Divisors(WithOperands(f, f.op, l, r))
  PROVE  /\ d \in SimpleTrees /\ d.type = f.optype /\ Nodes[d] = Nodes[r]
         /\ WithOperands(f, f.op, l, d) \in BinOps(Tree) \cap TypedTrees
         /\ WithOperands(f, f.op, l, d).kind = f.kind
         /\ WithOperands(f, f.op, l, d).type = f.type
         /\ WithOperands(f, f.op, l, d).optype = f.optype
         /\ WithOperands(f, f.op, l, d).op = f.op
         /\ WithOperands(f, f.op, l, d).lhs = l
         /\ WithOperands(f, f.op, l, d).rhs = d
         /\ getOperator(WithOperands(f, f.op, l, d)) = getOperator(f)
         /\ f.kind = "arith-binop" /\ getOperator(f) = DIV => d # Lit("Int", 0)
         /\ \/ d = r
            \/ f.kind = "arith-binop" /\ getOperator(f) = DIV /\ r = Lit("Int", 0)
<1>1. l \in Tree /\ r \in Tree /\ f.op \in Int /\ f.optype \in Types
  BY BinOpFacts DEF SimpleTrees, TypedTrees
<1>2. PICK w : w = WithOperands(f, f.op, l, r)
  OBVIOUS
<1>3. /\ w \in BinOps(Tree) /\ w.kind = f.kind /\ w.optype = f.optype
      /\ w.op = f.op /\ w.rhs = r
  BY <1>1, <1>2, WithOperandsIs
<1>4. getOperator(w) = getOperator(f)
  BY <1>3 DEF getOperator
<1>5. d \in Divisors(w)
  BY <1>2
<1>6. /\ \/ d = r
         \/ /\ f.kind = "arith-binop" /\ getOperator(f) = DIV
            /\ isLiteral(r) /\ r.value = 0
            /\ \E v \in 1..MaxLiteral : d = Lit("Int", v)
      /\ f.kind = "arith-binop" /\ getOperator(f) = DIV => d # Lit("Int", 0)
  <2>1. /\ \A e \in Divisors(w) :
              \/ e = w.rhs
              \/ /\ w.kind = "arith-binop" /\ getOperator(w) = DIV
                 /\ isLiteral(w.rhs) /\ w.rhs.value = 0
                 /\ \E v \in 1..MaxLiteral : e = Lit("Int", v)
        /\ w.kind = "arith-binop" /\ getOperator(w) = DIV =>
              Lit("Int", 0) \notin Divisors(w)
    BY <1>3, DivisorsAre
  <2> QED
    BY <1>3, <1>4, <1>5, <2>1
<1>7. d \in SimpleTrees /\ d.type = f.optype /\ Nodes[d] = Nodes[r]
  <2>1. CASE d = r
    BY <2>1
  <2>2. CASE f.kind = "arith-binop" /\ isLiteral(r) /\ \E v \in 1..MaxLiteral : d = Lit("Int", v)
    <3>1. PICK v \in 1..MaxLiteral : d = Lit("Int", v)
      BY <2>2
    <3>2. v \in Ints /\ v \in Int /\ d \in SimpleTrees
      BY <3>1, TypedLiteral
    <3>3. d \in Atoms /\ d.type = "Int"
      BY <3>1, <3>2, LiteralIs DEF Types
    <3>4. r \in Atoms
      BY <1>1, <2>2, LiteralsAreAtoms, TreeIsTree
    <3>5. f.optype = "Int"
      BY <2>2, WellTypedIs
    <3>6. d \in Tree /\ Nodes[d] = 1 /\ Nodes[r] = 1
      BY <1>1, <3>3, <3>4, SmallEnough, NodesAre
    <3> QED
      BY <3>2, <3>3, <3>5, <3>6
  <2> QED
    BY <1>6, <2>1, <2>2
<1>8. PICK g : g = WithOperands(f, f.op, l, d)
  OBVIOUS
<1>9. d \in Tree
  BY <1>7 DEF SimpleTrees, TypedTrees
<1>10. /\ g \in BinOps(Tree) /\ g.kind = f.kind /\ g.type = f.type /\ g.optype = f.optype
       /\ g.op = f.op /\ g.lhs = l /\ g.rhs = d
  BY <1>1, <1>8, <1>9, WithOperandsIs
<1>11. getOperator(g) = getOperator(f)
  BY <1>10 DEF getOperator
<1>12. WellTyped(g)
  <2>1. /\ f.type = IF f.kind = "arith-binop" THEN "Int" ELSE "Bool"
        /\ f.kind = "arith-binop" => f.optype = "Int"
        /\ getOperator(f) \in OperatorsOf(f.kind, f.optype)
    BY WellTypedIs
  <2>2. /\ g.type = IF g.kind = "arith-binop" THEN "Int" ELSE "Bool"
        /\ g.kind = "arith-binop" => g.optype = "Int"
        /\ getOperator(g) \in OperatorsOf(g.kind, g.optype)
        /\ g.lhs.type = g.optype
        /\ g.rhs.type = g.optype
    BY <1>7, <1>10, <1>11, <2>1
  <2> QED
    BY <1>10, <2>2, WellTypedIs
<1>13. g \in TypedTrees
  <2>1. 1 + Nodes[g.lhs] + Nodes[g.rhs] <= MaxNodes
    BY <1>7, <1>10
  <2>2. g.lhs \in TypedTrees /\ g.rhs \in TypedTrees
    BY <1>7, <1>10, SimpleTreesAre
  <2> QED
    BY <1>10, <1>12, <2>1, <2>2, TypedTreesAre
<1>14. f.kind = "arith-binop" /\ isLiteral(r) /\ r.value = 0 => r = Lit("Int", 0)
  BY <1>1, LiteralsAreAtoms, TreeIsTree, WellTypedIs
<1> QED
  BY <1>6, <1>7, <1>8, <1>10, <1>11, <1>13, <1>14

(* Simplification has an outcome, whatever the formula: where a divisor is    *)
(* generated again until it is no literal zero, there is one that is none.  *)
THEOREM SimplificationYields == \A f \in Tree : Simplified[f] # {}
<1> DEFINE Good == {f \in Tree : Simplified[f] # {}}
<1>1. ASSUME NEW f \in Tree \cap Atoms
      PROVE  f \in Good
  BY SimplifiedIs
<1>2. ASSUME NEW f \in Tree \cap BinOps(Tree), f.lhs \in Good, f.rhs \in Good
      PROVE  f \in Good
  <2>1. PICK l \in Simplified[f.lhs], r \in Simplified[f.rhs] : TRUE
    BY <1>2
  <2>2. PICK g : g = WithOperands(f, f.op, l, r)
    OBVIOUS
  <2>3. PICK d : d \in Divisors(g)
    <3>1. Lit("Int", 1) \in {Lit("Int", v) : v \in 1..MaxLiteral}
      BY FormulaAssumption
    <3> QED
      BY <3>1 DEF Divisors
  <2>4. Outcome(Folded(WithOperands(f, f.op, l, d)), f, Simplified[f.lhs], Simplified[f.rhs])
    BY <2>1, <2>2, <2>3 DEF Outcome
  <2> QED
    BY <2>4, SimplifiedIs
<1>3. ASSUME NEW f \in Tree \cap Ifs(Tree), f.cond \in Good, f.then \in Good, f.else \in Good
      PROVE  f \in Good
  <2>1. PICK c \in Simplified[f.cond], a \in Simplified[f.then], b \in Simplified[f.else] : TRUE
    BY <1>3
  <2>2. Chosen(WithBranches(f, c, a, b)) \in Simplified[f]
    BY <2>1, SimplifiedIs
  <2> QED
    BY <2>2
<1> HIDE DEF Good
<1>4. Tree \subseteq Good
  BY <1>1, <1>2, <1>3, TreeInduction
<1> QED
  BY <1>4 DEF Good

(* What is simplified keeps its type, has nothing left to compute, and is    *)
(* made of no more than before.                                             *)
LEMMA SimplifiedTyped ==
  ASSUME NEW f \in TypedTrees, NEW g \in Simplified[f]
  PROVE  g \in SimpleTrees /\ g.type = f.type /\ Nodes[g] <= Nodes[f]
<1> DEFINE Fits(u, t) == u \in SimpleTrees /\ u.type = t.type /\ Nodes[u] <= Nodes[t]
           Good == {t \in Tree : t \in TypedTrees => \A u \in Simplified[t] : Fits(u, t)}
<1>0. SimpleTrees \subseteq Tree /\ TypedTrees \subseteq Tree /\ MaxNodes \in Nat
  BY FormulaAssumption DEF SimpleTrees, TypedTrees
<1>1. ASSUME NEW t \in Tree \cap Atoms
      PROVE  t \in Good
  BY SimplifiedIs, SimpleTreesAre, TypedTreesAre, NodesAre
<1>2. ASSUME NEW t \in Tree \cap BinOps(Tree), t.lhs \in Good, t.rhs \in Good,
             t \in TypedTrees, NEW u \in Simplified[t]
      PROVE  Fits(u, t)
  <2>1. /\ t \in BinOps(Tree) /\ WellTyped(t)
        /\ t.lhs \in TypedTrees /\ t.rhs \in TypedTrees
        /\ t.lhs \in Tree /\ t.rhs \in Tree
        /\ t.lhs.type = t.optype /\ t.rhs.type = t.optype
        /\ Nodes[t] = 1 + Nodes[t.lhs] + Nodes[t.rhs] /\ Nodes[t] <= MaxNodes
        /\ Nodes[t.lhs] \in Nat /\ Nodes[t.rhs] \in Nat
    <3>1. t \in BinOps(Tree) /\ t.lhs \in Tree /\ t.rhs \in Tree
      BY BinOpFacts
    <3>2. /\ t.lhs \in TypedTrees /\ t.rhs \in TypedTrees /\ WellTyped(t)
          /\ 1 + Nodes[t.lhs] + Nodes[t.rhs] <= MaxNodes
      BY <1>2, <3>1, TypedTreesAre
    <3> QED
      BY <3>1, <3>2, WellTypedIs, NodesAre
  <2>2. PICK l \in Simplified[t.lhs], r \in Simplified[t.rhs] :
          \E d \in Divisors(WithOperands(t, t.op, l, r)) :
            u = Folded(WithOperands(t, t.op, l, d))
    BY SimplifiedIs DEF Outcome
  <2>3. PICK d \in Divisors(WithOperands(t, t.op, l, r)) :
          u = Folded(WithOperands(t, t.op, l, d))
    BY <2>2
  <2>4. /\ l \in SimpleTrees /\ l.type = t.optype /\ Nodes[l] <= Nodes[t.lhs]
        /\ r \in SimpleTrees /\ r.type = t.optype /\ Nodes[r] <= Nodes[t.rhs]
    BY <1>2, <2>1
  <2>5. l \in Tree /\ r \in Tree /\ Nodes[l] \in Nat /\ Nodes[r] \in Nat
    BY <1>0, <2>4, NodesAre
  <2>6. 1 + Nodes[l] + Nodes[r] <= MaxNodes
    BY <1>0, <2>1, <2>4, <2>5
  <2>7. PICK w : w = WithOperands(t, t.op, l, d)
    OBVIOUS
  <2>8. /\ d \in SimpleTrees /\ d.type = t.optype /\ Nodes[d] = Nodes[r]
        /\ w \in BinOps(Tree) /\ w \in TypedTrees /\ w.kind = t.kind /\ w.type = t.type
        /\ w.lhs = l /\ w.rhs = d /\ getOperator(w) = getOperator(t)
        /\ t.kind = "arith-binop" /\ getOperator(t) = DIV => d # Lit("Int", 0)
    BY <2>1, <2>4, <2>6, <2>7, OperationTyped
  <2>9. u = Folded(w)
    BY <2>3, <2>7
  <2>10. CASE isLiteral(l) /\ isLiteral(d)
    <3>1. u = Lit(w.type, doOperation(w, l.value, d.value))
      BY <2>8, <2>9, <2>10 DEF Folded
    <3>2. l.value \in Int /\ d.value \in Int
      BY <1>0, <2>4, <2>8, <2>10, LiteralsAreAtoms, TreeIsTree
    <3>3. /\ w.kind \in {"arith-binop", "bool-binop"} /\ w.type \in Types
          /\ w.type = IF w.kind = "arith-binop" THEN "Int" ELSE "Bool"
      BY <2>1, <2>8, BinOpFacts, WellTypedIs
    <3>4. /\ w.kind = "arith-binop" => doOperation(w, l.value, d.value) \in Ints
          /\ w.kind = "bool-binop" => doOperation(w, l.value, d.value) \in 0..1
          /\ doOperation(w, l.value, d.value) \in Int
      BY <2>8, <3>2, DoOperationIs
    <3>5. u \in SimpleTrees
      BY <3>1, <3>3, <3>4, TypedLiteral
    <3>6. u \in Atoms /\ u.type = t.type
      BY <2>8, <3>1, <3>3, <3>4, LiteralIs
    <3>7. Nodes[u] = 1
      BY <3>6, SmallEnough, NodesAre
    <3> QED
      BY <2>1, <3>5, <3>6, <3>7
  <2>11. CASE ~(isLiteral(l) /\ isLiteral(d))
    <3>1. u = w
      BY <2>8, <2>9, <2>11 DEF Folded
    <3>2. Simple(w)
      <4>1. w.kind # "if"
        BY <2>8, BinOpFacts
      <4> QED
        BY <2>8, <2>11, <4>1 DEF Simple
    <3>3. /\ WellTyped(w) /\ 1 + Nodes[w.lhs] + Nodes[w.rhs] <= MaxNodes
      BY <2>8, TypedTreesAre
    <3>4. w.lhs \in SimpleTrees /\ w.rhs \in SimpleTrees
      BY <2>4, <2>8
    <3>5. w \in SimpleTrees
      BY <2>8, <3>2, <3>3, <3>4, SimpleTreesAre
    <3>6. w \in Tree /\ Nodes[w] = 1 + Nodes[l] + Nodes[d]
      BY <1>0, <2>8, NodesAre
    <3>7. Nodes[w] <= Nodes[t]
      BY <2>1, <2>4, <2>5, <2>8, <3>6
    <3> QED
      BY <2>8, <3>1, <3>5, <3>7
  <2> QED
    BY <2>10, <2>11
<1>3. ASSUME NEW t \in Tree \cap Ifs(Tree), t.cond \in Good, t.then \in Good, t.else \in Good,
             t \in TypedTrees, NEW u \in Simplified[t]
      PROVE  Fits(u, t)
  <2>1. /\ t \in Ifs(Tree)
        /\ t.cond \in TypedTrees /\ t.then \in TypedTrees /\ t.else \in TypedTrees
        /\ t.cond.type = "Bool" /\ t.then.type = t.type /\ t.else.type = t.type
        /\ Nodes[t] = 1 + Nodes[t.cond] + Nodes[t.then] + Nodes[t.else] /\ Nodes[t] <= MaxNodes
        /\ Nodes[t.cond] \in Nat /\ Nodes[t.then] \in Nat /\ Nodes[t.else] \in Nat
    <3>1. t \in Ifs(Tree) /\ t.cond \in Tree /\ t.then \in Tree /\ t.else \in Tree
      BY IfFacts
    <3>2. /\ t.cond \in TypedTrees /\ t.then \in TypedTrees /\ t.else \in TypedTrees
          /\ WellTyped(t)
          /\ 1 + Nodes[t.cond] + Nodes[t.then] + Nodes[t.else] <= MaxNodes
      BY <1>3, <3>1, TypedTreesAre
    <3> QED
      BY <3>1, <3>2, WellTypedIs, NodesAre
  <2>2. PICK c \in Simplified[t.cond], a \in Simplified[t.then], b \in Simplified[t.else] :
          u = Chosen(WithBranches(t, c, a, b))
    BY SimplifiedIs
  <2>3. /\ c \in SimpleTrees /\ c.type = "Bool" /\ Nodes[c] <= Nodes[t.cond]
        /\ a \in SimpleTrees /\ a.type = t.type /\ Nodes[a] <= Nodes[t.then]
        /\ b \in SimpleTrees /\ b.type = t.type /\ Nodes[b] <= Nodes[t.else]
    BY <1>3, <2>1, <2>2
  <2>4. /\ c \in Tree /\ a \in Tree /\ b \in Tree
        /\ Nodes[c] \in Nat /\ Nodes[a] \in Nat /\ Nodes[b] \in Nat
    BY <1>0, <2>3, NodesAre
  <2>5. u = IF isLiteral(c) THEN IF c.value = 1 THEN a ELSE b ELSE WithBranches(t, c, a, b)
    BY <2>1, <2>2, <2>4, ChosenIsTree, TreeIsTree
  <2>6. CASE isLiteral(c)
    <3>1. u = a \/ u = b
      BY <2>5, <2>6
    <3>2. Nodes[a] <= Nodes[t] /\ Nodes[b] <= Nodes[t]
      BY <2>1, <2>3, <2>4
    <3> QED
      BY <2>3, <3>1, <3>2
  <2>7. CASE ~isLiteral(c)
    <3>1. u = WithBranches(t, c, a, b)
      BY <2>5, <2>7
    <3>2. u \in Ifs(Tree) /\ u.type = t.type /\ u.cond = c /\ u.then = a /\ u.else = b
      BY <2>1, <2>4, <3>1, WithBranchesIs
    <3>3. Simple(u)
      <4>1. ~isBinOp(u) /\ u.kind # "arith-binop"
        BY <3>2, IfFacts DEF isBinOp
      <4> QED
        BY <2>7, <3>2, <4>1 DEF Simple
    <3>4. WellTyped(u)
      BY <2>3, <3>2, WellTypedIs
    <3>5. 1 + Nodes[u.cond] + Nodes[u.then] + Nodes[u.else] <= MaxNodes
      BY <1>0, <2>1, <2>3, <2>4, <3>2
    <3>6. u \in SimpleTrees
      BY <2>3, <3>2, <3>3, <3>4, <3>5, SimpleTreesAre
    <3>7. u \in Tree /\ Nodes[u] = 1 + Nodes[c] + Nodes[a] + Nodes[b]
      BY <1>0, <3>2, <3>6, NodesAre
    <3>8. Nodes[u] <= Nodes[t]
      BY <2>1, <2>3, <2>4, <3>7
    <3> QED
      BY <3>2, <3>6, <3>8
  <2> QED
    BY <2>6, <2>7
<1>4. Tree \subseteq Good
  <2> HIDE DEF Fits
  <2>1. \A t \in Tree \cap Atoms : t \in Good
    BY <1>1
  <2>2. \A t \in Tree \cap BinOps(Tree) : t.lhs \in Good /\ t.rhs \in Good => t \in Good
    BY <1>2
  <2>3. \A t \in Tree \cap Ifs(Tree) :
          t.cond \in Good /\ t.then \in Good /\ t.else \in Good => t \in Good
    BY <1>3
  <2> HIDE DEF Good
  <2> QED
    BY <2>1, <2>2, <2>3, TreeInduction
<1> QED
  BY <1>0, <1>4

(* What a tree simplifies to has its value, unless a divisor is replaced.    *)
LEMMA ValueKept ==
  ASSUME NEW f \in TypedTrees, \A s \in Subformulas[f] : ~DividesByZero(s),
         NEW g \in Simplified[f], NEW set \in FeatureSets
  PROVE  Solve[g][set] = Solve[f][set]
<1> DEFINE Kept(u, t) == Solve[u][set] = Solve[t][set]
           Undivided(t) == t \in TypedTrees /\ \A s \in Subformulas[t] : ~DividesByZero(s)
           Good == {t \in Tree : Undivided(t) => \A u \in Simplified[t] : Kept(u, t)}
<1>0. SimpleTrees \subseteq Tree /\ TypedTrees \subseteq Tree /\ MaxNodes \in Nat
  BY FormulaAssumption DEF SimpleTrees, TypedTrees
<1>1. ASSUME NEW t \in Tree \cap Atoms
      PROVE  t \in Good
  <2>1. Simplified[t] = {t}
    BY SimplifiedIs
  <2> QED
    BY <2>1
<1>2. ASSUME NEW t \in Tree \cap BinOps(Tree), t.lhs \in Good, t.rhs \in Good,
             Undivided(t), NEW u \in Simplified[t]
      PROVE  Kept(u, t)
  <2>1. /\ t \in BinOps(Tree) /\ WellTyped(t) /\ t \in TypedTrees
        /\ t.lhs \in TypedTrees /\ t.rhs \in TypedTrees
        /\ t.lhs.type = t.optype /\ t.rhs.type = t.optype
        /\ t.lhs \in Tree /\ t.rhs \in Tree
        /\ 1 + Nodes[t.lhs] + Nodes[t.rhs] <= MaxNodes
        /\ Nodes[t.lhs] \in Nat /\ Nodes[t.rhs] \in Nat
    <3>1. t \in BinOps(Tree) /\ t.lhs \in Tree /\ t.rhs \in Tree /\ t \in TypedTrees
      BY <1>2, BinOpFacts
    <3>2. /\ t.lhs \in TypedTrees /\ t.rhs \in TypedTrees /\ WellTyped(t)
          /\ 1 + Nodes[t.lhs] + Nodes[t.rhs] <= MaxNodes
      BY <3>1, TypedTreesAre
    <3> QED
      BY <3>1, <3>2, WellTypedIs, NodesAre
  <2>2. Subformulas[t] = {t} \cup Subformulas[t.lhs] \cup Subformulas[t.rhs]
    BY SubformulasAre
  <2>3. PICK l \in Simplified[t.lhs], r \in Simplified[t.rhs] :
          \E d \in Divisors(WithOperands(t, t.op, l, r)) :
            u = Folded(WithOperands(t, t.op, l, d))
    BY SimplifiedIs DEF Outcome
  <2>4. PICK d \in Divisors(WithOperands(t, t.op, l, r)) :
          u = Folded(WithOperands(t, t.op, l, d))
    BY <2>3
  <2>5. Kept(l, t.lhs) /\ Kept(r, t.rhs)
    BY <1>2, <2>1, <2>2, <2>3
  <2>6. /\ l \in SimpleTrees /\ l.type = t.optype /\ Nodes[l] <= Nodes[t.lhs]
        /\ r \in SimpleTrees /\ r.type = t.optype /\ Nodes[r] <= Nodes[t.rhs]
    BY <2>1, <2>3, SimplifiedTyped
  <2>7. l \in Tree /\ r \in Tree /\ Nodes[l] \in Nat /\ Nodes[r] \in Nat
    BY <1>0, <2>6, NodesAre
  <2>8. 1 + Nodes[l] + Nodes[r] <= MaxNodes
    BY <1>0, <2>1, <2>6, <2>7
  <2>9. PICK w : w = WithOperands(t, t.op, l, d)
    OBVIOUS
  <2>10. /\ w \in BinOps(Tree) /\ w \in TypedTrees /\ w.kind = t.kind /\ w.type = t.type
         /\ w.optype = t.optype /\ w.op = t.op /\ w.lhs = l /\ w.rhs = d
         /\ \/ d = r
            \/ t.kind = "arith-binop" /\ getOperator(t) = DIV /\ r = Lit("Int", 0)
    BY <2>1, <2>6, <2>8, <2>9, OperationTyped
  <2>11. d = r
    <3>1. ~DividesByZero(t)
      BY <1>2, <2>2
    <3> QED
      BY <2>10, <3>1 DEF DividesByZero
  <2>12. \A a, b : doOperation(w, a, b) = doOperation(t, a, b)
    BY <2>10 DEF doOperation
  <2>13. Solve[w][set] = Solve[t][set]
    <3>1. Solve[w][set] = doOperation(w, Solve[l][set], Solve[r][set])
      BY <1>0, <2>10, <2>11, SolveIs
    <3>2. Solve[t][set] = doOperation(t, Solve[t.lhs][set], Solve[t.rhs][set])
      BY SolveIs
    <3> QED
      BY <2>5, <2>12, <3>1, <3>2
  <2>14. u = Folded(w)
    BY <2>4, <2>9
  <2>15. CASE isLiteral(l) /\ isLiteral(r)
    <3>1. u = Lit(w.type, doOperation(w, l.value, r.value))
      BY <2>10, <2>11, <2>14, <2>15 DEF Folded
    <3>2. /\ l \in Atoms /\ r \in Atoms /\ l.value \in Int /\ r.value \in Int
      BY <2>7, <2>15, LiteralsAreAtoms, TreeIsTree
    <3>3. Solve[l][set] = l.value /\ Solve[r][set] = r.value
      BY <2>7, <2>15, <3>2, SolveIs
    <3>4. doOperation(w, l.value, r.value) \in Int /\ w.type \in Types
      BY <2>10, <3>2, DoOperationIs, BinOpFacts
    <3>5. /\ u \in Atoms /\ isLiteral(u) /\ u.value = doOperation(w, l.value, r.value)
      BY <3>1, <3>4, LiteralIs
    <3>6. u \in Tree /\ Solve[u][set] = u.value
      BY <3>5, SmallEnough, SolveIs
    <3>7. Solve[w][set] = doOperation(w, Solve[l][set], Solve[r][set])
      BY <1>0, <2>10, <2>11, SolveIs
    <3> QED
      BY <2>13, <3>3, <3>5, <3>6, <3>7
  <2>16. CASE ~(isLiteral(l) /\ isLiteral(r))
    <3>1. u = w
      BY <2>10, <2>11, <2>14, <2>16 DEF Folded
    <3> QED
      BY <2>13, <3>1
  <2> QED
    BY <2>15, <2>16
<1>3. ASSUME NEW t \in Tree \cap Ifs(Tree), t.cond \in Good, t.then \in Good, t.else \in Good,
             Undivided(t), NEW u \in Simplified[t]
      PROVE  Kept(u, t)
  <2>1. /\ t \in Ifs(Tree) /\ t \in TypedTrees
        /\ t.cond \in TypedTrees /\ t.then \in TypedTrees /\ t.else \in TypedTrees
        /\ t.cond.type = "Bool" /\ t.then.type = t.type /\ t.else.type = t.type
        /\ 1 + Nodes[t.cond] + Nodes[t.then] + Nodes[t.else] <= MaxNodes
        /\ Nodes[t.cond] \in Nat /\ Nodes[t.then] \in Nat /\ Nodes[t.else] \in Nat
    <3>1. /\ t \in Ifs(Tree) /\ t.cond \in Tree /\ t.then \in Tree /\ t.else \in Tree
          /\ t \in TypedTrees
      BY <1>3, IfFacts
    <3>2. /\ t.cond \in TypedTrees /\ t.then \in TypedTrees /\ t.else \in TypedTrees
          /\ WellTyped(t)
          /\ 1 + Nodes[t.cond] + Nodes[t.then] + Nodes[t.else] <= MaxNodes
      BY <3>1, TypedTreesAre
    <3> QED
      BY <3>1, <3>2, WellTypedIs, NodesAre
  <2>2. Subformulas[t] = {t} \cup Subformulas[t.cond] \cup Subformulas[t.then]
                             \cup Subformulas[t.else]
    BY SubformulasAre
  <2>3. PICK c \in Simplified[t.cond], a \in Simplified[t.then], b \in Simplified[t.else] :
          u = Chosen(WithBranches(t, c, a, b))
    BY SimplifiedIs
  <2>4. Kept(c, t.cond) /\ Kept(a, t.then) /\ Kept(b, t.else)
    BY <1>3, <2>1, <2>2, <2>3
  <2>5. /\ c \in SimpleTrees /\ Nodes[c] <= Nodes[t.cond]
        /\ a \in SimpleTrees /\ Nodes[a] <= Nodes[t.then]
        /\ b \in SimpleTrees /\ Nodes[b] <= Nodes[t.else]
    BY <2>1, <2>3, SimplifiedTyped
  <2>6. /\ c \in Tree /\ a \in Tree /\ b \in Tree
        /\ Nodes[c] \in Nat /\ Nodes[a] \in Nat /\ Nodes[b] \in Nat
    BY <1>0, <2>5, NodesAre
  <2>7. u = IF isLiteral(c) THEN IF c.value = 1 THEN a ELSE b ELSE WithBranches(t, c, a, b)
    BY <2>1, <2>3, <2>6, ChosenIsTree, TreeIsTree
  <2>8. Solve[t][set] = IF Solve[c][set] = 1 THEN Solve[a][set] ELSE Solve[b][set]
    BY <2>4, SolveIs
  <2>9. CASE isLiteral(c)
    <3>1. c \in Atoms
      BY <2>6, <2>9, LiteralsAreAtoms, TreeIsTree
    <3>2. Solve[c][set] = c.value
      BY <2>6, <2>9, <3>1, SolveIs
    <3> QED
      BY <2>7, <2>8, <2>9, <3>2
  <2>10. CASE ~isLiteral(c)
    <3>1. u = WithBranches(t, c, a, b)
      BY <2>7, <2>10
    <3>2. u \in Ifs(Tree) /\ u.cond = c /\ u.then = a /\ u.else = b
      BY <2>1, <2>6, <3>1, WithBranchesIs
    <3>3. 1 + Nodes[u.cond] + Nodes[u.then] + Nodes[u.else] <= MaxNodes
      BY <1>0, <2>1, <2>5, <2>6, <3>2
    <3>4. u \in Tree
      BY <3>2, <3>3, SmallEnough
    <3> QED
      BY <2>8, <3>2, <3>4, SolveIs
  <2> QED
    BY <2>9, <2>10
<1>4. Tree \subseteq Good
  <2> HIDE DEF Kept, Undivided
  <2>1. \A t \in Tree \cap Atoms : t \in Good
    BY <1>1
  <2>2. \A t \in Tree \cap BinOps(Tree) : t.lhs \in Good /\ t.rhs \in Good => t \in Good
    BY <1>2
  <2>3. \A t \in Tree \cap Ifs(Tree) :
          t.cond \in Good /\ t.then \in Good /\ t.else \in Good => t \in Good
    BY <1>3
  <2> HIDE DEF Good
  <2> QED
    BY <2>1, <2>2, <2>3, TreeInduction
<1> QED
  BY <1>0, <1>4

(***************************************************************************)
(* Generation.                                                             *)
(***************************************************************************)
(* The number of an operator that is generated is one of the formula's.     *)
LEMMA OpNumbersAre ==
  ASSUME NEW kind, NEW optype, NEW o \in OpNumbers(kind, optype),
         \/ kind = "arith-binop" /\ optype = "Int"
         \/ kind = "bool-binop" /\ optype \in Types
  PROVE  o \in Int /\ o + getMinOperator(kind, optype) \in OperatorsOf(kind, optype)
<1>1. /\ PLUS = 0 /\ DIV = 3 /\ LT = 4 /\ NEQ = 9 /\ EQ = 8 /\ OR = 11
      /\ {PLUS, DIV, LT, NEQ, EQ, OR} \subseteq Int
  BY DEF PLUS, DIV, LT, NEQ, EQ, OR
<1>2. o \in 0 .. Cardinality(OperatorsOf(kind, optype)) - 1
  BY DEF OpNumbers, getNumberOfOperators
<1>3. ASSUME NEW a \in Int, NEW b \in Int, a <= b,
             getMinOperator(kind, optype) = a, OperatorsOf(kind, optype) = a..b
      PROVE  o \in Int /\ o + a \in a..b
  <2>1. Cardinality(a..b) = IF a > b THEN 0 ELSE b - a + 1
    BY FS_Interval
  <2> QED
    BY <1>2, <1>3, <2>1
<1>4. CASE kind = "arith-binop"
  <2>1. getMinOperator(kind, optype) = PLUS /\ OperatorsOf(kind, optype) = PLUS..DIV
    BY <1>4 DEF getMinOperator, OperatorsOf
  <2> QED
    BY <1>1, <1>3, <2>1
<1>5. CASE kind = "bool-binop" /\ optype = "Int"
  <2>1. getMinOperator(kind, optype) = LT /\ OperatorsOf(kind, optype) = LT..NEQ
    BY <1>5 DEF getMinOperator, OperatorsOf
  <2> QED
    BY <1>1, <1>3, <2>1
<1>6. CASE kind = "bool-binop" /\ optype = "Bool"
  <2>1. getMinOperator(kind, optype) = EQ /\ OperatorsOf(kind, optype) = EQ..OR
    BY <1>6 DEF getMinOperator, OperatorsOf
  <2> QED
    BY <1>1, <1>3, <2>1
<1> QED
  BY <1>4, <1>5, <1>6 DEF Types

(* The operations that are generated of operands whose types fit.            *)
LEMMA ArithsAre ==
  ASSUME NEW L, NEW R, L \subseteq TypedTrees, R \subseteq TypedTrees,
         \A l \in L : l.type = "Int", \A r \in R : r.type = "Int",
         \A l \in L : \A r \in R : 1 + Nodes[l] + Nodes[r] <= MaxNodes,
         NEW g \in Ariths(L, R)
  PROVE  \E l \in L, r \in R :
           g \in TypedTrees /\ g.type = "Int" /\ Nodes[g] = 1 + Nodes[l] + Nodes[r]
<1> DEFINE Checked(o, l, r) == checkZeroDivision(Arith(o, l, r))
<1>1. PICK o \in OpNumbers("arith-binop", "Int"), l \in L, r \in R : g \in Checked(o, l, r)
  <2> HIDE DEF Checked
  <2>1. Ariths(L, R) =
          UNION {Checked(o, l, r) : o \in OpNumbers("arith-binop", "Int"), l \in L, r \in R}
    BY DEF Ariths, Checked
  <2> QED
    BY <2>1
<1>2. PICK w : w = Arith(o, l, r)
  OBVIOUS
<1>3. l \in Tree /\ r \in Tree /\ o \in Int
  BY OpNumbersAre DEF TypedTrees
<1>4. /\ w \in BinOps(Tree) /\ w.kind = "arith-binop" /\ w.type = "Int" /\ w.optype = "Int"
      /\ w.op = o /\ w.lhs = l /\ w.rhs = r
  BY <1>2, <1>3 DEF Arith, BinOps, Types
<1>5. PICK d \in Divisors(w) : g = WithOperands(w, w.op, w.lhs, d)
  <2>1. checkZeroDivision(w) = {WithOperands(w, w.op, w.lhs, d) : d \in Divisors(w)}
    BY <1>4, DivisorsAre
  <2> QED
    BY <1>1, <1>2, <2>1
<1>6. d \in TypedTrees /\ d.type = "Int" /\ Nodes[d] = Nodes[r]
  <2>1. d = r \/ (isLiteral(r) /\ \E v \in 1..MaxLiteral : d = Lit("Int", v))
    BY <1>4, DivisorsAre
  <2>2. ASSUME NEW v \in 1..MaxLiteral, d = Lit("Int", v), isLiteral(r)
        PROVE  d \in TypedTrees /\ d.type = "Int" /\ Nodes[d] = Nodes[r]
    <3>1. v \in Ints /\ v \in Int /\ d \in SimpleTrees
      BY <2>2, TypedLiteral
    <3>2. d \in Atoms /\ d.type = "Int"
      BY <2>2, <3>1, LiteralIs DEF Types
    <3>3. r \in Atoms
      BY <1>3, <2>2, LiteralsAreAtoms, TreeIsTree
    <3> QED
      BY <1>3, <3>1, <3>2, <3>3, SmallEnough, NodesAre DEF SimpleTrees
  <2> QED
    BY <2>1, <2>2
<1>7. d \in Tree
  BY <1>6 DEF TypedTrees
<1>8. /\ g \in BinOps(Tree) /\ g.kind = "arith-binop" /\ g.type = "Int" /\ g.optype = "Int"
      /\ g.op = o /\ g.lhs = l /\ g.rhs = d
  <2>1. /\ WithOperands(w, o, l, d) \in BinOps(Tree)
        /\ WithOperands(w, o, l, d).kind = w.kind
        /\ WithOperands(w, o, l, d).type = w.type
        /\ WithOperands(w, o, l, d).optype = w.optype
        /\ WithOperands(w, o, l, d).op = o
        /\ WithOperands(w, o, l, d).lhs = l
        /\ WithOperands(w, o, l, d).rhs = d
    <3>1. w \in BinOps(Tree) /\ o \in Int /\ l \in Tree /\ d \in Tree
      BY <1>3, <1>4, <1>7
    <3> QED
      BY ONLY <3>1, WithOperandsIs
  <2>2. g = WithOperands(w, o, l, d)
    BY <1>4, <1>5
  <2> QED
    BY <1>4, <2>1, <2>2
<1>9. WellTyped(g)
  <2>1. getOperator(g) \in OperatorsOf(g.kind, g.optype)
    BY <1>8, OpNumbersAre DEF getOperator
  <2> QED
    BY <1>6, <1>8, <2>1, WellTypedIs
<1>10. 1 + Nodes[l] + Nodes[d] <= MaxNodes
  BY <1>6
<1>11. g \in TypedTrees
  BY <1>6, <1>8, <1>9, <1>10, TypedTreesAre
<1>12. g \in Tree /\ Nodes[g] = 1 + Nodes[l] + Nodes[d]
  BY <1>8, <1>11, NodesAre DEF TypedTrees
<1> QED
  BY <1>6, <1>8, <1>11, <1>12

(* The types of a boolean operation on operands whose types fit do.          *)
LEMMA BooleansAre ==
  ASSUME NEW t \in Types, NEW L, NEW R, L \subseteq TypedTrees, R \subseteq TypedTrees,
         \A l \in L : l.type = t, \A r \in R : r.type = t,
         \A l \in L : \A r \in R : 1 + Nodes[l] + Nodes[r] <= MaxNodes,
         NEW g \in Booleans(t, L, R)
  PROVE  \E l \in L, r \in R :
           g \in TypedTrees /\ g.type = "Bool" /\ Nodes[g] = 1 + Nodes[l] + Nodes[r]
<1>1. PICK o \in OpNumbers("bool-binop", t), l \in L, r \in R : g = Boolean(t, o, l, r)
  BY DEF Booleans
<1>2. l \in Tree /\ r \in Tree /\ o \in Int
  BY OpNumbersAre DEF TypedTrees
<1>3. /\ g \in BinOps(Tree) /\ g.kind = "bool-binop" /\ g.type = "Bool" /\ g.optype = t
      /\ g.op = o /\ g.lhs = l /\ g.rhs = r
  BY <1>1, <1>2 DEF Boolean, BinOps, Types
<1>4. WellTyped(g)
  <2>1. getOperator(g) \in OperatorsOf(g.kind, g.optype)
    BY <1>3, OpNumbersAre DEF getOperator
  <2> QED
    BY <1>3, <2>1, WellTypedIs
<1>5. g \in TypedTrees
  BY <1>3, <1>4, TypedTreesAre
<1>6. g \in Tree /\ Nodes[g] = 1 + Nodes[l] + Nodes[r]
  BY <1>3, <1>5, NodesAre DEF TypedTrees
<1> QED
  BY <1>3, <1>5, <1>6

(* The types of an if made of parts whose types fit do.                      *)
LEMMA ChoicesTyped ==
  ASSUME NEW t \in Types, NEW C, NEW A, NEW B,
         C \subseteq TypedTrees, A \subseteq TypedTrees, B \subseteq TypedTrees,
         \A c \in C : c.type = "Bool", \A a \in A : a.type = t, \A b \in B : b.type = t,
         \A c \in C : \A a \in A : \A b \in B : 1 + Nodes[c] + Nodes[a] + Nodes[b] <= MaxNodes,
         NEW g \in Choices(t, C, A, B)
  PROVE  \E c \in C, a \in A, b \in B :
           /\ g \in TypedTrees /\ g.type = t
           /\ Nodes[g] = 1 + Nodes[c] + Nodes[a] + Nodes[b]
<1>1. PICK c \in C, a \in A, b \in B : g = If(t, c, a, b)
  BY DEF Choices
<1>2. c \in Tree /\ a \in Tree /\ b \in Tree
  BY DEF TypedTrees
<1>3. g \in Ifs(Tree) /\ g.type = t /\ g.cond = c /\ g.then = a /\ g.else = b
  BY <1>1, <1>2 DEF If, Ifs
<1>4. WellTyped(g)
  BY <1>3, WellTypedIs
<1>5. g \in TypedTrees
  BY <1>3, <1>4, TypedTreesAre
<1>6. g \in Tree /\ Nodes[g] = 1 + Nodes[c] + Nodes[a] + Nodes[b]
  BY <1>3, <1>5, NodesAre DEF TypedTrees
<1> QED
  BY <1>3, <1>5, <1>6

(* What is generated of n formulas, of those of fewer.                       *)
LEMMA GeneratedIs ==
  ASSUME NEW n \in 1..MaxNodes, NEW t \in Types, NEW g \in Generated[n][t]
  PROVE  \/ /\ n = 1
            /\ g \in Literals(t) \/ (t = "Int" /\ \E p \in Features : g = Feature(p))
         \/ \E i \in 1..n-2 :
              /\ t = "Int"
              /\ g \in Ariths(Generated[i]["Int"], Generated[n - 1 - i]["Int"])
         \/ \E i \in 1..n-2 : \E u \in Types :
              /\ t = "Bool"
              /\ g \in Booleans(u, Generated[i][u], Generated[n - 1 - i][u])
         \/ \E i \in 1..n-3 : \E j \in 1..n-2-i :
              g \in Choices(t, Generated[i]["Bool"], Generated[j][t], Generated[n - 1 - i - j][t])
<1> DEFINE Two(F, m, s, i) ==
             IF s = "Int"
             THEN Ariths(F[i]["Int"], F[m - 1 - i]["Int"])
             ELSE UNION {Booleans(u, F[i][u], F[m - 1 - i][u]) : u \in Types}
           Three(F, m, s, i) ==
             UNION {Choices(s, F[i]["Bool"], F[j][s], F[m - 1 - i - j][s]) : j \in 1..m-2-i}
           Leaves(s) == Literals(s) \cup (IF s = "Int" THEN {Feature(p) : p \in Features} ELSE {})
           Of(F, m, s) == (UNION {Two(F, m, s, i) : i \in 1..m-2})
                          \cup (UNION {Three(F, m, s, i) : i \in 1..m-3})
           On(F, m) == [s \in Types |-> IF m = 1 THEN Leaves(s) ELSE Of(F, m, s)]
           Goes(F, k) == \A m \in 1..k : F[m] = On(F, m)
           Known == {k \in Nat : \E F : Goes(F, k)}
<1>1. ASSUME NEW F, NEW G, NEW m \in Nat, \A i \in 1..m-1 : F[i] = G[i]
      PROVE  On(F, m) = On(G, m)
  <2>1. ASSUME NEW s \in Types, NEW i \in 1..m-2
        PROVE  Two(F, m, s, i) = Two(G, m, s, i)
    <3>1. F[i] = G[i] /\ F[m - 1 - i] = G[m - 1 - i]
      BY <1>1
    <3> QED
      BY <3>1
  <2>2. ASSUME NEW s \in Types, NEW i \in 1..m-3
        PROVE  Three(F, m, s, i) = Three(G, m, s, i)
    <3> DEFINE Ch(H, j) == Choices(s, H[i]["Bool"], H[j][s], H[m - 1 - i - j][s])
    <3>1. ASSUME NEW j \in 1..m-2-i
          PROVE  Ch(F, j) = Ch(G, j)
      <4>1. F[i] = G[i] /\ F[j] = G[j] /\ F[m - 1 - i - j] = G[m - 1 - i - j]
        BY <1>1
      <4> QED
        BY <4>1
    <3> HIDE DEF Ch
    <3>2. UNION {Ch(F, j) : j \in 1..m-2-i} = UNION {Ch(G, j) : j \in 1..m-2-i}
      BY <3>1
    <3> QED
      BY <3>2 DEF Ch
  <2> HIDE DEF Two, Three
  <2>3. ASSUME NEW s \in Types
        PROVE  Of(F, m, s) = Of(G, m, s)
    BY <2>1, <2>2
  <2> HIDE DEF Of
  <2> QED
    BY <2>3
<1> HIDE DEF On
<1>2. 0 \in Known
  BY DEF Known
<1>3. ASSUME NEW k \in Nat, k \in Known
      PROVE  k + 1 \in Known
  <2>1. PICK F : Goes(F, k)
    BY <1>3
  <2>2. PICK G : G = [m \in 1..k+1 |-> IF m = k + 1 THEN On(F, k + 1) ELSE F[m]]
    OBVIOUS
  <2>3. \A m \in 1..k : G[m] = F[m] /\ m \in Nat
    BY <2>2
  <2>4. ASSUME NEW m \in 1..k+1
        PROVE  G[m] = On(G, m)
    <3>1. m \in Nat /\ \A i \in 1..m-1 : F[i] = G[i]
      BY <2>3
    <3>2. On(F, m) = On(G, m)
      BY <1>1, <3>1
    <3> QED
      BY <2>1, <2>2, <2>3, <3>2
  <2> QED
    BY <2>4
<1>4. MaxNodes \in Known
  <2> HIDE DEF Known
  <2> QED
    BY <1>2, <1>3, SetInduction, FormulaAssumption
<1>5. PICK F : Goes(F, MaxNodes)
  BY <1>4
<1>6. PICK G : G = [m \in 1..MaxNodes |-> F[m]]
  OBVIOUS
<1>7. G = [m \in 1..MaxNodes |-> On(G, m)]
  <2>1. ASSUME NEW m \in 1..MaxNodes
        PROVE  On(F, m) = On(G, m)
    <3>1. m \in Nat /\ \A i \in 1..m-1 : F[i] = G[i]
      BY <1>6, FormulaAssumption
    <3> QED
      BY <1>1, <3>1
  <2> QED
    BY <1>5, <1>6, <2>1
<1>8. Generated = [m \in 1..MaxNodes |-> On(Generated, m)]
  <2>1. Generated = CHOOSE H : H = [m \in 1..MaxNodes |-> On(H, m)]
    BY ONLY Zenon DEF Generated, On, Leaves, Of, Two, Three
  <2> HIDE DEF On
  <2> QED
    BY ONLY <1>7, <2>1, Zenon
<1>9. Generated[n] = On(Generated, n)
  BY <1>8
<1>10. g \in IF n = 1 THEN Leaves(t) ELSE Of(Generated, n, t)
  <2> HIDE DEF Leaves, Of
  <2> QED
    BY <1>9 DEF On
<1>11. CASE n = 1
  BY <1>10, <1>11
<1>12. CASE n # 1
  <2>1. \/ \E i \in 1..n-2 : g \in Two(Generated, n, t, i)
        \/ \E i \in 1..n-3 : g \in Three(Generated, n, t, i)
    <3> HIDE DEF Two, Three
    <3> QED
      BY <1>10, <1>12
  <2>2. ASSUME NEW i \in 1..n-2, g \in Two(Generated, n, t, i)
        PROVE  \/ /\ t = "Int"
                  /\ g \in Ariths(Generated[i]["Int"], Generated[n - 1 - i]["Int"])
               \/ \E u \in Types :
                    /\ t = "Bool"
                    /\ g \in Booleans(u, Generated[i][u], Generated[n - 1 - i][u])
    BY <2>2 DEF Types
  <2>3. ASSUME NEW i \in 1..n-3, g \in Three(Generated, n, t, i)
        PROVE  \E j \in 1..n-2-i :
                 g \in Choices(t, Generated[i]["Bool"], Generated[j][t],
                               Generated[n - 1 - i - j][t])
    BY <2>3
  <2> HIDE DEF Two, Three
  <2> QED
    BY <2>1, <2>2, <2>3
<1> QED
  BY <1>11, <1>12

(* What is generated has the type and is made of what is asked for.          *)
LEMMA GeneratedTyped ==
  \A n \in 1..MaxNodes : \A t \in Types : \A g \in Generated[n][t] :
    g \in TypedTrees /\ g.type = t /\ Nodes[g] = n
<1> DEFINE Fits(n) == \A t \in Types : \A g \in Generated[n][t] :
                        g \in TypedTrees /\ g.type = t /\ Nodes[g] = n
           Good == {n \in Nat : \A m \in 1..n : m <= MaxNodes => Fits(m)}
<1>1. MaxNodes \in Nat \ {0}
  BY FormulaAssumption
<1>2. 0 \in Good
  OBVIOUS
<1>3. ASSUME NEW n \in 1..MaxNodes, \A m \in 1..n-1 : Fits(m)
      PROVE  Fits(n)
  <2>1. ASSUME NEW t \in Types, NEW g \in Generated[n][t]
        PROVE  g \in TypedTrees /\ g.type = t /\ Nodes[g] = n
    <3>1. CASE n = 1 /\ g \in Literals(t)
      <4>1. PICK v \in IF t = "Bool" THEN 0..1 ELSE 0..MaxLiteral : g = Lit(t, v)
        BY <3>1 DEF Literals
      <4>2. 0 \in Ints /\ Ints \subseteq Int
        <5>1. PICK h \in Nat \ {0} : h = Half
          BY FormulaAssumption
        <5>2. 0 \in -h .. h - 1 /\ -h .. h - 1 \subseteq Int
          BY <5>1
        <5> QED
          BY <5>1, <5>2 DEF Ints
      <4>3. v \in Int /\ (t = "Bool" => v \in 0..1) /\ (t = "Int" => v \in Ints)
        <5>1. t = "Bool" => v \in 0..1
          BY <4>1
        <5>2. t = "Int" => v = 0 \/ v \in 1..MaxLiteral
          BY <4>1, FormulaAssumption
        <5> QED
          BY <4>2, <5>1, <5>2, TypedLiteral DEF Types
      <4>4. g \in TypedTrees
        BY <4>1, <4>3, TypedLiteral DEF SimpleTrees, Types
      <4>5. g \in Atoms /\ g.type = t
        BY <4>1, <4>3, LiteralIs
      <4>6. Nodes[g] = 1
        BY <4>5, SmallEnough, NodesAre
      <4> QED
        BY <3>1, <4>4, <4>5, <4>6
    <3>2. ASSUME n = 1, t = "Int", NEW p \in Features, g = Feature(p)
          PROVE  g \in TypedTrees /\ g.type = t /\ Nodes[g] = n
      <4>1. g \in Atoms /\ g.type = "Int" /\ ~isLiteral(g)
        BY <3>2 DEF Feature, Atoms, isLiteral
      <4>2. g \in TypedTrees
        BY <4>1, WellTypedIs, TypedTreesAre
      <4>3. Nodes[g] = 1
        BY <4>1, SmallEnough, NodesAre
      <4> QED
        BY <3>2, <4>1, <4>2, <4>3
    <3>3. ASSUME NEW i \in 1..n-2
          PROVE  /\ Fits(i) /\ Fits(n - 1 - i) /\ i \in Nat /\ n - 1 - i \in Nat
                 /\ 1 + i + (n - 1 - i) = n
      <4>1. n \in Nat /\ i \in 1..n-1 /\ n - 1 - i \in 1..n-1
        BY <1>1, <3>3
      <4> HIDE DEF Fits
      <4> QED
        BY <1>3, <4>1
    <3>4. ASSUME NEW i \in 1..n-2, NEW u \in Types, NEW L, NEW R,
                 L = Generated[i][u], R = Generated[n - 1 - i][u]
          PROVE  /\ L \subseteq TypedTrees /\ R \subseteq TypedTrees
                 /\ \A l \in L : l.type = u /\ Nodes[l] = i
                 /\ \A r \in R : r.type = u /\ Nodes[r] = n - 1 - i
                 /\ \A l \in L : \A r \in R : /\ 1 + Nodes[l] + Nodes[r] <= MaxNodes
                                              /\ 1 + Nodes[l] + Nodes[r] = n
      <4>1. Fits(i) /\ Fits(n - 1 - i)
        BY <3>3
      <4>2. 1 + i + (n - 1 - i) = n /\ n <= MaxNodes
        BY <1>1, <3>4
      <4> QED
        BY <3>4, <4>1, <4>2
    <3>5. ASSUME NEW i \in 1..n-2, t = "Int",
                 g \in Ariths(Generated[i]["Int"], Generated[n - 1 - i]["Int"])
          PROVE  g \in TypedTrees /\ g.type = t /\ Nodes[g] = n
      <4>1. PICK L, R : L = Generated[i]["Int"] /\ R = Generated[n - 1 - i]["Int"]
        OBVIOUS
      <4>2. "Int" \in Types
        BY DEF Types
      <4>3. /\ L \subseteq TypedTrees /\ R \subseteq TypedTrees
            /\ \A l \in L : l.type = "Int"
            /\ \A r \in R : r.type = "Int"
            /\ \A l \in L : \A r \in R : 1 + Nodes[l] + Nodes[r] <= MaxNodes
            /\ \A l \in L : \A r \in R : 1 + Nodes[l] + Nodes[r] = n
        BY <3>4, <4>1, <4>2
      <4>4. g \in Ariths(L, R)
        BY <3>5, <4>1
      <4>5. \E l \in L, r \in R :
              g \in TypedTrees /\ g.type = "Int" /\ Nodes[g] = 1 + Nodes[l] + Nodes[r]
        BY ONLY <4>3, <4>4, ArithsAre
      <4> QED
        BY <3>5, <4>3, <4>5
    <3>6. ASSUME NEW i \in 1..n-2, NEW u \in Types, t = "Bool",
                 g \in Booleans(u, Generated[i][u], Generated[n - 1 - i][u])
          PROVE  g \in TypedTrees /\ g.type = t /\ Nodes[g] = n
      <4>1. PICK L, R : L = Generated[i][u] /\ R = Generated[n - 1 - i][u]
        OBVIOUS
      <4>3. /\ L \subseteq TypedTrees /\ R \subseteq TypedTrees
            /\ \A l \in L : l.type = u
            /\ \A r \in R : r.type = u
            /\ \A l \in L : \A r \in R : 1 + Nodes[l] + Nodes[r] <= MaxNodes
            /\ \A l \in L : \A r \in R : 1 + Nodes[l] + Nodes[r] = n
        BY <3>4, <4>1
      <4>4. g \in Booleans(u, L, R) /\ u \in Types
        BY <3>6, <4>1
      <4>5. \E l \in L, r \in R :
              g \in TypedTrees /\ g.type = "Bool" /\ Nodes[g] = 1 + Nodes[l] + Nodes[r]
        BY ONLY <4>3, <4>4, BooleansAre
      <4> QED
        BY <3>6, <4>3, <4>5
    <3>7. ASSUME NEW i \in 1..n-3, NEW j \in 1..n-2-i,
                 g \in Choices(t, Generated[i]["Bool"], Generated[j][t],
                               Generated[n - 1 - i - j][t])
          PROVE  g \in TypedTrees /\ g.type = t /\ Nodes[g] = n
      <4>1. PICK C, A, B : /\ C = Generated[i]["Bool"] /\ A = Generated[j][t]
                           /\ B = Generated[n - 1 - i - j][t]
        OBVIOUS
      <4>2. "Bool" \in Types
        BY DEF Types
      <4>3. Fits(i) /\ Fits(j) /\ Fits(n - 1 - i - j)
        <5>1. i \in 1..n-1 /\ j \in 1..n-1 /\ n - 1 - i - j \in 1..n-1
          BY <1>1, <3>7
        <5> HIDE DEF Fits
        <5> QED
          BY <1>3, <5>1
      <4>4. 1 + i + j + (n - 1 - i - j) = n /\ n <= MaxNodes
        BY <1>1, <3>7
      <4>5. /\ C \subseteq TypedTrees /\ A \subseteq TypedTrees /\ B \subseteq TypedTrees
            /\ \A c \in C : c.type = "Bool"
            /\ \A a \in A : a.type = t
            /\ \A b \in B : b.type = t
            /\ \A c \in C : \A a \in A : \A b \in B :
                 Nodes[c] = i /\ Nodes[a] = j /\ Nodes[b] = n - 1 - i - j
        BY <4>1, <4>2, <4>3
      <4>6. /\ \A c \in C : \A a \in A : \A b \in B :
                 1 + Nodes[c] + Nodes[a] + Nodes[b] <= MaxNodes
            /\ \A c \in C : \A a \in A : \A b \in B :
                 1 + Nodes[c] + Nodes[a] + Nodes[b] = n
        BY <4>4, <4>5
      <4>7. g \in Choices(t, C, A, B) /\ t \in Types
        BY <3>7, <4>1
      <4>8. \E c \in C, a \in A, b \in B :
              /\ g \in TypedTrees /\ g.type = t
              /\ Nodes[g] = 1 + Nodes[c] + Nodes[a] + Nodes[b]
        BY ONLY <4>5, <4>6, <4>7, ChoicesTyped
      <4> QED
        BY <4>6, <4>8
    <3> QED
      BY <3>1, <3>2, <3>5, <3>6, <3>7, GeneratedIs
  <2> QED
    BY <2>1
<1> HIDE DEF Fits
<1>4. ASSUME NEW n \in Nat, n \in Good
      PROVE  n + 1 \in Good
  <2>1. \A m \in 1..n : m <= MaxNodes => Fits(m)
    BY <1>4
  <2>2. n + 1 <= MaxNodes => Fits(n + 1)
    <3>1. ASSUME n + 1 <= MaxNodes
          PROVE  Fits(n + 1)
      <4>1. n + 1 \in 1..MaxNodes /\ \A m \in 1..(n + 1) - 1 : Fits(m)
        BY <1>1, <2>1, <3>1
      <4> QED
        BY <1>3, <4>1
    <3> QED
      BY <3>1
  <2>3. \A m \in 1..n+1 : m \in 1..n \/ m = n + 1
    OBVIOUS
  <2> QED
    BY <2>1, <2>2, <2>3
<1>5. MaxNodes \in Good
  <2> HIDE DEF Good
  <2> QED
    BY <1>1, <1>2, <1>4, SetInduction
<1>6. \A n \in 1..MaxNodes : Fits(n)
  BY <1>1, <1>5
<1> QED
  BY <1>6 DEF Fits

(* The same of formulas of at most so many parts.                            *)
LEMMA FormulasTyped ==
  ASSUME NEW t \in Types, NEW max \in Int, NEW g \in Formulas(t, max)
  PROVE  g \in TypedTrees /\ g.type = t /\ Nodes[g] <= max
<1>1. PICK n \in 1..MaxNodes : n <= max /\ g \in Grammar[n][t]
  BY DEF Formulas
<1>2. g \in Generated[n][t]
  BY <1>1 DEF Grammar
<1> QED
  BY <1>1, <1>2, GeneratedTyped

(***************************************************************************)
(* Evolution.                                                              *)
(***************************************************************************)
Replaced(f, part, g) == [f EXCEPT ![part] = g]

(* A tree with another part, for each kind of tree.                          *)
LEMMA ReplacedIs ==
  ASSUME NEW f \in Tree, NEW g
  PROVE  /\ f \in BinOps(Tree) =>
              /\ Replaced(f, "lhs", g) = WithOperands(f, f.op, g, f.rhs)
              /\ Replaced(f, "rhs", g) = WithOperands(f, f.op, f.lhs, g)
         /\ f \in Ifs(Tree) =>
              /\ Replaced(f, "cond", g) = WithBranches(f, g, f.then, f.else)
              /\ Replaced(f, "then", g) = WithBranches(f, f.cond, g, f.else)
              /\ Replaced(f, "else", g) = WithBranches(f, f.cond, f.then, g)
<1>1. f \in BinOps(Tree) =>
        /\ Replaced(f, "lhs", g) = WithOperands(f, f.op, g, f.rhs)
        /\ Replaced(f, "rhs", g) = WithOperands(f, f.op, f.lhs, g)
  BY DEF Replaced, WithOperands, BinOps
<1>2. f \in Ifs(Tree) =>
        /\ Replaced(f, "cond", g) = WithBranches(f, g, f.then, f.else)
        /\ Replaced(f, "then", g) = WithBranches(f, f.cond, g, f.else)
        /\ Replaced(f, "else", g) = WithBranches(f, f.cond, f.then, g)
  BY DEF Replaced, WithBranches, Ifs
<1> QED
  BY <1>1, <1>2

(* A part of a tree, and what a tree is with another one.                    *)
LEMMA PartIsTree ==
  ASSUME NEW f \in Tree, NEW part \in Parts(f)
  PROVE  /\ f[part] \in Tree /\ f[part].type \in Types
         /\ \A g \in AllTrees : Replaced(f, part, g) \in AllTrees
<1>1. CASE f \in Atoms
  BY <1>1, AtomFacts
<1>2. CASE f \in BinOps(Tree)
  <2>1. /\ part \in {"lhs", "rhs"} /\ f.op \in Int
        /\ f.lhs \in Tree /\ f.rhs \in Tree /\ f["lhs"] = f.lhs /\ f["rhs"] = f.rhs
    BY <1>2, BinOpFacts
  <2>2. ASSUME NEW g \in AllTrees
        PROVE  Replaced(f, part, g) \in AllTrees
    <3>1. f.lhs \in AllTrees /\ f.rhs \in AllTrees
      BY <2>1, TreeIsTree
    <3>2. /\ WithOperands(f, f.op, g, f.rhs) \in BinOps(AllTrees)
          /\ WithOperands(f, f.op, f.lhs, g) \in BinOps(AllTrees)
      BY <1>2, <2>1, <3>1, WithOperandsIs
    <3>3. \/ Replaced(f, part, g) = WithOperands(f, f.op, g, f.rhs)
          \/ Replaced(f, part, g) = WithOperands(f, f.op, f.lhs, g)
      BY <1>2, <2>1, ReplacedIs
    <3> QED
      BY <3>2, <3>3, MadeOfTrees
  <2> QED
    BY <2>1, <2>2, TreeKinds, AtomFacts, BinOpFacts, IfFacts
<1>3. CASE f \in Ifs(Tree)
  <2>1. /\ part \in {"cond", "then", "else"}
        /\ f.cond \in Tree /\ f.then \in Tree /\ f.else \in Tree
        /\ f["cond"] = f.cond /\ f["then"] = f.then /\ f["else"] = f.else
    BY <1>3, IfFacts
  <2>2. ASSUME NEW g \in AllTrees
        PROVE  Replaced(f, part, g) \in AllTrees
    <3>1. f.cond \in AllTrees /\ f.then \in AllTrees /\ f.else \in AllTrees
      BY <2>1, TreeIsTree
    <3>2. /\ WithBranches(f, g, f.then, f.else) \in Ifs(AllTrees)
          /\ WithBranches(f, f.cond, g, f.else) \in Ifs(AllTrees)
          /\ WithBranches(f, f.cond, f.then, g) \in Ifs(AllTrees)
      BY <1>3, <3>1, WithBranchesIs
    <3>3. \/ Replaced(f, part, g) = WithBranches(f, g, f.then, f.else)
          \/ Replaced(f, part, g) = WithBranches(f, f.cond, g, f.else)
          \/ Replaced(f, part, g) = WithBranches(f, f.cond, f.then, g)
      BY <1>3, <2>1, ReplacedIs
    <3> QED
      BY <3>2, <3>3, MadeOfTrees
  <2> QED
    BY <2>1, <2>2, TreeKinds, AtomFacts, BinOpFacts, IfFacts
<1> QED
  BY <1>1, <1>2, <1>3, TreeKinds

(* What evolves of a tree.                                                   *)
LEMMA EvolvedIs ==
  ASSUME NEW f \in Tree, NEW max \in Int, NEW g \in Evolved[f][max]
  PROVE  \/ /\ isLiteral(f)
            /\ \E v \in IF f.type = "Bool" THEN {1 - f.value} ELSE Evolutions(f.value) :
                 g = Lit(f.type, v)
         \/ /\ f.kind = "feature"
            /\ \E p \in Features : g = Feature(p)
         \/ /\ ~isLiteral(f) /\ f.kind # "feature"
            /\ \E part \in Parts(f) : \E h :
                 /\ g = Replaced(f, part, h)
                 /\ \/ h \in Formulas(f[part].type, max - Nodes[f] + Nodes[f[part]])
                    \/ h \in Evolved[f[part]][max - Nodes[f] + Nodes[f[part]]]
<1> DEFINE V == [Int -> SUBSET AllTrees]
           Part(t, F, m, part) ==
             {[t EXCEPT ![part] = h] :
                h \in Formulas(t[part].type, m - Nodes[t] + Nodes[t[part]])
                        \cup F[t[part]][m - Nodes[t] + Nodes[t[part]]]}
           Values(t) == IF t.type = "Bool" THEN {1 - t.value} ELSE Evolutions(t.value)
           Value(t, F, m) ==
             CASE isLiteral(t) -> {Lit(t.type, v) : v \in Values(t)}
               [] t.kind = "feature" -> {Feature(p) : p \in Features}
               [] OTHER -> UNION {Part(t, F, m, part) : part \in Parts(t)}
           On(t, F) == [m \in Int |-> Value(t, F, m)]
<1>1. PICK below : below = [t \in Tree |-> {t[part] : part \in Parts(t)}]
  OBVIOUS
<1>2. PICK rank : RanksBelow(below, Tree, rank, MaxNodes)
  BY <1>1, TreeRanks
<1>3. PICK step : step = [t \in Tree |-> [r \in [below[t] -> V] |-> On(t, r)]]
  OBVIOUS
<1>4. StepsBelow(step, below, Tree, V)
  <2>1. V # {}
    <3>1. [m \in Int |-> {}] \in V
      OBVIOUS
    <3> QED
      BY <3>1
  <2>2. ASSUME NEW t \in Tree, NEW r \in [below[t] -> V]
        PROVE  On(t, r) \in V
    <3>1. ASSUME NEW m \in Int
          PROVE  Value(t, r, m) \subseteq AllTrees
      <4>1. ASSUME isLiteral(t)
            PROVE  Value(t, r, m) \subseteq AllTrees
        <5>1. ASSUME NEW v \in Values(t)
              PROVE  Lit(t.type, v) \in AllTrees
          <6>1. t.type \in Types /\ t.value \in Int
            BY <4>1, LiteralsAreAtoms, TreeIsTree
          <6>2. v \in Int
            <7>1. 0 \in Int /\ Wrap(2 * t.value) \in Int
              <8>1. 2 * t.value \in Int
                BY <6>1
              <8> QED
                BY <8>1, WrapIsInt, FormulaAssumption DEF Ints
            <7> QED
              BY <5>1, <6>1, <7>1 DEF Evolutions, RandomInts
          <6> QED
            BY <6>1, <6>2, LiteralIs, MadeOfTrees
        <5>2. t.kind # "feature"
          BY <4>1 DEF isLiteral
        <5> HIDE DEF Values
        <5> QED
          BY <4>1, <5>1, <5>2
      <4>2. ASSUME ~isLiteral(t), t.kind = "feature"
            PROVE  Value(t, r, m) \subseteq AllTrees
        <5>1. ASSUME NEW p \in Features
              PROVE  Feature(p) \in AllTrees
          <6>1. Feature(p) \in Atoms
            BY DEF Feature, Atoms
          <6> QED
            BY <6>1, MadeOfTrees
        <5> QED
          BY <4>2, <5>1
      <4>3. ASSUME ~isLiteral(t), t.kind # "feature"
            PROVE  Value(t, r, m) \subseteq AllTrees
        <5>1. ASSUME NEW part \in Parts(t), NEW h \in Part(t, r, m, part)
              PROVE  h \in AllTrees
          <6>1. PICK room : room = m - Nodes[t] + Nodes[t[part]]
            OBVIOUS
          <6>2. t[part] \in Tree /\ t[part].type \in Types
            BY PartIsTree
          <6>3. room \in Int
            <7>1. Nodes[t] \in Nat /\ Nodes[t[part]] \in Nat
              BY <6>2, NodesAre
            <7> QED
              BY <6>1, <7>1
          <6>4. PICK g1 \in Formulas(t[part].type, room) \cup r[t[part]][room] :
                  h = [t EXCEPT ![part] = g1]
            BY <5>1, <6>1
          <6>5. g1 \in AllTrees
            <7>1. t[part] \in below[t]
              BY <1>1
            <7>2. r[t[part]][room] \subseteq AllTrees
              BY <6>3, <7>1
            <7>3. Formulas(t[part].type, room) \subseteq AllTrees
              BY <6>2, <6>3, FormulasTyped, TreeIsTree DEF TypedTrees
            <7> QED
              BY <6>4, <7>2, <7>3
          <6>6. h = Replaced(t, part, g1)
            BY <6>4 DEF Replaced
          <6> QED
            BY <6>5, <6>6, PartIsTree
        <5> HIDE DEF Part
        <5> QED
          BY <4>3, <5>1
      <4> HIDE DEF Value
      <4> QED
        BY <4>1, <4>2, <4>3
    <3> HIDE DEF Value
    <3> QED
      BY <3>1
  <2> HIDE DEF V, On
  <2> QED
    BY <1>3, <2>1, <2>2 DEF StepsBelow
<1>5. PICK F \in [Tree -> V] : \A t \in Tree : F[t] = step[t][[u \in below[t] |-> F[u]]]
  <2> HIDE DEF V
  <2> QED
    BY <1>2, <1>4, FunctionExists
<1>6. ASSUME NEW t \in Tree
      PROVE  F[t] = On(t, F)
  <2>1. below[t] \subseteq Tree
    BY <1>2 DEF RanksBelow
  <2>2. PICK r \in [below[t] -> V] : r = [u \in below[t] |-> F[u]]
    <3> HIDE DEF V
    <3> QED
      BY <2>1
  <2>3. F[t] = On(t, r)
    <3> HIDE DEF V, On
    <3> QED
      BY <1>3, <1>5, <2>2
  <2>4. ASSUME NEW part \in Parts(t), NEW m \in Int
        PROVE  Part(t, r, m, part) = Part(t, F, m, part)
    <3>1. r[t[part]] = F[t[part]]
      BY <1>1, <2>2
    <3> QED
      BY <3>1
  <2>5. ASSUME NEW m \in Int
        PROVE  Value(t, r, m) = Value(t, F, m)
    <3> HIDE DEF Part
    <3>1. UNION {Part(t, r, m, part) : part \in Parts(t)}
            = UNION {Part(t, F, m, part) : part \in Parts(t)}
      BY <2>4
    <3> QED
      BY <3>1
  <2>6. On(t, r) = On(t, F)
    <3> HIDE DEF Value
    <3> QED
      BY <2>5
  <2> HIDE DEF On
  <2> QED
    BY <2>3, <2>6
<1>7. F = [t \in Tree |-> On(t, F)]
  <2> HIDE DEF On
  <2> QED
    BY <1>6
<1>8. Evolved = [t \in Tree |-> On(t, Evolved)]
  <2>1. Evolved = CHOOSE G : G = [t \in Tree |-> On(t, G)]
    BY ONLY Zenon DEF Evolved, On, Value, Part, Values
  <2> HIDE DEF On
  <2> QED
    BY ONLY <1>7, <2>1, Zenon
<1>9. g \in Value(f, Evolved, max)
  <2>1. Evolved[f] = On(f, Evolved)
    <3> HIDE DEF On
    <3> QED
      BY <1>8
  <2> HIDE DEF Value
  <2> QED
    BY <2>1
<1>10. ASSUME isLiteral(f)
       PROVE  \E v \in IF f.type = "Bool" THEN {1 - f.value} ELSE Evolutions(f.value) :
                g = Lit(f.type, v)
  <2>1. \E v \in Values(f) : g = Lit(f.type, v)
    <3>1. f.kind # "feature"
      BY <1>10 DEF isLiteral
    <3> HIDE DEF Values
    <3> QED
      BY <1>9, <1>10, <3>1
  <2> QED
    BY <2>1
<1>11. ASSUME ~isLiteral(f), f.kind = "feature"
       PROVE  \E p \in Features : g = Feature(p)
  BY <1>9, <1>11
<1>12. ASSUME ~isLiteral(f), f.kind # "feature"
       PROVE  \E part \in Parts(f) : \E h :
                /\ g = Replaced(f, part, h)
                /\ \/ h \in Formulas(f[part].type, max - Nodes[f] + Nodes[f[part]])
                   \/ h \in Evolved[f[part]][max - Nodes[f] + Nodes[f[part]]]
  <2>1. PICK part \in Parts(f) : g \in Part(f, Evolved, max, part)
    <3> HIDE DEF Part
    <3> QED
      BY <1>9, <1>12
  <2> QED
    BY <2>1 DEF Replaced
<1> QED
  BY <1>10, <1>11, <1>12

(* A tree whose part is replaced by another that fits.                       *)
LEMMA ReplacedTyped ==
  ASSUME NEW f \in TypedTrees, NEW part \in Parts(f),
         NEW g \in TypedTrees, g.type = f[part].type,
         Nodes[f] - Nodes[f[part]] + Nodes[g] <= MaxNodes
  PROVE  /\ f[part] \in TypedTrees /\ Nodes[f[part]] <= Nodes[f]
         /\ Replaced(f, part, g) \in TypedTrees
         /\ Replaced(f, part, g).type = f.type
         /\ Nodes[Replaced(f, part, g)] = Nodes[f] - Nodes[f[part]] + Nodes[g]
<1>1. /\ TypedTrees \subseteq Tree /\ f \in Tree /\ g \in Tree
      /\ Nodes[f] \in Nat /\ Nodes[g] \in Nat /\ MaxNodes \in Nat /\ Nodes[f] <= MaxNodes
  BY NodesAre, FormulaAssumption DEF TypedTrees
<1>2. CASE f \in Atoms
  BY <1>2, AtomFacts
<1>3. CASE f \in BinOps(Tree)
  <2>1. /\ part \in {"lhs", "rhs"} /\ f.op \in Int
        /\ f["lhs"] = f.lhs /\ f["rhs"] = f.rhs
        /\ f.lhs \in TypedTrees /\ f.rhs \in TypedTrees /\ WellTyped(f)
        /\ f.lhs \in Tree /\ f.rhs \in Tree
        /\ Nodes[f.lhs] \in Nat /\ Nodes[f.rhs] \in Nat
        /\ Nodes[f] = 1 + Nodes[f.lhs] + Nodes[f.rhs]
    BY <1>1, <1>3, BinOpFacts, TypedTreesAre, NodesAre
  <2>2. ASSUME NEW l \in TypedTrees, NEW r \in TypedTrees,
               l.type = f.lhs.type, r.type = f.rhs.type,
               1 + Nodes[l] + Nodes[r] <= MaxNodes
        PROVE  /\ WithOperands(f, f.op, l, r) \in TypedTrees
               /\ WithOperands(f, f.op, l, r).type = f.type
               /\ Nodes[WithOperands(f, f.op, l, r)] = 1 + Nodes[l] + Nodes[r]
    <3>1. PICK w : w = WithOperands(f, f.op, l, r)
      OBVIOUS
    <3>2. l \in Tree /\ r \in Tree
      BY <1>1, <2>2
    <3>3. /\ w \in BinOps(Tree) /\ w.kind = f.kind /\ w.type = f.type /\ w.optype = f.optype
          /\ w.op = f.op /\ w.lhs = l /\ w.rhs = r
      BY <1>3, <2>1, <3>1, <3>2, WithOperandsIs
    <3>4. WellTyped(w)
      <4>1. getOperator(w) = getOperator(f)
        BY <3>3 DEF getOperator
      <4> QED
        BY <1>3, <2>1, <2>2, <3>3, <4>1, WellTypedIs
    <3>5. w \in TypedTrees
      BY <2>2, <3>3, <3>4, TypedTreesAre
    <3>6. Nodes[w] = 1 + Nodes[l] + Nodes[r]
      BY <1>1, <3>3, <3>5, NodesAre
    <3> QED
      BY <3>1, <3>3, <3>5, <3>6
  <2>3. CASE part = "lhs"
    <3>1. 1 + Nodes[g] + Nodes[f.rhs] <= MaxNodes
      BY <1>1, <2>1, <2>3
    <3>2. Replaced(f, part, g) = WithOperands(f, f.op, g, f.rhs)
      BY <1>1, <1>3, <2>3, ReplacedIs
    <3> QED
      BY <1>1, <2>1, <2>2, <2>3, <3>1, <3>2
  <2>4. CASE part = "rhs"
    <3>1. 1 + Nodes[f.lhs] + Nodes[g] <= MaxNodes
      BY <1>1, <2>1, <2>4
    <3>2. Replaced(f, part, g) = WithOperands(f, f.op, f.lhs, g)
      BY <1>1, <1>3, <2>4, ReplacedIs
    <3> QED
      BY <1>1, <2>1, <2>2, <2>4, <3>1, <3>2
  <2> QED
    BY <2>1, <2>3, <2>4
<1>4. CASE f \in Ifs(Tree)
  <2>1. /\ part \in {"cond", "then", "else"}
        /\ f["cond"] = f.cond /\ f["then"] = f.then /\ f["else"] = f.else
        /\ f.cond \in TypedTrees /\ f.then \in TypedTrees /\ f.else \in TypedTrees
        /\ WellTyped(f) /\ f.cond \in Tree /\ f.then \in Tree /\ f.else \in Tree
        /\ Nodes[f.cond] \in Nat /\ Nodes[f.then] \in Nat /\ Nodes[f.else] \in Nat
        /\ Nodes[f] = 1 + Nodes[f.cond] + Nodes[f.then] + Nodes[f.else]
    BY <1>1, <1>4, IfFacts, TypedTreesAre, NodesAre
  <2>2. ASSUME NEW c \in TypedTrees, NEW a \in TypedTrees, NEW b \in TypedTrees,
               c.type = f.cond.type, a.type = f.then.type, b.type = f.else.type,
               1 + Nodes[c] + Nodes[a] + Nodes[b] <= MaxNodes
        PROVE  /\ WithBranches(f, c, a, b) \in TypedTrees
               /\ WithBranches(f, c, a, b).type = f.type
               /\ Nodes[WithBranches(f, c, a, b)] = 1 + Nodes[c] + Nodes[a] + Nodes[b]
    <3>1. PICK w : w = WithBranches(f, c, a, b)
      OBVIOUS
    <3>2. c \in Tree /\ a \in Tree /\ b \in Tree
      BY <1>1, <2>2
    <3>3. w \in Ifs(Tree) /\ w.type = f.type /\ w.cond = c /\ w.then = a /\ w.else = b
      BY <1>4, <3>1, <3>2, WithBranchesIs
    <3>4. WellTyped(w)
      BY <1>4, <2>1, <2>2, <3>3, WellTypedIs
    <3>5. w \in TypedTrees
      BY <2>2, <3>3, <3>4, TypedTreesAre
    <3>6. Nodes[w] = 1 + Nodes[c] + Nodes[a] + Nodes[b]
      BY <1>1, <3>3, <3>5, NodesAre
    <3> QED
      BY <3>1, <3>3, <3>5, <3>6
  <2>3. CASE part = "cond"
    <3>1. 1 + Nodes[g] + Nodes[f.then] + Nodes[f.else] <= MaxNodes
      BY <1>1, <2>1, <2>3
    <3>2. Replaced(f, part, g) = WithBranches(f, g, f.then, f.else)
      BY <1>1, <1>4, <2>3, ReplacedIs
    <3> QED
      BY <1>1, <2>1, <2>2, <2>3, <3>1, <3>2
  <2>4. CASE part = "then"
    <3>1. 1 + Nodes[f.cond] + Nodes[g] + Nodes[f.else] <= MaxNodes
      BY <1>1, <2>1, <2>4
    <3>2. Replaced(f, part, g) = WithBranches(f, f.cond, g, f.else)
      BY <1>1, <1>4, <2>4, ReplacedIs
    <3> QED
      BY <1>1, <2>1, <2>2, <2>4, <3>1, <3>2
  <2>5. CASE part = "else"
    <3>1. 1 + Nodes[f.cond] + Nodes[f.then] + Nodes[g] <= MaxNodes
      BY <1>1, <2>1, <2>5
    <3>2. Replaced(f, part, g) = WithBranches(f, f.cond, f.then, g)
      BY <1>1, <1>4, <2>5, ReplacedIs
    <3> QED
      BY <1>1, <2>1, <2>2, <2>5, <3>1, <3>2
  <2> QED
    BY <2>1, <2>3, <2>4, <2>5
<1> QED
  BY <1>1, <1>2, <1>3, <1>4, TreeKinds

(* What evolves of a tree whose types fit has its type, and its types fit.   *)
LEMMA EvolvedTyped ==
  ASSUME NEW f \in TypedTrees, NEW max \in Int, Nodes[f] <= max, max <= MaxNodes,
         NEW g \in Evolved[f][max]
  PROVE  g \in TypedTrees /\ g.type = f.type /\ Nodes[g] <= max
<1> DEFINE Fits(t) == \A m \in Int : Nodes[t] <= m /\ m <= MaxNodes =>
                        \A u \in Evolved[t][m] :
                          u \in TypedTrees /\ u.type = t.type /\ Nodes[u] <= m
           Good == {t \in Tree : t \in TypedTrees => Fits(t)}
<1>1. TypedTrees \subseteq Tree /\ MaxNodes \in Nat \ {0} /\ Ints \subseteq Int
  BY FormulaAssumption DEF TypedTrees, Ints
<1>2. ASSUME NEW t \in Tree, t \in Atoms
      PROVE  t \in Good
  <2>1. ASSUME t \in TypedTrees, NEW m \in Int, Nodes[t] <= m, m <= MaxNodes,
               NEW u \in Evolved[t][m]
        PROVE  u \in TypedTrees /\ u.type = t.type /\ Nodes[u] <= m
    <3>1. Nodes[t] = 1 /\ t.type \in Types
      BY <1>2, NodesAre, AtomFacts
    <3>2. ASSUME isLiteral(t), t.type = "Bool", u = Lit(t.type, 1 - t.value)
          PROVE  u \in TypedTrees /\ u.type = t.type /\ u \in Atoms
      <4>1. t.value \in 0..1
        BY <1>2, <2>1, <3>2, TypedTreesAre, WellTypedIs
      <4>2. PICK v \in 0..1 : v = 1 - t.value
        BY <4>1
      <4> QED
        BY <3>1, <3>2, <4>2, TypedLiteral, LiteralIs DEF SimpleTrees
    <3>3. ASSUME isLiteral(t), t.type = "Int", NEW v \in Evolutions(t.value), u = Lit(t.type, v)
          PROVE  u \in TypedTrees /\ u.type = t.type /\ u \in Atoms
      <4>1. t.value \in Ints
        BY <1>2, <2>1, <3>3, TypedTreesAre, WellTypedIs
      <4>2. PICK w \in Ints : w = Wrap(2 * t.value)
        <5>1. PICK k \in Int : k = t.value
          BY <1>1, <4>1
        <5>2. 2 * k \in Int
          OBVIOUS
        <5>3. Wrap(2 * k) \in Ints
          BY <5>2, WrapIsInt
        <5> QED
          BY <5>1, <5>3
      <4>3. v \in Ints
        <5>1. PICK h \in Nat \ {0} : h = Half
          BY FormulaAssumption
        <5>2. w \in -h .. h - 1
          BY <4>2, <5>1 DEF Ints
        <5>3. v \in IF w >= 0 THEN 0..w ELSE w + 1 .. 0
          BY <3>3, <4>2 DEF Evolutions, RandomInts
        <5>4. v \in -h .. h - 1
          BY <5>1, <5>2, <5>3
        <5> QED
          BY <5>1, <5>4 DEF Ints
      <4> QED
        BY <1>1, <3>1, <3>3, <4>3, TypedLiteral, LiteralIs DEF SimpleTrees
    <3>4. ASSUME t.kind = "feature", NEW p \in Features, u = Feature(p)
          PROVE  u \in TypedTrees /\ u.type = t.type /\ u \in Atoms
      <4>1. u \in Atoms /\ u.type = "Int" /\ ~isLiteral(u)
        BY <3>4 DEF Feature, Atoms, isLiteral
      <4>2. u \in TypedTrees
        BY <4>1, WellTypedIs, TypedTreesAre
      <4> QED
        BY <1>2, <3>4, <4>1, <4>2, AtomFacts
    <3>5. u \in TypedTrees /\ u.type = t.type /\ u \in Atoms
      <4>1. Parts(t) = {}
        BY <1>2, AtomFacts
      <4> QED
        BY <2>1, <3>1, <3>2, <3>3, <3>4, <4>1, EvolvedIs DEF Types
    <3>6. Nodes[u] = 1
      BY <1>1, <3>5, NodesAre
    <3> QED
      BY <2>1, <3>1, <3>5, <3>6
  <2> QED
    BY <2>1
<1>3. ASSUME NEW t \in Tree, t \notin Atoms, \A part \in Parts(t) : t[part] \in Good
      PROVE  t \in Good
  <2>1. ASSUME t \in TypedTrees, NEW m \in Int, Nodes[t] <= m, m <= MaxNodes,
               NEW u \in Evolved[t][m]
        PROVE  u \in TypedTrees /\ u.type = t.type /\ Nodes[u] <= m
    <3>1. ~isLiteral(t) /\ t.kind # "feature"
      BY <1>3, TreeKinds, BinOpFacts, IfFacts
    <3>2. PICK part \in Parts(t) : \E e :
            /\ u = Replaced(t, part, e)
            /\ \/ e \in Formulas(t[part].type, m - Nodes[t] + Nodes[t[part]])
               \/ e \in Evolved[t[part]][m - Nodes[t] + Nodes[t[part]]]
      BY <2>1, <3>1, EvolvedIs
    <3>2a. PICK h :
            /\ u = Replaced(t, part, h)
            /\ \/ h \in Formulas(t[part].type, m - Nodes[t] + Nodes[t[part]])
               \/ h \in Evolved[t[part]][m - Nodes[t] + Nodes[t[part]]]
      BY <3>2
    <3>3. PICK part1, room : part1 = t[part] /\ room = m - Nodes[t] + Nodes[part1]
      OBVIOUS
    <3>4. /\ part1 \in Tree /\ part1.type \in Types
          /\ Nodes[part1] \in Nat /\ Nodes[t] \in Nat
      BY <3>3, PartIsTree, NodesAre
    <3>5. part1 \in TypedTrees /\ Nodes[part1] <= Nodes[t]
      <4>1. part1 \in TypedTrees
        BY <2>1, <3>3, TreeKinds, AtomFacts, BinOpFacts, IfFacts, TypedTreesAre
      <4>2. Nodes[t] - Nodes[part1] + Nodes[part1] <= MaxNodes
        BY <1>1, <2>1, <3>4
      <4> QED
        BY <2>1, <3>3, <4>1, <4>2, ReplacedTyped
    <3>6. room \in Int /\ Nodes[part1] <= room /\ room <= MaxNodes
      BY <1>1, <2>1, <3>3, <3>4, <3>5
    <3>7. h \in TypedTrees /\ h.type = part1.type /\ Nodes[h] <= room
      <4>1. CASE h \in Formulas(part1.type, room)
        BY <3>4, <3>6, <4>1, FormulasTyped
      <4>2. CASE h \in Evolved[part1][room]
        <5>1. Fits(part1)
          BY <1>3, <3>3, <3>5
        <5> QED
          BY <3>6, <4>2, <5>1
      <4> QED
        BY <3>2a, <3>3, <4>1, <4>2
    <3>8. Nodes[h] \in Nat
      BY <1>1, <3>7, NodesAre
    <3>9. /\ Nodes[t] - Nodes[part1] + Nodes[h] <= m
          /\ Nodes[t] - Nodes[part1] + Nodes[h] <= MaxNodes
      BY <1>1, <2>1, <3>3, <3>4, <3>7, <3>8
    <3>10. /\ u \in TypedTrees /\ u.type = t.type
           /\ Nodes[u] = Nodes[t] - Nodes[part1] + Nodes[h]
      BY <2>1, <3>2a, <3>3, <3>7, <3>9, ReplacedTyped
    <3> QED
      BY <3>9, <3>10
  <2> QED
    BY <2>1
<1>4. Tree \subseteq Good
  <2> HIDE DEF Fits
  <2>1. \A t \in Tree \cap Atoms : t \in Good
    BY <1>2
  <2>2. \A t \in Tree \cap BinOps(Tree) : t.lhs \in Good /\ t.rhs \in Good => t \in Good
    <3> HIDE DEF Good
    <3>1. ASSUME NEW t \in Tree \cap BinOps(Tree), t.lhs \in Good, t.rhs \in Good
          PROVE  t \in Good
      <4>1. /\ Parts(t) = {"lhs", "rhs"} /\ t["lhs"] = t.lhs /\ t["rhs"] = t.rhs
            /\ t \notin Atoms
        BY BinOpFacts, AtomFacts
      <4> QED
        BY <1>3, <3>1, <4>1
    <3> QED
      BY <3>1
  <2>3. \A t \in Tree \cap Ifs(Tree) :
          t.cond \in Good /\ t.then \in Good /\ t.else \in Good => t \in Good
    <3> HIDE DEF Good
    <3>1. ASSUME NEW t \in Tree \cap Ifs(Tree),
                 t.cond \in Good, t.then \in Good, t.else \in Good
          PROVE  t \in Good
      <4>1. /\ Parts(t) = {"cond", "then", "else"} /\ t["cond"] = t.cond
            /\ t["then"] = t.then /\ t["else"] = t.else /\ t \notin Atoms
        BY IfFacts, AtomFacts
      <4> QED
        BY <1>3, <3>1, <4>1
    <3> QED
      BY <3>1
  <2> HIDE DEF Good
  <2> QED
    BY <2>1, <2>2, <2>3, TreeInduction
<1> QED
  BY <1>1, <1>4

(***************************************************************************)
(* Comparison.                                                             *)
(***************************************************************************)
Arity(f) == IF isBinOp(f) THEN 2 ELSE IF f.kind = "if" THEN 3 ELSE 0

(* What is compared before operands are, as one number.                      *)
HeadNumber(f) == 9 * KindNumber(f) + 3 * TypeNumber(f.type) + TypeNumber(OperandsType(f))

(* The operands that are compared are the parts, and only atoms have none.   *)
LEMMA OperandsAre ==
  ASSUME NEW f \in Tree
  PROVE  /\ Arity(f) \in Nat /\ DOMAIN Operands(f) = 1..Arity(f)
         /\ \A i \in 1..Arity(f) : /\ Operands(f)[i] \in Tree
                                   /\ \E part \in Parts(f) : Operands(f)[i] = f[part]
         /\ Operands(f) = <<>> <=> Arity(f) = 0
         /\ Arity(f) = 0 <=> f \in Atoms
<1>1. CASE f \in Atoms
  <2>1. Operands(f) = <<>> /\ Arity(f) = 0
    BY <1>1, AtomFacts DEF Operands, Arity
  <2> QED
    BY <1>1, <2>1
<1>2. CASE f \in BinOps(Tree)
  <2>1. Operands(f) = <<f.lhs, f.rhs>> /\ Arity(f) = 2
    BY <1>2, BinOpFacts DEF Operands, Arity
  <2>2. /\ f.lhs \in Tree /\ f.rhs \in Tree /\ Parts(f) = {"lhs", "rhs"}
        /\ f["lhs"] = f.lhs /\ f["rhs"] = f.rhs /\ f \notin Atoms
    BY <1>2, BinOpFacts, AtomFacts
  <2> QED
    BY <2>1, <2>2
<1>3. CASE f \in Ifs(Tree)
  <2>1. Operands(f) = <<f.cond, f.then, f.else>> /\ Arity(f) = 3
    BY <1>3, IfFacts DEF Operands, Arity
  <2>2. /\ f.cond \in Tree /\ f.then \in Tree /\ f.else \in Tree
        /\ Parts(f) = {"cond", "then", "else"}
        /\ f["cond"] = f.cond /\ f["then"] = f.then /\ f["else"] = f.else /\ f \notin Atoms
    BY <1>3, IfFacts, AtomFacts
  <2> QED
    BY <2>1, <2>2
<1> QED
  BY <1>1, <1>2, <1>3, TreeKinds

(* What operator< looks at before the operands is one number, in their order.*)
LEMMA HeadIs ==
  ASSUME NEW f \in Tree, NEW g \in Tree
  PROVE  /\ HeadNumber(f) \in Int
         /\ HeadNumber(f) = HeadNumber(g) <=>
              /\ f.kind = g.kind
              /\ f.type = g.type
              /\ OperandsType(f) = OperandsType(g)
         /\ KindNumber(f) # KindNumber(g) =>
              (KindNumber(f) < KindNumber(g) <=> HeadNumber(f) < HeadNumber(g))
         /\ KindNumber(f) = KindNumber(g) /\ f.type # g.type =>
              (TypeNumber(f.type) < TypeNumber(g.type) <=> HeadNumber(f) < HeadNumber(g))
         /\ KindNumber(f) = KindNumber(g) /\ f.type = g.type
              /\ OperandsType(f) # OperandsType(g) =>
                (TypeNumber(OperandsType(f)) < TypeNumber(OperandsType(g))
                   <=> HeadNumber(f) < HeadNumber(g))
         /\ KindNumber(f) = KindNumber(g) <=> f.kind = g.kind
         /\ HeadNumber(f) = HeadNumber(g) => Arity(f) = Arity(g)
<1>1. ASSUME NEW h \in Tree
      PROVE  /\ KindNumber(h) \in 0..4
             /\ KindNumber(h) = 0 <=> h.kind = "literal"
             /\ KindNumber(h) = 1 <=> h.kind = "bool-binop"
             /\ KindNumber(h) = 2 <=> h.kind = "arith-binop"
             /\ KindNumber(h) = 3 <=> h.kind = "if"
             /\ KindNumber(h) = 4 <=> h.kind = "feature"
             /\ h.type \in Types /\ OperandsType(h) \in Types
  <2>1. h.kind \in {"literal", "bool-binop", "arith-binop", "if", "feature"}
    BY TreeKinds, AtomFacts, BinOpFacts, IfFacts
  <2>2. h.type \in Types /\ (isBinOp(h) => h.optype \in Types)
    BY TreeKinds, AtomFacts, BinOpFacts, IfFacts
  <2> QED
    BY <2>1, <2>2 DEF KindNumber, isLiteral, OperandsType
<1>2. /\ \A t \in Types : TypeNumber(t) \in {0, 2}
      /\ \A t, u \in Types : TypeNumber(t) = TypeNumber(u) <=> t = u
  BY DEF Types, TypeNumber
<1>3. KindNumber(f) = KindNumber(g) <=> f.kind = g.kind
  BY <1>1
<1>4. PICK k, m, a, b, c, d :
        /\ k = KindNumber(f) /\ m = KindNumber(g)
        /\ a = TypeNumber(f.type) /\ b = TypeNumber(g.type)
        /\ c = TypeNumber(OperandsType(f)) /\ d = TypeNumber(OperandsType(g))
  OBVIOUS
<1>5. /\ k \in 0..4 /\ m \in 0..4 /\ a \in {0, 2} /\ b \in {0, 2} /\ c \in {0, 2} /\ d \in {0, 2}
      /\ k = m <=> f.kind = g.kind
      /\ a = b <=> f.type = g.type
      /\ c = d <=> OperandsType(f) = OperandsType(g)
  BY <1>1, <1>2, <1>3, <1>4
<1>6. HeadNumber(f) = 9 * k + 3 * a + c /\ HeadNumber(g) = 9 * m + 3 * b + d
  BY <1>4 DEF HeadNumber
<1>7. /\ HeadNumber(f) = HeadNumber(g) <=> k = m /\ a = b /\ c = d
      /\ k # m => (k < m <=> HeadNumber(f) < HeadNumber(g))
      /\ k = m /\ a # b => (a < b <=> HeadNumber(f) < HeadNumber(g))
      /\ k = m /\ a = b /\ c # d => (c < d <=> HeadNumber(f) < HeadNumber(g))
      /\ HeadNumber(f) \in Int
  BY <1>5, <1>6
<1>8. f.kind = g.kind => Arity(f) = Arity(g)
  BY DEF Arity, isBinOp
<1> QED
  BY <1>3, <1>4, <1>5, <1>7, <1>8

(***************************************************************************)
(* The order of formulas.  Same and Sooner are what operator== and operator<  *)
(* answer where a feature finds itself different from any other formula.    *)
(* They are an order, and they are among the outcomes of operator== and      *)
(* operator<: where there is one outcome only, it is theirs.                *)
(***************************************************************************)
Same[f \in Tree] ==
  [g \in Tree |->
     /\ f.kind = g.kind
     /\ f.type = g.type
     /\ OperandsType(f) = OperandsType(g)
     /\ IF Operands(f) = <<>> THEN Leaf(f) = Leaf(g)
        ELSE \A i \in DOMAIN Operands(f) : Same[Operands(f)[i]][Operands(g)[i]]]

Sooner[f \in Tree] ==
  [g \in Tree |->
     IF KindNumber(f) # KindNumber(g) THEN KindNumber(f) < KindNumber(g)
     ELSE IF f.type # g.type THEN TypeNumber(f.type) < TypeNumber(g.type)
     ELSE IF OperandsType(f) # OperandsType(g)
          THEN TypeNumber(OperandsType(f)) < TypeNumber(OperandsType(g))
     ELSE IF Operands(f) = <<>> THEN Leaf(f) < Leaf(g)
     ELSE \E i \in DOMAIN Operands(f) :
            /\ \A j \in 1..i-1 : Same[Operands(f)[j]][Operands(g)[j]]
            /\ ~Same[Operands(f)[i]][Operands(g)[i]]
            /\ Sooner[Operands(f)[i]][Operands(g)[i]]]

(* What is compared when two trees are.                                      *)
LEMMA SameIs ==
  ASSUME NEW f \in Tree, NEW g \in Tree
  PROVE  /\ Same[f][g] \in BOOLEAN
         /\ Same[f][g] <=>
              /\ f.kind = g.kind
              /\ f.type = g.type
              /\ OperandsType(f) = OperandsType(g)
              /\ IF Operands(f) = <<>> THEN Leaf(f) = Leaf(g)
                 ELSE \A i \in DOMAIN Operands(f) : Same[Operands(f)[i]][Operands(g)[i]]
<1> DEFINE V == [Tree -> BOOLEAN]
           Value(t, u, F) ==
             /\ t.kind = u.kind
             /\ t.type = u.type
             /\ OperandsType(t) = OperandsType(u)
             /\ IF Operands(t) = <<>> THEN Leaf(t) = Leaf(u)
                ELSE \A i \in DOMAIN Operands(t) : F[Operands(t)[i]][Operands(u)[i]]
           On(t, F) == [u \in Tree |-> Value(t, u, F)]
<1>1. PICK below : below = [t \in Tree |-> {t[part] : part \in Parts(t)}]
  OBVIOUS
<1>2. PICK rank : RanksBelow(below, Tree, rank, MaxNodes)
  BY <1>1, TreeRanks
<1>3. PICK step : step = [t \in Tree |-> [r \in [below[t] -> V] |-> On(t, r)]]
  OBVIOUS
<1>4. \A t, u, F : Value(t, u, F) \in BOOLEAN
  OBVIOUS
<1>5. \A t, F : On(t, F) \in V
  <2> HIDE DEF Value
  <2> QED
    BY <1>4
<1>6. StepsBelow(step, below, Tree, V)
  <2>1. V # {}
    <3> HIDE DEF V
    <3> QED
      BY <1>5
  <2> HIDE DEF V, On
  <2> QED
    BY <1>3, <1>5, <2>1 DEF StepsBelow
<1>7. PICK F \in [Tree -> V] : \A t \in Tree : F[t] = step[t][[u \in below[t] |-> F[u]]]
  <2> HIDE DEF V
  <2> QED
    BY <1>2, <1>6, FunctionExists
<1>8. ASSUME NEW t \in Tree
      PROVE  F[t] = On(t, F)
  <2>1. below[t] \subseteq Tree
    BY <1>2 DEF RanksBelow
  <2>2. PICK r \in [below[t] -> V] : r = [u \in below[t] |-> F[u]]
    <3> HIDE DEF V
    <3> QED
      BY <2>1
  <2>3. F[t] = On(t, r)
    <3> HIDE DEF V, On
    <3> QED
      BY <1>3, <1>7, <2>2
  <2>4. ASSUME NEW i \in DOMAIN Operands(t)
        PROVE  r[Operands(t)[i]] = F[Operands(t)[i]]
    <3>1. Operands(t)[i] \in below[t]
      BY <1>1, OperandsAre
    <3> QED
      BY <2>2, <3>1
  <2>5. ASSUME NEW u \in Tree
        PROVE  Value(t, u, r) = Value(t, u, F)
    BY <2>4
  <2>6. On(t, r) = On(t, F)
    <3> HIDE DEF Value
    <3> QED
      BY <2>5
  <2> HIDE DEF On
  <2> QED
    BY <2>3, <2>6
<1>9. F = [t \in Tree |-> On(t, F)]
  <2> HIDE DEF On
  <2> QED
    BY <1>8
<1>10. Same = [t \in Tree |-> On(t, Same)]
  <2>1. Same = CHOOSE G : G = [t \in Tree |-> On(t, G)]
    BY ONLY Zenon DEF Same, On, Value
  <2> HIDE DEF On
  <2> QED
    BY ONLY <1>9, <2>1, Zenon
<1>11. Same[f][g] = Value(f, g, Same)
  <2>1. Same[f] = On(f, Same)
    <3> HIDE DEF On
    <3> QED
      BY <1>10
  <2> HIDE DEF Value
  <2> QED
    BY <2>1
<1> QED
  BY <1>11

(* Sooner: the number, then leaves or the first operands that differ.        *)
LEMMA SoonerIs ==
  ASSUME NEW f \in Tree, NEW g \in Tree
  PROVE  /\ Sooner[f][g] \in BOOLEAN
         /\ HeadNumber(f) # HeadNumber(g) => (Sooner[f][g] <=> HeadNumber(f) < HeadNumber(g))
         /\ HeadNumber(f) = HeadNumber(g) /\ Operands(f) = <<>> =>
              (Sooner[f][g] <=> Leaf(f) < Leaf(g))
         /\ HeadNumber(f) = HeadNumber(g) /\ Operands(f) # <<>> =>
              (Sooner[f][g] <=>
                 \E i \in DOMAIN Operands(f) :
                   /\ \A j \in 1..i-1 : Same[Operands(f)[j]][Operands(g)[j]]
                   /\ ~Same[Operands(f)[i]][Operands(g)[i]]
                   /\ Sooner[Operands(f)[i]][Operands(g)[i]])
<1> DEFINE V == [Tree -> BOOLEAN]
           First(t, u, F) ==
             \E i \in DOMAIN Operands(t) :
               /\ \A j \in 1..i-1 : Same[Operands(t)[j]][Operands(u)[j]]
               /\ ~Same[Operands(t)[i]][Operands(u)[i]]
               /\ F[Operands(t)[i]][Operands(u)[i]]
           Value(t, u, F) ==
             IF KindNumber(t) # KindNumber(u) THEN KindNumber(t) < KindNumber(u)
             ELSE IF t.type # u.type THEN TypeNumber(t.type) < TypeNumber(u.type)
             ELSE IF OperandsType(t) # OperandsType(u)
                  THEN TypeNumber(OperandsType(t)) < TypeNumber(OperandsType(u))
             ELSE IF Operands(t) = <<>> THEN Leaf(t) < Leaf(u)
             ELSE First(t, u, F)
           On(t, F) == [u \in Tree |-> Value(t, u, F)]
<1>1. PICK below : below = [t \in Tree |-> {t[part] : part \in Parts(t)}]
  OBVIOUS
<1>2. PICK rank : RanksBelow(below, Tree, rank, MaxNodes)
  BY <1>1, TreeRanks
<1>3. PICK step : step = [t \in Tree |-> [r \in [below[t] -> V] |-> On(t, r)]]
  OBVIOUS
<1>4. \A t, u, F : Value(t, u, F) \in BOOLEAN
  <2>1. \A t, u, F : First(t, u, F) \in BOOLEAN
    OBVIOUS
  <2>2. \A t, u : (KindNumber(t) < KindNumber(u)) \in BOOLEAN /\ (Leaf(t) < Leaf(u)) \in BOOLEAN
    OBVIOUS
  <2>3. \A t, u : (TypeNumber(t) < TypeNumber(u)) \in BOOLEAN
    OBVIOUS
  <2> HIDE DEF First
  <2> QED
    BY <2>1, <2>2, <2>3
<1>5. \A t, F : On(t, F) \in V
  <2> HIDE DEF Value
  <2> QED
    BY <1>4
<1>6. StepsBelow(step, below, Tree, V)
  <2>1. V # {}
    <3> HIDE DEF V
    <3> QED
      BY <1>5
  <2> HIDE DEF V, On
  <2> QED
    BY <1>3, <1>5, <2>1 DEF StepsBelow
<1>7. PICK F \in [Tree -> V] : \A t \in Tree : F[t] = step[t][[u \in below[t] |-> F[u]]]
  <2> HIDE DEF V
  <2> QED
    BY <1>2, <1>6, FunctionExists
<1>8. ASSUME NEW t \in Tree
      PROVE  F[t] = On(t, F)
  <2>1. below[t] \subseteq Tree
    BY <1>2 DEF RanksBelow
  <2>2. PICK r \in [below[t] -> V] : r = [u \in below[t] |-> F[u]]
    <3> HIDE DEF V
    <3> QED
      BY <2>1
  <2>3. F[t] = On(t, r)
    <3> HIDE DEF V, On
    <3> QED
      BY <1>3, <1>7, <2>2
  <2>4. ASSUME NEW i \in DOMAIN Operands(t)
        PROVE  r[Operands(t)[i]] = F[Operands(t)[i]]
    <3>1. Operands(t)[i] \in below[t]
      BY <1>1, OperandsAre
    <3> QED
      BY <2>2, <3>1
  <2>5. ASSUME NEW u \in Tree
        PROVE  Value(t, u, r) = Value(t, u, F)
    <3>1. First(t, u, r) = First(t, u, F)
      BY <2>4
    <3> HIDE DEF First
    <3> QED
      BY <3>1
  <2>6. On(t, r) = On(t, F)
    <3> HIDE DEF Value
    <3> QED
      BY <2>5
  <2> HIDE DEF On
  <2> QED
    BY <2>3, <2>6
<1>9. F = [t \in Tree |-> On(t, F)]
  <2> HIDE DEF On
  <2> QED
    BY <1>8
<1>10. Sooner = [t \in Tree |-> On(t, Sooner)]
  <2>1. Sooner = CHOOSE G : G = [t \in Tree |-> On(t, G)]
    BY ONLY Zenon DEF Sooner, On, Value, First
  <2> HIDE DEF On
  <2> QED
    BY ONLY <1>9, <2>1, Zenon
<1>11. Sooner[f][g] = Value(f, g, Sooner)
  <2>1. Sooner[f] = On(f, Sooner)
    <3> HIDE DEF On
    <3> QED
      BY <1>10
  <2> HIDE DEF Value
  <2> QED
    BY <2>1
<1>12. Sooner[f][g] \in BOOLEAN
  <2> HIDE DEF Value
  <2> QED
    BY <1>4, <1>11
<1>13. /\ HeadNumber(f) # HeadNumber(g) => (Sooner[f][g] <=> HeadNumber(f) < HeadNumber(g))
       /\ HeadNumber(f) = HeadNumber(g) /\ Operands(f) = <<>> => (Sooner[f][g] <=> Leaf(f) < Leaf(g))
       /\ HeadNumber(f) = HeadNumber(g) /\ Operands(f) # <<>> => (Sooner[f][g] <=> First(f, g, Sooner))
  <2>1. CASE KindNumber(f) # KindNumber(g)
    BY <1>11, <2>1, HeadIs
  <2> QED
    BY <1>11, HeadIs
<1> QED
  BY <1>12, <1>13

(* What holds of a tree if it holds of its operands holds of every tree.     *)
LEMMA OperandInduction ==
  ASSUME NEW Good,
         \A f \in Tree : (\A i \in 1..Arity(f) : Operands(f)[i] \in Good) => f \in Good
  PROVE  Tree \subseteq Good
<1>1. ASSUME NEW f \in Tree \cap Atoms
      PROVE  f \in Good
  <2>1. Arity(f) = 0
    BY OperandsAre
  <2>2. \A i \in 1..0 : Operands(f)[i] \in Good
    OBVIOUS
  <2> QED
    BY <2>1, <2>2
<1>2. ASSUME NEW f \in Tree \cap BinOps(Tree), f.lhs \in Good, f.rhs \in Good
      PROVE  f \in Good
  <2>1. Operands(f) = <<f.lhs, f.rhs>> /\ Arity(f) = 2
    BY BinOpFacts DEF Operands, Arity
  <2>2. \A i \in 1..2 : <<f.lhs, f.rhs>>[i] \in Good
    BY <1>2
  <2> QED
    BY <2>1, <2>2
<1>3. ASSUME NEW f \in Tree \cap Ifs(Tree), f.cond \in Good, f.then \in Good, f.else \in Good
      PROVE  f \in Good
  <2>1. Operands(f) = <<f.cond, f.then, f.else>> /\ Arity(f) = 3
    BY IfFacts DEF Operands, Arity
  <2>2. \A i \in 1..3 : <<f.cond, f.then, f.else>>[i] \in Good
    BY <1>3
  <2> QED
    BY <2>1, <2>2
<1> QED
  BY <1>1, <1>2, <1>3, TreeInduction

(* The first operands that differ.                                          *)
Differ(f, g, i) ==
  /\ \A j \in 1..i-1 : Same[Operands(f)[j]][Operands(g)[j]]
  /\ ~Same[Operands(f)[i]][Operands(g)[i]]

(* What Same and Sooner say of two trees: what comes before the             *)
(* operands decides, then the first operands that differ.                   *)
LEMMA OrderIs ==
  ASSUME NEW f \in Tree, NEW g \in Tree
  PROVE  /\ Same[f][g] \in BOOLEAN /\ Sooner[f][g] \in BOOLEAN
         /\ HeadNumber(f) \in Int /\ HeadNumber(g) \in Int
         /\ HeadNumber(f) # HeadNumber(g) =>
              ~Same[f][g] /\ (Sooner[f][g] <=> HeadNumber(f) < HeadNumber(g))
         /\ HeadNumber(f) = HeadNumber(g) => Arity(f) = Arity(g)
         /\ HeadNumber(f) = HeadNumber(g) /\ Arity(f) = 0 =>
              /\ Leaf(f) \in Int /\ Leaf(g) \in Int
              /\ Same[f][g] <=> Leaf(f) = Leaf(g)
              /\ Sooner[f][g] <=> Leaf(f) < Leaf(g)
         /\ HeadNumber(f) = HeadNumber(g) /\ Arity(f) # 0 =>
              /\ Same[f][g] <=> \A i \in 1..Arity(f) : Same[Operands(f)[i]][Operands(g)[i]]
              /\ \A i \in 1..Arity(f) :
                   Differ(f, g, i) => (Sooner[f][g] <=> Sooner[Operands(f)[i]][Operands(g)[i]])
              /\ ~Same[f][g] => \E i \in 1..Arity(f) : Differ(f, g, i)
<1>1. /\ Arity(f) \in Nat /\ DOMAIN Operands(f) = 1..Arity(f)
      /\ Operands(f) = <<>> <=> Arity(f) = 0
      /\ Arity(f) = 0 <=> f \in Atoms
      /\ Arity(g) = 0 <=> g \in Atoms
  BY OperandsAre
<1>2. /\ HeadNumber(f) \in Int /\ HeadNumber(g) \in Int
      /\ HeadNumber(f) = HeadNumber(g) <=> /\ f.kind = g.kind
                                           /\ f.type = g.type
                                           /\ OperandsType(f) = OperandsType(g)
      /\ HeadNumber(f) = HeadNumber(g) => Arity(f) = Arity(g)
  BY HeadIs
<1>3. /\ Same[f][g] \in BOOLEAN /\ Sooner[f][g] \in BOOLEAN
      /\ Same[f][g] <=>
           /\ HeadNumber(f) = HeadNumber(g)
           /\ IF Operands(f) = <<>> THEN Leaf(f) = Leaf(g)
              ELSE \A i \in DOMAIN Operands(f) : Same[Operands(f)[i]][Operands(g)[i]]
  BY <1>2, SameIs, SoonerIs
<1>4. HeadNumber(f) # HeadNumber(g) =>
        ~Same[f][g] /\ (Sooner[f][g] <=> HeadNumber(f) < HeadNumber(g))
  BY <1>3, SoonerIs
<1>5. ASSUME HeadNumber(f) = HeadNumber(g), Arity(f) = 0
      PROVE  /\ Leaf(f) \in Int /\ Leaf(g) \in Int
             /\ Same[f][g] <=> Leaf(f) = Leaf(g)
             /\ Sooner[f][g] <=> Leaf(f) < Leaf(g)
  <2>1. f \in Atoms /\ g \in Atoms
    BY <1>1, <1>2, <1>5
  <2>2. Leaf(f) \in Int /\ Leaf(g) \in Int
    <3>1. Features \subseteq Int
      BY FormulaAssumption
    <3>2. ASSUME NEW t \in Atoms
          PROVE  Leaf(t) \in Int
      <4>1. CASE t.kind = "literal"
        BY <4>1, AtomFacts DEF Leaf, isLiteral
      <4>2. CASE t.kind = "feature"
        BY <3>1, <4>2, AtomFacts DEF Leaf, isLiteral
      <4> QED
        BY <4>1, <4>2, AtomFacts
    <3> QED
      BY <2>1, <3>2
  <2> QED
    BY <1>1, <1>3, <1>5, <2>2, SoonerIs
<1>6. ASSUME HeadNumber(f) = HeadNumber(g), Arity(f) # 0
      PROVE  /\ Same[f][g] <=> \A i \in 1..Arity(f) : Same[Operands(f)[i]][Operands(g)[i]]
             /\ \A i \in 1..Arity(f) :
                  Differ(f, g, i) => (Sooner[f][g] <=> Sooner[Operands(f)[i]][Operands(g)[i]])
             /\ ~Same[f][g] => \E i \in 1..Arity(f) : Differ(f, g, i)
  <2> DEFINE E(i) == Same[Operands(f)[i]][Operands(g)[i]]
             L(i) == Sooner[Operands(f)[i]][Operands(g)[i]]
  <2>1. Same[f][g] <=> \A i \in 1..Arity(f) : E(i)
    BY <1>1, <1>3, <1>6 DEF Compared
  <2>2. Sooner[f][g] <=> \E i \in 1..Arity(f) : (\A j \in 1..i-1 : E(j)) /\ ~E(i) /\ L(i)
    BY <1>1, <1>6, SoonerIs
  <2>3. \A i : Differ(f, g, i) <=> (\A j \in 1..i-1 : E(j)) /\ ~E(i)
    BY DEF Differ
  <2> HIDE DEF E, L
  <2>4. ASSUME NEW i \in 1..Arity(f), Differ(f, g, i)
        PROVE  Sooner[f][g] <=> L(i)
    <3>1. ASSUME NEW k \in 1..Arity(f), \A j \in 1..k-1 : E(j), ~E(k)
          PROVE  k = i
      <4>1. i \in Int /\ k \in Int /\ 1 <= i /\ 1 <= k
        BY <1>1
      <4>2. ~(k < i)
        BY <2>3, <2>4, <3>1, <4>1
      <4>3. ~(i < k)
        BY <2>3, <2>4, <3>1, <4>1
      <4> QED
        BY <4>1, <4>2, <4>3
    <3> QED
      BY <2>2, <2>3, <2>4, <3>1
  <2>5. ASSUME ~Same[f][g]
        PROVE  \E i \in 1..Arity(f) : Differ(f, g, i)
    <3>1. PICK T : T = {i \in 1..Arity(f) : ~E(i)}
      OBVIOUS
    <3>2. T \subseteq Nat /\ T # {}
      BY <1>1, <2>1, <2>5, <3>1
    <3>3. PICK i \in T : \A m \in T : i <= m
      BY <3>2, SmallestOf
    <3>4. i \in 1..Arity(f) /\ ~E(i)
      BY <3>1
    <3>5. \A j \in 1..i-1 : E(j)
      <4>1. ASSUME NEW j \in 1..i-1, ~E(j)
            PROVE  FALSE
        <5>1. j \in 1..Arity(f) /\ ~(i <= j)
          BY <1>1, <3>4, <4>1
        <5> QED
          BY <3>1, <3>3, <4>1, <5>1
      <4> QED
        BY <4>1
    <3> QED
      BY <2>3, <3>4, <3>5
  <2> QED
    BY <2>1, <2>4, <2>5 DEF E, L
<1> QED
  BY <1>2, <1>3, <1>4, <1>5, <1>6

(* Same is an equivalence.                                                  *)
LEMMA SameIsEquivalence ==
  \A f, g, h \in Tree :
    /\ Same[f][f]
    /\ Same[f][g] => Same[g][f]
    /\ Same[f][g] /\ Same[g][h] => Same[f][h]
<1> DEFINE Good == {f \in Tree : /\ Same[f][f]
                                 /\ \A g \in Tree : Same[f][g] => Same[g][f]
                                 /\ \A g, h \in Tree : Same[f][g] /\ Same[g][h] => Same[f][h]}
<1>1. ASSUME NEW f \in Tree, \A i \in 1..Arity(f) : Operands(f)[i] \in Good
      PROVE  f \in Good
  <2>1. \A t \in Tree : \A i \in 1..Arity(t) : Operands(t)[i] \in Tree
    BY OperandsAre
  <2>2. Same[f][f]
    <3>1. CASE Arity(f) = 0
      BY <3>1, OrderIs
    <3>2. CASE Arity(f) # 0
      <4>1. \A i \in 1..Arity(f) : Same[Operands(f)[i]][Operands(f)[i]]
        BY <1>1
      <4> QED
        BY <3>2, <4>1, OrderIs
    <3> QED
      BY <3>1, <3>2
  <2>3. ASSUME NEW g \in Tree, Same[f][g]
        PROVE  Same[g][f]
    <3>1. HeadNumber(f) = HeadNumber(g) /\ Arity(f) = Arity(g)
      BY <2>3, OrderIs
    <3>2. CASE Arity(f) = 0
      BY <2>3, <3>1, <3>2, OrderIs
    <3>3. CASE Arity(f) # 0
      <4>1. \A i \in 1..Arity(f) : Same[Operands(f)[i]][Operands(g)[i]]
        BY <2>3, <3>1, <3>3, OrderIs
      <4>2. \A i \in 1..Arity(g) : Same[Operands(g)[i]][Operands(f)[i]]
        BY <1>1, <2>1, <3>1, <4>1
      <4> QED
        BY <3>1, <3>3, <4>2, OrderIs
    <3> QED
      BY <3>2, <3>3
  <2>4. ASSUME NEW g \in Tree, NEW h \in Tree, Same[f][g], Same[g][h]
        PROVE  Same[f][h]
    <3>1. /\ HeadNumber(f) = HeadNumber(g) /\ Arity(f) = Arity(g)
          /\ HeadNumber(g) = HeadNumber(h) /\ Arity(g) = Arity(h)
      BY <2>4, OrderIs
    <3>2. CASE Arity(f) = 0
      <4>1. Leaf(f) = Leaf(g) /\ Leaf(g) = Leaf(h)
        BY <2>4, <3>1, <3>2, OrderIs
      <4>2. Leaf(f) = Leaf(h)
        BY <4>1
      <4> QED
        BY <3>1, <3>2, <4>2, OrderIs
    <3>3. CASE Arity(f) # 0
      <4>1. /\ \A i \in 1..Arity(f) : Same[Operands(f)[i]][Operands(g)[i]]
            /\ \A i \in 1..Arity(f) : Same[Operands(g)[i]][Operands(h)[i]]
        BY <2>4, <3>1, <3>3, OrderIs
      <4>2. \A i \in 1..Arity(f) : Same[Operands(f)[i]][Operands(h)[i]]
        BY <1>1, <2>1, <3>1, <4>1
      <4> QED
        BY <3>1, <3>3, <4>2, OrderIs
    <3> QED
      BY <3>2, <3>3
  <2> QED
    BY <2>2, <2>3, <2>4
<1> HIDE DEF Good
<1>2. Tree \subseteq Good
  BY <1>1, OperandInduction
<1> QED
  BY <1>2 DEF Good

(* Of two trees one is sooner than the other, or they are the same.          *)
LEMMA OneOfThree ==
  \A f, g \in Tree :
    /\ Same[f][g] => ~Sooner[f][g] /\ ~Sooner[g][f]
    /\ ~Same[f][g] => (Sooner[f][g] <=> ~Sooner[g][f])
<1> DEFINE Three(f, g) == /\ Same[f][g] => ~Sooner[f][g] /\ ~Sooner[g][f]
                          /\ ~Same[f][g] => (Sooner[f][g] <=> ~Sooner[g][f])
           Good == {f \in Tree : \A g \in Tree : Three(f, g)}
<1>1. ASSUME NEW f \in Tree, \A i \in 1..Arity(f) : Operands(f)[i] \in Good, NEW g \in Tree
      PROVE  Three(f, g)
  <2>1. \A t \in Tree : \A i \in 1..Arity(t) : Operands(t)[i] \in Tree
    BY OperandsAre
  <2>2. Same[f][g] <=> Same[g][f]
    BY SameIsEquivalence, OrderIs
  <2>3. CASE HeadNumber(f) # HeadNumber(g)
    BY <2>3, OrderIs
  <2>4. CASE HeadNumber(f) = HeadNumber(g) /\ Arity(f) = 0
    BY <2>4, OrderIs
  <2>5. CASE HeadNumber(f) = HeadNumber(g) /\ Arity(f) # 0
    <3>1. Arity(f) = Arity(g)
      BY <2>5, OrderIs
    <3>2. ASSUME NEW i \in 1..Arity(f)
          PROVE  /\ Three(Operands(f)[i], Operands(g)[i])
                 /\ Differ(f, g, i) => Differ(g, f, i)
      <4>1. Operands(f)[i] \in Tree /\ Operands(g)[i] \in Tree
        BY <2>1, <3>1
      <4>2. Three(Operands(f)[i], Operands(g)[i])
        BY <1>1, <4>1
      <4>3. ASSUME Differ(f, g, i)
            PROVE  Differ(g, f, i)
        <5>1. \A j \in 1..i-1 : j \in 1..Arity(f)
          BY OperandsAre
        <5>2. \A j \in 1..Arity(f) : Operands(f)[j] \in Tree /\ Operands(g)[j] \in Tree
          BY <2>1, <3>1
        <5> QED
          BY <4>1, <4>3, <5>1, <5>2, SameIsEquivalence DEF Differ
      <4> QED
        BY <4>2, <4>3
    <3>3. CASE Same[f][g]
      <4>1. \A i \in 1..Arity(f) : Same[Operands(f)[i]][Operands(g)[i]]
        BY <2>5, <3>3, OrderIs
      <4>2. ~Sooner[f][g]
        <5>1. ~ \E i \in 1..Arity(f) : ~Same[Operands(f)[i]][Operands(g)[i]]
          BY <4>1
        <5>2. /\ DOMAIN Operands(f) = 1..Arity(f)
              /\ Operands(f) # <<>>
          BY <2>5, OperandsAre
        <5> QED
          BY <2>5, <5>1, <5>2, SoonerIs
      <4>3. ~Sooner[g][f]
        <5>1. Same[g][f]
          BY <2>2, <3>3
        <5>2. \A i \in 1..Arity(g) : Same[Operands(g)[i]][Operands(f)[i]]
          BY <2>5, <3>1, <5>1, OrderIs
        <5>3. ~ \E i \in 1..Arity(g) : ~Same[Operands(g)[i]][Operands(f)[i]]
          BY <5>2
        <5>4. /\ DOMAIN Operands(g) = 1..Arity(g)
              /\ Operands(g) # <<>>
          BY <2>5, <3>1, OperandsAre
        <5> QED
          BY <2>5, <5>3, <5>4, SoonerIs
      <4> QED
        BY <3>3, <4>2, <4>3
    <3>4. CASE ~Same[f][g]
      <4>1. PICK i \in 1..Arity(f) : Differ(f, g, i)
        BY <2>5, <3>4, OrderIs
      <4>2. Sooner[f][g] <=> Sooner[Operands(f)[i]][Operands(g)[i]]
        BY <2>5, <4>1, OrderIs
      <4>3. Sooner[g][f] <=> Sooner[Operands(g)[i]][Operands(f)[i]]
        BY <2>5, <3>1, <3>2, <4>1, OrderIs
      <4>4. ~Same[Operands(f)[i]][Operands(g)[i]]
        BY <4>1 DEF Differ
      <4> QED
        BY <3>2, <3>4, <4>2, <4>3, <4>4
    <3> QED
      BY <3>3, <3>4
  <2> QED
    BY <2>3, <2>4, <2>5
<1> HIDE DEF Three
<1>2. \A f \in Tree : (\A i \in 1..Arity(f) : Operands(f)[i] \in Good) => f \in Good
  BY <1>1
<1> HIDE DEF Good
<1>3. Tree \subseteq Good
  BY <1>2, OperandInduction
<1> QED
  BY <1>3 DEF Good, Three

(* The first operands that differ decide, once what comes before is equal.   *)
LEMMA FirstDecides ==
  ASSUME NEW f \in Tree, NEW h \in Tree, HeadNumber(f) = HeadNumber(h),
         NEW i \in 1..Arity(f),
         \A j \in 1..i-1 : Same[Operands(f)[j]][Operands(h)[j]],
         Sooner[Operands(f)[i]][Operands(h)[i]]
  PROVE  Sooner[f][h]
<1>1. Arity(f) \in Nat /\ Arity(f) # 0 /\ Arity(f) = Arity(h)
  BY OperandsAre, OrderIs
<1>2. Operands(f)[i] \in Tree /\ Operands(h)[i] \in Tree
  BY <1>1, OperandsAre
<1>3. ~Same[Operands(f)[i]][Operands(h)[i]]
  BY <1>2, OneOfThree
<1>4. Differ(f, h, i)
  BY <1>3 DEF Differ
<1> QED
  BY <1>1, <1>4, OrderIs

(* Where the first operands that differ are, of one tree before another.     *)
LEMMA FirstOf ==
  ASSUME NEW f \in Tree, NEW g \in Tree, HeadNumber(f) = HeadNumber(g), Arity(f) # 0,
         Sooner[f][g]
  PROVE  \E i \in 1..Arity(f) : /\ \A j \in 1..i-1 : Same[Operands(f)[j]][Operands(g)[j]]
                                /\ Sooner[Operands(f)[i]][Operands(g)[i]]
<1>1. ~Same[f][g]
  BY OneOfThree
<1>2. PICK i \in 1..Arity(f) : Differ(f, g, i)
  BY <1>1, OrderIs
<1>3. Sooner[Operands(f)[i]][Operands(g)[i]]
  BY <1>2, OrderIs
<1> QED
  BY <1>2, <1>3 DEF Differ

(* Sooner is transitive, also through what is the same.                     *)
LEMMA SoonerIsTransitive ==
  \A f, g, h \in Tree :
    /\ Same[f][g] /\ Sooner[g][h] => Sooner[f][h]
    /\ Sooner[f][g] /\ Same[g][h] => Sooner[f][h]
    /\ Sooner[f][g] /\ Sooner[g][h] => Sooner[f][h]
<1> DEFINE E(f, g) == Same[f][g]
           L(f, g) == Sooner[f][g]
           Trans(f, g, h) == /\ E(f, g) /\ L(g, h) => L(f, h)
                             /\ L(f, g) /\ E(g, h) => L(f, h)
                             /\ L(f, g) /\ L(g, h) => L(f, h)
           Good == {f \in Tree : \A g, h \in Tree : Trans(f, g, h)}
<1>1. ASSUME NEW f \in Tree, \A i \in 1..Arity(f) : Operands(f)[i] \in Good,
             NEW g \in Tree, NEW h \in Tree
      PROVE  Trans(f, g, h)
  <2>1. \A t, u \in Tree : /\ HeadNumber(t) \in Int
                           /\ HeadNumber(t) < HeadNumber(u) => L(t, u)
                           /\ L(t, u) => HeadNumber(t) <= HeadNumber(u)
                           /\ E(t, u) => HeadNumber(t) = HeadNumber(u)
    BY OrderIs
  <2>2. CASE ~(HeadNumber(f) = HeadNumber(g) /\ HeadNumber(g) = HeadNumber(h))
    <3>1. /\ HeadNumber(f) \in Int /\ HeadNumber(g) \in Int /\ HeadNumber(h) \in Int
          /\ HeadNumber(f) < HeadNumber(h) => L(f, h)
          /\ L(f, g) => HeadNumber(f) <= HeadNumber(g)
          /\ L(g, h) => HeadNumber(g) <= HeadNumber(h)
          /\ E(f, g) => HeadNumber(f) = HeadNumber(g)
          /\ E(g, h) => HeadNumber(g) = HeadNumber(h)
      BY <2>1
    <3> HIDE DEF E, L
    <3> QED
      BY <2>2, <3>1
  <2>3. CASE HeadNumber(f) = HeadNumber(g) /\ HeadNumber(g) = HeadNumber(h) /\ Arity(f) = 0
    <3>1. Arity(g) = 0 /\ HeadNumber(f) = HeadNumber(h)
      BY <2>3, OrderIs
    <3>2. /\ Leaf(f) \in Int /\ Leaf(g) \in Int /\ Leaf(h) \in Int
          /\ E(f, g) <=> Leaf(f) = Leaf(g)
          /\ E(g, h) <=> Leaf(g) = Leaf(h)
          /\ L(f, g) <=> Leaf(f) < Leaf(g)
          /\ L(g, h) <=> Leaf(g) < Leaf(h)
          /\ L(f, h) <=> Leaf(f) < Leaf(h)
      BY <2>3, <3>1, OrderIs
    <3> HIDE DEF E, L
    <3> QED
      BY <3>2
  <2>4. CASE HeadNumber(f) = HeadNumber(g) /\ HeadNumber(g) = HeadNumber(h) /\ Arity(f) # 0
    <3>1. /\ Arity(f) = Arity(g) /\ Arity(g) = Arity(h) /\ HeadNumber(f) = HeadNumber(h)
          /\ Arity(f) \in Nat
      BY <2>4, OrderIs, OperandsAre
    <3> DEFINE n == Arity(f)
               F(i) == Operands(f)[i]
               G(i) == Operands(g)[i]
               H(i) == Operands(h)[i]
    <3>2. \A i \in 1..n : F(i) \in Tree /\ G(i) \in Tree /\ H(i) \in Tree
      BY <3>1, OperandsAre
    <3>3. \A i \in 1..n : Trans(F(i), G(i), H(i))
      BY <1>1, <3>2
    <3>4. \A i \in 1..n : E(F(i), G(i)) /\ E(G(i), H(i)) => E(F(i), H(i))
      BY <3>2, SameIsEquivalence
    <3>5. ASSUME NEW i \in 1..n, \A j \in 1..i-1 : E(F(j), H(j)), L(F(i), H(i))
          PROVE  L(f, h)
      BY <3>1, <3>5, FirstDecides
    <3>6. E(f, g) => \A i \in 1..n : E(F(i), G(i))
      BY <2>4, OrderIs
    <3>7. E(g, h) => \A i \in 1..n : E(G(i), H(i))
      BY <2>4, <3>1, OrderIs
    <3>8. L(f, g) => \E i \in 1..n : (\A j \in 1..i-1 : E(F(j), G(j))) /\ L(F(i), G(i))
      BY <2>4, FirstOf
    <3>9. L(g, h) => \E i \in 1..n : (\A j \in 1..i-1 : E(G(j), H(j))) /\ L(G(i), H(i))
      BY <2>4, <3>1, FirstOf
    <3>10. n \in Nat
      BY <3>1
    <3> HIDE DEF n, F, G, H, E, L
    <3>11. ASSUME E(f, g), L(g, h)
           PROVE  L(f, h)
      <4>1. PICK i \in 1..n : (\A j \in 1..i-1 : E(G(j), H(j))) /\ L(G(i), H(i))
        BY <3>9, <3>11
      <4>2. \A j \in 1..i-1 : j \in 1..n
        BY <3>10
      <4>3. \A j \in 1..i-1 : E(F(j), H(j))
        BY <3>4, <3>6, <3>11, <4>1, <4>2
      <4>4. L(F(i), H(i))
        BY <3>3, <3>6, <3>11, <4>1
      <4> QED
        BY <3>5, <4>3, <4>4
    <3>12. ASSUME L(f, g), E(g, h)
           PROVE  L(f, h)
      <4>1. PICK i \in 1..n : (\A j \in 1..i-1 : E(F(j), G(j))) /\ L(F(i), G(i))
        BY <3>8, <3>12
      <4>2. \A j \in 1..i-1 : j \in 1..n
        BY <3>10
      <4>3. \A j \in 1..i-1 : E(F(j), H(j))
        BY <3>4, <3>7, <3>12, <4>1, <4>2
      <4>4. L(F(i), H(i))
        BY <3>3, <3>7, <3>12, <4>1
      <4> QED
        BY <3>5, <4>3, <4>4
    <3>13. ASSUME L(f, g), L(g, h)
           PROVE  L(f, h)
      <4>1. PICK i \in 1..n : (\A j \in 1..i-1 : E(F(j), G(j))) /\ L(F(i), G(i))
        BY <3>8, <3>13
      <4>2. PICK k \in 1..n : (\A j \in 1..k-1 : E(G(j), H(j))) /\ L(G(k), H(k))
        BY <3>9, <3>13
      <4>3. PICK m \in 1..n : m <= i /\ m <= k /\ (m = i \/ m = k)
        BY <3>10
      <4>4. \A j \in 1..m-1 : j \in 1..i-1 /\ j \in 1..k-1 /\ j \in 1..n
        BY <3>10, <4>3
      <4>5. \A j \in 1..m-1 : E(F(j), H(j))
        BY <3>4, <4>1, <4>2, <4>4
      <4>6. E(F(m), G(m)) \/ (m = i /\ L(F(m), G(m)))
        <5>1. CASE m = i
          BY <4>1, <5>1
        <5>2. CASE m < i
          BY <3>10, <4>1, <4>3, <5>2
        <5> QED
          BY <3>10, <4>3, <5>1, <5>2
      <4>7. E(G(m), H(m)) \/ (m = k /\ L(G(m), H(m)))
        <5>1. CASE m = k
          BY <4>2, <5>1
        <5>2. CASE m < k
          BY <3>10, <4>2, <4>3, <5>2
        <5> QED
          BY <3>10, <4>3, <5>1, <5>2
      <4>8. L(F(m), G(m)) \/ L(G(m), H(m))
        BY <4>1, <4>2, <4>3
      <4>9. L(F(m), H(m))
        BY <3>3, <4>6, <4>7, <4>8
      <4> QED
        BY <3>5, <4>5, <4>9
    <3> QED
      BY <3>11, <3>12, <3>13
  <2> QED
    BY <2>2, <2>3, <2>4
<1> HIDE DEF Trans
<1>2. \A f \in Tree : (\A i \in 1..Arity(f) : Operands(f)[i] \in Good) => f \in Good
  BY <1>1
<1> HIDE DEF Good
<1>3. Tree \subseteq Good
  BY <1>2, OperandInduction
<1> QED
  BY <1>3 DEF Good, Trans

(* operator==, tree by tree.                                                *)
LEMMA EqualIs ==
  ASSUME NEW f \in Tree, NEW g \in Tree
  PROVE  /\ Equal[f][g] \subseteq BOOLEAN
         /\ Equal[f][g] =
           IF Misread(f, g) THEN BOOLEAN
           ELSE IF ~SameHead(f, g) THEN {FALSE}
           ELSE IF Operands(f) = <<>> THEN {Leaf(f) = Leaf(g)}
           ELSE {answer \in BOOLEAN :
                   IF answer
                   THEN \A i \in Compared(f) : TRUE \in Equal[Operands(f)[i]][Operands(g)[i]]
                   ELSE \E i \in Compared(f) : FALSE \in Equal[Operands(f)[i]][Operands(g)[i]]}
<1> DEFINE V == [Tree -> SUBSET BOOLEAN]
           Every(t, u, F) ==
             {answer \in BOOLEAN :
                IF answer THEN \A i \in Compared(t) : TRUE \in F[Operands(t)[i]][Operands(u)[i]]
                ELSE \E i \in Compared(t) : FALSE \in F[Operands(t)[i]][Operands(u)[i]]}
           Value(t, u, F) ==
             IF Misread(t, u) THEN BOOLEAN
             ELSE IF ~SameHead(t, u) THEN {FALSE}
             ELSE IF Operands(t) = <<>> THEN {Leaf(t) = Leaf(u)}
             ELSE Every(t, u, F)
           On(t, F) == [u \in Tree |-> Value(t, u, F)]
<1>1. PICK below : below = [t \in Tree |-> {t[part] : part \in Parts(t)}]
  OBVIOUS
<1>2. PICK rank : RanksBelow(below, Tree, rank, MaxNodes)
  BY <1>1, TreeRanks
<1>3. PICK step : step = [t \in Tree |-> [r \in [below[t] -> V] |-> On(t, r)]]
  OBVIOUS
<1>4. \A t, u, F : Value(t, u, F) \in SUBSET BOOLEAN
  <2>1. \A t, u, F : Every(t, u, F) \in SUBSET BOOLEAN
    OBVIOUS
  <2>2. \A t, u : (Leaf(t) = Leaf(u)) \in BOOLEAN
    OBVIOUS
  <2> HIDE DEF Every
  <2> QED
    BY <2>1, <2>2
<1>5. \A t, F : On(t, F) \in V
  <2> HIDE DEF Value
  <2> QED
    BY <1>4
<1>6. StepsBelow(step, below, Tree, V)
  <2>1. V # {}
    <3> HIDE DEF V
    <3> QED
      BY <1>5
  <2> HIDE DEF V, On
  <2> QED
    BY <1>3, <1>5, <2>1 DEF StepsBelow
<1>7. PICK F \in [Tree -> V] : \A t \in Tree : F[t] = step[t][[u \in below[t] |-> F[u]]]
  <2> HIDE DEF V
  <2> QED
    BY <1>2, <1>6, FunctionExists
<1>8. ASSUME NEW t \in Tree
      PROVE  F[t] = On(t, F)
  <2>1. below[t] \subseteq Tree
    BY <1>2 DEF RanksBelow
  <2>2. PICK r \in [below[t] -> V] : r = [u \in below[t] |-> F[u]]
    <3> HIDE DEF V
    <3> QED
      BY <2>1
  <2>3. F[t] = On(t, r)
    <3> HIDE DEF V, On
    <3> QED
      BY <1>3, <1>7, <2>2
  <2>4. ASSUME NEW i \in Compared(t)
        PROVE  r[Operands(t)[i]] = F[Operands(t)[i]]
    <3> HIDE DEF V
    <3>1. Operands(t)[i] \in below[t]
      BY <1>1, OperandsAre DEF Compared
    <3> QED
      BY <2>2, <3>1
  <2>5. ASSUME NEW u \in Tree
        PROVE  Value(t, u, r) = Value(t, u, F)
    <3>1. Every(t, u, r) = Every(t, u, F)
      BY <2>4
    <3> HIDE DEF Every
    <3> QED
      BY <3>1
  <2>6. On(t, r) = On(t, F)
    <3> HIDE DEF Value
    <3> QED
      BY <2>5
  <2> HIDE DEF On
  <2> QED
    BY <2>3, <2>6
<1>9. F = [t \in Tree |-> On(t, F)]
  <2> HIDE DEF On
  <2> QED
    BY <1>8
<1>10. Equal = [t \in Tree |-> On(t, Equal)]
  <2>1. Equal = CHOOSE G : G = [t \in Tree |-> On(t, G)]
    BY ONLY Zenon DEF Equal, On, Value, Every
  <2> HIDE DEF On
  <2> QED
    BY ONLY <1>9, <2>1, Zenon
<1>11. Equal[f][g] = Value(f, g, Equal)
  <2>1. Equal[f] = On(f, Equal)
    <3> HIDE DEF On
    <3> QED
      BY <1>10
  <2> HIDE DEF Value
  <2> QED
    BY <2>1
<1>12. Value(f, g, Equal) \in SUBSET BOOLEAN
  <2> HIDE DEF Value
  <2> QED
    BY <1>4
<1>13. Equal[f][g] \subseteq BOOLEAN
  <2> HIDE DEF Value
  <2> QED
    BY <1>11, <1>12
<1> QED
  BY <1>11, <1>13

(* operator<, tree by tree.                                                 *)
LEMMA LessIs ==
  ASSUME NEW f \in Tree, NEW g \in Tree
  PROVE  /\ Less[f][g] \subseteq BOOLEAN
         /\ Less[f][g] =
           IF KindNumber(f) # KindNumber(g) THEN {KindNumber(f) < KindNumber(g)}
           ELSE IF f.type # g.type THEN {TypeNumber(f.type) < TypeNumber(g.type)}
           ELSE IF OperandsType(f) # OperandsType(g)
                THEN {TypeNumber(OperandsType(f)) < TypeNumber(OperandsType(g))}
           ELSE IF Operands(f) = <<>> THEN {Leaf(f) < Leaf(g)}
           ELSE {answer \in BOOLEAN :
                   \/ /\ answer = FALSE
                      /\ \A i \in DOMAIN Operands(f) :
                           TRUE \in Equal[Operands(f)[i]][Operands(g)[i]]
                   \/ \E i \in DOMAIN Operands(f) :
                        /\ \A j \in 1..i-1 : TRUE \in Equal[Operands(f)[j]][Operands(g)[j]]
                        /\ FALSE \in Equal[Operands(f)[i]][Operands(g)[i]]
                        /\ answer \in Less[Operands(f)[i]][Operands(g)[i]]}
<1> DEFINE V == [Tree -> SUBSET BOOLEAN]
           First(t, u, F) ==
             {answer \in BOOLEAN :
                \/ /\ answer = FALSE
                   /\ \A i \in DOMAIN Operands(t) : TRUE \in Equal[Operands(t)[i]][Operands(u)[i]]
                \/ \E i \in DOMAIN Operands(t) :
                     /\ \A j \in 1..i-1 : TRUE \in Equal[Operands(t)[j]][Operands(u)[j]]
                     /\ FALSE \in Equal[Operands(t)[i]][Operands(u)[i]]
                     /\ answer \in F[Operands(t)[i]][Operands(u)[i]]}
           Value(t, u, F) ==
             IF KindNumber(t) # KindNumber(u) THEN {KindNumber(t) < KindNumber(u)}
             ELSE IF t.type # u.type THEN {TypeNumber(t.type) < TypeNumber(u.type)}
             ELSE IF OperandsType(t) # OperandsType(u)
                  THEN {TypeNumber(OperandsType(t)) < TypeNumber(OperandsType(u))}
             ELSE IF Operands(t) = <<>> THEN {Leaf(t) < Leaf(u)}
             ELSE First(t, u, F)
           On(t, F) == [u \in Tree |-> Value(t, u, F)]
<1>1. PICK below : below = [t \in Tree |-> {t[part] : part \in Parts(t)}]
  OBVIOUS
<1>2. PICK rank : RanksBelow(below, Tree, rank, MaxNodes)
  BY <1>1, TreeRanks
<1>3. PICK step : step = [t \in Tree |-> [r \in [below[t] -> V] |-> On(t, r)]]
  OBVIOUS
<1>4. \A t, u, F : Value(t, u, F) \in SUBSET BOOLEAN
  <2>1. \A t, u, F : First(t, u, F) \in SUBSET BOOLEAN
    OBVIOUS
  <2>2. \A t, u : (KindNumber(t) < KindNumber(u)) \in BOOLEAN /\ (Leaf(t) < Leaf(u)) \in BOOLEAN
    OBVIOUS
  <2>3. \A t, u : (TypeNumber(t) < TypeNumber(u)) \in BOOLEAN
    OBVIOUS
  <2> HIDE DEF First
  <2> QED
    BY <2>1, <2>2, <2>3
<1>5. \A t, F : On(t, F) \in V
  <2> HIDE DEF Value
  <2> QED
    BY <1>4
<1>6. StepsBelow(step, below, Tree, V)
  <2>1. V # {}
    <3> HIDE DEF V
    <3> QED
      BY <1>5
  <2> HIDE DEF V, On
  <2> QED
    BY <1>3, <1>5, <2>1 DEF StepsBelow
<1>7. PICK F \in [Tree -> V] : \A t \in Tree : F[t] = step[t][[u \in below[t] |-> F[u]]]
  <2> HIDE DEF V
  <2> QED
    BY <1>2, <1>6, FunctionExists
<1>8. ASSUME NEW t \in Tree
      PROVE  F[t] = On(t, F)
  <2>1. below[t] \subseteq Tree
    BY <1>2 DEF RanksBelow
  <2>2. PICK r \in [below[t] -> V] : r = [u \in below[t] |-> F[u]]
    <3> HIDE DEF V
    <3> QED
      BY <2>1
  <2>3. F[t] = On(t, r)
    <3> HIDE DEF V, On
    <3> QED
      BY <1>3, <1>7, <2>2
  <2>4. ASSUME NEW i \in DOMAIN Operands(t)
        PROVE  r[Operands(t)[i]] = F[Operands(t)[i]]
    <3> HIDE DEF V
    <3>1. Operands(t)[i] \in below[t]
      BY <1>1, OperandsAre
    <3> QED
      BY <2>2, <3>1
  <2>5. ASSUME NEW u \in Tree
        PROVE  Value(t, u, r) = Value(t, u, F)
    <3>1. First(t, u, r) = First(t, u, F)
      BY <2>4
    <3> HIDE DEF First
    <3> QED
      BY <3>1
  <2>6. On(t, r) = On(t, F)
    <3> HIDE DEF Value
    <3> QED
      BY <2>5
  <2> HIDE DEF On
  <2> QED
    BY <2>3, <2>6
<1>9. F = [t \in Tree |-> On(t, F)]
  <2> HIDE DEF On
  <2> QED
    BY <1>8
<1>10. Less = [t \in Tree |-> On(t, Less)]
  <2>1. Less = CHOOSE G : G = [t \in Tree |-> On(t, G)]
    BY ONLY Zenon DEF Less, On, Value, First
  <2> HIDE DEF On
  <2> QED
    BY ONLY <1>9, <2>1, Zenon
<1>11. Less[f][g] = Value(f, g, Less)
  <2>1. Less[f] = On(f, Less)
    <3> HIDE DEF On
    <3> QED
      BY <1>10
  <2> HIDE DEF Value
  <2> QED
    BY <2>1
<1>12. Value(f, g, Less) \in SUBSET BOOLEAN
  <2> HIDE DEF Value
  <2> QED
    BY <1>4
<1>13. Less[f][g] \subseteq BOOLEAN
  <2> HIDE DEF Value
  <2> QED
    BY <1>11, <1>12
<1> QED
  BY <1>11, <1>13

LEMMA PartsAreSubformulas ==
  ASSUME NEW f \in Tree, NEW part \in Parts(f)
  PROVE  Subformulas[f[part]] \subseteq Subformulas[f]
<1>1. CASE f \in Atoms
  BY <1>1, AtomFacts
<1>2. CASE f \in BinOps(Tree)
  BY <1>2, BinOpFacts, SubformulasAre
<1>3. CASE f \in Ifs(Tree)
  BY <1>3, IfFacts, SubformulasAre
<1> QED
  BY <1>1, <1>2, <1>3, TreeKinds

(* Where the head decides, and where leaves do, there is one outcome.         *)
LEMMA LessByHead ==
  ASSUME NEW f \in Tree, NEW g \in Tree
  PROVE  /\ Less[f][g] \subseteq BOOLEAN
         /\ ~SameHead(f, g) \/ Operands(f) = <<>> => Less[f][g] = {Sooner[f][g]}
<1>1. /\ KindNumber(f) = KindNumber(g) <=> f.kind = g.kind
      /\ HeadNumber(f) = HeadNumber(g) <=> SameHead(f, g)
      /\ KindNumber(f) # KindNumber(g) =>
           (KindNumber(f) < KindNumber(g) <=> HeadNumber(f) < HeadNumber(g))
      /\ KindNumber(f) = KindNumber(g) /\ f.type # g.type =>
           (TypeNumber(f.type) < TypeNumber(g.type) <=> HeadNumber(f) < HeadNumber(g))
      /\ KindNumber(f) = KindNumber(g) /\ f.type = g.type
           /\ OperandsType(f) # OperandsType(g) =>
             (TypeNumber(OperandsType(f)) < TypeNumber(OperandsType(g))
                <=> HeadNumber(f) < HeadNumber(g))
  BY HeadIs DEF SameHead
<1>2. /\ Sooner[f][g] \in BOOLEAN
      /\ HeadNumber(f) # HeadNumber(g) => (Sooner[f][g] <=> HeadNumber(f) < HeadNumber(g))
      /\ HeadNumber(f) = HeadNumber(g) /\ Operands(f) = <<>> =>
           (Sooner[f][g] <=> Leaf(f) < Leaf(g))
  BY SoonerIs
<1>3. Less[f][g] \subseteq BOOLEAN
  BY LessIs
<1>4. ASSUME NEW P \in BOOLEAN, NEW Q \in BOOLEAN, P <=> Q
      PROVE  {P} = {Q}
  BY <1>4
<1>5. CASE KindNumber(f) # KindNumber(g)
  <2>1. HeadNumber(f) # HeadNumber(g)
    BY <1>1, <1>5 DEF SameHead
  <2>2. Less[f][g] = {KindNumber(f) < KindNumber(g)}
    BY <1>5, LessIs
  <2>3. {KindNumber(f) < KindNumber(g)} = {Sooner[f][g]}
    BY <1>1, <1>2, <1>4, <1>5, <2>1
  <2> QED
    BY <1>3, <2>2, <2>3
<1>6. CASE KindNumber(f) = KindNumber(g) /\ f.type # g.type
  <2>1. HeadNumber(f) # HeadNumber(g)
    BY <1>1, <1>6 DEF SameHead
  <2>2. Less[f][g] = {TypeNumber(f.type) < TypeNumber(g.type)}
    BY <1>6, LessIs
  <2>3. {TypeNumber(f.type) < TypeNumber(g.type)} = {Sooner[f][g]}
    BY <1>1, <1>2, <1>4, <1>6, <2>1
  <2> QED
    BY <1>3, <2>2, <2>3
<1>7. CASE /\ KindNumber(f) = KindNumber(g) /\ f.type = g.type
           /\ OperandsType(f) # OperandsType(g)
  <2>1. HeadNumber(f) # HeadNumber(g)
    BY <1>1, <1>7 DEF SameHead
  <2>2. Less[f][g] = {TypeNumber(OperandsType(f)) < TypeNumber(OperandsType(g))}
    BY <1>7, LessIs
  <2>3. {TypeNumber(OperandsType(f)) < TypeNumber(OperandsType(g))} = {Sooner[f][g]}
    BY <1>1, <1>2, <1>4, <1>7, <2>1
  <2> QED
    BY <1>3, <2>2, <2>3
<1>8. CASE SameHead(f, g) /\ Operands(f) = <<>>
  <2>1. Less[f][g] = {Leaf(f) < Leaf(g)}
    BY <1>1, <1>8, LessIs DEF SameHead
  <2>2. {Leaf(f) < Leaf(g)} = {Sooner[f][g]}
    BY <1>1, <1>2, <1>4, <1>8
  <2> QED
    BY <1>3, <2>1, <2>2
<1> QED
  BY <1>1, <1>3, <1>5, <1>6, <1>7, <1>8 DEF SameHead

(* operator== likewise, but for what a feature misreads.                      *)
LEMMA EqualByHead ==
  ASSUME NEW f \in Tree, NEW g \in Tree, ~SameHead(f, g) \/ Operands(f) = <<>>
  PROVE  /\ Same[f][g] \in Equal[f][g]
         /\ ~Misread(f, g) => Equal[f][g] = {Same[f][g]}
         /\ Same[f][g] => ~Misread(f, g)
<1>1. /\ Same[f][g] \in BOOLEAN
      /\ Same[f][g] <=>
           /\ SameHead(f, g)
           /\ IF Operands(f) = <<>> THEN Leaf(f) = Leaf(g)
              ELSE \A i \in DOMAIN Operands(f) : Same[Operands(f)[i]][Operands(g)[i]]
  BY SameIs DEF SameHead
<1>2. SameHead(f, g) => ~Misread(f, g)
  BY DEF SameHead, Misread
<1>3. CASE ~SameHead(f, g)
  <2>1. Same[f][g] = FALSE
    BY <1>1, <1>3
  <2>2. Equal[f][g] = BOOLEAN \/ Equal[f][g] = {FALSE}
    BY <1>3, EqualIs
  <2>3. ~Misread(f, g) => Equal[f][g] = {FALSE}
    BY <1>3, EqualIs
  <2> QED
    BY <1>1, <1>3, <2>1, <2>2, <2>3
<1>4. CASE SameHead(f, g) /\ Operands(f) = <<>>
  <2>1. Equal[f][g] = {Leaf(f) = Leaf(g)}
    BY <1>2, <1>4, EqualIs
  <2>2. Same[f][g] = (Leaf(f) = Leaf(g))
    BY <1>1, <1>4
  <2> QED
    BY <1>2, <1>4, <2>1, <2>2
<1> QED
  BY <1>3, <1>4

(* Where the operands decide, operator== may answer what they may.            *)
LEMMA EqualOfOperands ==
  ASSUME NEW f \in Tree, NEW g \in Tree, SameHead(f, g), Operands(f) # <<>>
  PROVE  /\ TRUE \in Equal[f][g] <=>
              \A i \in 1..Arity(f) : TRUE \in Equal[Operands(f)[i]][Operands(g)[i]]
         /\ FALSE \in Equal[f][g] <=>
              \E i \in 1..Arity(f) : FALSE \in Equal[Operands(f)[i]][Operands(g)[i]]
<1> DEFINE E(i) == Equal[Operands(f)[i]][Operands(g)[i]]
<1>1. ~Misread(f, g) /\ Compared(f) = 1..Arity(f)
  BY OperandsAre DEF SameHead, Misread, Compared
<1>2. Equal[f][g] = {answer \in BOOLEAN :
                       IF answer THEN \A i \in Compared(f) : TRUE \in E(i)
                       ELSE \E i \in Compared(f) : FALSE \in E(i)}
  BY <1>1, EqualIs
<1> QED
  BY <1>1, <1>2

(* operator< too: the first operands found different.                        *)
LEMMA OutcomesOfOperands ==
  ASSUME NEW f \in Tree, NEW g \in Tree, SameHead(f, g), Operands(f) # <<>>
  PROVE  /\ \A i \in 1..Arity(f) : Operands(f)[i] \in Tree /\ Operands(g)[i] \in Tree
         /\ \A i \in 1..Arity(f) : \A j \in 1..i-1 : j \in 1..Arity(f)
         /\ \A answer \in BOOLEAN :
              answer \in Less[f][g] <=>
                \/ /\ answer = FALSE
                   /\ \A i \in 1..Arity(f) : TRUE \in Equal[Operands(f)[i]][Operands(g)[i]]
                \/ \E i \in 1..Arity(f) :
                     /\ \A j \in 1..i-1 : TRUE \in Equal[Operands(f)[j]][Operands(g)[j]]
                     /\ FALSE \in Equal[Operands(f)[i]][Operands(g)[i]]
                     /\ answer \in Less[Operands(f)[i]][Operands(g)[i]]
         /\ Same[f][g] <=> \A i \in 1..Arity(f) : Same[Operands(f)[i]][Operands(g)[i]]
         /\ \A i \in 1..Arity(f) :
              Differ(f, g, i) => (Sooner[f][g] <=> Sooner[Operands(f)[i]][Operands(g)[i]])
         /\ ~Same[f][g] => \E i \in 1..Arity(f) : Differ(f, g, i)
<1> DEFINE E(i) == Equal[Operands(f)[i]][Operands(g)[i]]
           L(i) == Less[Operands(f)[i]][Operands(g)[i]]
<1>1. HeadNumber(f) = HeadNumber(g) /\ KindNumber(f) = KindNumber(g)
  BY HeadIs DEF SameHead
<1>2. /\ DOMAIN Operands(f) = 1..Arity(f) /\ Arity(f) \in Nat /\ Arity(f) # 0
      /\ Arity(g) = Arity(f)
      /\ \A i \in 1..Arity(f) : Operands(f)[i] \in Tree /\ Operands(g)[i] \in Tree
  BY <1>1, HeadIs, OperandsAre
<1>3. \A answer \in BOOLEAN :
        answer \in Less[f][g] <=>
          \/ answer = FALSE /\ \A i \in 1..Arity(f) : TRUE \in E(i)
          \/ \E i \in 1..Arity(f) :
               /\ \A j \in 1..i-1 : TRUE \in E(j)
               /\ FALSE \in E(i)
               /\ answer \in L(i)
  <2>1. Less[f][g] = {answer \in BOOLEAN :
                        \/ /\ answer = FALSE
                           /\ \A i \in DOMAIN Operands(f) : TRUE \in E(i)
                        \/ \E i \in DOMAIN Operands(f) :
                             /\ \A j \in 1..i-1 : TRUE \in E(j)
                             /\ FALSE \in E(i)
                             /\ answer \in L(i)}
    BY <1>1, LessIs DEF SameHead
  <2> QED
    BY <1>2, <2>1
<1>4. /\ Same[f][g] <=> \A i \in 1..Arity(f) : Same[Operands(f)[i]][Operands(g)[i]]
      /\ \A i \in 1..Arity(f) :
           Differ(f, g, i) => (Sooner[f][g] <=> Sooner[Operands(f)[i]][Operands(g)[i]])
      /\ ~Same[f][g] => \E i \in 1..Arity(f) : Differ(f, g, i)
  BY <1>1, <1>2, OrderIs
<1>5. \A i \in 1..Arity(f) : \A j \in 1..i-1 : j \in 1..Arity(f)
  BY <1>2
<1> QED
  BY <1>2, <1>3, <1>4, <1>5

(* The answers of the order are among the outcomes of operator== and          *)
(* operator<, and what is the same is surely found so: nothing is misread.   *)
LEMMA AnswersAreOutcomes ==
  \A f, g \in Tree :
    /\ Same[f][g] \in Equal[f][g]
    /\ Same[f][g] => Equal[f][g] = {TRUE} /\ Less[f][g] = {FALSE}
    /\ Sooner[f][g] \in Less[f][g]
<1> DEFINE Answer(f, g) == /\ Same[f][g] \in Equal[f][g]
                           /\ Same[f][g] => Equal[f][g] = {TRUE} /\ Less[f][g] = {FALSE}
                           /\ Sooner[f][g] \in Less[f][g]
           Good == {f \in Tree : \A g \in Tree : Answer(f, g)}
<1>1. ASSUME NEW f \in Tree, \A i \in 1..Arity(f) : Operands(f)[i] \in Good, NEW g \in Tree
      PROVE  Answer(f, g)
  <2>1. /\ Equal[f][g] \subseteq BOOLEAN /\ Less[f][g] \subseteq BOOLEAN
        /\ Same[f][g] \in BOOLEAN /\ Sooner[f][g] \in BOOLEAN
        /\ Same[f][g] => ~Sooner[f][g]
    BY EqualIs, LessIs, SameIs, SoonerIs, OneOfThree
  <2>2. CASE ~SameHead(f, g) \/ Operands(f) = <<>>
    <3>1. /\ Same[f][g] \in Equal[f][g]
          /\ Same[f][g] => Equal[f][g] = {Same[f][g]}
          /\ Less[f][g] = {Sooner[f][g]}
      BY <2>2, EqualByHead, LessByHead
    <3>2. CASE Same[f][g]
      <4>1. Same[f][g] = TRUE /\ Sooner[f][g] = FALSE
        BY <2>1, <3>2
      <4> QED
        BY <3>1, <4>1
    <3>3. CASE ~Same[f][g]
      BY <3>1, <3>3
    <3> QED
      BY <3>2, <3>3
  <2>3. CASE SameHead(f, g) /\ Operands(f) # <<>>
    <3> DEFINE E(i) == Equal[Operands(f)[i]][Operands(g)[i]]
               S(i) == Same[Operands(f)[i]][Operands(g)[i]]
               L(i) == Less[Operands(f)[i]][Operands(g)[i]]
               Q(i) == Sooner[Operands(f)[i]][Operands(g)[i]]
    <3>1. /\ \A i \in 1..Arity(f) : Operands(f)[i] \in Tree /\ Operands(g)[i] \in Tree
          /\ \A i \in 1..Arity(f) : \A j \in 1..i-1 : j \in 1..Arity(f)
          /\ Same[f][g] <=> \A i \in 1..Arity(f) : S(i)
          /\ \A i \in 1..Arity(f) : Differ(f, g, i) => (Sooner[f][g] <=> Q(i))
          /\ ~Same[f][g] => \E i \in 1..Arity(f) : Differ(f, g, i)
          /\ \A i : Differ(f, g, i) <=> (\A j \in 1..i-1 : S(j)) /\ ~S(i)
      BY <2>3, OutcomesOfOperands DEF Differ
    <3>2. /\ TRUE \in Equal[f][g] <=> \A i \in 1..Arity(f) : TRUE \in E(i)
          /\ FALSE \in Equal[f][g] <=> \E i \in 1..Arity(f) : FALSE \in E(i)
      BY <2>3, EqualOfOperands
    <3>3. \A answer \in BOOLEAN :
            answer \in Less[f][g] <=>
              \/ answer = FALSE /\ \A i \in 1..Arity(f) : TRUE \in E(i)
              \/ \E i \in 1..Arity(f) :
                   /\ \A j \in 1..i-1 : TRUE \in E(j)
                   /\ FALSE \in E(i)
                   /\ answer \in L(i)
      BY <2>3, OutcomesOfOperands
    <3>4. ASSUME NEW i \in 1..Arity(f)
          PROVE  /\ S(i) \in E(i) /\ (S(i) => E(i) = {TRUE}) /\ Q(i) \in L(i)
                 /\ S(i) \in BOOLEAN /\ Q(i) \in BOOLEAN
      <4>1. Operands(f)[i] \in Tree /\ Operands(g)[i] \in Tree
        BY <3>1
      <4>2. Answer(Operands(f)[i], Operands(g)[i])
        <5> HIDE DEF Answer
        <5> QED
          BY <1>1, <4>1
      <4>3. S(i) \in BOOLEAN /\ Q(i) \in BOOLEAN
        BY <4>1, SameIs, SoonerIs
      <4> QED
        BY <4>2, <4>3
    <3> HIDE DEF E, S, L, Q
    <3>5. CASE Same[f][g]
      <4>1. \A i \in 1..Arity(f) : S(i) /\ E(i) = {TRUE}
        BY <3>1, <3>4, <3>5
      <4>2. Equal[f][g] = {TRUE}
        BY <2>1, <3>2, <4>1
      <4>3. Less[f][g] = {FALSE}
        BY <2>1, <3>3, <4>1
      <4>4. Same[f][g] = TRUE /\ Sooner[f][g] = FALSE
        BY <2>1, <3>5
      <4> QED
        BY <4>2, <4>3, <4>4
    <3>6. CASE ~Same[f][g]
      <4>1. PICK i \in 1..Arity(f) : Differ(f, g, i)
        BY <3>1, <3>6
      <4>2. /\ \A j \in 1..i-1 : j \in 1..Arity(f) /\ S(j)
            /\ S(i) = FALSE
            /\ Sooner[f][g] <=> Q(i)
        BY <3>1, <3>4, <4>1
      <4>3. /\ \A j \in 1..i-1 : TRUE \in E(j)
            /\ FALSE \in E(i)
        BY <3>4, <4>1, <4>2
      <4>4. Sooner[f][g] = Q(i)
        BY <2>1, <3>4, <4>2
      <4>5. Sooner[f][g] \in L(i)
        BY <3>4, <4>4
      <4>6. Sooner[f][g] \in Less[f][g]
        BY <2>1, <3>3, <4>3, <4>5
      <4>7. Same[f][g] = FALSE /\ FALSE \in Equal[f][g]
        BY <2>1, <3>2, <3>6, <4>3
      <4> QED
        BY <4>6, <4>7
    <3> QED
      BY <2>1, <3>5, <3>6
  <2> QED
    BY <2>2, <2>3
<1> HIDE DEF Answer
<1>2. \A f \in Tree : (\A i \in 1..Arity(f) : Operands(f)[i] \in Good) => f \in Good
  BY <1>1
<1> HIDE DEF Good
<1>3. Tree \subseteq Good
  BY <1>2, OperandInduction
<1> QED
  BY <1>3 DEF Good, Answer

(* So an outcome that is the only one is the order's answer.                 *)
LEMMA SureOutcomes ==
  ASSUME NEW f \in Tree, NEW g \in Tree
  PROVE  /\ Less[f][g] = {TRUE} => Sooner[f][g]
         /\ Less[f][g] = {FALSE} => ~Sooner[f][g]
         /\ Sooner[f][g] => TRUE \in Less[f][g]
         /\ ~Sooner[f][g] => FALSE \in Less[f][g]
         /\ Equal[f][g] = {TRUE} <=> Same[f][g]
         /\ Same[f][g] => Less[f][g] = {FALSE}
<1>1. /\ Same[f][g] \in BOOLEAN /\ Sooner[f][g] \in BOOLEAN
      /\ Same[f][g] \in Equal[f][g]
      /\ Same[f][g] => Equal[f][g] = {TRUE} /\ Less[f][g] = {FALSE}
      /\ Sooner[f][g] \in Less[f][g]
  BY AnswersAreOutcomes, SameIs, SoonerIs
<1>2. /\ Same[f][g] = TRUE \/ Same[f][g] = FALSE
      /\ Sooner[f][g] = TRUE \/ Sooner[f][g] = FALSE
  BY <1>1
<1> QED
  BY <1>1, <1>2

(* Only what a feature misreads is unsure: a formula without features comes   *)
(* out one way in every comparison it makes.                                *)
THEOREM FeaturelessIsSure ==
  \A f, g \in Tree :
    (\A part \in Subformulas[f] : part.kind # "feature") =>
      Equal[f][g] \in {{TRUE}, {FALSE}} /\ Less[f][g] \in {{TRUE}, {FALSE}}
<1> DEFINE Featureless(f) == \A part \in Subformulas[f] : part.kind # "feature"
           Sure(f, g) == Equal[f][g] = {Same[f][g]} /\ Less[f][g] = {Sooner[f][g]}
           Good == {f \in Tree : Featureless(f) => \A g \in Tree : Sure(f, g)}
<1>1. ASSUME NEW f \in Tree, \A i \in 1..Arity(f) : Operands(f)[i] \in Good,
             Featureless(f), NEW g \in Tree
      PROVE  Sure(f, g)
  <2>1. /\ Equal[f][g] \subseteq BOOLEAN /\ Less[f][g] \subseteq BOOLEAN
        /\ Same[f][g] \in BOOLEAN /\ Sooner[f][g] \in BOOLEAN
        /\ Same[f][g] => ~Sooner[f][g]
    BY EqualIs, LessIs, SameIs, SoonerIs, OneOfThree
  <2>2. ~Misread(f, g)
    BY <1>1, SubformulasAre DEF Misread
  <2>3. CASE ~SameHead(f, g) \/ Operands(f) = <<>>
    BY <2>2, <2>3, EqualByHead, LessByHead
  <2>4. CASE SameHead(f, g) /\ Operands(f) # <<>>
    <3> DEFINE E(i) == Equal[Operands(f)[i]][Operands(g)[i]]
               S(i) == Same[Operands(f)[i]][Operands(g)[i]]
               L(i) == Less[Operands(f)[i]][Operands(g)[i]]
               Q(i) == Sooner[Operands(f)[i]][Operands(g)[i]]
    <3>1. /\ \A i \in 1..Arity(f) : Operands(f)[i] \in Tree /\ Operands(g)[i] \in Tree
          /\ \A i \in 1..Arity(f) : \A j \in 1..i-1 : j \in 1..Arity(f)
          /\ Same[f][g] <=> \A i \in 1..Arity(f) : S(i)
          /\ \A i \in 1..Arity(f) : Differ(f, g, i) => (Sooner[f][g] <=> Q(i))
          /\ ~Same[f][g] => \E i \in 1..Arity(f) : Differ(f, g, i)
          /\ \A i : Differ(f, g, i) <=> (\A j \in 1..i-1 : S(j)) /\ ~S(i)
      BY <2>4, OutcomesOfOperands DEF Differ
    <3>2. /\ TRUE \in Equal[f][g] <=> \A i \in 1..Arity(f) : TRUE \in E(i)
          /\ FALSE \in Equal[f][g] <=> \E i \in 1..Arity(f) : FALSE \in E(i)
      BY <2>4, EqualOfOperands
    <3>3. \A answer \in BOOLEAN :
            answer \in Less[f][g] <=>
              \/ answer = FALSE /\ \A i \in 1..Arity(f) : TRUE \in E(i)
              \/ \E i \in 1..Arity(f) :
                   /\ \A j \in 1..i-1 : TRUE \in E(j)
                   /\ FALSE \in E(i)
                   /\ answer \in L(i)
      BY <2>4, OutcomesOfOperands
    <3>4. ASSUME NEW i \in 1..Arity(f)
          PROVE  E(i) = {S(i)} /\ L(i) = {Q(i)} /\ S(i) \in BOOLEAN /\ Q(i) \in BOOLEAN
      <4>1. Operands(f)[i] \in Tree /\ Operands(g)[i] \in Tree
        BY <3>1
      <4>2. Featureless(Operands(f)[i])
        <5>1. Operands(f)[i] \in {f[part] : part \in Parts(f)}
          BY OperandsAre
        <5>2. Subformulas[Operands(f)[i]] \subseteq Subformulas[f]
          BY <5>1, PartsAreSubformulas
        <5> QED
          BY <1>1, <5>2
      <4>3. Sure(Operands(f)[i], Operands(g)[i])
        <5> HIDE DEF Sure, Featureless
        <5> QED
          BY <1>1, <4>1, <4>2
      <4>4. S(i) \in BOOLEAN /\ Q(i) \in BOOLEAN
        BY <4>1, SameIs, SoonerIs
      <4> QED
        BY <4>3, <4>4
    <3> HIDE DEF E, S, L, Q
    <3>5. \A i \in 1..Arity(f) : /\ TRUE \in E(i) <=> S(i)
                                 /\ FALSE \in E(i) <=> ~S(i)
                                 /\ TRUE \in L(i) <=> Q(i)
                                 /\ FALSE \in L(i) <=> ~Q(i)
      BY <3>4
    <3>6. Equal[f][g] = {Same[f][g]}
      <4>1. /\ TRUE \in Equal[f][g] <=> Same[f][g]
            /\ FALSE \in Equal[f][g] <=> ~Same[f][g]
        BY <3>1, <3>2, <3>5
      <4> QED
        BY <2>1, <4>1
    <3>7. Less[f][g] = {Sooner[f][g]}
      <4>1. \A i \in 1..Arity(f) :
              Differ(f, g, i) <=> (\A j \in 1..i-1 : TRUE \in E(j)) /\ FALSE \in E(i)
        BY <3>1, <3>5
      <4>2. TRUE \in Less[f][g] <=> \E i \in 1..Arity(f) : Differ(f, g, i) /\ Q(i)
        BY <3>3, <3>5, <4>1
      <4>3. FALSE \in Less[f][g] <=>
              Same[f][g] \/ \E i \in 1..Arity(f) : Differ(f, g, i) /\ ~Q(i)
        BY <3>1, <3>3, <3>5, <4>1
      <4>4. /\ TRUE \in Less[f][g] <=> Sooner[f][g]
            /\ FALSE \in Less[f][g] <=> ~Sooner[f][g]
        BY <2>1, <3>1, <4>2, <4>3
      <4> QED
        BY <2>1, <4>4
    <3> QED
      BY <3>6, <3>7
  <2> QED
    BY <2>3, <2>4
<1> HIDE DEF Sure, Featureless
<1>2. \A f \in Tree : (\A i \in 1..Arity(f) : Operands(f)[i] \in Good) => f \in Good
  BY <1>1
<1> HIDE DEF Good
<1>3. Tree \subseteq Good
  BY <1>2, OperandInduction
<1>4. ASSUME NEW f \in Tree, NEW g \in Tree, Featureless(f)
      PROVE  Equal[f][g] \in {{TRUE}, {FALSE}} /\ Less[f][g] \in {{TRUE}, {FALSE}}
  <2>1. Equal[f][g] = {Same[f][g]} /\ Less[f][g] = {Sooner[f][g]}
    BY <1>3, <1>4 DEF Good, Sure
  <2>2. Same[f][g] \in BOOLEAN /\ Sooner[f][g] \in BOOLEAN
    BY SameIs, SoonerIs
  <2> QED
    BY <2>1, <2>2
<1> QED
  BY <1>4 DEF Featureless

(* What std::set and std::map ask of operator<, of the comparisons that come  *)
(* out one way whatever a feature reads in place of a name: no formula is    *)
(* before itself, they are an order, and what neither way is before the      *)
(* other is what operator== holds of, an equivalence.                       *)
THEOREM FormulasAreOrdered ==
  \A f, g, h \in Tree :
    /\ Less[f][f] = {FALSE}
    /\ Less[f][g] = {TRUE} => FALSE \in Less[g][f]
    /\ Less[f][g] = {TRUE} /\ Less[g][h] = {TRUE} => TRUE \in Less[f][h]
    /\ Less[f][g] = {FALSE} /\ Less[g][f] = {FALSE} <=> Equal[f][g] = {TRUE}
    /\ Equal[f][g] = {TRUE} => Equal[g][f] = {TRUE}
    /\ Equal[f][g] = {TRUE} /\ Equal[g][h] = {TRUE} => Equal[f][h] = {TRUE}
<1> SUFFICES ASSUME NEW f \in Tree, NEW g \in Tree, NEW h \in Tree
             PROVE  /\ Less[f][f] = {FALSE}
                    /\ Less[f][g] = {TRUE} => FALSE \in Less[g][f]
                    /\ Less[f][g] = {TRUE} /\ Less[g][h] = {TRUE} => TRUE \in Less[f][h]
                    /\ Less[f][g] = {FALSE} /\ Less[g][f] = {FALSE} <=> Equal[f][g] = {TRUE}
                    /\ Equal[f][g] = {TRUE} => Equal[g][f] = {TRUE}
                    /\ Equal[f][g] = {TRUE} /\ Equal[g][h] = {TRUE} => Equal[f][h] = {TRUE}
  OBVIOUS
<1>1. /\ Same[f][f]
      /\ Same[f][g] => Same[g][f]
      /\ Same[f][g] /\ Same[g][h] => Same[f][h]
  BY SameIsEquivalence
<1>2. /\ Same[f][g] => ~Sooner[f][g] /\ ~Sooner[g][f]
      /\ ~Same[f][g] => (Sooner[f][g] <=> ~Sooner[g][f])
  BY OneOfThree
<1>3. Sooner[f][g] /\ Sooner[g][h] => Sooner[f][h]
  BY SoonerIsTransitive
<1>4. Less[f][f] = {FALSE}
  BY <1>1, SureOutcomes
<1>5. Less[f][g] = {TRUE} => FALSE \in Less[g][f]
  BY <1>2, SureOutcomes
<1>6. Less[f][g] = {TRUE} /\ Less[g][h] = {TRUE} => TRUE \in Less[f][h]
  BY <1>3, SureOutcomes
<1>7. Less[f][g] = {FALSE} /\ Less[g][f] = {FALSE} <=> Equal[f][g] = {TRUE}
  BY <1>1, <1>2, SureOutcomes
<1>8. /\ Equal[f][g] = {TRUE} => Equal[g][f] = {TRUE}
      /\ Equal[f][g] = {TRUE} /\ Equal[g][h] = {TRUE} => Equal[f][h] = {TRUE}
  BY <1>1, SureOutcomes
<1> QED
  BY <1>4, <1>5, <1>6, <1>7, <1>8

(***************************************************************************)
(* A formula's life.                                                       *)
(***************************************************************************)
(* The formula is what was simplified last became, whatever was written and *)
(* read since.                                                             *)
LifeInvariant ==
  /\ raw \in TypedTrees
  /\ form \in Simplified[raw]

(* Then it is as simple as the code counts on, and of the same type.        *)
LEMMA FormulaIsSimple ==
  ASSUME LifeInvariant
  PROVE  /\ form \in SimpleTrees /\ form.type = raw.type /\ Nodes[form] <= MaxNodes
         /\ form \in TypedTrees /\ form \in Tree /\ raw \in Tree
BY SimplifiedTyped DEF LifeInvariant, SimpleTrees, TypedTrees

(* The types of a formula that is generated fit, and it is simplified.       *)
LEMMA LifeBegins == LifeInit => LifeInvariant
<1> SUFFICES ASSUME LifeInit
             PROVE  LifeInvariant
  OBVIOUS
<1>1. PICK t \in Types : raw \in Formulas(t, MaxNodes)
  BY DEF LifeInit
<1>2. MaxNodes \in Int
  BY FormulaAssumption
<1> QED
  BY <1>1, <1>2, FormulasTyped DEF LifeInit, LifeInvariant

(* The formula that is read is the one that was written.                    *)
LEMMA LoadsWhatWasSaved ==
  ASSUME LifeInvariant, SaveAndLoad
  PROVE  form' = form
<1>1. form \in Tree /\ Nodes[form] <= MaxNodes
  BY FormulaIsSimple
<1> QED
  BY <1>1, ReadsWhatWasWritten DEF SaveAndLoad

(* So it is when it has evolved, and when it was written and read back.      *)
LEMMA LifeGoesOn == LifeInvariant /\ [LifeNext]_lifeVars => LifeInvariant'
<1> SUFFICES ASSUME LifeInvariant, [LifeNext]_lifeVars
             PROVE  LifeInvariant'
  OBVIOUS
<1>1. CASE Evolve
  <2>1. form \in TypedTrees /\ Nodes[form] <= MaxNodes /\ MaxNodes \in Int
    BY FormulaIsSimple, FormulaAssumption
  <2>2. raw' \in Evolved[form][MaxNodes] /\ form' \in Simplified[raw']
    BY <1>1 DEF Evolve
  <2>3. raw' \in TypedTrees
    <3>1. PICK g : g = raw' /\ g \in Evolved[form][MaxNodes]
      BY <2>2
    <3>2. g \in TypedTrees
      <4>1. PICK f, max : f = form /\ max = MaxNodes
        OBVIOUS
      <4>2. /\ f \in TypedTrees /\ max \in Int /\ Nodes[f] <= max /\ max <= MaxNodes
            /\ g \in Evolved[f][max]
        BY <2>1, <3>1, <4>1
      <4> QED
        BY ONLY <4>2, EvolvedTyped
    <3> QED
      BY <3>1, <3>2
  <2> QED
    BY <2>2, <2>3 DEF LifeInvariant
<1>2. CASE SaveAndLoad
  <2>1. form' = form /\ raw' = raw
    BY <1>2, LoadsWhatWasSaved DEF SaveAndLoad
  <2> QED
    BY <2>1 DEF LifeInvariant
<1>3. CASE UNCHANGED lifeVars
  BY <1>3 DEF LifeInvariant, lifeVars
<1> QED
  BY <1>1, <1>2, <1>3 DEF LifeNext

(* A formula is always what simplification made of one whose types fit.      *)
THEOREM FormulasFit == LifeSpec => []LifeInvariant
<1> QED
  BY LifeBegins, LifeGoesOn, PTL DEF LifeSpec

(* However formulas are generated, evolved, written and read, the operands   *)
(* have the types the code casts them to, and nothing is left to compute.   *)
THEOREM SimplifiedFormulas == LifeSpec => []NothingLeftToCompute
<1>1. LifeInvariant => NothingLeftToCompute
  <2> SUFFICES ASSUME LifeInvariant
               PROVE  NothingLeftToCompute
    OBVIOUS
  <2>1. /\ form \in SimpleTrees /\ form.type = raw.type
        /\ form \in TypedTrees /\ raw \in TypedTrees
    BY FormulaIsSimple DEF LifeInvariant
  <2>2. \A f \in Subformulas[form] \cup Subformulas[raw] : WellTyped(f)
    BY <2>1 DEF TypedTrees
  <2>3. \A f \in Subformulas[form] : Simple(f)
    BY <2>1 DEF SimpleTrees
  <2> QED
    BY <2>1, <2>2, <2>3 DEF NothingLeftToCompute
<1> QED
  BY <1>1, FormulasFit, PTL

(* Simplification keeps what a formula evaluates to, whatever the formula,   *)
(* unless it replaces a divisor of zero.                                    *)
THEOREM SimplificationKeepsValues == LifeSpec => []SimplifyKeepsValue
<1>1. LifeInvariant => SimplifyKeepsValue
  <2> SUFFICES ASSUME LifeInvariant, \A f \in Subformulas[raw] : ~DividesByZero(f),
                      NEW set \in FeatureSets
               PROVE  Solve[form][set] = Solve[raw][set]
    BY DEF SimplifyKeepsValue
  <2>1. raw \in TypedTrees /\ form \in Simplified[raw]
    BY DEF LifeInvariant
  <2> QED
    BY <2>1, ValueKept
<1> QED
  BY <1>1, FormulasFit, PTL

(* The knowledge base gives back the formula that was written to it.         *)
THEOREM FormulaReadBack == LifeSpec => KnowledgeBaseKeepsFormula
<1>1. LifeInvariant /\ [LifeNext]_lifeVars => [SaveAndLoad => form' = form]_lifeVars
  BY LoadsWhatWasSaved
<1> QED
  BY <1>1, FormulasFit, PTL DEF LifeSpec, KnowledgeBaseKeepsFormula

(* Formulas are ordered as std::set and std::map need it, whatever they are,  *)
(* by the comparisons that do not depend on what a feature misreads.        *)
THEOREM FormulaOrderIsStrict == LifeSpec => []OrderIsStrict
<1>1. LifeInvariant => OrderIsStrict
  <2> SUFFICES ASSUME LifeInvariant
               PROVE  OrderIsStrict
    OBVIOUS
  <2>1. form \in Tree /\ raw \in Tree
    BY FormulaIsSimple
  <2>2. Others \subseteq Tree
    <3>1. ASSUME NEW t \in Types, NEW g \in Formulas(t, 3)
          PROVE  g \in Tree
      BY FormulasTyped DEF TypedTrees
    <3> QED
      BY <2>1, <3>1 DEF Others
  <2> QED
    BY <2>1, <2>2, FormulasAreOrdered DEF OrderIsStrict, Before, NotBefore
<1> QED
  BY <1>1, FormulasFit, PTL
================================================================================
