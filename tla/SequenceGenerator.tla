-------------------------- MODULE SequenceGenerator --------------------------
(***************************************************************************)
(* OptimizationSequence::generate: draws a random sequence from a set of    *)
(* optimizations.  It goes over the set again and again; an entry with      *)
(* repetitions left is picked with probability 1/2, and a pass that leaves  *)
(* nobody wanting is the last.  A pass is cut short when the sequence has   *)
(* exactly the size asked for.                                              *)
(*                                                                         *)
(* An info is a pair of an optimization and the value of its arguments (all *)
(* of them as one value); Enabled lists the entries of the set in the order *)
(* of its iterators.  One action is one round of the inner loop.            *)
(***************************************************************************)
EXTENDS Integers, SequencesExt

VARIABLES
  Enabled,          \* the set: a sequence of [info, rep]
  DefaultSequence,  \* the set's own sequence, Null before one is generated
  call,             \* "none", "generate", or "default" for the set's own
  Size,             \* the size asked for
  at,               \* the entry the round looks at
  Finish,           \* nobody of this pass wants another repetition
  Repetition,       \* what is left of each info that was looked at
  OptSeq            \* the sequence so far

generating == <<Size, at, Finish, Repetition, OptSeq>>

(* A pointer to a sequence: none, or the one it points to.                  *)
Null == <<>>
Pointer(seq) == <<seq>>

(* The generation starts unless the set is empty, for which the result is   *)
(* a null pointer.  A size of -1 stands for the number of entries.          *)
Call(who, size) ==
  /\ call = "none"
  /\ Enabled # <<>>
  /\ call' = who
  /\ Size' = IF size = -1 THEN Len(Enabled) ELSE size
  /\ at' = 1
  /\ Finish' = TRUE
  /\ Repetition' = <<>>
  /\ OptSeq' = <<>>
  /\ UNCHANGED <<Enabled, DefaultSequence>>

(* Mutant: the next pass begins with what the last one found. *)
EndPassStale(finish, seq) ==
  IF finish
  THEN /\ call' = "none"
       /\ DefaultSequence' = IF call = "default" THEN Pointer(seq) ELSE DefaultSequence
       /\ UNCHANGED <<at, Finish>>
  ELSE /\ at' = 1
       /\ Finish' = finish
       /\ UNCHANGED <<call, DefaultSequence>>

(* A pass ends: the generation does, or another pass begins.                *)
EndPass(finish, seq) ==
  IF finish
  THEN /\ call' = "none"
       /\ DefaultSequence' = IF call = "default" THEN Pointer(seq) ELSE DefaultSequence
       /\ UNCHANGED <<at, Finish>>
  ELSE /\ at' = 1
       /\ Finish' = TRUE
       /\ UNCHANGED <<call, DefaultSequence>>

Advance(finish, seq) ==
  IF at < Len(Enabled)
  THEN /\ at' = at + 1
       /\ Finish' = finish
       /\ UNCHANGED <<call, DefaultSequence>>
  ELSE EndPass(finish, seq)

(* What is left of the entry's info; the first entry of an info decides.    *)
Looked == DOMAIN Repetition
Left ==
  [i \in Looked \cup {Enabled[at].info} |->
     IF i \in Looked THEN Repetition[i] ELSE Enabled[at].rep]

(* Nothing is left: the round goes on without looking at the size.          *)
Skip ==
  /\ call # "none"
  /\ Left[Enabled[at].info] = 0
  /\ Repetition' = Left
  /\ Advance(Finish, OptSeq)
  /\ UNCHANGED <<Enabled, Size, OptSeq>>

(* Mutant of the rest of a round: the size ends the generation at once.     *)
SettleAtSize(left, seq) ==
  LET finish == \/ Len(seq) = Size
                \/ Finish /\ left[Enabled[at].info] = 0
  IN  /\ Repetition' = left
      /\ OptSeq' = seq
      /\ IF Len(seq) = Size THEN EndPass(finish, seq) ELSE Advance(finish, seq)
      /\ UNCHANGED <<Enabled, Size>>

(* The rest of a round, with what is left of each info and the sequence.    *)
Settle(left, seq) ==
  LET finish == Finish /\ left[Enabled[at].info] = 0
  IN  /\ Repetition' = left
      /\ OptSeq' = seq
      /\ IF Len(seq) = Size THEN EndPass(finish, seq) ELSE Advance(finish, seq)
      /\ UNCHANGED <<Enabled, Size>>

(* Mutant: a pick costs nothing. *)
PickFree ==
  /\ call # "none"
  /\ Left[Enabled[at].info] # 0
  /\ Settle(Left, Append(OptSeq, Enabled[at].info))

(* rand() falls below, or not below, the probability of a pick.             *)
Pick ==
  /\ call # "none"
  /\ Left[Enabled[at].info] # 0
  /\ Settle([Left EXCEPT ![Enabled[at].info] = @ - 1],
            Append(OptSeq, Enabled[at].info))

Spare ==
  /\ call # "none"
  /\ Left[Enabled[at].info] # 0
  /\ Settle(Left, OptSeq)

Generating == Skip \/ Pick \/ Spare

(* No generation has begun, or what the last one had is gone.               *)
Fresh == Size = 0 /\ at = 1 /\ Finish = TRUE /\ Repetition = <<>> /\ OptSeq = <<>>
Forget ==
  /\ Size' = 0
  /\ at' = 1
  /\ Finish' = TRUE
  /\ Repetition' = <<>>
  /\ OptSeq' = <<>>
=============================================================================
