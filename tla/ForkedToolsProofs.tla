--------------------------- MODULE ForkedToolsProofs ---------------------------
(***************************************************************************)
(* Proofs about ForkedTools, for any number of tuners, candidates, seconds.  *)
(*                                                                         *)
(* The processes of a tuner are a stack, and the properties speak of its     *)
(* top. The invariant says what the processes below wait for, which file     *)
(* each process names and what is in the file, and how many exports the      *)
(* processes of a tuner have left between them.                             *)
(***************************************************************************)
EXTENDS ForkedTools, SequenceTheorems, Inductions

Applying  == {"passes", "check", "wait_opt", "remove_tmp"}
Measuring == {"events", "program", "wait_papi", "remove_papi"}
Labels == Applying \cup Measuring
            \cup {"baseline", "apply", "measure", "export", "done"}

InCall == {"passes", "check", "events", "program"}

Frame == [pc : Labels, step : 0..Steps, module : {Null} \cup Module,
          name : FileName \cup {NoName}, linked : BOOLEAN, status : {0, 1}]

Content == [kind : {"nothing", "bitcode", "counters"}, of : {Null} \cup Module]

Typed ==
  /\ CodesValid \in BOOLEAN
  /\ now \in 0..MaxTime
  /\ stack \in [Tuners -> Seq(Frame)]
  /\ \A t \in Tuners : Len(stack[t]) > 0
  /\ DOMAIN files \subseteq FileName
  /\ files \in [DOMAIN files -> Content]
  /\ exports \in [Tuners -> Nat]
  /\ DOMAIN calls = Tuners
  /\ DOMAIN measured = Tuners

Depth(t) == Len(stack[t])

(* The parent of the running process.                                       *)
Below(t) == stack[t][Depth(t) - 1]

(* A process that waits below another waits for a measurement; only the      *)
(* parent of the running one may wait for a compilation. A child is in the   *)
(* call its parent waits in. Where PAPI knows the event no child goes on as  *)
(* a tuner.                                                                *)
Nested(t) ==
  /\ \A i \in 1..(Depth(t) - 2) : stack[t][i].pc = "wait_papi"
  /\ Depth(t) > 1 =>
       /\ Below(t).pc \in {"wait_opt", "wait_papi"}
       /\ Below(t).pc = "wait_opt" => Top(t).pc \in {"passes", "check"}
       /\ CodesValid => Depth(t) = 2 /\ Top(t).pc \in InCall
  /\ Top(t).pc \in InCall =>
       /\ Depth(t) > 1
       /\ Below(t).name = Top(t).name
       /\ Below(t).step = Top(t).step
       /\ Below(t).pc = "wait_opt" <=> Top(t).pc \in {"passes", "check"}
  /\ Top(t).pc = "program" => CodesValid
  /\ Top(t).pc = "done" => Depth(t) = 1

(* A process in a call has the name of a file of that call's second.        *)
Names(t, frame) ==
  /\ frame.pc \in Applying  => /\ frame.name \in {".tmp-"} \X (0..MaxTime)
                               /\ <<"apply", frame.name[2]>> \in calls[t]
  /\ frame.pc \in Measuring => /\ frame.name \in {".papi-"} \X (0..MaxTime)
                               /\ <<"run", frame.name[2]>> \in calls[t]

Named(t) == \A i \in 1..Depth(t) : Names(t, stack[t][i])

(* From the end of the child's passes to the removal of its file, the file   *)
(* has this candidate's module.                                            *)
OwnFile(t) ==
  \/ Collided(t, "apply")
  \/ /\ \/ Top(t).pc = "check"
        \/ Top(t).pc = "wait_opt" /\ Top(t).status = 0
        => ModuleIn(Top(t).name) = <<t, Top(t).step>>
     /\ Top(t).pc \in {"remove_tmp", "measure"}
        => Top(t).module \in {Null, <<t, Top(t).step>>}

(* The file of a program that runs is empty and has its name; when the       *)
(* program returned well, its counters are there.                          *)
OwnCounters(t) ==
  \/ Collided(t, "run")
  \/ /\ Top(t).pc = "program" =>
          /\ Top(t).linked
          /\ Top(t).name \in DOMAIN files
          /\ files[Top(t).name] = Nothing
     /\ Top(t).pc = "wait_papi" /\ Top(t).status = 0 =>
          \/ CountersIn(Top(t).name) = <<t, Top(t).step>>
          \/ /\ CountersIn(Top(t).name) = Unset
             /\ <<t, Top(t).step>> \in ended \/ ~CodesValid

NoCounters == ~CodesValid => DOMAIN files \subseteq {".tmp-"} \X (0..MaxTime)

(* A file that no failed compilation left will be removed.                  *)
Removing == {"wait_opt", "remove_tmp", "wait_papi", "remove_papi"}

HeldBy(t, n) ==
  \E i \in 1..Depth(t) : stack[t][i].name = n /\ stack[t][i].pc \in Removing

Held == \A n \in DOMAIN files : n \in failed \/ \E t \in Tuners : HeldBy(t, n)

(* The exports a process can lead to, its children's children included.      *)
Worth(frame) ==
  CASE frame.pc \in {"baseline", "apply", "wait_opt", "remove_tmp", "measure"} ->
         Copies[(Steps + 1) - frame.step]
    [] frame.pc \in {"wait_papi", "remove_papi", "events"} -> Copies[Steps - frame.step]
    [] frame.pc = "export" -> 1
    [] OTHER -> 0

(* sums[i]: at least what the first i processes of a tuner are worth.        *)
SumsWorth(sums, s) ==
  /\ sums \in [0..Len(s) -> Nat]
  /\ \A i \in 1..Len(s) : sums[i - 1] + Worth(s[i]) <= sums[i]

SumsLeft(t) ==
  \E sums : SumsWorth(sums, stack[t]) /\ exports[t] + sums[Depth(t)] <= Copies[Steps + 1]

ExportsLeft(t) ==
  /\ CodesValid => exports[t] = IF Top(t).pc = "done" THEN 1 ELSE 0
  /\ ~CodesValid => SumsLeft(t)

Honest(t) ==
  \A r \in measured[t] :
    r.status = 0 =>
      \/ r.cycles = <<t, r.step>>
      \/ r.cycles = Unset /\ (<<t, r.step>> \in ended \/ ~CodesValid)
      \/ Collided(t, "run")

TunerInv(t) ==
  /\ Nested(t)
  /\ Named(t)
  /\ OwnFile(t)
  /\ OwnCounters(t)
  /\ ExportsLeft(t)
  /\ Honest(t)

Inv ==
  /\ Typed
  /\ NoCounters
  /\ Held
  /\ \A t \in Tuners : TunerInv(t)

-----------------------------------------------------------------------------
(* How many copies a process can become. *)

(* The recursive function exists up to n.                                  *)
HasCopies(n) == \E f : f = [i \in 0..n |-> IF i = 0 THEN 1 ELSE 2 * f[i - 1]]

(* A function that satisfies the equations of Copies exists, up to any n.    *)
LEMMA CopiesExist == \A n \in Nat : HasCopies(n)
<1> DEFINE S == {n \in Nat : HasCopies(n)}
<1>1. 0 \in S
  <2> DEFINE f == [i \in 0..0 |-> 1]
  <2>1. f = [i \in 0..0 |-> IF i = 0 THEN 1 ELSE 2 * f[i - 1]]
    OBVIOUS
  <2> QED
    BY <2>1 DEF HasCopies
<1>2. ASSUME NEW n \in Nat, n \in S
      PROVE  n + 1 \in S
  <2>1. PICK f : f = [i \in 0..n |-> IF i = 0 THEN 1 ELSE 2 * f[i - 1]]
    BY <1>2 DEF HasCopies
  <2> DEFINE g == [i \in 0..(n + 1) |-> IF i = n + 1 THEN 2 * f[n] ELSE f[i]]
  <2>2. ASSUME NEW i \in 0..(n + 1)
        PROVE  g[i] = IF i = 0 THEN 1 ELSE 2 * g[i - 1]
    BY <2>1
  <2>3. g = [i \in 0..(n + 1) |-> IF i = 0 THEN 1 ELSE 2 * g[i - 1]]
    <3> HIDE DEF g
    <3> QED BY <2>2 DEF g
  <2> HIDE DEF g
  <2>4. HasCopies(n + 1)
    BY ONLY <2>3, Zenon DEF HasCopies
  <2> QED
    BY <2>4
<1> HIDE DEF S
<1>3. Nat \subseteq S
  BY <1>1, <1>2, SetInduction
<1> QED
  BY <1>3 DEF S

(* Copies satisfies its equations.                                          *)
LEMMA CopiesDouble ==
  /\ Copies[0] = 1
  /\ \A n \in 1..(Steps + 1) : Copies[n] = 2 * Copies[n - 1]
<1>1. Copies = [i \in 0..(Steps + 1) |-> IF i = 0 THEN 1 ELSE 2 * Copies[i - 1]]
  <2>1. HasCopies(Steps + 1)
    BY CopiesExist, ToolsAssumption
  <2> QED
    BY ONLY <2>1, Zenon DEF HasCopies, Copies
<1>2. \A i \in 0..(Steps + 1) : Copies[i] = IF i = 0 THEN 1 ELSE 2 * Copies[i - 1]
  BY <1>1
<1> QED
  BY <1>2, ToolsAssumption

(* A process becomes at least itself.                                       *)
LEMMA CopiesPositive ==
  \A n \in 0..(Steps + 1) : Copies[n] \in Nat /\ Copies[n] >= 1
<1> DEFINE S == {n \in Nat : n <= Steps + 1 => Copies[n] \in Nat /\ Copies[n] >= 1}
<1>1. 0 \in S
  BY CopiesDouble
<1>2. ASSUME NEW n \in Nat, n \in S
      PROVE  n + 1 \in S
  BY <1>2, CopiesDouble, ToolsAssumption
<1> HIDE DEF S
<1>3. Nat \subseteq S
  BY <1>1, <1>2, SetInduction
<1> QED
  BY <1>3, ToolsAssumption DEF S

-----------------------------------------------------------------------------
(* The stack of processes. *)

(* What is below the running process.                                       *)
LEMMA FrontProperties ==
  ASSUME NEW S, NEW s \in Seq(S), Len(s) > 0
  PROVE  /\ Front(s) \in Seq(S)
         /\ Len(Front(s)) = Len(s) - 1
         /\ \A i \in 1..(Len(s) - 1) : Front(s)[i] = s[i]
<1>1. PICK n \in Nat : n = Len(s) - 1
  OBVIOUS
<1>2. \A i \in 1..n : s[i] \in S
  BY <1>1, ElementOfSeq
<1>3. /\ SubSeq(s, 1, n) \in Seq(S)
      /\ Len(SubSeq(s, 1, n)) = IF 1 <= n THEN n - 1 + 1 ELSE 0
      /\ \A i \in 1..(n - 1 + 1) : SubSeq(s, 1, n)[i] = s[1 + i - 1]
  <2>1. 1 \in Int /\ n \in Int
    OBVIOUS
  <2> QED
    BY ONLY <1>2, <2>1, SubSeqProperties
<1>4. Len(SubSeq(s, 1, n)) = n /\ \A i \in 1..n : SubSeq(s, 1, n)[i] = s[i]
  BY <1>3
<1> QED
  BY <1>1, <1>3, <1>4 DEF Front

(* The stack after the running process changed its frame.                   *)
LEMMA ReplaceTop ==
  ASSUME NEW S, NEW s \in Seq(S), Len(s) > 0, NEW f \in S
  PROVE  /\ Append(Front(s), f) \in Seq(S)
         /\ Len(Append(Front(s), f)) = Len(s)
         /\ \A i \in 1..(Len(s) - 1) : Append(Front(s), f)[i] = s[i]
         /\ Append(Front(s), f)[Len(s)] = f
<1>1. /\ Front(s) \in Seq(S)
      /\ Len(Front(s)) = Len(s) - 1
      /\ \A i \in 1..(Len(s) - 1) : Front(s)[i] = s[i]
  BY FrontProperties
<1>2. Len(s) \in Nat
  OBVIOUS
<1> DEFINE r == Front(s)
<1> HIDE DEF r
<1>3. /\ Append(r, f) \in Seq(S)
         /\ Len(Append(r, f)) = Len(r)+1
         /\ \A i \in 1.. Len(r) : Append(r, f)[i] = r[i]
         /\ Append(r, f)[Len(r)+1] = f
  <2>1. r \in Seq(S) BY <1>1 DEF r
  <2> QED BY <2>1, AppendProperties
<1> QED
  BY <1>1, <1>2, <1>3 DEF r

(* The stack after the running process forked.                              *)
LEMMA PushTwo ==
  ASSUME NEW S, NEW s \in Seq(S), Len(s) > 0, NEW f \in S, NEW g \in S
  PROVE  /\ Front(s) \o <<f, g>> \in Seq(S)
         /\ Len(Front(s) \o <<f, g>>) = Len(s) + 1
         /\ \A i \in 1..(Len(s) - 1) : (Front(s) \o <<f, g>>)[i] = s[i]
         /\ (Front(s) \o <<f, g>>)[Len(s)] = f
         /\ (Front(s) \o <<f, g>>)[Len(s) + 1] = g
<1>1. /\ Front(s) \in Seq(S)
      /\ Len(Front(s)) = Len(s) - 1
      /\ \A i \in 1..(Len(s) - 1) : Front(s)[i] = s[i]
  BY FrontProperties
<1>2. /\ <<f, g>> \in Seq(S)
      /\ Len(<<f, g>>) = 2
      /\ <<f, g>>[1] = f
      /\ <<f, g>>[2] = g
  OBVIOUS
<1> DEFINE r == Front(s)
           d == <<f, g>>
<1> HIDE DEF r, d
<1>3. /\ r \o d \in Seq(S)
      /\ Len(r \o d) = Len(r) + Len(d)
      /\ \A i \in 1 .. Len(r) + Len(d) : (r \o d)[i] =
                     IF i <= Len(r) THEN r[i] ELSE d[i - Len(r)]
  <2>1. r \in Seq(S) /\ d \in Seq(S) BY <1>1, <1>2 DEF r, d
  <2> QED BY <2>1, ConcatProperties
<1>4. Len(s) \in Nat
  OBVIOUS
<1> QED
  BY <1>1, <1>2, <1>3, <1>4 DEF r, d

(* The running process and its parent are frames of the stack.              *)
LEMMA TopIsFrame ==
  ASSUME Typed, NEW t \in Tuners
  PROVE  /\ Depth(t) \in Nat /\ Depth(t) > 0
         /\ stack[t] \in Seq(Frame)
         /\ Top(t) = stack[t][Depth(t)]
         /\ Top(t) \in Frame
         /\ \A i \in 1..Depth(t) : stack[t][i] \in Frame
         /\ Depth(t) > 1 => Below(t) \in Frame
BY DEF Typed, Depth, Top, Last, Below

Stacked == stack' \in [Tuners -> Seq(Frame)]

OthersStay(t) == \A u \in Tuners \ {t} : stack'[u] = stack[u]

(* The next stack of t, in terms of its frames.                             *)
Replaced(t, frame) ==
  /\ Depth(t)' = Depth(t)
  /\ Top(t)' = frame
  /\ stack'[t][Depth(t)] = frame
  /\ \A i \in 1..(Depth(t) - 1) : stack'[t][i] = stack[t][i]

Pushed(t, parent, child) ==
  /\ Depth(t)' = Depth(t) + 1
  /\ Top(t)' = child
  /\ stack'[t][Depth(t)] = parent
  /\ stack'[t][Depth(t) + 1] = child
  /\ \A i \in 1..(Depth(t) - 1) : stack'[t][i] = stack[t][i]

Popped(t, frame) ==
  /\ Depth(t)' = Depth(t) - 1
  /\ Top(t)' = frame
  /\ stack'[t][Depth(t) - 1] = frame
  /\ \A i \in 1..(Depth(t) - 2) : stack'[t][i] = stack[t][i]

(* A process that goes on replaces its frame.                               *)
LEMMA BecomesStack ==
  ASSUME Typed, NEW t \in Tuners, NEW frame \in Frame, Becomes(t, frame)
  PROVE  Stacked /\ OthersStay(t) /\ Replaced(t, frame)
<1>1. stack[t] \in Seq(Frame) /\ Len(stack[t]) > 0 /\ stack \in [Tuners -> Seq(Frame)]
  BY DEF Typed
<1> DEFINE s == Append(Front(stack[t]), frame)
<1>2. /\ s \in Seq(Frame)
      /\ Len(s) = Len(stack[t])
      /\ \A i \in 1..(Len(stack[t]) - 1) : s[i] = stack[t][i]
      /\ s[Len(stack[t])] = frame
  BY <1>1, ReplaceTop
<1>3. stack' = [stack EXCEPT ![t] = s]
  BY <1>1 DEF Becomes
<1> HIDE DEF s
<1>4. stack'[t] = s /\ Stacked /\ OthersStay(t)
  BY <1>1, <1>2, <1>3 DEF Stacked, OthersStay
<1> QED
  BY <1>2, <1>4 DEF Replaced, Depth, Top, Last

(* A process that forks leaves itself below its child.                      *)
LEMMA ForksStack ==
  ASSUME Typed, NEW t \in Tuners, NEW parent \in Frame, NEW child \in Frame,
         Forks(t, parent, child)
  PROVE  Stacked /\ OthersStay(t) /\ Pushed(t, parent, child)
<1>1. stack[t] \in Seq(Frame) /\ Len(stack[t]) > 0 /\ stack \in [Tuners -> Seq(Frame)]
  BY DEF Typed
<1> DEFINE s == Front(stack[t]) \o <<parent, child>>
<1>2. /\ s \in Seq(Frame)
      /\ Len(s) = Len(stack[t]) + 1
      /\ \A i \in 1..(Len(stack[t]) - 1) : s[i] = stack[t][i]
      /\ s[Len(stack[t])] = parent
      /\ s[Len(stack[t]) + 1] = child
  BY <1>1, PushTwo
<1>3. stack' = [stack EXCEPT ![t] = s]
  BY <1>1 DEF Forks
<1> HIDE DEF s
<1>4. stack'[t] = s /\ Stacked /\ OthersStay(t)
  BY <1>1, <1>2, <1>3 DEF Stacked, OthersStay
<1> QED
  BY <1>2, <1>4 DEF Pushed, Depth, Top, Last

(* A process that exits gives its status to the one below.                  *)
LEMMA ExitsStack ==
  ASSUME Typed, NEW t \in Tuners, NEW status \in {0, 1}, Depth(t) > 1,
         Exits(t, status)
  PROVE  Stacked /\ OthersStay(t) /\ Popped(t, [Below(t) EXCEPT !.status = status])
<1>1. stack[t] \in Seq(Frame) /\ Len(stack[t]) > 1 /\ stack \in [Tuners -> Seq(Frame)]
  BY DEF Typed, Depth
<1> DEFINE rest == Front(stack[t])
           frame == [Last(rest) EXCEPT !.status = status]
           s == Append(Front(rest), frame)
<1>2. /\ rest \in Seq(Frame)
      /\ Len(rest) = Len(stack[t]) - 1
      /\ \A i \in 1..(Len(stack[t]) - 1) : rest[i] = stack[t][i]
  BY <1>1, FrontProperties
<1> HIDE DEF rest
<1>3. Last(rest) = Below(t) /\ Below(t) \in Frame
  BY <1>1, <1>2, ElementOfSeq DEF Last, Below, Depth
<1>4. frame \in Frame /\ frame = [Below(t) EXCEPT !.status = status]
  BY <1>3 DEF Frame
<1>5. stack' = [stack EXCEPT ![t] = s]
  BY <1>1 DEF Exits, ExitsIn, rest
<1> HIDE DEF frame
<1>6. /\ s \in Seq(Frame)
      /\ Len(s) = Len(rest)
      /\ \A i \in 1..(Len(rest) - 1) : s[i] = rest[i]
      /\ s[Len(rest)] = frame
  <2>1. Len(rest) > 0
    BY <1>1, <1>2
  <2> QED
    BY <1>2, <1>4, <2>1, ReplaceTop
<1> HIDE DEF s
<1>7. stack'[t] = s /\ Stacked /\ OthersStay(t)
  BY <1>1, <1>5, <1>6 DEF Stacked, OthersStay
<1>8. Depth(t)' = Depth(t) - 1 /\ Depth(t) \in Nat /\ Depth(t) = Len(stack[t])
  BY <1>1, <1>2, <1>6, <1>7 DEF Depth
<1>9. Top(t)' = frame
  BY <1>2, <1>6, <1>7 DEF Top, Last
<1>10. \A i \in 1..(Depth(t) - 2) : stack'[t][i] = stack[t][i]
  BY <1>2, <1>6, <1>7, <1>8
<1> QED
  BY <1>2, <1>4, <1>6, <1>7, <1>8, <1>9, <1>10 DEF Popped

(* What a removal does to the processes of another tuner: those that name    *)
(* the file, and no others, have a file that is no longer linked.           *)
Bystands(u, name) ==
  /\ Depth(u)' = Depth(u)
  /\ \A i \in 1..Depth(u) :
       \/ stack'[u][i] = stack[u][i]
       \/ /\ stack[u][i].name = name
          /\ stack'[u][i] = [stack[u][i] EXCEPT !.linked = FALSE]

(* A process that removes its file replaces its frame.                      *)
LEMMA RemovesStack ==
  ASSUME Typed, NEW t \in Tuners, NEW frame \in Frame, RemovesAnd(t, frame)
  PROVE  /\ Stacked
         /\ Replaced(t, frame)
         /\ \A u \in Tuners \ {t} : Bystands(u, Top(t).name)
<1>1. stack[t] \in Seq(Frame) /\ Len(stack[t]) > 0 /\ stack \in [Tuners -> Seq(Frame)]
  BY DEF Typed
<1> DEFINE s == Append(Front(stack[t]), frame)
<1>2. /\ s \in Seq(Frame)
      /\ Len(s) = Len(stack[t])
      /\ \A i \in 1..(Len(stack[t]) - 1) : s[i] = stack[t][i]
      /\ s[Len(stack[t])] = frame
  BY <1>1, ReplaceTop
<1>3. stack' = [u \in Tuners |-> IF u = t THEN s ELSE Unlinked(stack[u], Top(t).name)]
  BY DEF RemovesAnd
<1> HIDE DEF s
<1>4. stack'[t] = s
  BY <1>3
<1>5. ASSUME NEW u \in Tuners \ {t}
      PROVE  stack'[u] \in Seq(Frame) /\ Bystands(u, Top(t).name)
  <2> DEFINE v == stack[u]
             name == Top(t).name
  <2>1. v \in Seq(Frame) /\ Len(v) \in Nat /\ DOMAIN v = 1..Len(v)
        /\ \A i \in 1..Len(v) : v[i] \in Frame
    BY <1>1
  <2>2. stack'[u] = [i \in 1..Len(v) |->
                       IF v[i].name = name THEN [v[i] EXCEPT !.linked = FALSE] ELSE v[i]]
    BY <1>3, <2>1, Zenon DEF Unlinked
  <2> HIDE DEF v, name
  <2>3. \A f \in Frame : [f EXCEPT !.linked = FALSE] \in Frame
    BY DEF Frame
  <2>4. \A i \in 1..Len(v) :
          (IF v[i].name = name THEN [v[i] EXCEPT !.linked = FALSE] ELSE v[i]) \in Frame
    BY <2>1, <2>3
  <2>5. stack'[u] \in Seq(Frame) /\ Len(stack'[u]) = Len(v)
    BY <2>1, <2>2, <2>4
  <2>6. Depth(u)' = Depth(u)
    BY <2>5 DEF Depth, v
  <2>7. ASSUME NEW i \in 1..Depth(u)
        PROVE  \/ stack'[u][i] = stack[u][i]
               \/ /\ stack[u][i].name = name
                  /\ stack'[u][i] = [stack[u][i] EXCEPT !.linked = FALSE]
    BY <2>2, <2>1 DEF Depth, v
  <2> QED
    BY <2>5, <2>6, <2>7 DEF Bystands, name
<1>6. Stacked
  BY <1>1, <1>2, <1>3, <1>4, <1>5 DEF Stacked
<1> QED
  BY <1>2, <1>4, <1>5, <1>6 DEF Replaced, Depth, Top, Last

-----------------------------------------------------------------------------
(* What each kind of move keeps, whatever the action. *)

(* What a process is worth is a number of exports.                          *)
LEMMA WorthIsNat ==
  ASSUME NEW frame \in Frame
  PROVE  Worth(frame) \in Nat
<1>1. frame.step \in 0..Steps /\ Steps \in Nat
  BY ToolsAssumption DEF Frame
<1>2. /\ Copies[Steps + 1] \in Nat
      /\ Copies[(Steps + 1) - frame.step] \in Nat
      /\ Copies[Steps - frame.step] \in Nat
  BY <1>1, CopiesPositive
<1> QED
  BY <1>2 DEF Worth

(* A process that goes on keeps the stack in order if it leaves its call     *)
(* only when it was the caller.                                            *)
LEMMA ReplacedKeeps ==
  ASSUME Typed, NEW t \in Tuners, NEW frame \in Frame, Nested(t), Named(t),
         Replaced(t, frame), CodesValid' = CodesValid, calls[t] \subseteq calls'[t],
         Names(t, frame)',
         frame.pc \in InCall =>
           /\ Top(t).pc \in InCall
           /\ frame.name = Top(t).name
           /\ frame.step = Top(t).step
           /\ frame.pc \in {"passes", "check"} <=> Top(t).pc \in {"passes", "check"},
         frame.pc \notin InCall =>
           /\ Top(t).pc \notin {"passes", "check"}
           /\ CodesValid => Depth(t) = 1,
         frame.pc = "program" => CodesValid,
         frame.pc = "done" => Depth(t) = 1
  PROVE  Nested(t)' /\ Named(t)'
<1>1. Depth(t) \in Nat /\ Depth(t) > 0 /\ Top(t) = stack[t][Depth(t)]
  BY TopIsFrame
<1>2. Depth(t) > 1 => Below(t)' = Below(t)
  BY <1>1 DEF Replaced, Below
<1>3. Top(t)' = frame /\ Depth(t)' = Depth(t)
  BY DEF Replaced
<1>4. \A i \in 1..(Depth(t)' - 2) : stack'[t][i].pc = "wait_papi"
  BY <1>1 DEF Replaced, Nested
<1>5. Nested(t)'
  BY <1>1, <1>2, <1>3, <1>4 DEF Nested, InCall
<1>6. PICK d \in Nat : d = Depth(t)
  BY <1>1
<1>7. \A i \in 1..d : Names(t, stack[t][i])'
  <2>1. ASSUME NEW i \in 1..(d - 1)
        PROVE  Names(t, stack[t][i])'
    BY <2>1, <1>6 DEF Replaced, Named, Names
  <2>2. Names(t, stack[t][d])'
    BY <1>6 DEF Replaced
  <2> QED
    BY <2>1, <2>2
<1> QED
  BY <1>3, <1>5, <1>6, <1>7 DEF Named

(* A process that forks for a call waits for it, and its child is in it.     *)
LEMMA PushedKeeps ==
  ASSUME Typed, NEW t \in Tuners, NEW parent \in Frame, NEW child \in Frame,
         Nested(t), Named(t), Pushed(t, parent, child),
         CodesValid' = CodesValid, calls[t] \subseteq calls'[t],
         Names(t, parent)', Names(t, child)',
         Top(t).pc \notin InCall,
         child.name = parent.name, child.step = parent.step,
         \/ parent.pc = "wait_opt" /\ child.pc = "passes"
         \/ parent.pc = "wait_papi" /\ child.pc = "events"
  PROVE  Nested(t)' /\ Named(t)'
<1>1. Depth(t) \in Nat /\ Depth(t) > 0
  BY TopIsFrame
<1>2. Below(t)' = parent
  BY <1>1 DEF Pushed, Below
<1>3. Top(t)' = child /\ Depth(t)' = Depth(t) + 1
  BY DEF Pushed
<1>4. CodesValid => Depth(t) = 1
  BY <1>1 DEF Nested, InCall
<1>5. \A i \in 1..(Depth(t) - 1) : stack[t][i].pc = "wait_papi"
  BY <1>1 DEF Nested, InCall, Below
<1>6. \A i \in 1..(Depth(t)' - 2) : stack'[t][i].pc = "wait_papi"
  BY <1>1, <1>3, <1>5 DEF Pushed
<1>7. Nested(t)'
  BY <1>1, <1>2, <1>3, <1>4, <1>6 DEF Nested, InCall
<1>8. PICK d \in Nat : d = Depth(t)
  BY <1>1
<1>9. \A i \in 1..(d + 1) : Names(t, stack[t][i])'
  <2>1. ASSUME NEW i \in 1..(d - 1)
        PROVE  Names(t, stack[t][i])'
    BY <2>1, <1>8 DEF Pushed, Named, Names
  <2>2. Names(t, stack[t][d])' /\ Names(t, stack[t][d + 1])'
    BY <1>8 DEF Pushed
  <2> QED
    BY <2>1, <2>2
<1> QED
  BY <1>3, <1>7, <1>8, <1>9 DEF Named

(* A process that exits leaves its parent as it was but for the status.      *)
LEMMA PoppedKeeps ==
  ASSUME Typed, NEW t \in Tuners, NEW status \in {0, 1},
         Nested(t), Named(t), Depth(t) > 1,
         Popped(t, [Below(t) EXCEPT !.status = status]),
         CodesValid' = CodesValid, calls'[t] = calls[t]
  PROVE  Nested(t)' /\ Named(t)'
<1> DEFINE frame == [Below(t) EXCEPT !.status = status]
<1>1. Depth(t) \in Nat /\ Below(t) \in Frame
  BY TopIsFrame
<1>2. /\ frame.pc = Below(t).pc
      /\ frame.name = Below(t).name
  BY <1>1 DEF Frame
<1> HIDE DEF frame
<1>3. Top(t)' = frame /\ Depth(t)' = Depth(t) - 1 /\ stack'[t][Depth(t) - 1] = frame
      /\ \A i \in 1..(Depth(t) - 2) : stack'[t][i] = stack[t][i]
  BY DEF Popped, frame
<1>4. Below(t).pc \in {"wait_opt", "wait_papi"}
  BY DEF Nested
<1>5. Depth(t)' > 1 => Below(t)'.pc = "wait_papi"
  <2>1. ASSUME Depth(t) > 2
        PROVE  stack'[t][Depth(t) - 2].pc = "wait_papi"
    BY <1>1, <1>3, <2>1 DEF Nested
  <2> QED
    BY <1>1, <1>3, <2>1 DEF Below
<1>6. CodesValid => Depth(t) = 2
  BY DEF Nested
<1>7. \A i \in 1..(Depth(t)' - 2) : stack'[t][i].pc = "wait_papi"
  BY <1>1, <1>3 DEF Nested
<1>8. Nested(t)'
  BY <1>1, <1>2, <1>3, <1>4, <1>5, <1>6, <1>7 DEF Nested, InCall
<1>9. PICK d \in Nat : d = Depth(t) /\ d > 1
  BY <1>1
<1>10. \A i \in 1..(d - 1) : Names(t, stack[t][i])'
  <2>1. ASSUME NEW i \in 1..(d - 2)
        PROVE  Names(t, stack[t][i])'
    BY <2>1, <1>9, <1>3 DEF Named, Names
  <2>2. Names(t, stack[t][d - 1])'
    <3>1. Names(t, stack[t][d - 1]) /\ stack[t][d - 1] = Below(t)
      BY <1>9 DEF Named, Below
    <3> QED
      BY <1>2, <1>3, <1>9, <3>1 DEF Names
  <2> QED
    BY <1>9, <2>1, <2>2
<1> QED
  BY <1>3, <1>8, <1>9, <1>10 DEF Named

(* A process that goes on leaves as many exports as it is worth.            *)
LEMMA ReplacedExports ==
  ASSUME Typed, NEW t \in Tuners, NEW frame \in Frame, Replaced(t, frame),
         exports'[t] \in Nat, exports'[t] + Worth(frame) <= exports[t] + Worth(Top(t)),
         SumsLeft(t)
  PROVE  SumsLeft(t)'
<1>1. PICK d \in Nat : d = Depth(t) /\ d > 0 /\ Top(t) = stack[t][d]
  BY TopIsFrame
<1>2. PICK sums : SumsWorth(sums, stack[t]) /\ exports[t] + sums[d] <= Copies[Steps + 1]
  BY <1>1 DEF SumsLeft
<1>3. Depth(t)' = d /\ Len(stack[t]) = d /\ Len(stack'[t]) = d
  BY <1>1 DEF Replaced, Depth
<1>4. sums \in [0..d -> Nat] /\ \A i \in 1..d : sums[i - 1] + Worth(stack[t][i]) <= sums[i]
  BY <1>2, <1>3 DEF SumsWorth
<1>5. Worth(frame) \in Nat /\ Worth(Top(t)) \in Nat /\ exports[t] \in Nat
  BY WorthIsNat, TopIsFrame DEF Typed
<1>6. \A i \in 1..(d - 1) : stack'[t][i] = stack[t][i]
  BY <1>1 DEF Replaced
<1>7. stack'[t][d] = frame
  BY <1>1 DEF Replaced
<1> DEFINE next == [i \in 0..d |-> IF i = d THEN sums[d - 1] + Worth(frame) ELSE sums[i]]
<1>8. /\ next \in [0..d -> Nat]
      /\ next[d] = sums[d - 1] + Worth(frame)
      /\ \A i \in 0..(d - 1) : next[i] = sums[i]
  BY <1>1, <1>4, <1>5
<1> HIDE DEF next
<1>11. /\ sums[d] \in Nat /\ sums[d - 1] \in Nat
       /\ sums[d - 1] + Worth(Top(t)) <= sums[d]
       /\ next[d - 1] = sums[d - 1]
  BY <1>1, <1>4, <1>8
<1>9. \A i \in 1..d : next[i - 1] + Worth(stack'[t][i]) <= next[i]
  <2>1. ASSUME NEW i \in 1..(d - 1)
        PROVE  next[i - 1] + Worth(stack'[t][i]) <= next[i]
    BY <1>4, <1>6, <1>8
  <2>2. next[d - 1] + Worth(stack'[t][d]) <= next[d]
    BY <1>5, <1>7, <1>8, <1>11
  <2> QED
    BY <2>1, <2>2
<1>10. exports'[t] + next[d] <= Copies[Steps + 1]
  <2>1. next[d] = sums[d - 1] + Worth(frame)
    BY <1>8
  <2>2. Copies[Steps + 1] \in Nat
    BY CopiesPositive, ToolsAssumption
  <2>3. exports[t] + sums[d] <= Copies[Steps + 1]
    BY <1>2
  <2>4. exports'[t] \in Nat /\ exports'[t] + Worth(frame) <= exports[t] + Worth(Top(t))
    OBVIOUS
  <2> QED
    BY ONLY <1>5, <1>11, <2>1, <2>2, <2>3, <2>4
<1> QED
  BY <1>3, <1>8, <1>9, <1>10 DEF SumsLeft, SumsWorth

(* A process that forks shares what it is worth with its child.             *)
LEMMA PushedExports ==
  ASSUME Typed, NEW t \in Tuners, NEW parent \in Frame, NEW child \in Frame,
         Pushed(t, parent, child), Worth(parent) + Worth(child) <= Worth(Top(t)),
         exports'[t] = exports[t], SumsLeft(t)
  PROVE  SumsLeft(t)'
<1>1. PICK d \in Nat : d = Depth(t) /\ d > 0 /\ Top(t) = stack[t][d]
  BY TopIsFrame
<1>2. PICK sums : SumsWorth(sums, stack[t]) /\ exports[t] + sums[d] <= Copies[Steps + 1]
  BY <1>1 DEF SumsLeft
<1>3. Depth(t)' = d + 1 /\ Len(stack[t]) = d /\ Len(stack'[t]) = d + 1
  BY <1>1 DEF Pushed, Depth
<1>4. sums \in [0..d -> Nat] /\ \A i \in 1..d : sums[i - 1] + Worth(stack[t][i]) <= sums[i]
  BY <1>2, <1>3 DEF SumsWorth
<1>5. Worth(parent) \in Nat /\ Worth(child) \in Nat /\ Worth(Top(t)) \in Nat
  BY WorthIsNat, TopIsFrame
<1>6. \A i \in 1..(d - 1) : stack'[t][i] = stack[t][i]
  BY <1>1 DEF Pushed
<1>7. stack'[t][d] = parent /\ stack'[t][d + 1] = child
  BY <1>1 DEF Pushed
<1> DEFINE next == [i \in 0..(d + 1) |-> IF i < d THEN sums[i]
                                         ELSE IF i = d THEN sums[d] - Worth(child)
                                         ELSE sums[d]]
<1>8. sums[d - 1] + Worth(parent) + Worth(child) <= sums[d] /\ sums[d] \in Nat
      /\ sums[d - 1] \in Nat
  BY <1>1, <1>4, <1>5
<1>9. next \in [0..(d + 1) -> Nat]
  BY <1>4, <1>5, <1>8
<1>10. \A i \in 1..(d + 1) : next[i - 1] + Worth(stack'[t][i]) <= next[i]
  <2>1. ASSUME NEW i \in 1..(d - 1)
        PROVE  next[i - 1] + Worth(stack'[t][i]) <= next[i]
    BY <1>4, <1>6
  <2>2. next[d - 1] + Worth(stack'[t][d]) <= next[d]
    BY <1>1, <1>5, <1>7, <1>8
  <2>3. next[d] + Worth(stack'[t][d + 1]) <= next[d + 1]
    BY <1>1, <1>5, <1>7, <1>8
  <2> QED
    BY <2>1, <2>2, <2>3
<1>11. next[d + 1] = sums[d]
  OBVIOUS
<1> HIDE DEF next
<1> QED
  BY <1>2, <1>3, <1>9, <1>10, <1>11 DEF SumsLeft, SumsWorth

(* A process that exits has exported at most what it was worth.             *)
LEMMA PoppedExports ==
  ASSUME Typed, NEW t \in Tuners, NEW status \in {0, 1}, Depth(t) > 1,
         Popped(t, [Below(t) EXCEPT !.status = status]),
         exports'[t] \in Nat, exports'[t] <= exports[t] + Worth(Top(t)), SumsLeft(t)
  PROVE  SumsLeft(t)'
<1>1. PICK d \in Nat : d = Depth(t) /\ d > 1 /\ Top(t) = stack[t][d]
  BY TopIsFrame
<1>2. PICK sums : SumsWorth(sums, stack[t]) /\ exports[t] + sums[d] <= Copies[Steps + 1]
  BY <1>1 DEF SumsLeft
<1>3. PICK frame \in Frame : /\ frame = [Below(t) EXCEPT !.status = status]
                             /\ Worth(frame) = Worth(Below(t))
  <2>1. Below(t) \in Frame
    BY TopIsFrame
  <2>2. \A f \in Frame : /\ [f EXCEPT !.status = status] \in Frame
                         /\ Worth([f EXCEPT !.status = status]) = Worth(f)
    BY DEF Frame, Worth
  <2> QED
    BY <2>1, <2>2
<1>4. Depth(t)' = d - 1 /\ Len(stack[t]) = d /\ Len(stack'[t]) = d - 1
  BY <1>1 DEF Popped, Depth
<1>5. sums \in [0..d -> Nat] /\ \A i \in 1..d : sums[i - 1] + Worth(stack[t][i]) <= sums[i]
  BY <1>2, <1>4 DEF SumsWorth
<1>6. Worth(Top(t)) \in Nat /\ exports[t] \in Nat
  BY WorthIsNat, TopIsFrame DEF Typed
<1>7. \A i \in 1..(d - 2) : stack'[t][i] = stack[t][i]
  BY <1>1 DEF Popped
<1>8. stack'[t][d - 1] = frame /\ Worth(frame) = Worth(stack[t][d - 1])
  BY <1>1, <1>3 DEF Popped, Below
<1> DEFINE next == [i \in 0..(d - 1) |-> sums[i]]
<1>9. next \in [0..(d - 1) -> Nat] /\ \A i \in 0..(d - 1) : next[i] = sums[i]
  BY <1>5
<1> HIDE DEF next
<1>10. \A i \in 1..(d - 1) : next[i - 1] + Worth(stack'[t][i]) <= next[i]
  <2>1. ASSUME NEW i \in 1..(d - 2)
        PROVE  next[i - 1] + Worth(stack'[t][i]) <= next[i]
    BY <1>5, <1>7, <1>9
  <2>2. next[(d - 1) - 1] + Worth(stack'[t][d - 1]) <= next[d - 1]
    BY <1>1, <1>5, <1>8, <1>9
  <2> QED
    BY <1>1, <2>1, <2>2
<1>11. exports'[t] + next[d - 1] <= Copies[Steps + 1]
  <2>1. sums[d - 1] + Worth(Top(t)) <= sums[d] /\ sums[d] \in Nat /\ sums[d - 1] \in Nat
    BY <1>1, <1>5
  <2>2. Copies[Steps + 1] \in Nat
    BY CopiesPositive, ToolsAssumption
  <2>3. next[d - 1] = sums[d - 1]
    BY <1>1, <1>9
  <2>4. exports[t] + sums[d] <= Copies[Steps + 1]
    BY <1>2
  <2> QED
    BY <1>6, <2>1, <2>2, <2>3, <2>4
<1> QED
  BY <1>4, <1>9, <1>10, <1>11 DEF SumsLeft, SumsWorth

(* A process in a call names a file.                                        *)
LEMMA CallsFile ==
  ASSUME NEW t \in Tuners, NEW f, Names(t, f), f.pc \in Applying \cup Measuring
  PROVE  f.name \in FileName
<1>1. \A n : n \in {".tmp-"} \X (0..MaxTime) => n \in FileName
  BY DEF FileName
<1>2. \A n : n \in {".papi-"} \X (0..MaxTime) => n \in FileName
  BY DEF FileName
<1> QED
  BY <1>1, <1>2 DEF Names

(* Two tuners that name one file called in the same second.                 *)
LEMMA NamesCollide ==
  ASSUME NEW t \in Tuners, NEW u \in Tuners \ {t}, NEW f, NEW g,
         Names(t, f), Names(u, g), f.name = g.name,
         f.pc \in Applying \cup Measuring
  PROVE  /\ g.pc \in Applying => Collided(u, "apply")
         /\ g.pc \in Measuring => Collided(u, "run")
<1>1. ASSUME g.pc \in Applying
      PROVE  Collided(u, "apply")
  BY <1>1 DEF Names, Collided
<1>2. ASSUME g.pc \in Measuring
      PROVE  Collided(u, "run")
  BY <1>2 DEF Names, Collided
<1> QED
  BY <1>1, <1>2

(* Calls are never forgotten.                                               *)
LEMMA CollidedStays ==
  ASSUME NEW u \in Tuners, NEW kind, \A v \in Tuners : calls[v] \subseteq calls'[v],
         Collided(u, kind)
  PROVE  Collided(u, kind)'
BY DEF Collided

-----------------------------------------------------------------------------
(* A step of one tuner, seen by the others. *)

FilesKeptBut(name) ==
  \A n \in FileName \ {name} :
    /\ n \in DOMAIN files' <=> n \in DOMAIN files
    /\ n \in DOMAIN files => files'[n] = files[n]

(* All that a step of t can do to the rest: it touches one file, the one its *)
(* running process names, and only in a call.                               *)
Effects(t) ==
  /\ CodesValid' = CodesValid
  /\ \A u \in Tuners \ {t} : /\ Bystands(u, Top(t).name)
                            /\ calls'[u] = calls[u]
                            /\ exports'[u] = exports[u]
                            /\ measured'[u] = measured[u]
  /\ calls[t] \subseteq calls'[t]
  /\ failed \subseteq failed'
  /\ ended \subseteq ended'
  /\ FilesKeptBut(Top(t).name)
  /\ \/ Top(t).pc \in Applying \cup Measuring
     \/ files' = files /\ OthersStay(t)

(* The frame of a bystander, but for the link of its file.                  *)
SameFrame(f, g) ==
  f.pc = g.pc /\ f.step = g.step /\ f.module = g.module /\ f.name = g.name
    /\ f.status = g.status

(* A bystander's frames keep all but the link of a file they name.          *)
LEMMA BystanderFrames ==
  ASSUME Typed, NEW u \in Tuners, NEW name, Bystands(u, name)
  PROVE  /\ Depth(u)' = Depth(u)
         /\ \A i \in 1..Depth(u) :
              /\ SameFrame(stack'[u][i], stack[u][i])
              /\ stack[u][i].name # name => stack'[u][i] = stack[u][i]
         /\ SameFrame(Top(u)', Top(u))
         /\ Top(u).name # name => Top(u)' = Top(u)
         /\ Depth(u) > 1 => SameFrame(Below(u)', Below(u))
<1>1. /\ Depth(u) \in Nat /\ Depth(u) > 0
      /\ Top(u) = stack[u][Depth(u)]
      /\ \A i \in 1..Depth(u) : stack[u][i] \in Frame
  BY TopIsFrame
<1>2. Depth(u)' = Depth(u)
  BY DEF Bystands
<1>3. \A f \in Frame : SameFrame([f EXCEPT !.linked = FALSE], f) /\ SameFrame(f, f)
  BY DEF Frame, SameFrame
<1>4. \A i \in 1..Depth(u) :
        /\ SameFrame(stack'[u][i], stack[u][i])
        /\ stack[u][i].name # name => stack'[u][i] = stack[u][i]
  BY <1>1, <1>3 DEF Bystands
<1>5. Top(u)' = stack'[u][Depth(u)]
  BY <1>2 DEF Top, Last, Depth
<1>6. Depth(u) > 1 => Below(u)' = stack'[u][Depth(u) - 1]
  BY <1>2 DEF Below
<1> QED
  BY <1>1, <1>2, <1>4, <1>5, <1>6 DEF Below

(* Whatever another tuner does, a tuner keeps what is its own, or the two     *)
(* called in the same second.                                              *)
LEMMA Bystander ==
  ASSUME Typed, NEW t \in Tuners, NEW u \in Tuners \ {t},
         Named(t), TunerInv(u), Effects(t)
  PROVE  TunerInv(u)'
<1>1. Bystands(u, Top(t).name)
  BY DEF Effects
<1>2. /\ Depth(u)' = Depth(u)
      /\ \A i \in 1..Depth(u) : SameFrame(stack'[u][i], stack[u][i])
      /\ SameFrame(Top(u)', Top(u))
      /\ Top(u).name # Top(t).name => Top(u)' = Top(u)
      /\ Depth(u) > 1 => SameFrame(Below(u)', Below(u))
  BY <1>1, BystanderFrames
<1>3. /\ CodesValid' = CodesValid /\ calls'[u] = calls[u]
      /\ exports'[u] = exports[u] /\ measured'[u] = measured[u]
      /\ ended \subseteq ended'
  BY DEF Effects
<1>4. \A kind : Collided(u, kind) => Collided(u, kind)'
  <2>1. \A v \in Tuners : calls[v] \subseteq calls'[v]
    BY DEF Effects
  <2> QED
    BY <2>1, CollidedStays
<1>5. Depth(u) \in Nat /\ Depth(u) > 0 /\ Top(u) = stack[u][Depth(u)] /\ Top(u) \in Frame
  BY TopIsFrame
<1>6. Nested(u)'
  <2>1. Nested(u)
    BY DEF TunerInv
  <2>2. \A i \in 1..(Depth(u)' - 2) : stack'[u][i].pc = "wait_papi"
    BY <1>2, <1>5, <2>1 DEF Nested, SameFrame
  <2> QED
    BY <1>2, <1>3, <2>1, <2>2 DEF Nested, SameFrame
<1>7. Named(u)'
  <2>1. Named(u)
    BY DEF TunerInv
  <2>2. PICK d : d = Depth(u)
    OBVIOUS
  <2>3. \A i \in 1..d : Names(u, stack[u][i])'
    BY <1>2, <1>3, <2>1, <2>2 DEF Named, Names, SameFrame
  <2> QED
    BY <1>2, <2>2, <2>3 DEF Named
<1>8. \/ Top(u).name # Top(t).name
      \/ Top(u).pc \notin Applying \cup Measuring
      \/ Top(u).pc \in Applying /\ Collided(u, "apply")
      \/ Top(u).pc \in Measuring /\ Collided(u, "run")
      \/ files' = files /\ OthersStay(t)
  <2> SUFFICES ASSUME Top(u).name = Top(t).name, Top(t).pc \in Applying \cup Measuring,
                      Top(u).pc \in Applying \cup Measuring
               PROVE  \/ Top(u).pc \in Applying /\ Collided(u, "apply")
                      \/ Top(u).pc \in Measuring /\ Collided(u, "run")
    BY DEF Effects
  <2>1. Names(t, Top(t)) /\ Names(u, Top(u))
    BY <1>5, TopIsFrame DEF Named, TunerInv
  <2> QED
    BY <2>1, NamesCollide
<1>9. \/ Collided(u, "apply")
      \/ Top(u).pc \notin Applying
      \/ Top(u).name \in FileName /\ ModuleIn(Top(u).name)' = ModuleIn(Top(u).name)
  <2>1. Top(u).pc \in Applying => Top(u).name \in FileName
    BY <1>5, CallsFile DEF TunerInv, Named
  <2>2. Applying \cap Measuring = {}
    BY DEF Applying, Measuring
  <2>3. Top(u)'.name = Top(u).name
    BY <1>2 DEF SameFrame
  <2>4. CASE files' = files
    BY <2>1, <2>3, <2>4 DEF ModuleIn
  <2>5. CASE Top(u).name # Top(t).name
    BY <2>1, <2>3, <2>5 DEF ModuleIn, Effects, FilesKeptBut
  <2> QED
    BY <1>8, <2>2, <2>4, <2>5
<1>10. OwnFile(u)'
  <2>1. OwnFile(u)
    BY DEF TunerInv
  <2> QED
    BY <1>2, <1>4, <1>9, <2>1 DEF OwnFile, SameFrame, Applying
<1>11. OwnCounters(u)'
  <2>1. OwnCounters(u)
    BY DEF TunerInv
  <2>2. CASE Collided(u, "run") \/ Top(u).pc \notin Measuring
    BY <1>2, <1>4, <2>1, <2>2 DEF OwnCounters, SameFrame, Measuring
  <2>3. CASE Top(u).pc \in Measuring /\ ~Collided(u, "run")
    <3>1. Top(u).name \in FileName
      BY <1>5, <2>3, CallsFile DEF TunerInv, Named
    <3>2. Applying \cap Measuring = {}
      BY DEF Applying, Measuring
    <3>3. \/ files' = files /\ OthersStay(t)
          \/ Top(u).name # Top(t).name
      BY <1>8, <2>3, <3>2
    <3>4. Top(u)' = Top(u)
      BY <1>2, <3>3 DEF OthersStay, Top
    <3>5. /\ Top(u).name \in DOMAIN files' <=> Top(u).name \in DOMAIN files
          /\ Top(u).name \in DOMAIN files => files'[Top(u).name] = files[Top(u).name]
      BY <3>1, <3>3 DEF Effects, FilesKeptBut
    <3>6. CountersIn(Top(u).name)' = CountersIn(Top(u).name)
      BY <3>4, <3>5 DEF CountersIn
    <3> QED
      BY <1>3, <1>4, <2>1, <3>4, <3>5, <3>6 DEF OwnCounters
  <2> QED
    BY <2>2, <2>3
<1>12. ExportsLeft(u)'
  <2>1. ExportsLeft(u)
    BY DEF TunerInv
  <2>2. ASSUME SumsLeft(u)
        PROVE  SumsLeft(u)'
    <3>1. PICK sums : SumsWorth(sums, stack[u]) /\ exports[u] + sums[Depth(u)] <= Copies[Steps + 1]
      BY <2>2 DEF SumsLeft
    <3>2. \A i \in 1..Depth(u) : Worth(stack'[u][i]) = Worth(stack[u][i])
      BY <1>2 DEF Worth, SameFrame
    <3>3. SumsWorth(sums, stack'[u])
      BY <1>2, <3>1, <3>2 DEF SumsWorth, Depth
    <3> QED
      BY <1>2, <1>3, <3>1, <3>3 DEF SumsLeft
  <2> QED
    BY <1>2, <1>3, <2>1, <2>2 DEF ExportsLeft, SameFrame
<1>13. Honest(u)'
  <2>1. Honest(u)
    BY DEF TunerInv
  <2> QED
    BY <1>3, <1>4, <2>1 DEF Honest
<1> QED
  BY <1>6, <1>7, <1>10, <1>11, <1>12, <1>13 DEF TunerInv

-----------------------------------------------------------------------------
(* A step of one tuner, seen by itself: what each action has to show. *)

(* Where nothing is known of the module's file, or of the counters'.        *)
LEMMA NothingOwned ==
  ASSUME NEW t \in Tuners
  PROVE  /\ Top(t)'.pc \notin {"check", "wait_opt", "remove_tmp", "measure"} => OwnFile(t)'
         /\ Top(t)'.pc \notin {"program", "wait_papi"} => OwnCounters(t)'
BY DEF OwnFile, OwnCounters

(* A measurement stays as it was while no other is made.                    *)
LEMMA HonestStays ==
  ASSUME NEW t \in Tuners, Honest(t), measured'[t] = measured[t], CodesValid' = CodesValid,
         ended \subseteq ended', \A u \in Tuners : calls[u] \subseteq calls'[u]
  PROVE  Honest(t)'
<1>1. Collided(t, "run") => Collided(t, "run")'
  BY CollidedStays
<1> QED
  BY <1>1 DEF Honest

(* A process that goes on.                                                  *)
LEMMA GoesOn ==
  ASSUME Typed, NEW t \in Tuners, TunerInv(t), NEW frame \in Frame,
         Replaced(t, frame), CodesValid' = CodesValid, calls' = calls, exports' = exports,
         Names(t, frame),
         frame.pc \in InCall =>
           /\ Top(t).pc \in InCall
           /\ frame.name = Top(t).name
           /\ frame.step = Top(t).step
           /\ frame.pc \in {"passes", "check"} <=> Top(t).pc \in {"passes", "check"},
         frame.pc \notin InCall =>
           /\ Top(t).pc \notin {"passes", "check"}
           /\ CodesValid => Top(t).pc \notin InCall,
         frame.pc = "program" => CodesValid,
         frame.pc # "done", Top(t).pc # "done",
         Worth(frame) <= Worth(Top(t)),
         OwnFile(t)', OwnCounters(t)', Honest(t)'
  PROVE  TunerInv(t)'
<1>1. Nested(t) /\ Named(t) /\ ExportsLeft(t)
  BY DEF TunerInv
<1>2. Names(t, frame)'
  BY DEF Names
<1>3. CodesValid /\ Top(t).pc \notin InCall => Depth(t) = 1
  BY <1>1, TopIsFrame DEF Nested, InCall
<1>4. Nested(t)' /\ Named(t)'
  BY <1>1, <1>2, <1>3, ReplacedKeeps
<1>5. Top(t)' = frame
  BY DEF Replaced
<1>6. SumsLeft(t) => SumsLeft(t)'
  <2>1. Worth(frame) \in Nat /\ Worth(Top(t)) \in Nat /\ exports[t] \in Nat
    BY WorthIsNat, TopIsFrame DEF Typed
  <2> QED
    BY <2>1, ReplacedExports
<1>7. ExportsLeft(t)'
  BY <1>1, <1>5, <1>6 DEF ExportsLeft
<1> QED
  BY <1>4, <1>7 DEF TunerInv

(* A process that exits.                                                    *)
LEMMA Leaves ==
  ASSUME Typed, NEW t \in Tuners, TunerInv(t), NEW status \in {0, 1}, Depth(t) > 1,
         Popped(t, [Below(t) EXCEPT !.status = status]),
         CodesValid' = CodesValid, calls' = calls,
         exports'[t] \in Nat, exports'[t] <= exports[t] + Worth(Top(t)),
         CodesValid => exports'[t] = exports[t],
         OwnFile(t)', OwnCounters(t)', Honest(t)'
  PROVE  TunerInv(t)'
<1>1. Nested(t) /\ Named(t) /\ ExportsLeft(t)
  BY DEF TunerInv
<1>2. Nested(t)' /\ Named(t)'
  BY <1>1, PoppedKeeps
<1>3. Top(t).pc # "done"
  BY <1>1 DEF Nested
<1>4. Top(t)'.pc # "done"
  <2>1. Below(t) \in Frame /\ Below(t).pc \in {"wait_opt", "wait_papi"}
    BY <1>1, TopIsFrame DEF Nested
  <2>2. [Below(t) EXCEPT !.status = status].pc = Below(t).pc
    BY <2>1 DEF Frame
  <2> QED
    BY <2>1, <2>2 DEF Popped
<1>5. SumsLeft(t) => SumsLeft(t)'
  BY PoppedExports
<1>6. ExportsLeft(t)'
  BY <1>1, <1>3, <1>4, <1>5 DEF ExportsLeft
<1> QED
  BY <1>2, <1>6 DEF TunerInv

(* A process that forks.                                                    *)
LEMMA CallsChild ==
  ASSUME Typed, NEW t \in Tuners, TunerInv(t), NEW parent \in Frame, NEW child \in Frame,
         Pushed(t, parent, child), CodesValid' = CodesValid, exports' = exports,
         calls[t] \subseteq calls'[t],
         Names(t, parent)', Names(t, child)', Top(t).pc \notin InCall, Top(t).pc # "done",
         child.name = parent.name, child.step = parent.step,
         \/ parent.pc = "wait_opt" /\ child.pc = "passes"
         \/ parent.pc = "wait_papi" /\ child.pc = "events",
         Worth(parent) + Worth(child) <= Worth(Top(t)),
         Honest(t)'
  PROVE  TunerInv(t)'
<1>1. Nested(t) /\ Named(t) /\ ExportsLeft(t)
  BY DEF TunerInv
<1>2. Nested(t)' /\ Named(t)'
  BY <1>1, PushedKeeps
<1>3. Top(t)' = child
  BY DEF Pushed
<1>4. OwnFile(t)' /\ OwnCounters(t)'
  BY <1>3, NothingOwned
<1>5. SumsLeft(t) => SumsLeft(t)'
  BY PushedExports
<1>6. ExportsLeft(t)'
  BY <1>1, <1>3, <1>5 DEF ExportsLeft
<1> QED
  BY <1>2, <1>4, <1>6 DEF TunerInv

(* A file that a process of the tuner will remove is still to be removed     *)
(* unless the running process had it and is done with it.                   *)
LEMMA ReplacedHolds ==
  ASSUME Typed, NEW t \in Tuners, NEW frame, NEW n, Replaced(t, frame), HeldBy(t, n),
         \/ Top(t).pc \notin Removing
         \/ n # Top(t).name
         \/ frame.name = Top(t).name /\ frame.pc \in Removing
  PROVE  HeldBy(t, n)'
<1>1. PICK d \in Nat : d = Depth(t) /\ d > 0 /\ Top(t) = stack[t][d]
  BY TopIsFrame
<1>2. PICK i \in 1..d : stack[t][i].name = n /\ stack[t][i].pc \in Removing
  BY <1>1 DEF HeldBy
<1>3. stack'[t][i].name = n /\ stack'[t][i].pc \in Removing
  BY <1>1, <1>2 DEF Replaced
<1> QED
  BY <1>1, <1>2, <1>3 DEF HeldBy, Replaced

(* The same for a process that forks.                                       *)
LEMMA PushedHolds ==
  ASSUME Typed, NEW t \in Tuners, NEW parent, NEW child, NEW n, Pushed(t, parent, child),
         HeldBy(t, n), Top(t).pc \notin Removing
  PROVE  HeldBy(t, n)'
<1>1. PICK d \in Nat : d = Depth(t) /\ d > 0 /\ Top(t) = stack[t][d]
  BY TopIsFrame
<1>2. PICK i \in 1..d : stack[t][i].name = n /\ stack[t][i].pc \in Removing
  BY <1>1 DEF HeldBy
<1>3. stack'[t][i].name = n /\ stack'[t][i].pc \in Removing
  BY <1>1, <1>2 DEF Pushed
<1> QED
  BY <1>1, <1>2, <1>3 DEF HeldBy, Pushed

(* The same for a process that exits.                                       *)
LEMMA PoppedHolds ==
  ASSUME Typed, NEW t \in Tuners, NEW status \in {0, 1}, NEW n, Depth(t) > 1,
         Popped(t, [Below(t) EXCEPT !.status = status]),
         HeldBy(t, n), Top(t).pc \notin Removing
  PROVE  HeldBy(t, n)'
<1>1. PICK d \in Nat : d = Depth(t) /\ d > 1 /\ Top(t) = stack[t][d]
  BY TopIsFrame
<1>2. PICK i \in 1..(d - 1) : stack[t][i].name = n /\ stack[t][i].pc \in Removing
  BY <1>1 DEF HeldBy
<1>3. Below(t) = stack[t][d - 1] /\ Below(t) \in Frame
  BY <1>1, TopIsFrame DEF Below
<1>4. PICK frame : /\ frame = [Below(t) EXCEPT !.status = status]
                   /\ frame.name = Below(t).name /\ frame.pc = Below(t).pc
  BY <1>3 DEF Frame
<1>5. /\ stack'[t][d - 1] = frame
      /\ \A j \in 1..(d - 2) : stack'[t][j] = stack[t][j]
  BY <1>1, <1>4 DEF Popped
<1>6. stack'[t][i].name = n /\ stack'[t][i].pc \in Removing
  <2>1. CASE i = d - 1
    BY <1>2, <1>3, <1>4, <1>5, <2>1
  <2>2. CASE i \in 1..(d - 2)
    BY <1>2, <1>5, <2>2
  <2> QED
    BY <1>1, <2>1, <2>2
<1> QED
  BY <1>1, <1>2, <1>6 DEF HeldBy, Popped

(* The file of a call is the caller's to remove.                            *)
LEMMA CallerHolds ==
  ASSUME Typed, NEW t \in Tuners, Nested(t), Top(t).pc \in InCall
  PROVE  HeldBy(t, Top(t).name)
<1>1. PICK d \in Nat : d = Depth(t) /\ d > 1
  BY TopIsFrame DEF Nested
<1>2. stack[t][d - 1].name = Top(t).name /\ stack[t][d - 1].pc \in Removing
  BY <1>1 DEF Nested, Below, Removing
<1> QED
  BY <1>1, <1>2 DEF HeldBy

(* What every step of a tuner does.                                         *)
Keeps(t) ==
  /\ Typed'
  /\ NoCounters'
  /\ Effects(t)
  /\ TunerInv(t)'
  /\ \A n \in DOMAIN files' :
       /\ n \in DOMAIN files \/ HeldBy(t, n)'
       /\ HeldBy(t, n) => n \in failed' \/ HeldBy(t, n)'

(* The histories stay the size they have.                                   *)
Recorded(t) ==
  /\ CodesValid' = CodesValid
  /\ now' = now
  /\ exports' \in [Tuners -> Nat]
  /\ DOMAIN calls' = Tuners
  /\ DOMAIN measured' = Tuners
  /\ \A u \in Tuners \ {t} : /\ calls'[u] = calls[u]
                            /\ exports'[u] = exports[u]
                            /\ measured'[u] = measured[u]
  /\ calls[t] \subseteq calls'[t]
  /\ failed \subseteq failed'
  /\ ended \subseteq ended'

(* An action that touches no file.                                          *)
LEMMA QuietKeeps ==
  ASSUME Inv, NEW t \in Tuners, Stacked, OthersStay(t), Depth(t)' > 0, Recorded(t),
         files' = files, TunerInv(t)',
         \A n \in DOMAIN files : HeldBy(t, n) => n \in failed' \/ HeldBy(t, n)'
  PROVE  Keeps(t)
<1>1. Typed
  BY DEF Inv
<1>2. \A u \in Tuners \ {t} : Depth(u)' = Depth(u)
  BY DEF OthersStay, Depth
<1>3. \A u \in Tuners : Depth(u)' > 0
  BY <1>1, <1>2, TopIsFrame
<1>4. Typed'
  BY <1>1, <1>3 DEF Typed, Stacked, Recorded, Depth
<1>5. NoCounters'
  BY DEF Inv, NoCounters, Recorded
<1>6. \A u \in Tuners \ {t} : Bystands(u, Top(t).name)
  BY <1>2 DEF Bystands, OthersStay
<1>7. Effects(t)
  BY <1>6 DEF Effects, Recorded, FilesKeptBut
<1> QED
  BY <1>4, <1>5, <1>7 DEF Keeps

(* An action of a call's child, that creates or writes the call's file.     *)
LEMMA WriteKeeps ==
  ASSUME Inv, NEW t \in Tuners, Stacked, OthersStay(t), Depth(t)' > 0, Recorded(t),
         Top(t).pc \in InCall, NEW content \in Content,
         NEW name, name = Top(t).name,
         \/ files' = [n \in DOMAIN files \cup {name} |->
                        IF n = name THEN content ELSE files[n]]
         \/ files' = [files EXCEPT ![name] = content],
         Top(t).pc \in {"events", "program"} => CodesValid,
         TunerInv(t)', HeldBy(t, name)',
         \A n \in DOMAIN files : HeldBy(t, n) => HeldBy(t, n)'
  PROVE  Keeps(t)
<1>1. Typed /\ Named(t)
  BY DEF Inv, TunerInv
<1>2. \A u \in Tuners \ {t} : Depth(u)' = Depth(u)
  BY DEF OthersStay, Depth
<1>3. \A u \in Tuners : Depth(u)' > 0
  BY <1>1, <1>2, TopIsFrame
<1>4. /\ name \in FileName
      /\ ~CodesValid => name \in {".tmp-"} \X (0..MaxTime)
  <2>1. Names(t, Top(t)) /\ Top(t).pc \in Applying \cup Measuring
    BY <1>1, TopIsFrame DEF Named, InCall, Applying, Measuring
  <2>2. ~CodesValid => Top(t).pc \in Applying
    BY DEF InCall, Applying
  <2> QED
    BY <2>1, <2>2, CallsFile DEF Names
<1>5. /\ DOMAIN files' \subseteq DOMAIN files \cup {name}
      /\ DOMAIN files \subseteq DOMAIN files'
      /\ \A n \in DOMAIN files' : files'[n] = IF n = name THEN content ELSE files[n]
      /\ \A n : n \notin DOMAIN files' => n \notin DOMAIN files
      /\ files' = [n \in DOMAIN files' |-> IF n = name THEN content ELSE files[n]]
  <2>1. files \in [DOMAIN files -> Content]
    BY <1>1 DEF Typed
  <2>2. CASE files' = [n \in DOMAIN files \cup {name} |->
                        IF n = name THEN content ELSE files[n]]
    BY <2>1, <2>2
  <2>3. CASE files' = [files EXCEPT ![name] = content]
    BY <2>1, <2>3
  <2> QED
    BY <2>2, <2>3
<1>6. DOMAIN files \subseteq FileName /\ files \in [DOMAIN files -> Content]
  BY <1>1 DEF Typed
<1>7. DOMAIN files' \subseteq FileName /\ files' \in [DOMAIN files' -> Content]
  BY <1>4, <1>5, <1>6
<1>8. Typed'
  BY <1>1, <1>3, <1>7 DEF Typed, Stacked, Recorded, Depth
<1>9. NoCounters'
  BY <1>4, <1>5 DEF Inv, NoCounters, Recorded
<1>10. \A u \in Tuners \ {t} : Bystands(u, Top(t).name)
  BY <1>2 DEF Bystands, OthersStay
<1>11. FilesKeptBut(name)
  BY <1>5 DEF FilesKeptBut
<1>12. Effects(t)
  BY <1>4, <1>10, <1>11 DEF Effects, Recorded, InCall, Applying, Measuring
<1>13. \A n \in DOMAIN files' : /\ n \in DOMAIN files \/ HeldBy(t, n)'
                               /\ HeldBy(t, n) => HeldBy(t, n)'
  BY <1>4, <1>5
<1> QED
  BY <1>8, <1>9, <1>12, <1>13 DEF Keeps

(* An action that removes the file of the call that returned.               *)
LEMMA RemoveKeeps ==
  ASSUME Inv, NEW t \in Tuners, NEW frame \in Frame, RemovesAnd(t, frame), Recorded(t),
         Top(t).pc \in {"remove_tmp", "remove_papi"}, TunerInv(t)'
  PROVE  Keeps(t)
<1>1. Typed
  BY DEF Inv
<1>2. Stacked /\ Replaced(t, frame) /\ \A u \in Tuners \ {t} : Bystands(u, Top(t).name)
  BY <1>1, RemovesStack
<1>3. \A u \in Tuners : Depth(u)' > 0
  BY <1>1, <1>2, TopIsFrame DEF Bystands, Replaced
<1>4. PICK name : name = Top(t).name
  OBVIOUS
<1>5. files' = [n \in DOMAIN files \ {name} |-> files[n]]
  BY <1>4 DEF RemovesAnd
<1>6. /\ DOMAIN files' = DOMAIN files \ {name}
      /\ \A n \in DOMAIN files' : files'[n] = files[n]
  BY <1>5
<1>7. DOMAIN files \subseteq FileName /\ files \in [DOMAIN files -> Content]
  BY <1>1 DEF Typed
<1>8. DOMAIN files' \subseteq FileName /\ files' \in [DOMAIN files' -> Content]
  BY <1>5, <1>7
<1>9. Typed'
  BY <1>1, <1>2, <1>3, <1>8 DEF Typed, Stacked, Recorded, Depth
<1>10. NoCounters'
  BY <1>6 DEF Inv, NoCounters, Recorded
<1>11. FilesKeptBut(name)
  BY <1>6 DEF FilesKeptBut
<1>12. Effects(t)
  BY <1>2, <1>4, <1>11 DEF Effects, Recorded, Applying, Measuring
<1>13. ASSUME NEW n \in DOMAIN files', HeldBy(t, n)
       PROVE  HeldBy(t, n)'
  <2>1. n # Top(t).name
    BY <1>4, <1>6
  <2> QED
    BY <1>1, <1>2, <1>13, <2>1, ReplacedHolds
<1> QED
  BY <1>6, <1>9, <1>10, <1>12, <1>13 DEF Keeps

-----------------------------------------------------------------------------
(* The actions, one by one. *)

(* A candidate after the other, or the export: what a process is worth at    *)
(* the end of a step.                                                      *)
LEMMA NextStepFrame ==
  ASSUME NEW f \in Frame
  PROVE  /\ NextStep(f) \in Frame
         /\ NextStep(f).pc \in {"apply", "export"}
         /\ NextStep(f).name = f.name
         /\ NextStep(f).status = f.status
         /\ Worth(NextStep(f)) = Copies[Steps - f.step]
<1> DEFINE g == NextStep(f)
<1>1. f.step \in 0..Steps /\ Steps \in Nat
  BY ToolsAssumption DEF Frame
<1>2. CASE f.step < Steps
  <2>1. g = [f EXCEPT !.pc = "apply", !.step = f.step + 1, !.module = Null]
    BY <1>2 DEF NextStep
  <2>2. f.step + 1 \in 0..Steps
    BY <1>1, <1>2, ToolsAssumption
  <2>3. g \in Frame /\ g.pc = "apply" /\ g.step = f.step + 1 /\ g.name = f.name
        /\ g.status = f.status
    BY <2>1, <2>2 DEF Frame, Labels
  <2>4. Worth(g) = Copies[(Steps + 1) - (f.step + 1)]
    BY <2>3 DEF Worth
  <2> QED
    BY <1>1, <2>3, <2>4
<1>3. CASE f.step = Steps
  <2>1. g = [f EXCEPT !.pc = "export", !.step = f.step, !.module = Null]
    <3>1. ~(f.step < Steps)
      BY <1>1, <1>3
    <3> QED
      BY ONLY <3>1, Zenon DEF NextStep, g
  <2>2. g \in Frame /\ g.pc = "export" /\ g.step = f.step /\ g.name = f.name
        /\ g.status = f.status
    BY <2>1, <1>3 DEF Frame, Labels
  <2>3. Worth(g) = 1
    BY <2>2 DEF Worth
  <2> QED
    BY <1>1, <1>3, <2>2, <2>3, CopiesDouble
<1> QED
  BY <1>1, <1>2, <1>3

(* A measurement takes half of what a process is worth.                     *)
LEMMA WorthHalves ==
  ASSUME NEW step \in 0..Steps
  PROVE  /\ Copies[Steps - step] \in Nat
         /\ Copies[Steps - step] >= 1
         /\ Copies[(Steps + 1) - step] = 2 * Copies[Steps - step]
<1>1. Steps \in Nat
  BY ToolsAssumption
<1>2. (Steps + 1) - step \in 1..(Steps + 1) /\ ((Steps + 1) - step) - 1 = Steps - step
      /\ Steps - step \in 0..(Steps + 1)
  BY <1>1
<1> QED
  BY <1>2, CopiesDouble, CopiesPositive

(* The compilation forks.                                                   *)
LEMMA ApplyForksKeeps ==
  ASSUME Inv, NEW t \in Tuners, ApplyForks(t), CodesValid' = CodesValid
  PROVE  Keeps(t)
<1>1. /\ Typed /\ TunerInv(t) /\ Top(t) \in Frame /\ now \in 0..MaxTime
      /\ Top(t).pc \in {"apply"}
  BY TopIsFrame DEF Inv, Typed, ApplyForks, At
<1>2. PICK name \in FileName : name = TmpFile(now) /\ name = <<".tmp-", now>>
  BY <1>1 DEF TmpFile, FileName
<1>3. PICK parent, child : /\ parent = [Top(t) EXCEPT !.name = name, !.pc = "wait_opt"]
                           /\ child = [parent EXCEPT !.pc = "passes"]
  OBVIOUS
<1>4. parent \in Frame /\ parent.pc = "wait_opt" /\ parent.name = name /\ parent.step = Top(t).step
  <2>1. "wait_opt" \in Labels
    BY DEF Labels, Applying, Measuring
  <2> QED
    BY ONLY <1>1, <1>3, <2>1 DEF Frame
<1>5. child \in Frame /\ child.pc = "passes" /\ child.name = name /\ child.step = parent.step
  <2>1. "passes" \in Labels
    BY DEF Labels, Applying, Measuring
  <2> QED
    BY ONLY <1>3, <1>4, <2>1 DEF Frame
<1>6. Stacked /\ OthersStay(t) /\ Pushed(t, parent, child)
  <2>1. Forks(t, parent, child)
    BY <1>2, <1>3 DEF ApplyForks
  <2> QED
    BY <1>1, <1>4, <1>5, <2>1, ForksStack
<1>7. calls' = [calls EXCEPT ![t] = @ \cup {<<"apply", now>>}] /\ DOMAIN calls = Tuners
  BY <1>1 DEF ApplyForks, Typed
<1>8. Recorded(t) /\ files' = files /\ ended' = ended /\ exports' = exports
      /\ measured' = measured
  BY <1>1, <1>7 DEF ApplyForks, Recorded, Typed
<1>9. Names(t, parent)' /\ Names(t, child)'
  <2>1. <<"apply", now>> \in calls'[t]
    BY <1>7
  <2> QED
    BY <1>1, <1>2, <1>4, <1>5, <2>1 DEF Names, Applying, Measuring
<1>10. \A u \in Tuners : calls[u] \subseteq calls'[u]
  BY <1>8 DEF Recorded
<1>11. Honest(t)'
  BY <1>1, <1>8, <1>10, HonestStays DEF TunerInv, Recorded
<1>12. Worth(parent) + Worth(child) <= Worth(Top(t))
  <2>1. Top(t).step \in 0..Steps
    BY <1>1 DEF Frame
  <2>2. /\ Worth(parent) = Copies[(Steps + 1) - Top(t).step]
        /\ Worth(Top(t)) = Copies[(Steps + 1) - Top(t).step]
        /\ Worth(child) = 0
    BY <1>1, <1>4, <1>5 DEF Worth
  <2> QED
    BY <2>1, <2>2, WorthHalves
<1>13. TunerInv(t)'
  <2>1. Top(t).pc \notin InCall /\ Top(t).pc # "done"
    BY <1>1 DEF InCall
  <2>2. CodesValid' = CodesValid /\ calls[t] \subseteq calls'[t]
    BY <1>10
  <2> QED
    BY <1>1, <1>4, <1>5, <1>6, <1>8, <1>9, <1>11, <1>12, <2>1, <2>2, CallsChild
<1>14. Depth(t)' > 0 /\ \A n \in DOMAIN files : HeldBy(t, n) => HeldBy(t, n)'
  <2>1. Top(t).pc \notin Removing
    BY <1>1 DEF Removing
  <2> QED
    BY <1>1, <1>6, <2>1, PushedHolds, TopIsFrame DEF Pushed
<1> QED
  BY <1>6, <1>8, <1>13, <1>14, QuietKeeps

(* The measurement forks.                                                   *)
LEMMA RunForksKeeps ==
  ASSUME Inv, NEW t \in Tuners, RunForks(t), CodesValid' = CodesValid
  PROVE  Keeps(t)
<1>1. /\ Typed /\ TunerInv(t) /\ Top(t) \in Frame /\ now \in 0..MaxTime
      /\ Top(t).pc \in {"baseline", "measure"}
  BY TopIsFrame DEF Inv, Typed, RunForks, At
<1>2. PICK name \in FileName : name = PapiFile(now) /\ name = <<".papi-", now>>
  BY <1>1 DEF PapiFile, FileName
<1>3. PICK parent, child : /\ parent = [Top(t) EXCEPT !.name = name, !.pc = "wait_papi"]
                           /\ child = [parent EXCEPT !.pc = "events"]
  OBVIOUS
<1>4. parent \in Frame /\ parent.pc = "wait_papi" /\ parent.name = name /\ parent.step = Top(t).step
  <2>1. "wait_papi" \in Labels
    BY DEF Labels, Applying, Measuring
  <2> QED
    BY ONLY <1>1, <1>3, <2>1 DEF Frame
<1>5. child \in Frame /\ child.pc = "events" /\ child.name = name /\ child.step = parent.step
  <2>1. "events" \in Labels
    BY DEF Labels, Applying, Measuring
  <2> QED
    BY ONLY <1>3, <1>4, <2>1 DEF Frame
<1>6. Stacked /\ OthersStay(t) /\ Pushed(t, parent, child)
  <2>1. Forks(t, parent, child)
    BY <1>2, <1>3 DEF RunForks
  <2> QED
    BY <1>1, <1>4, <1>5, <2>1, ForksStack
<1>7. calls' = [calls EXCEPT ![t] = @ \cup {<<"run", now>>}] /\ DOMAIN calls = Tuners
  BY <1>1 DEF RunForks, Typed
<1>8. Recorded(t) /\ files' = files /\ ended' = ended /\ exports' = exports
      /\ measured' = measured
  BY <1>1, <1>7 DEF RunForks, Recorded, Typed
<1>9. Names(t, parent)' /\ Names(t, child)'
  <2>1. <<"run", now>> \in calls'[t]
    BY <1>7
  <2> QED
    BY <1>1, <1>2, <1>4, <1>5, <2>1 DEF Names, Applying, Measuring
<1>10. \A u \in Tuners : calls[u] \subseteq calls'[u]
  BY <1>8 DEF Recorded
<1>11. Honest(t)'
  BY <1>1, <1>8, <1>10, HonestStays DEF TunerInv, Recorded
<1>12. Worth(parent) + Worth(child) <= Worth(Top(t))
  <2>1. Top(t).step \in 0..Steps
    BY <1>1 DEF Frame
  <2>2. /\ Worth(parent) = Copies[Steps - Top(t).step]
        /\ Worth(child) = Copies[Steps - Top(t).step]
        /\ Worth(Top(t)) = Copies[(Steps + 1) - Top(t).step]
    BY <1>1, <1>4, <1>5 DEF Worth
  <2> QED
    BY <2>1, <2>2, WorthHalves
<1>13. TunerInv(t)'
  <2>1. Top(t).pc \notin InCall /\ Top(t).pc # "done"
    BY <1>1 DEF InCall
  <2>2. CodesValid' = CodesValid /\ calls[t] \subseteq calls'[t]
    BY <1>10
  <2> QED
    BY <1>1, <1>4, <1>5, <1>6, <1>8, <1>9, <1>11, <1>12, <2>1, <2>2, CallsChild
<1>14. Depth(t)' > 0 /\ \A n \in DOMAIN files : HeldBy(t, n) => HeldBy(t, n)'
  <2>1. Top(t).pc \notin Removing
    BY <1>1 DEF Removing
  <2> QED
    BY <1>1, <1>6, <2>1, PushedHolds, TopIsFrame DEF Pushed
<1> QED
  BY <1>6, <1>8, <1>13, <1>14, QuietKeeps

(* A child that exits in its call: its parent learns of the call's file what *)
(* the child left there, if the status is 0.                                *)
LEMMA ChildExits ==
  ASSUME Inv, NEW t \in Tuners, NEW status \in {0, 1}, Top(t).pc \in InCall,
         Exits(t, status), Recorded(t),
         calls' = calls, exports' = exports, measured' = measured,
         NEW name, name = Top(t).name, NEW step, step = Top(t).step,
         Top(t).pc \in {"passes", "check"} /\ status = 0 =>
           Collided(t, "apply") \/ ModuleIn(name)' = <<t, step>>,
         Top(t).pc \in {"events", "program"} /\ status = 0 =>
           \/ Collided(t, "run")
           \/ CountersIn(name)' = <<t, step>>
           \/ CountersIn(name)' = Unset /\ (<<t, step>> \in ended' \/ ~CodesValid)
  PROVE  /\ Stacked /\ OthersStay(t) /\ Depth(t)' > 0
         /\ TunerInv(t)'
         /\ \A n : HeldBy(t, n) => HeldBy(t, n)'
         /\ HeldBy(t, name)'
<1>1. Typed /\ TunerInv(t) /\ Nested(t)
  BY DEF Inv, TunerInv
<1>2. /\ Depth(t) \in Nat /\ Depth(t) > 1 /\ Below(t) \in Frame
      /\ Below(t).name = name /\ Below(t).step = step
      /\ Below(t).pc = IF Top(t).pc \in {"passes", "check"} THEN "wait_opt" ELSE "wait_papi"
  BY <1>1, TopIsFrame DEF Nested
<1>3. Stacked /\ OthersStay(t) /\ Popped(t, [Below(t) EXCEPT !.status = status])
  BY <1>1, <1>2, ExitsStack
<1>4. Depth(t)' > 0
  BY <1>2, <1>3 DEF Popped
<1>5. PICK frame : frame = [Below(t) EXCEPT !.status = status]
  OBVIOUS
<1>6. /\ frame.pc = IF Top(t).pc \in {"passes", "check"} THEN "wait_opt" ELSE "wait_papi"
      /\ frame.name = name /\ frame.step = step /\ frame.status = status
  BY <1>2, <1>5 DEF Frame
<1>7. Top(t)' = frame
  BY <1>3, <1>5 DEF Popped
<1>8. /\ CodesValid' = CodesValid
      /\ \A u \in Tuners : calls[u] \subseteq calls'[u]
      /\ ended \subseteq ended'
  BY DEF Recorded
<1>9. \A kind : Collided(t, kind) => Collided(t, kind)'
  BY <1>8, CollidedStays
<1>10. OwnFile(t)'
  <2>1. CASE Top(t).pc \in {"passes", "check"}
    <3>1. Top(t)'.pc = "wait_opt"
      BY <1>6, <1>7, <2>1
    <3>2. status = 0 => Collided(t, "apply")' \/ ModuleIn(name)' = <<t, step>>
      BY <1>9, <2>1
    <3> QED
      BY <1>6, <1>7, <3>1, <3>2 DEF OwnFile
  <2>2. CASE Top(t).pc \notin {"passes", "check"}
    BY <1>6, <1>7, <2>2, NothingOwned
  <2> QED
    BY <2>1, <2>2
<1>11. OwnCounters(t)'
  <2>1. CASE Top(t).pc \in {"events", "program"}
    <3>1. Top(t)'.pc = "wait_papi"
      BY <1>6, <1>7, <2>1
    <3>2. status = 0 =>
            \/ Collided(t, "run")'
            \/ CountersIn(name)' = <<t, step>>
            \/ CountersIn(name)' = Unset /\ (<<t, step>> \in ended' \/ ~CodesValid')
      BY <1>8, <1>9, <2>1
    <3> QED
      BY <1>6, <1>7, <3>1, <3>2 DEF OwnCounters
  <2>2. CASE Top(t).pc \in {"passes", "check"}
    BY <1>6, <1>7, <2>2, NothingOwned
  <2> QED
    BY <2>1, <2>2 DEF InCall
<1>12. Honest(t)'
  BY <1>1, <1>8, HonestStays DEF TunerInv
<1>13. exports'[t] \in Nat /\ exports'[t] <= exports[t] + Worth(Top(t))
  <2>1. Worth(Top(t)) \in Nat /\ exports[t] \in Nat
    BY <1>1, WorthIsNat, TopIsFrame DEF Typed
  <2> QED
    BY <2>1
<1>14. TunerInv(t)'
  BY <1>1, <1>2, <1>3, <1>8, <1>10, <1>11, <1>12, <1>13, Leaves
<1>15. \A n : HeldBy(t, n) => HeldBy(t, n)'
  <2>1. Top(t).pc \notin Removing
    BY DEF InCall, Removing
  <2> QED
    BY <1>1, <1>2, <1>3, <2>1, PoppedHolds
<1>16. HeldBy(t, name)
  BY <1>1, CallerHolds
<1> QED
  BY <1>3, <1>4, <1>14, <1>15, <1>16

(* The passes crash.                                                        *)
LEMMA PassesCrashKeeps ==
  ASSUME Inv, NEW t \in Tuners, PassesCrash(t), CodesValid' = CodesValid
  PROVE  Keeps(t)
<1>1. Top(t).pc = "passes" /\ Top(t).pc \in InCall /\ Exits(t, 1)
  BY DEF PassesCrash, At, InCall
<1>2. Recorded(t) /\ files' = files /\ calls' = calls /\ exports' = exports
      /\ measured' = measured
  BY DEF PassesCrash, histories, Recorded, Inv, Typed
<1>3. /\ Stacked /\ OthersStay(t) /\ Depth(t)' > 0 /\ TunerInv(t)'
      /\ \A n : HeldBy(t, n) => HeldBy(t, n)'
  BY <1>1, <1>2, ChildExits
<1> QED
  BY <1>2, <1>3, QuietKeeps

(* The child looks whether the module it printed can be read.               *)
LEMMA CheckModuleKeeps ==
  ASSUME Inv, NEW t \in Tuners, CheckModule(t), CodesValid' = CodesValid
  PROVE  Keeps(t)
<1>1. Top(t).pc = "check" /\ Top(t).pc \in InCall
  BY DEF CheckModule, At, InCall
<1>2. PICK status \in {0, 1} : Exits(t, status)
  BY DEF CheckModule
<1>3. Recorded(t) /\ files' = files /\ calls' = calls /\ exports' = exports
      /\ measured' = measured
  BY DEF CheckModule, histories, Recorded, Inv, Typed
<1>4. PICK name, step : name = Top(t).name /\ step = Top(t).step
  OBVIOUS
<1>5. Collided(t, "apply") \/ ModuleIn(name) = <<t, step>>
  BY <1>1, <1>4 DEF Inv, TunerInv, OwnFile
<1>6. ModuleIn(name)' = ModuleIn(name)
  BY <1>3 DEF ModuleIn
<1>7. /\ Stacked /\ OthersStay(t) /\ Depth(t)' > 0 /\ TunerInv(t)'
      /\ \A n : HeldBy(t, n) => HeldBy(t, n)'
  BY <1>1, <1>2, <1>3, <1>4, <1>5, <1>6, ChildExits
<1> QED
  BY <1>3, <1>7, QuietKeeps

(* An assertion on PAPI fails.                                              *)
LEMMA PapiAbortsKeeps ==
  ASSUME Inv, NEW t \in Tuners, PapiAborts(t), CodesValid' = CodesValid
  PROVE  Keeps(t)
<1>1. Top(t).pc = "events" /\ Top(t).pc \in InCall /\ Exits(t, 1)
  BY DEF PapiAborts, At, InCall
<1>2. Recorded(t) /\ files' = files /\ calls' = calls /\ exports' = exports
      /\ measured' = measured
  BY DEF PapiAborts, histories, Recorded, Inv, Typed
<1>3. /\ Stacked /\ OthersStay(t) /\ Depth(t)' > 0 /\ TunerInv(t)'
      /\ \A n : HeldBy(t, n) => HeldBy(t, n)'
  BY <1>1, <1>2, ChildExits
<1> QED
  BY <1>2, <1>3, QuietKeeps

(* The program crashes.                                                     *)
LEMMA ProgramCrashesKeeps ==
  ASSUME Inv, NEW t \in Tuners, ProgramCrashes(t), CodesValid' = CodesValid
  PROVE  Keeps(t)
<1>1. Top(t).pc = "program" /\ Top(t).pc \in InCall /\ Exits(t, 1)
  BY DEF ProgramCrashes, At, InCall
<1>2. Recorded(t) /\ files' = files /\ calls' = calls /\ exports' = exports
      /\ measured' = measured
  BY DEF ProgramCrashes, histories, Recorded, Inv, Typed
<1>3. /\ Stacked /\ OthersStay(t) /\ Depth(t)' > 0 /\ TunerInv(t)'
      /\ \A n : HeldBy(t, n) => HeldBy(t, n)'
  BY <1>1, <1>2, ChildExits
<1> QED
  BY <1>2, <1>3, QuietKeeps

(* The program ends the process itself: the file is left empty, and the      *)
(* history says so.                                                        *)
LEMMA ProgramExitsKeeps ==
  ASSUME Inv, NEW t \in Tuners, ProgramExits(t), CodesValid' = CodesValid
  PROVE  Keeps(t)
<1>1. Top(t).pc = "program" /\ Top(t).pc \in InCall /\ Exits(t, 0)
  BY DEF ProgramExits, At, InCall
<1>2. PICK name, step : name = Top(t).name /\ step = Top(t).step
  OBVIOUS
<1>3. Recorded(t) /\ files' = files /\ calls' = calls /\ exports' = exports
      /\ measured' = measured /\ <<t, step>> \in ended'
  BY <1>2 DEF ProgramExits, Recorded, Inv, Typed
<1>4. Collided(t, "run") \/ (name \in DOMAIN files /\ files[name] = Nothing)
  BY <1>1, <1>2 DEF Inv, TunerInv, OwnCounters
<1>5. Collided(t, "run") \/ CountersIn(name)' = Unset
  BY <1>3, <1>4 DEF CountersIn, Nothing
<1>6. /\ Stacked /\ OthersStay(t) /\ Depth(t)' > 0 /\ TunerInv(t)'
      /\ \A n : HeldBy(t, n) => HeldBy(t, n)'
  BY <1>1, <1>2, <1>3, <1>5, ChildExits
<1> QED
  BY <1>3, <1>6, QuietKeeps

(* The module cannot be printed: the file stays behind, empty.              *)
LEMMA PrintFailsKeeps ==
  ASSUME Inv, NEW t \in Tuners, PrintFails(t), CodesValid' = CodesValid
  PROVE  Keeps(t)
<1>1. Top(t).pc = "passes" /\ Top(t).pc \in InCall /\ Exits(t, 1)
  BY DEF PrintFails, At, InCall
<1>2. PICK name : name = Top(t).name
  OBVIOUS
<1>3. Recorded(t) /\ calls' = calls /\ exports' = exports /\ measured' = measured
  BY DEF PrintFails, histories, Recorded, Inv, Typed
<1>4. /\ Stacked /\ OthersStay(t) /\ Depth(t)' > 0 /\ TunerInv(t)'
      /\ \A n : HeldBy(t, n) => HeldBy(t, n)'
      /\ HeldBy(t, name)'
  BY <1>1, <1>2, <1>3, ChildExits
<1>5. files' = [n \in DOMAIN files \cup {name} |-> IF n = name THEN Nothing ELSE files[n]]
  BY <1>2 DEF PrintFails
<1>6. Nothing \in Content
  BY DEF Nothing, Content
<1> QED
  BY <1>1, <1>2, <1>3, <1>4, <1>5, <1>6, WriteKeeps

(* The program returned: its counters are in the file, if that still has the *)
(* name.                                                                   *)
LEMMA ProgramReturnsKeeps ==
  ASSUME Inv, NEW t \in Tuners, NEW status \in {0, 1}, ProgramReturns(t, status),
         CodesValid' = CodesValid
  PROVE  Keeps(t)
<1>1. Top(t).pc = "program" /\ Top(t).pc \in InCall /\ Exits(t, status)
  BY DEF ProgramReturns, At, InCall
<1>2. PICK name, step : name = Top(t).name /\ step = Top(t).step
  OBVIOUS
<1>3. Recorded(t) /\ calls' = calls /\ exports' = exports /\ measured' = measured
  BY DEF ProgramReturns, histories, Recorded, Inv, Typed
<1>4. Typed /\ Top(t) \in Frame /\ step \in 0..Steps
  BY <1>2, TopIsFrame DEF Inv, Frame
<1>5. files' = IF Top(t).linked THEN [files EXCEPT ![name] = Counters(<<t, step>>)] ELSE files
  BY <1>2 DEF ProgramReturns
<1>6. \/ Collided(t, "run")
      \/ Top(t).linked /\ name \in DOMAIN files
  BY <1>1, <1>2 DEF Inv, TunerInv, OwnCounters
<1>7. Collided(t, "run") \/ CountersIn(name)' = <<t, step>>
  BY <1>5, <1>6 DEF CountersIn, Counters
<1>8. /\ Stacked /\ OthersStay(t) /\ Depth(t)' > 0 /\ TunerInv(t)'
      /\ \A n : HeldBy(t, n) => HeldBy(t, n)'
      /\ HeldBy(t, name)'
  BY <1>1, <1>2, <1>3, <1>7, ChildExits
<1>9. Counters(<<t, step>>) \in Content
  BY <1>4 DEF Counters, Content, Module
<1>10. CASE Top(t).linked
  <2>1. files' = [files EXCEPT ![name] = Counters(<<t, step>>)]
    BY <1>5, <1>10
  <2>2. CodesValid
    BY <1>1 DEF Inv, TunerInv, Nested
  <2> QED
    BY <1>1, <1>2, <1>3, <1>8, <1>9, <2>1, <2>2, WriteKeeps
<1>11. CASE ~Top(t).linked
  BY <1>3, <1>5, <1>8, <1>11, QuietKeeps
<1> QED
  BY <1>10, <1>11

(* The passes ran, and the module is printed.                               *)
LEMMA PassesRunKeeps ==
  ASSUME Inv, NEW t \in Tuners, PassesRun(t), CodesValid' = CodesValid
  PROVE  Keeps(t)
<1>1. Typed /\ TunerInv(t) /\ Top(t) \in Frame /\ Top(t).pc = "passes"
  BY TopIsFrame DEF Inv, PassesRun, At
<1>2. PICK name, step : name = Top(t).name /\ step = Top(t).step
  OBVIOUS
<1>3. PICK frame : frame = [Top(t) EXCEPT !.pc = "check"]
  OBVIOUS
<1>4. frame \in Frame /\ frame.pc = "check" /\ frame.name = name /\ frame.step = step
  <2>1. "check" \in Labels
    BY DEF Labels, Applying
  <2> QED
    BY ONLY <1>1, <1>2, <1>3, <2>1 DEF Frame
<1>5. Stacked /\ OthersStay(t) /\ Replaced(t, frame)
  <2>1. Becomes(t, frame)
    BY <1>3 DEF PassesRun
  <2> QED
    BY <1>1, <1>4, <2>1, BecomesStack
<1>6. Recorded(t) /\ calls' = calls /\ exports' = exports /\ measured' = measured
      /\ ended' = ended
  BY <1>1 DEF PassesRun, histories, Recorded, Typed
<1>7. files' = [n \in DOMAIN files \cup {name} |->
                  IF n = name THEN Bitcode(<<t, step>>) ELSE files[n]]
  BY <1>2 DEF PassesRun
<1>8. Bitcode(<<t, step>>) \in Content
  <2>1. step \in 0..Steps
    BY <1>1, <1>2 DEF Frame
  <2> QED
    BY <2>1 DEF Bitcode, Content, Module
<1>9. OwnFile(t)'
  <2>1. Top(t)' = frame
    BY <1>5 DEF Replaced
  <2>2. ModuleIn(name)' = <<t, step>>
    BY <1>7 DEF ModuleIn, Bitcode
  <2> QED
    BY <1>4, <2>1, <2>2 DEF OwnFile
<1>10. OwnCounters(t)'
  BY <1>4, <1>5, NothingOwned DEF Replaced
<1>11. Honest(t)'
  BY <1>1, <1>6, HonestStays DEF TunerInv, Recorded
<1>12. Names(t, frame)
  <2>1. Names(t, Top(t))
    BY <1>1, TopIsFrame DEF TunerInv, Named
  <2> QED
    BY <1>1, <1>2, <1>4, <2>1 DEF Names, Applying, Measuring
<1>13. Worth(frame) <= Worth(Top(t))
  BY <1>1, <1>4 DEF Worth
<1>14. TunerInv(t)'
  BY <1>1, <1>2, <1>4, <1>5, <1>6, <1>9, <1>10, <1>11, <1>12, <1>13, GoesOn DEF InCall
<1>15. Depth(t)' > 0 /\ \A n : HeldBy(t, n) => HeldBy(t, n)'
  <2>1. Top(t).pc \notin Removing
    BY <1>1 DEF Removing
  <2> QED
    BY <1>1, <1>5, <2>1, ReplacedHolds, TopIsFrame DEF Replaced
<1>16. HeldBy(t, name)
  BY <1>1, <1>2, CallerHolds DEF TunerInv, InCall
<1> QED
  BY <1>1, <1>2, <1>5, <1>6, <1>7, <1>8, <1>14, <1>15, <1>16, WriteKeeps DEF InCall

(* PAPI took the events, and the file for the counters is opened.           *)
LEMMA OpenCountersKeeps ==
  ASSUME Inv, NEW t \in Tuners, OpenCounters(t), CodesValid' = CodesValid
  PROVE  Keeps(t)
<1>1. Typed /\ TunerInv(t) /\ Top(t) \in Frame /\ Top(t).pc = "events" /\ CodesValid
  BY TopIsFrame DEF Inv, OpenCounters, At
<1>2. PICK name, step : name = Top(t).name /\ step = Top(t).step
  OBVIOUS
<1>3. PICK frame : frame = [Top(t) EXCEPT !.pc = "program", !.linked = TRUE]
  OBVIOUS
<1>4. /\ frame \in Frame /\ frame.pc = "program" /\ frame.linked
      /\ frame.name = name /\ frame.step = step
  <2>1. "program" \in Labels
    BY DEF Labels, Measuring
  <2> QED
    BY ONLY <1>1, <1>2, <1>3, <2>1 DEF Frame
<1>5. Stacked /\ OthersStay(t) /\ Replaced(t, frame)
  <2>1. Becomes(t, frame)
    BY <1>3 DEF OpenCounters
  <2> QED
    BY <1>1, <1>4, <2>1, BecomesStack
<1>6. Recorded(t) /\ calls' = calls /\ exports' = exports /\ measured' = measured
      /\ ended' = ended
  BY <1>1 DEF OpenCounters, histories, Recorded, Typed
<1>7. files' = [n \in DOMAIN files \cup {name} |-> IF n = name THEN Nothing ELSE files[n]]
  BY <1>2 DEF OpenCounters
<1>8. Nothing \in Content
  BY DEF Nothing, Content
<1>9. OwnFile(t)'
  BY <1>4, <1>5, NothingOwned DEF Replaced
<1>10. OwnCounters(t)'
  <2>1. Top(t)' = frame
    BY <1>5 DEF Replaced
  <2>2. name \in DOMAIN files' /\ files'[name] = Nothing
    BY <1>7
  <2> QED
    BY <1>4, <2>1, <2>2 DEF OwnCounters
<1>11. Honest(t)'
  BY <1>1, <1>6, HonestStays DEF TunerInv, Recorded
<1>12. Names(t, frame)
  <2>1. Names(t, Top(t))
    BY <1>1, TopIsFrame DEF TunerInv, Named
  <2> QED
    BY <1>1, <1>2, <1>4, <2>1 DEF Names, Applying, Measuring
<1>13. Worth(frame) <= Worth(Top(t))
  <2>1. Worth(frame) = 0
    BY <1>4 DEF Worth
  <2> QED
    BY <1>1, <2>1, WorthIsNat
<1>14. TunerInv(t)'
  BY <1>1, <1>2, <1>4, <1>5, <1>6, <1>9, <1>10, <1>11, <1>12, <1>13, GoesOn DEF InCall
<1>15. Depth(t)' > 0 /\ \A n : HeldBy(t, n) => HeldBy(t, n)'
  <2>1. Top(t).pc \notin Removing
    BY <1>1 DEF Removing
  <2> QED
    BY <1>1, <1>5, <2>1, ReplacedHolds, TopIsFrame DEF Replaced
<1>16. HeldBy(t, name)
  BY <1>1, <1>2, CallerHolds DEF TunerInv, InCall
<1> QED
  BY <1>1, <1>2, <1>5, <1>6, <1>7, <1>8, <1>14, <1>15, <1>16, WriteKeeps DEF InCall

(* The compilation failed: the tuner reports it, leaves the file and goes on. *)
LEMMA ApplyFailsKeeps ==
  ASSUME Inv, NEW t \in Tuners, ApplyFails(t), CodesValid' = CodesValid
  PROVE  Keeps(t)
<1>1. Typed /\ TunerInv(t) /\ Top(t) \in Frame /\ Top(t).pc = "wait_opt"
  BY TopIsFrame DEF Inv, ApplyFails, At
<1>2. PICK caller : caller = [Top(t) EXCEPT !.status = 0]
  OBVIOUS
<1>3. caller \in Frame /\ caller.step = Top(t).step
  BY ONLY <1>1, <1>2 DEF Frame
<1>4. PICK frame : frame = NextStep(caller)
  OBVIOUS
<1>5. /\ frame \in Frame /\ frame.pc \in {"apply", "export"}
      /\ Worth(frame) = Copies[Steps - Top(t).step]
  BY <1>3, <1>4, NextStepFrame
<1>6. Stacked /\ OthersStay(t) /\ Replaced(t, frame)
  <2>1. Becomes(t, frame)
    BY <1>2, <1>4 DEF ApplyFails
  <2> QED
    BY <1>1, <1>5, <2>1, BecomesStack
<1>7. Recorded(t) /\ files' = files /\ calls' = calls /\ exports' = exports
      /\ measured' = measured /\ ended' = ended /\ Top(t).name \in failed'
  BY <1>1 DEF ApplyFails, Recorded, Typed
<1>8. OwnFile(t)' /\ OwnCounters(t)'
  BY <1>5, <1>6, NothingOwned DEF Replaced
<1>9. Honest(t)'
  BY <1>1, <1>7, HonestStays DEF TunerInv, Recorded
<1>10. Names(t, frame)
  BY <1>5 DEF Names, Applying, Measuring
<1>11. Worth(frame) <= Worth(Top(t))
  <2>1. Top(t).step \in 0..Steps
    BY <1>1 DEF Frame
  <2>2. Worth(Top(t)) = Copies[(Steps + 1) - Top(t).step]
    BY <1>1 DEF Worth
  <2> QED
    BY <1>5, <2>1, <2>2, WorthHalves
<1>12. TunerInv(t)'
  BY <1>1, <1>5, <1>6, <1>7, <1>8, <1>9, <1>10, <1>11, GoesOn DEF InCall
<1>13. Depth(t)' > 0 /\ \A n : HeldBy(t, n) => n \in failed' \/ HeldBy(t, n)'
  <2>1. ASSUME NEW n, HeldBy(t, n), n # Top(t).name
        PROVE  HeldBy(t, n)'
    BY <1>1, <1>6, <2>1, ReplacedHolds
  <2> QED
    BY <1>1, <1>6, <1>7, <2>1, TopIsFrame DEF Replaced
<1> QED
  BY <1>6, <1>7, <1>12, <1>13, QuietKeeps

(* The compilation succeeded: the tuner reads the module of the file.       *)
LEMMA ReadModuleKeeps ==
  ASSUME Inv, NEW t \in Tuners, ReadModule(t), CodesValid' = CodesValid
  PROVE  Keeps(t)
<1>1. /\ Typed /\ TunerInv(t) /\ Top(t) \in Frame
      /\ Top(t).pc = "wait_opt" /\ Top(t).status = 0
  BY TopIsFrame DEF Inv, ReadModule, At
<1>2. PICK name, step, module : /\ name = Top(t).name
                               /\ step = Top(t).step
                               /\ module = ModuleIn(Top(t).name)
  OBVIOUS
<1>3. PICK frame : frame = [Top(t) EXCEPT !.module = module, !.pc = "remove_tmp"]
  OBVIOUS
<1>4. module \in {Null} \cup Module
  <2>1. \A n \in DOMAIN files : files[n] \in Content
    BY <1>1 DEF Typed
  <2> QED
    BY <1>2, <2>1 DEF ModuleIn, Content
<1>5. /\ frame \in Frame /\ frame.pc = "remove_tmp" /\ frame.module = module
      /\ frame.name = name /\ frame.step = step
  <2>1. "remove_tmp" \in Labels
    BY DEF Labels, Applying
  <2> QED
    BY ONLY <1>1, <1>2, <1>3, <1>4, <2>1 DEF Frame
<1>6. Stacked /\ OthersStay(t) /\ Replaced(t, frame)
  <2>1. Becomes(t, frame)
    BY <1>2, <1>3 DEF ReadModule
  <2> QED
    BY <1>1, <1>5, <2>1, BecomesStack
<1>7. Recorded(t) /\ files' = files /\ calls' = calls /\ exports' = exports
      /\ measured' = measured /\ ended' = ended
  BY <1>1 DEF ReadModule, histories, Recorded, Typed
<1>8. OwnFile(t)'
  <2>1. Top(t)' = frame
    BY <1>6 DEF Replaced
  <2>2. Collided(t, "apply") \/ module = <<t, step>>
    BY <1>1, <1>2 DEF TunerInv, OwnFile
  <2>3. Collided(t, "apply") => Collided(t, "apply")'
    BY <1>7, CollidedStays
  <2> QED
    BY <1>5, <2>1, <2>2, <2>3 DEF OwnFile
<1>9. OwnCounters(t)'
  BY <1>5, <1>6, NothingOwned DEF Replaced
<1>10. Honest(t)'
  BY <1>1, <1>7, HonestStays DEF TunerInv, Recorded
<1>11. Names(t, frame)
  <2>1. Names(t, Top(t))
    BY <1>1, TopIsFrame DEF TunerInv, Named
  <2> QED
    BY <1>1, <1>2, <1>5, <2>1 DEF Names, Applying, Measuring
<1>12. Worth(frame) <= Worth(Top(t))
  <2>1. Worth(frame) = Worth(Top(t))
    BY <1>1, <1>2, <1>5 DEF Worth
  <2> QED
    BY <1>5, <2>1, WorthIsNat
<1>13. TunerInv(t)'
  BY <1>1, <1>5, <1>6, <1>7, <1>8, <1>9, <1>10, <1>11, <1>12, GoesOn DEF InCall
<1>14. Depth(t)' > 0 /\ \A n : HeldBy(t, n) => HeldBy(t, n)'
  <2>1. frame.name = Top(t).name /\ frame.pc \in Removing
    BY <1>2, <1>5 DEF Removing
  <2> QED
    BY <1>1, <1>6, <2>1, ReplacedHolds, TopIsFrame DEF Replaced
<1> QED
  BY <1>6, <1>7, <1>13, <1>14, QuietKeeps

(* PAPI refused the events: the child goes on as its parent will.           *)
LEMMA EventsFailKeeps ==
  ASSUME Inv, NEW t \in Tuners, EventsFail(t), CodesValid' = CodesValid
  PROVE  Keeps(t)
<1>1. Typed /\ TunerInv(t) /\ Top(t) \in Frame /\ Top(t).pc = "events" /\ ~CodesValid
  BY TopIsFrame DEF Inv, EventsFail, At
<1>2. PICK frame : frame = NextStep(Top(t))
  OBVIOUS
<1>3. /\ frame \in Frame /\ frame.pc \in {"apply", "export"}
      /\ Worth(frame) = Copies[Steps - Top(t).step]
  BY <1>1, <1>2, NextStepFrame
<1>4. Stacked /\ OthersStay(t) /\ Replaced(t, frame)
  <2>1. Becomes(t, frame)
    BY <1>2 DEF EventsFail
  <2> QED
    BY <1>1, <1>3, <2>1, BecomesStack
<1>5. Recorded(t) /\ files' = files /\ calls' = calls /\ exports' = exports
      /\ measured' = measured /\ ended' = ended
  BY <1>1 DEF EventsFail, histories, Recorded, Typed
<1>6. OwnFile(t)' /\ OwnCounters(t)'
  BY <1>3, <1>4, NothingOwned DEF Replaced
<1>7. Honest(t)'
  BY <1>1, <1>5, HonestStays DEF TunerInv, Recorded
<1>8. Names(t, frame)
  BY <1>3 DEF Names, Applying, Measuring
<1>9. Worth(frame) <= Worth(Top(t))
  <2>1. Worth(Top(t)) = Copies[Steps - Top(t).step]
    BY <1>1 DEF Worth
  <2> QED
    BY <1>3, <2>1, WorthIsNat
<1>10. TunerInv(t)'
  BY <1>1, <1>3, <1>4, <1>5, <1>6, <1>7, <1>8, <1>9, GoesOn DEF InCall
<1>11. Depth(t)' > 0 /\ \A n : HeldBy(t, n) => HeldBy(t, n)'
  <2>1. Top(t).pc \notin Removing
    BY <1>1 DEF Removing
  <2> QED
    BY <1>1, <1>4, <2>1, ReplacedHolds, TopIsFrame DEF Replaced
<1> QED
  BY <1>4, <1>5, <1>10, <1>11, QuietKeeps

(* The child ended: the tuner reads the counters, or has none.              *)
LEMMA ReadCountersKeeps ==
  ASSUME Inv, NEW t \in Tuners, ReadCounters(t), CodesValid' = CodesValid
  PROVE  Keeps(t)
<1>1. Typed /\ TunerInv(t) /\ Top(t) \in Frame /\ Top(t).pc = "wait_papi"
  BY TopIsFrame DEF Inv, ReadCounters, At
<1>2. PICK name, step, status : name = Top(t).name /\ step = Top(t).step /\ status = Top(t).status
  OBVIOUS
<1>3. PICK frame : frame = [Top(t) EXCEPT !.pc = "remove_papi"]
  OBVIOUS
<1>4. frame \in Frame /\ frame.pc = "remove_papi" /\ frame.name = name /\ frame.step = step
  <2>1. "remove_papi" \in Labels
    BY DEF Labels, Measuring
  <2> QED
    BY ONLY <1>1, <1>2, <1>3, <2>1 DEF Frame
<1>5. Stacked /\ OthersStay(t) /\ Replaced(t, frame)
  <2>1. Becomes(t, frame)
    BY <1>3 DEF ReadCounters
  <2> QED
    BY <1>1, <1>4, <2>1, BecomesStack
<1>6. Recorded(t) /\ files' = files /\ calls' = calls /\ exports' = exports /\ ended' = ended
  BY <1>1 DEF ReadCounters, Recorded, Typed
<1>7. OwnFile(t)' /\ OwnCounters(t)'
  BY <1>4, <1>5, NothingOwned DEF Replaced
<1>8. Honest(t)'
  <2>1. PICK cycles : cycles = IF status = 0 THEN CountersIn(name) ELSE Unset
    OBVIOUS
  <2>2. measured'[t] = {[step |-> step, name |-> name, status |-> status, cycles |-> cycles]}
    BY <1>1, <1>2, <2>1 DEF ReadCounters, Typed
  <2>3. status = 0 =>
          \/ Collided(t, "run")
          \/ cycles = <<t, step>>
          \/ cycles = Unset /\ (<<t, step>> \in ended \/ ~CodesValid)
    BY <1>1, <1>2, <2>1 DEF TunerInv, OwnCounters
  <2>4. Collided(t, "run") => Collided(t, "run")'
    BY <1>6, CollidedStays
  <2> QED
    BY <1>6, <2>2, <2>3, <2>4 DEF Honest
<1>9. Names(t, frame)
  <2>1. Names(t, Top(t))
    BY <1>1, TopIsFrame DEF TunerInv, Named
  <2> QED
    BY <1>1, <1>2, <1>4, <2>1 DEF Names, Applying, Measuring
<1>10. Worth(frame) <= Worth(Top(t))
  <2>1. Worth(frame) = Worth(Top(t))
    BY <1>1, <1>2, <1>4 DEF Worth
  <2> QED
    BY <1>4, <2>1, WorthIsNat
<1>11. TunerInv(t)'
  BY <1>1, <1>4, <1>5, <1>6, <1>7, <1>8, <1>9, <1>10, GoesOn DEF InCall
<1>12. Depth(t)' > 0 /\ \A n : HeldBy(t, n) => HeldBy(t, n)'
  <2>1. frame.name = Top(t).name /\ frame.pc \in Removing
    BY <1>2, <1>4 DEF Removing
  <2> QED
    BY <1>1, <1>5, <2>1, ReplacedHolds, TopIsFrame DEF Replaced
<1> QED
  BY <1>5, <1>6, <1>11, <1>12, QuietKeeps

(* The tuner removes the file of the module it read.                        *)
LEMMA RemoveTmpKeeps ==
  ASSUME Inv, NEW t \in Tuners, RemoveTmp(t), CodesValid' = CodesValid
  PROVE  Keeps(t)
<1>1. Typed /\ TunerInv(t) /\ Top(t) \in Frame /\ Top(t).pc = "remove_tmp"
  BY TopIsFrame DEF Inv, RemoveTmp, At
<1>2. PICK frame : frame = IF Top(t).module = Null THEN NextStep(Top(t))
                           ELSE [Top(t) EXCEPT !.pc = "measure"]
  OBVIOUS
<1>3. Top(t).step \in 0..Steps /\ Worth(Top(t)) = Copies[(Steps + 1) - Top(t).step]
  BY <1>1 DEF Worth, Frame
<1>4. /\ frame \in Frame
      /\ Worth(frame) <= Worth(Top(t))
      /\ \/ frame.pc \in {"apply", "export"}
         \/ /\ frame.pc = "measure"
            /\ frame.module = Top(t).module
            /\ frame.step = Top(t).step
  <2>1. CASE Top(t).module = Null
    <3>1. frame = NextStep(Top(t))
      BY <1>2, <2>1
    <3>2. /\ frame \in Frame /\ frame.pc \in {"apply", "export"}
          /\ Worth(frame) = Copies[Steps - Top(t).step]
      BY <1>1, <3>1, NextStepFrame
    <3> QED
      BY <1>3, <3>2, WorthHalves
  <2>2. CASE Top(t).module # Null
    <3>1. "measure" \in Labels /\ frame = [Top(t) EXCEPT !.pc = "measure"]
      BY <1>2, <2>2 DEF Labels
    <3>2. /\ frame \in Frame /\ frame.pc = "measure"
          /\ frame.module = Top(t).module /\ frame.step = Top(t).step
      BY ONLY <1>1, <3>1 DEF Frame
    <3>3. Worth(frame) = Copies[(Steps + 1) - Top(t).step]
      BY <3>2 DEF Worth
    <3> QED
      BY <1>3, <3>2, <3>3, WorthHalves
  <2> QED
    BY <2>1, <2>2
<1>5. RemovesAnd(t, frame)
  BY <1>2 DEF RemoveTmp
<1>6. Replaced(t, frame)
  BY <1>1, <1>4, <1>5, RemovesStack
<1>7. Recorded(t) /\ calls' = calls /\ exports' = exports
      /\ measured' = measured /\ ended' = ended
  BY <1>1 DEF RemoveTmp, histories, Recorded, Typed
<1>8. OwnFile(t)'
  <2>1. Top(t)' = frame
    BY <1>6 DEF Replaced
  <2>2. Collided(t, "apply") \/ Top(t).module \in {Null, <<t, Top(t).step>>}
    BY <1>1 DEF TunerInv, OwnFile
  <2>3. Collided(t, "apply") => Collided(t, "apply")'
    BY <1>7, CollidedStays
  <2> QED
    BY <1>4, <2>1, <2>2, <2>3 DEF OwnFile
<1>9. OwnCounters(t)'
  BY <1>4, <1>6, NothingOwned DEF Replaced
<1>10. Honest(t)'
  BY <1>1, <1>7, HonestStays DEF TunerInv, Recorded
<1>11. Names(t, frame)
  BY <1>4 DEF Names, Applying, Measuring
<1>12. TunerInv(t)'
  BY <1>1, <1>4, <1>6, <1>7, <1>8, <1>9, <1>10, <1>11, GoesOn DEF InCall
<1> QED
  BY <1>1, <1>4, <1>5, <1>7, <1>12, RemoveKeeps

(* The tuner removes the file of the counters, whatever came of it.         *)
LEMMA RemovePapiKeeps ==
  ASSUME Inv, NEW t \in Tuners, RemovePapi(t), CodesValid' = CodesValid
  PROVE  Keeps(t)
<1>1. Typed /\ TunerInv(t) /\ Top(t) \in Frame /\ Top(t).pc = "remove_papi"
  BY TopIsFrame DEF Inv, RemovePapi, At
<1>2. PICK caller : caller = [Top(t) EXCEPT !.status = 0]
  OBVIOUS
<1>3. caller \in Frame /\ caller.step = Top(t).step
  BY ONLY <1>1, <1>2 DEF Frame
<1>4. PICK frame : frame = NextStep(caller)
  OBVIOUS
<1>5. /\ frame \in Frame /\ frame.pc \in {"apply", "export"}
      /\ Worth(frame) = Copies[Steps - Top(t).step]
  BY <1>3, <1>4, NextStepFrame
<1>6. RemovesAnd(t, frame)
  BY <1>2, <1>4 DEF RemovePapi
<1>7. Replaced(t, frame)
  BY <1>1, <1>5, <1>6, RemovesStack
<1>8. Recorded(t) /\ calls' = calls /\ exports' = exports
      /\ measured' = measured /\ ended' = ended
  BY <1>1 DEF RemovePapi, histories, Recorded, Typed
<1>9. OwnFile(t)' /\ OwnCounters(t)'
  BY <1>5, <1>7, NothingOwned DEF Replaced
<1>10. Honest(t)'
  BY <1>1, <1>8, HonestStays DEF TunerInv, Recorded
<1>11. Names(t, frame)
  BY <1>5 DEF Names, Applying, Measuring
<1>12. Worth(frame) <= Worth(Top(t))
  <2>1. Worth(Top(t)) = Copies[Steps - Top(t).step]
    BY <1>1 DEF Worth
  <2> QED
    BY <1>5, <2>1, WorthIsNat
<1>13. TunerInv(t)'
  BY <1>1, <1>5, <1>7, <1>8, <1>9, <1>10, <1>11, <1>12, GoesOn DEF InCall
<1> QED
  BY <1>1, <1>5, <1>6, <1>8, <1>13, RemoveKeeps

(* The knowledge base is exported; a copy of the tuner then exits, with the  *)
(* status of a good measurement.                                            *)
LEMMA ExportAndExitKeeps ==
  ASSUME Inv, NEW t \in Tuners, ExportAndExit(t), CodesValid' = CodesValid
  PROVE  Keeps(t)
<1>1. /\ Typed /\ TunerInv(t) /\ Nested(t) /\ Named(t) /\ ExportsLeft(t) /\ NoCounters
      /\ Top(t) \in Frame /\ Top(t).pc = "export"
  BY TopIsFrame DEF Inv, ExportAndExit, At, TunerInv
<1>2. /\ exports' = [exports EXCEPT ![t] = @ + 1]
      /\ exports \in [Tuners -> Nat]
      /\ files' = files /\ calls' = calls /\ measured' = measured /\ ended' = ended
      /\ failed' = failed /\ now' = now
  BY <1>1 DEF ExportAndExit, Typed
<1>3. exports'[t] = exports[t] + 1 /\ exports[t] \in Nat /\ exports'[t] \in Nat
  BY <1>2
<1>4. Recorded(t)
  BY <1>1, <1>2 DEF Recorded, Typed
<1>5. Worth(Top(t)) = 1
  BY <1>1 DEF Worth
<1>6. Honest(t)'
  BY <1>1, <1>2, HonestStays DEF TunerInv
<1>7. CASE Len(stack[t]) = 1
  <2>1. PICK frame : frame = [Top(t) EXCEPT !.pc = "done"]
    OBVIOUS
  <2>2. frame \in Frame /\ frame.pc = "done"
    <3>1. "done" \in Labels
      BY DEF Labels
    <3> QED
      BY ONLY <1>1, <2>1, <3>1 DEF Frame
  <2>3. Stacked /\ OthersStay(t) /\ Replaced(t, frame)
    <3>1. Becomes(t, frame)
      BY <1>7, <2>1 DEF ExportAndExit
    <3> QED
      BY <1>1, <2>2, <3>1, BecomesStack
  <2>4. Names(t, frame)'
    BY <2>2 DEF Names, Applying, Measuring
  <2>5. Nested(t)' /\ Named(t)'
    BY <1>1, <1>2, <1>7, <2>2, <2>3, <2>4, ReplacedKeeps DEF InCall, Depth
  <2>6. OwnFile(t)' /\ OwnCounters(t)'
    BY <2>2, <2>3, NothingOwned DEF Replaced
  <2>7. ExportsLeft(t)'
    <3>1. Worth(frame) = 0
      BY <2>2 DEF Worth
    <3>2. SumsLeft(t) => SumsLeft(t)'
      BY <1>1, <1>3, <1>5, <2>2, <2>3, <3>1, ReplacedExports
    <3> QED
      BY <1>1, <1>3, <2>2, <2>3, <3>2 DEF ExportsLeft, Replaced
  <2>8. TunerInv(t)'
    BY <1>6, <2>5, <2>6, <2>7 DEF TunerInv
  <2>9. Depth(t)' > 0 /\ \A n : HeldBy(t, n) => HeldBy(t, n)'
    <3>1. Top(t).pc \notin Removing
      BY <1>1 DEF Removing
    <3> QED
      BY <1>1, <2>3, <3>1, ReplacedHolds, TopIsFrame DEF Replaced
  <2> QED
    BY <1>2, <1>4, <2>3, <2>8, <2>9, QuietKeeps
<1>8. CASE Len(stack[t]) # 1
  <2>1. /\ Depth(t) \in Nat /\ Depth(t) > 1 /\ Below(t) \in Frame
        /\ Below(t).pc = "wait_papi" /\ ~CodesValid
    <3>1. Depth(t) \in Nat /\ Depth(t) > 0 /\ (Depth(t) > 1 => Below(t) \in Frame)
      BY <1>1, TopIsFrame
    <3>2. Depth(t) # 1
      BY <1>8 DEF Depth
    <3> QED
      BY <1>1, <3>1, <3>2 DEF Nested, InCall
  <2>10. PICK status \in {0, 1} : status = 0
    OBVIOUS
  <2>2. Stacked /\ OthersStay(t) /\ Popped(t, [Below(t) EXCEPT !.status = status])
    <3>1. Exits(t, status)
      BY <1>8, <2>10 DEF ExportAndExit
    <3> QED
      BY <1>1, <2>1, <3>1, ExitsStack
  <2>3. PICK name : name = Below(t).name
    OBVIOUS
  <2>4. Top(t)'.pc = "wait_papi" /\ Top(t)'.name = name
    <3>1. PICK frame : frame = [Below(t) EXCEPT !.status = status]
      OBVIOUS
    <3>2. frame.pc = "wait_papi" /\ frame.name = name
      BY <2>1, <2>3, <3>1 DEF Frame
    <3> QED
      BY <2>2, <3>1, <3>2 DEF Popped
  <2>5. OwnFile(t)'
    BY <2>4, NothingOwned
  <2>6. OwnCounters(t)'
    <3>1. name \in {".papi-"} \X (0..MaxTime)
      <4>1. Names(t, Below(t))
        BY <1>1, <2>1 DEF Named, Below
      <4> QED
        BY <2>1, <2>3, <4>1 DEF Names, Measuring
    <3>2. name \notin DOMAIN files
      BY <1>1, <2>1, <3>1 DEF NoCounters
    <3>3. CountersIn(name)' = Unset
      BY <1>2, <3>2 DEF CountersIn
    <3> QED
      BY <2>1, <2>4, <3>3 DEF OwnCounters
  <2>7. TunerInv(t)'
    <3>1. exports'[t] <= exports[t] + Worth(Top(t))
      BY <1>3, <1>5
    <3>2. CodesValid => exports'[t] = exports[t]
      BY <2>1
    <3> QED
      BY <1>1, <1>2, <1>3, <1>6, <2>1, <2>2, <2>5, <2>6, <3>1, <3>2, Leaves
  <2>8. Depth(t)' > 0 /\ \A n : HeldBy(t, n) => HeldBy(t, n)'
    <3>1. Top(t).pc \notin Removing
      BY <1>1 DEF Removing
    <3>2. \A n : HeldBy(t, n) => HeldBy(t, n)'
      BY <1>1, <2>1, <2>2, <3>1, PoppedHolds
    <3> QED
      BY <2>1, <2>2, <3>2 DEF Popped
  <2> QED
    BY <1>2, <1>4, <2>2, <2>7, <2>8, QuietKeeps
<1> QED
  BY <1>7, <1>8

-----------------------------------------------------------------------------
(* The theorems. *)

(* Every step of a tuner, whichever it is.                                  *)
LEMMA TunerStepKeeps ==
  ASSUME Inv, NEW t \in Tuners, TunerStep(t), CodesValid' = CodesValid
  PROVE  Keeps(t)
BY ApplyForksKeeps, PassesRunKeeps, PassesCrashKeeps, PrintFailsKeeps, CheckModuleKeeps,
   ApplyFailsKeeps, ReadModuleKeeps, RemoveTmpKeeps, RunForksKeeps, OpenCountersKeeps,
   EventsFailKeeps, PapiAbortsKeeps, ProgramReturnsKeeps, ProgramExitsKeeps,
   ProgramCrashesKeeps, ReadCountersKeeps, RemovePapiKeeps, ExportAndExitKeeps
   DEF TunerStep

(* The first processes.                                                     *)
LEMMA InvInitially == Init => Inv
<1> SUFFICES ASSUME Init
             PROVE  Inv
  OBVIOUS
<1>1. CodesValid \in BOOLEAN /\ now = 0 /\ MaxTime \in Nat /\ Steps \in Nat
  BY ToolsAssumption DEF Init
<1>2. ASSUME NEW t \in Tuners
      PROVE  /\ stack[t] = <<Start(t)>>
             /\ Start(t) \in Frame
             /\ Len(stack[t]) = 1 /\ stack[t] \in Seq(Frame)
             /\ Depth(t) = 1 /\ Top(t) = Start(t) /\ stack[t][1] = Start(t)
  <2>1. stack[t] = <<Start(t)>>
    BY DEF Init
  <2>2. Start(t) \in Frame
    BY <1>1 DEF Start, Frame, Labels, Module
  <2> QED
    BY <2>1, <2>2 DEF Depth, Top, Last
<1>3. /\ files = <<>> /\ exports = [t \in Tuners |-> 0] /\ calls = [t \in Tuners |-> {}]
      /\ measured = [t \in Tuners |-> {}]
      /\ stack = [t \in Tuners |-> <<Start(t)>>]
  BY DEF Init
<1>4. Typed
  <2>1. DOMAIN files = {}
    BY <1>3
  <2>2. files \in [DOMAIN files -> Content] /\ DOMAIN files \subseteq FileName
    BY <1>3, <2>1
  <2> QED
    BY <1>1, <1>2, <1>3, <2>2 DEF Typed
<1>5. NoCounters /\ Held
  BY <1>3 DEF NoCounters, Held
<1>6. ASSUME NEW t \in Tuners
      PROVE  TunerInv(t)
  <2>1. /\ Depth(t) = 1 /\ Top(t) = Start(t) /\ stack[t][1] = Start(t)
        /\ Start(t) \in Frame /\ Len(stack[t]) = 1
    BY <1>2
  <2>2. Start(t).pc = "baseline" /\ Start(t).step = 0
    BY DEF Start
  <2>3. Nested(t)
    BY <2>1, <2>2 DEF Nested, InCall
  <2>4. Named(t)
    BY <2>1, <2>2 DEF Named, Names, Applying, Measuring
  <2>5. OwnFile(t) /\ OwnCounters(t)
    BY <2>1, <2>2 DEF OwnFile, OwnCounters
  <2>6. SumsLeft(t)
    <3>1. Worth(Start(t)) = Copies[Steps + 1]
      BY <1>1, <2>2 DEF Worth
    <3>2. Copies[Steps + 1] \in Nat
      BY <1>1, CopiesPositive
    <3> DEFINE sums == [i \in 0..1 |-> IF i = 0 THEN 0 ELSE Copies[Steps + 1]]
    <3>3. sums \in [0..1 -> Nat] /\ sums[0] = 0 /\ sums[1] = Copies[Steps + 1]
      BY <3>2
    <3> HIDE DEF sums
    <3>4. SumsWorth(sums, stack[t])
      BY <2>1, <3>1, <3>2, <3>3 DEF SumsWorth
    <3>5. exports[t] = 0
      BY <1>3
    <3> QED
      BY <2>1, <3>2, <3>3, <3>4, <3>5 DEF SumsLeft
  <2>7. ExportsLeft(t)
    BY <1>3, <2>1, <2>2, <2>6 DEF ExportsLeft
  <2>8. Honest(t)
    BY <1>3 DEF Honest
  <2> QED
    BY <2>3, <2>4, <2>5, <2>7, <2>8 DEF TunerInv
<1> QED
  BY <1>4, <1>5, <1>6 DEF Inv

(* The invariant is inductive.                                              *)
LEMMA InvKept == Inv /\ [Next]_vars => Inv'
<1> SUFFICES ASSUME Inv, [Next]_vars
             PROVE  Inv'
  OBVIOUS
<1>1. ASSUME NEW t \in Tuners, TunerStep(t), CodesValid' = CodesValid
      PROVE  Inv'
  <2>1. Keeps(t)
    BY <1>1, TunerStepKeeps
  <2>2. Typed' /\ NoCounters' /\ TunerInv(t)' /\ Effects(t)
    BY <2>1 DEF Keeps
  <2>3. ASSUME NEW u \in Tuners \ {t}
        PROVE  TunerInv(u)'
    BY <2>2, Bystander DEF Inv, TunerInv
  <2>4. Held'
    <3> SUFFICES ASSUME NEW n \in DOMAIN files'
                 PROVE  n \in failed' \/ \E u \in Tuners : HeldBy(u, n)'
      BY DEF Held
    <3>1. CASE n \notin DOMAIN files
      BY <2>1, <3>1 DEF Keeps
    <3>2. CASE n \in failed
      BY <2>2, <3>2 DEF Effects
    <3>3. ASSUME NEW u \in Tuners, HeldBy(u, n)
          PROVE  n \in failed' \/ \E v \in Tuners : HeldBy(v, n)'
      <4>1. CASE u = t
        BY <2>1, <3>3, <4>1 DEF Keeps
      <4>2. CASE u # t
        <5>1. Typed /\ Bystands(u, Top(t).name)
          BY <2>2, <4>2 DEF Inv, Effects
        <5>2. /\ Depth(u)' = Depth(u)
              /\ \A i \in 1..Depth(u) : SameFrame(stack'[u][i], stack[u][i])
          BY <5>1, BystanderFrames
        <5>3. HeldBy(u, n)'
          BY <3>3, <5>2 DEF HeldBy, SameFrame
        <5> QED
          BY <5>3
      <4> QED
        BY <4>1, <4>2
    <3> QED
      BY <3>1, <3>2, <3>3 DEF Inv, Held
  <2> QED
    BY <2>2, <2>3, <2>4 DEF Inv
<1>2. ASSUME UNCHANGED <<CodesValid, stack, files, histories>>, now' \in 0..MaxTime
      PROVE  Inv'
  <2>1. Typed' /\ NoCounters'
    BY <1>2 DEF Inv, Typed, NoCounters, histories
  <2>2. Held'
    BY <1>2 DEF Inv, Held, HeldBy, Depth, histories
  <2>3. ASSUME NEW t \in Tuners
        PROVE  TunerInv(t)'
    <3>1. TunerInv(t)
      BY DEF Inv
    <3>2. Nested(t)' /\ Named(t)'
      BY <1>2, <3>1 DEF TunerInv, Nested, Named, Names, Depth, Top, Below, histories
    <3>3. OwnFile(t)' /\ OwnCounters(t)'
      BY <1>2, <3>1 DEF TunerInv, OwnFile, OwnCounters, Top, ModuleIn, CountersIn, Collided,
                        histories
    <3>4. ExportsLeft(t)' /\ Honest(t)'
      BY <1>2, <3>1 DEF TunerInv, ExportsLeft, SumsLeft, Top, Depth, Honest, Collided, histories
    <3> QED
      BY <3>2, <3>3, <3>4 DEF TunerInv
  <2> QED
    BY <2>1, <2>2, <2>3 DEF Inv
<1>3. CASE Next
  <2>1. CASE \E t \in Tuners : TunerStep(t)
    BY <1>1, <1>3, <2>1 DEF Next
  <2>2. CASE Tick
    <3>1. now' \in 0..MaxTime
      BY <2>2, ToolsAssumption DEF Inv, Typed, Tick
    <3> QED
      BY <1>2, <1>3, <2>2, <3>1 DEF Next, Tick
  <2>3. CASE Terminated
    BY <1>2, <1>3, <2>3 DEF Next, Terminated, vars, histories, Inv, Typed
  <2> QED
    BY <1>3, <2>1, <2>2, <2>3 DEF Next
<1>4. CASE UNCHANGED vars
  BY <1>2, <1>4 DEF vars, histories, Inv, Typed
<1> QED
  BY <1>3, <1>4

(* The module that applyOptimizations returns is the one compiled for the    *)
(* candidate, or another tuner compiled in the same second.                 *)
THEOREM ModulesAreOwn == Spec => []OwnModule
<1>1. Inv => OwnModule
  BY DEF Inv, TunerInv, OwnFile, OwnModule
<1> QED
  BY <1>1, InvInitially, InvKept, PTL DEF Spec

(* A measurement that succeeded has the counters of its candidate, or of the *)
(* exceptions one holds.                                                    *)
THEOREM MeasurementsAreHonest == Spec => []HonestMeasurement
<1>1. Inv => HonestMeasurement
  BY DEF Inv, TunerInv, Honest, HonestMeasurement
<1> QED
  BY <1>1, InvInitially, InvKept, PTL DEF Spec

(* When all tuners are done, only failed compilations left a file.          *)
THEOREM OnlyFailedFilesStay == Spec => []OnlyFailuresLeak
<1>1. Inv => OnlyFailuresLeak
  <2> SUFFICES ASSUME Inv, AllDone, NEW n \in DOMAIN files, n \notin failed
               PROVE  FALSE
    BY DEF OnlyFailuresLeak
  <2>1. PICK t \in Tuners : HeldBy(t, n)
    BY DEF Inv, Held
  <2>2. Top(t).pc = "done" /\ Depth(t) = 1 /\ Top(t) = stack[t][1]
    BY TopIsFrame DEF Inv, TunerInv, Nested, AllDone, At
  <2> QED
    BY <2>1, <2>2 DEF HeldBy, Removing
<1> QED
  BY <1>1, InvInitially, InvKept, PTL DEF Spec

(* A tuner exports once, or at most as often as its measurements can double  *)
(* it.                                                                     *)
THEOREM ExportsAreBounded == Spec => []ExportsBounded
<1>1. Inv => ExportsBounded
  <2> SUFFICES ASSUME Inv, NEW t \in Tuners
               PROVE  exports[t] <= IF CodesValid THEN 1 ELSE Copies[Steps + 1]
    BY DEF ExportsBounded
  <2>1. Typed /\ ExportsLeft(t) /\ exports[t] \in Nat
    BY DEF Inv, TunerInv, Typed
  <2>2. CASE CodesValid
    BY <2>1, <2>2 DEF ExportsLeft
  <2>3. CASE ~CodesValid
    <3>1. PICK sums : SumsWorth(sums, stack[t]) /\ exports[t] + sums[Depth(t)] <= Copies[Steps + 1]
      BY <2>1, <2>3 DEF ExportsLeft, SumsLeft
    <3>2. sums[Depth(t)] \in Nat
      BY <2>1, <3>1, TopIsFrame DEF SumsWorth, Depth
    <3>3. Copies[Steps + 1] \in Nat
      BY CopiesPositive, ToolsAssumption
    <3> QED
      BY <2>1, <2>3, <3>1, <3>2, <3>3
  <2> QED
    BY <2>2, <2>3
<1> QED
  BY <1>1, InvInitially, InvKept, PTL DEF Spec

=============================================================================
