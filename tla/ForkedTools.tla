----------------------------- MODULE ForkedTools -----------------------------
(***************************************************************************)
(* The processes behind one evaluation of a candidate: applyOptimizations   *)
(* and PAPIWrapper::run each fork a child, wait for it and take its result  *)
(* from a file of the working directory whose name is made of time(0), in   *)
(* seconds.                                                                *)
(*                                                                         *)
(* A tuner is a run of the tool; several may share a directory.  Each       *)
(* parent waits for its child, so the processes of a tuner form a stack of  *)
(* which only the last runs.  A tuner measures its module once, then        *)
(* compiles and measures Steps candidates and exports its knowledge base.   *)
(* What a child inherits from its parent is the parent's whole frame: a     *)
(* child that returns from PAPIWrapper::run instead of exiting goes on as   *)
(* another copy of the tuner.                                              *)
(***************************************************************************)
EXTENDS Integers, FiniteSets, SequencesExt

CONSTANTS
  Tuners,      \* the runs that share the working directory
  Steps,       \* the candidates a run evaluates
  Machines,    \* whether PAPI may know the event to count: {TRUE}, {FALSE}, both
  MaxTime      \* bound: the clock does not pass it

ASSUME ToolsAssumption ==
  /\ IsFiniteSet(Tuners)
  /\ Steps \in Nat
  /\ Machines \subseteq BOOLEAN
  /\ MaxTime \in Nat

VARIABLES
  CodesValid,  \* whether PAPI knows the event on this machine
  now,       \* time(0)
  stack,     \* the processes of each tuner, the running one last
  files,     \* the temporary files there are: name -> content
  exports,   \* how often each tuner exported its knowledge base
  calls,     \* history: the kind and the second of each tuner's calls
  failed,    \* history: the names of compilations that failed
  ended,     \* history: measured programs that ended the process themselves
  measured   \* history: the result of the last measurement of each tuner

vars == <<CodesValid, now, stack, files, exports, calls, failed, ended, measured>>
histories == <<exports, calls, failed, ended, measured>>

(* Mutants: names that do not depend on the time. *)
TmpFileFixed(t)  == <<".tmp-", 0>>
PapiFileFixed(t) == <<".papi-", 0>>

TmpFile(t)  == <<".tmp-", t>>
PapiFile(t) == <<".papi-", t>>
FileName    == {".tmp-", ".papi-"} \X (0..MaxTime)
NoName      == <<"", 0>>

(* The module compiled for a step of a tuner; step 0 is the tuner's own.    *)
Module  == Tuners \X (0..Steps)
Null    == <<>>

(* The content of a file: something nobody can read, or the bitcode, or the *)
(* counters, of a module.                                                  *)
Nothing == [kind |-> "nothing", of |-> Null]
Bitcode(m)  == [kind |-> "bitcode", of |-> m]
Counters(m) == [kind |-> "counters", of |-> m]

Unset == <<>>   \* an automatic variable nothing was assigned to

Top(t) == Last(stack[t])

(* The frame of a process: where it is, the candidate it evaluates, the     *)
(* module it compiled, the temporary file of the call it is in, whether the *)
(* file it opened still has that name, and what its child returned.         *)
Start(t) == [pc |-> "baseline", step |-> 0, module |-> <<t, 0>>, name |-> NoName,
             linked |-> FALSE, status |-> 0]

Init ==
  /\ CodesValid \in Machines
  /\ now = 0
  /\ stack = [t \in Tuners |-> <<Start(t)>>]
  /\ files = <<>>
  /\ exports = [t \in Tuners |-> 0]
  /\ calls = [t \in Tuners |-> {}]
  /\ failed = {}
  /\ ended = {}
  /\ measured = [t \in Tuners |-> {}]

(* The running process of t becomes frame.                                  *)
Becomes(t, frame) == stack' = [stack EXCEPT ![t] = Append(Front(@), frame)]

(* It forks: itself waiting, its copy running.                              *)
Forks(t, parent, child) == stack' = [stack EXCEPT ![t] = Front(@) \o <<parent, child>>]

(* It exits: its parent, which waits for it, gets the status.               *)
ExitsIn(s, status) ==
  LET rest == Front(s)
  IN  Append(Front(rest), [Last(rest) EXCEPT !.status = status])

Exits(t, status) == stack' = [stack EXCEPT ![t] = ExitsIn(@, status)]

At(t, pc) == Top(t).pc = pc

(* The frame after a candidate was evaluated, or the baseline measured.     *)
NextStep(frame) ==
  [frame EXCEPT !.pc = IF frame.step < Steps THEN "apply" ELSE "export",
                !.step = IF frame.step < Steps THEN @ + 1 ELSE @,
                !.module = Null]

-----------------------------------------------------------------------------
(* applyOptimizations. *)

ApplyForks(t) ==
  /\ At(t, "apply")
  /\ LET parent == [Top(t) EXCEPT !.name = TmpFile(now), !.pc = "wait_opt"]
     IN  Forks(t, parent, [parent EXCEPT !.pc = "passes"])
  /\ calls' = [calls EXCEPT ![t] = @ \cup {<<"apply", now>>}]
  /\ UNCHANGED <<now, files, exports, failed, ended, measured>>

(* printModule: the file is created, or truncated, and written.             *)
PassesRun(t) ==
  /\ At(t, "passes")
  /\ files' = [n \in DOMAIN files \cup {Top(t).name} |->
                 IF n = Top(t).name THEN Bitcode(<<t, Top(t).step>>) ELSE files[n]]
  /\ Becomes(t, [Top(t) EXCEPT !.pc = "check"])
  /\ UNCHANGED <<now, histories>>

(* A pass crashes, or there is no sequence to apply, before the file is      *)
(* opened.                                                                 *)
PassesCrash(t) ==
  /\ At(t, "passes")
  /\ Exits(t, 1)
  /\ UNCHANGED <<now, files, histories>>

(* The file is opened, and cannot be written.                               *)
PrintFails(t) ==
  /\ At(t, "passes")
  /\ files' = [n \in DOMAIN files \cup {Top(t).name} |->
                 IF n = Top(t).name THEN Nothing ELSE files[n]]
  /\ Exits(t, 1)
  /\ UNCHANGED <<now, histories>>

(* readModule: a module, or the null pointer.                               *)
ModuleIn(name) ==
  IF name \in DOMAIN files /\ files[name].kind = "bitcode" THEN files[name].of ELSE Null

CheckModule(t) ==
  /\ At(t, "check")
  /\ Exits(t, IF ModuleIn(Top(t).name) = Null THEN 1 ELSE 0)
  /\ UNCHANGED <<now, files, histories>>

(* waitpid returned: the failure is reported, the file stays.               *)
ApplyFails(t) ==
  /\ At(t, "wait_opt")
  /\ Top(t).status # 0
  /\ failed' = failed \cup {Top(t).name}
  /\ Becomes(t, NextStep([Top(t) EXCEPT !.status = 0]))
  /\ UNCHANGED <<now, files, exports, calls, ended, measured>>

ReadModule(t) ==
  /\ At(t, "wait_opt")
  /\ Top(t).status = 0
  /\ Becomes(t, [Top(t) EXCEPT !.module = ModuleIn(Top(t).name), !.pc = "remove_tmp"])
  /\ UNCHANGED <<now, files, histories>>

(* remove(): who has the file open writes to a file without a name.         *)
Unlinked(frames, name) ==
  [i \in DOMAIN frames |->
     IF frames[i].name = name THEN [frames[i] EXCEPT !.linked = FALSE] ELSE frames[i]]

(* Mutant: the file is kept. *)
KeepsAnd(t, frame) == Becomes(t, frame) /\ UNCHANGED files

RemovesAnd(t, frame) ==
  LET name == Top(t).name
  IN  /\ files' = [n \in DOMAIN files \ {name} |-> files[n]]
      /\ stack' = [u \in Tuners |->
                     IF u = t THEN Append(Front(stack[t]), frame)
                     ELSE Unlinked(stack[u], name)]

RemoveTmp(t) ==
  /\ At(t, "remove_tmp")
  /\ RemovesAnd(t, IF Top(t).module = Null THEN NextStep(Top(t))
                   ELSE [Top(t) EXCEPT !.pc = "measure"])
  /\ UNCHANGED <<now, histories>>

-----------------------------------------------------------------------------
(* PAPIWrapper::run. *)

RunForks(t) ==
  /\ At(t, "baseline") \/ At(t, "measure")
  /\ LET parent == [Top(t) EXCEPT !.name = PapiFile(now), !.pc = "wait_papi"]
     IN  Forks(t, parent, [parent EXCEPT !.pc = "events"])
  /\ calls' = [calls EXCEPT ![t] = @ \cup {<<"run", now>>}]
  /\ UNCHANGED <<now, files, exports, failed, ended, measured>>

(* addEvents succeeds and the file is opened.                               *)
OpenCounters(t) ==
  /\ At(t, "events")
  /\ CodesValid
  /\ files' = [n \in DOMAIN files \cup {Top(t).name} |->
                 IF n = Top(t).name THEN Nothing ELSE files[n]]
  /\ Becomes(t, [Top(t) EXCEPT !.pc = "program", !.linked = TRUE])
  /\ UNCHANGED <<now, histories>>

(* addEvents fails: the child RETURNS 1, to go on as its parent would have   *)
(* after a failed measurement.                                             *)
EventsFail(t) ==
  /\ At(t, "events")
  /\ ~CodesValid
  /\ Becomes(t, NextStep(Top(t)))
  /\ UNCHANGED <<now, files, histories>>

(* An assertion on PAPI fails.                                              *)
PapiAborts(t) ==
  /\ At(t, "events")
  /\ Exits(t, 1)
  /\ UNCHANGED <<now, files, histories>>

(* Mutant: the child returns where it should exit.                          *)
ProgramGoesOn(t, status) ==
  /\ At(t, "program")
  /\ files' = IF Top(t).linked
              THEN [files EXCEPT ![Top(t).name] = Counters(<<t, Top(t).step>>)]
              ELSE files
  /\ Becomes(t, NextStep(Top(t)))
  /\ UNCHANGED <<now, histories>>

(* main() returned: the counters are written, to the file that was opened.  *)
ProgramReturns(t, status) ==
  /\ At(t, "program")
  /\ files' = IF Top(t).linked
              THEN [files EXCEPT ![Top(t).name] = Counters(<<t, Top(t).step>>)]
              ELSE files
  /\ Exits(t, status)
  /\ UNCHANGED <<now, histories>>

(* The program called exit(), and with it ended the child.                  *)
ProgramExits(t) ==
  /\ At(t, "program")
  /\ Exits(t, 0)
  /\ ended' = ended \cup {<<t, Top(t).step>>}
  /\ UNCHANGED <<now, files, exports, calls, failed, measured>>

ProgramCrashes(t) ==
  /\ At(t, "program")
  /\ Exits(t, 1)
  /\ UNCHANGED <<now, files, histories>>

(* waitpid returned: the counters are read if the status is 0, else left     *)
(* unset.                                                                  *)
CountersIn(name) ==
  IF name \in DOMAIN files /\ files[name].kind = "counters" THEN files[name].of ELSE Unset

ReadCounters(t) ==
  /\ At(t, "wait_papi")
  /\ LET result == [step   |-> Top(t).step,
                    name   |-> Top(t).name,
                    status |-> Top(t).status,
                    cycles |-> IF Top(t).status = 0 THEN CountersIn(Top(t).name) ELSE Unset]
     IN  measured' = [measured EXCEPT ![t] = {result}]
  /\ Becomes(t, [Top(t) EXCEPT !.pc = "remove_papi"])
  /\ UNCHANGED <<now, files, exports, calls, failed, ended>>

RemovePapi(t) ==
  /\ At(t, "remove_papi")
  /\ RemovesAnd(t, NextStep([Top(t) EXCEPT !.status = 0]))
  /\ UNCHANGED <<now, histories>>

-----------------------------------------------------------------------------
(* stop() and the end of main(), with status 0; the first process stays as  *)
(* the record that the tuner is done.                                      *)
ExportAndExit(t) ==
  /\ At(t, "export")
  /\ exports' = [exports EXCEPT ![t] = @ + 1]
  /\ IF Len(stack[t]) = 1 THEN Becomes(t, [Top(t) EXCEPT !.pc = "done"]) ELSE Exits(t, 0)
  /\ UNCHANGED <<now, files, calls, failed, ended, measured>>

TunerStep(t) ==
  \/ ApplyForks(t)
  \/ PassesRun(t)
  \/ PassesCrash(t)
  \/ PrintFails(t)
  \/ CheckModule(t)
  \/ ApplyFails(t)
  \/ ReadModule(t)
  \/ RemoveTmp(t)
  \/ RunForks(t)
  \/ OpenCounters(t)
  \/ EventsFail(t)
  \/ PapiAborts(t)
  \/ \E status \in {0, 1} : ProgramReturns(t, status)
  \/ ProgramExits(t)
  \/ ProgramCrashes(t)
  \/ ReadCounters(t)
  \/ RemovePapi(t)
  \/ ExportAndExit(t)

Tick ==
  /\ now < MaxTime
  /\ now' = now + 1
  /\ UNCHANGED <<stack, files, histories>>

AllDone == \A t \in Tuners : At(t, "done")

Terminated == AllDone /\ UNCHANGED vars

Next ==
  /\ (\E t \in Tuners : TunerStep(t)) \/ Tick \/ Terminated
  /\ UNCHANGED CodesValid

Spec == Init /\ [][Next]_vars

-----------------------------------------------------------------------------
(* Properties. *)

(* Another tuner made a call of this kind in the same second.               *)
Collided(t, kind) ==
  \E u \in Tuners \ {t}, second \in 0..MaxTime :
    <<kind, second>> \in calls[t] \cap calls[u]

(* A module that applyOptimizations returns is the one compiled for this     *)
(* candidate, never one that an earlier failure or an earlier second left   *)
(* behind; only a tuner that compiled in the same second can exchange it.   *)
OwnModule ==
  \A t \in Tuners :
    Top(t).pc \in {"remove_tmp", "measure"}
      => Top(t).module \in {Null, <<t, Top(t).step>>} \/ Collided(t, "apply")

(* A measurement whose status is 0 has the counters of this program and      *)
(* this candidate, unless another tuner measured in the same second, the    *)
(* program called exit(), or the child was a copy of the tuner that ended   *)
(* well: in the last two cases the variable was never written.              *)
HonestMeasurement ==
  \A t \in Tuners : \A r \in measured[t] :
    r.status = 0 =>
      \/ r.cycles = <<t, r.step>>
      \/ r.cycles = Unset /\ (<<t, r.step>> \in ended \/ ~CodesValid)
      \/ Collided(t, "run")

(* When the tuners are done, a temporary file that is left belongs to a      *)
(* compilation that failed: nothing else leaks, also when tuners remove     *)
(* each other's files.                                                     *)
OnlyFailuresLeak == AllDone => DOMAIN files \subseteq failed

(* What one process becomes when each of n measurements doubles it.         *)
Copies[n \in 0..(Steps + 1)] == IF n = 0 THEN 1 ELSE 2 * Copies[n - 1]

(* A tuner exports its knowledge base once, unless PAPI refuses the event:   *)
(* each measurement then doubles the copies of the tuner, and every copy    *)
(* exports.                                                                *)
ExportsBounded ==
  \A t \in Tuners : exports[t] <= IF CodesValid THEN 1 ELSE Copies[Steps + 1]

=============================================================================
