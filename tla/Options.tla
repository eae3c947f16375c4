------------------------------- MODULE Options ---------------------------------
(***************************************************************************)
(* The options of the program. An option registers itself when it is        *)
(* constructed and unregisters itself when it is destroyed; those that are   *)
(* static in a header have a copy in every unit that includes it, under the  *)
(* same name. The configuration is parsed once, when main starts, into the   *)
(* options that are registered then.                                        *)
(***************************************************************************)
EXTENDS Naturals, FiniteSets, FiniteSetsExt, Sequences, SequencesExt, Functions

CONSTANTS
  Option,     \* the options, by their addresses
  Static,     \* those that live as long as the program; the others are local
  NameOf,     \* the name of each
  IsRequired, \* whether it is a required one
  Scenarios   \* what the runs differ in: the order in which the units are
              \* initialized, the configuration, and whether it is a debug build

ASSUME OptionsAssumption ==
  /\ Option \subseteq Nat /\ IsFiniteSet(Option)
  /\ Static \subseteq Option
  /\ DOMAIN NameOf = Option
  /\ IsRequired \in [Option -> BOOLEAN]
  /\ \A s \in Scenarios :
       /\ s.order \in SetToSeqs(Static)
       /\ s.asserts \in BOOLEAN
       /\ \A n \in DOMAIN s.config : s.config[n] \in {"good", "bad"}

VARIABLES
  scenario,  \* the run
  stage,     \* "starting", "parsing", "running", "exiting", "ended" or "aborted"
  unread,    \* the names of the configuration that are not parsed yet
  alive,     \* the options there are, in the order of their construction
  Options,   \* what is registered: names to sets of options
  Value,     \* the value of an option: the default or the configuration's
  Parsed     \* the options that have parsed

optionVars == <<scenario, stage, unread, alive, Options, Value, Parsed>>

Alive == Range(alive)
config == scenario.config

OptionsInit ==
  /\ scenario \in Scenarios
  /\ stage = "starting"
  /\ unread = DOMAIN config
  /\ alive = <<>>
  /\ Options = <<>>
  /\ Value = <<>>
  /\ Parsed = {}

-----------------------------------------------------------------------------
(***************************************************************************)
(* Registering.                                                            *)
(***************************************************************************)
Copies(n) == IF n \in DOMAIN Options THEN Options[n] ELSE {}

add(o) == [n \in DOMAIN Options \cup {NameOf[o]} |->
             Copies(n) \cup (IF n = NameOf[o] THEN {o} ELSE {})]

(* Mutant: without removeIfEmpty.                                           *)
erase(o) == [Options EXCEPT ![NameOf[o]] = @ \ {o}]

(* remove, and removeIfEmpty of its name.                                   *)
remove(o) ==
  LET erased == [Options EXCEPT ![NameOf[o]] = @ \ {o}]
  IN  IF o \notin Copies(NameOf[o]) THEN Options
      ELSE Restrict(erased, {n \in DOMAIN Options : n # NameOf[o] \/ erased[n] # {}})

Construct(o) ==
  /\ o \notin Alive
  /\ alive' = Append(alive, o)
  /\ Options' = add(o)
  /\ Value' = [p \in DOMAIN Value \cup {o} |-> IF p = o THEN "default" ELSE Value[p]]
  /\ UNCHANGED <<scenario, unread, Parsed>>

(* What was constructed last is destroyed first.                            *)
DestroyLast ==
  /\ alive # <<>>
  /\ alive' = Front(alive)
  /\ Options' = remove(Last(alive))
  /\ Value' = Restrict(Value, DOMAIN Value \ {Last(alive)})
  /\ Parsed' = Parsed \ {Last(alive)}
  /\ UNCHANGED <<scenario, unread>>

-----------------------------------------------------------------------------
(***************************************************************************)
(* The life of the program.                                                *)
(***************************************************************************)
ConstructStatic ==
  /\ stage = "starting"
  /\ Len(alive) < Len(scenario.order)
  /\ Construct(scenario.order[Len(alive) + 1])
  /\ UNCHANGED stage

Main ==
  /\ stage = "starting"
  /\ Len(alive) = Len(scenario.order)
  /\ stage' = "parsing"
  /\ UNCHANGED <<scenario, unread, alive, Options, Value, Parsed>>

(* Mutant: only the option that registered at the lowest address.           *)
FirstCopy(n) == IF Copies(n) = {} THEN {} ELSE {Min(Copies(n))}

(* The options that parse the value of a name, none if it is unknown.       *)
Parsing(n) == Copies(n)

(* A value that an option cannot be converted from is an exception nobody    *)
(* catches; the keys come in the order of the file.                         *)
ParseName(n) ==
  /\ stage = "parsing"
  /\ n \in unread
  /\ unread' = unread \ {n}
  /\ IF config[n] = "bad" /\ Parsing(n) # {}
     THEN stage' = "aborted" /\ UNCHANGED <<Value, Parsed>>
     ELSE /\ Value' = [o \in DOMAIN Value |-> IF o \in Parsing(n) THEN "given" ELSE Value[o]]
          /\ Parsed' = Parsed \cup Parsing(n)
          /\ UNCHANGED stage
  /\ UNCHANGED <<scenario, alive, Options>>

(* The required options among the copies of a name, by address, up to the    *)
(* first that is not required.                                              *)
Checked(n) ==
  {o \in Copies(n) : \A p \in Copies(n) : p <= o => IsRequired[p]}

(* Mutant: the first name that is not required ends the check.              *)
FirstNames ==
  \A n \in DOMAIN Options :
    (\A m \in DOMAIN Options : m <= n => Checked(m) # {}) => Checked(n) \subseteq Parsed

checkRequiredOptions == \A n \in DOMAIN Options : Checked(n) \subseteq Parsed

(* The check is an assertion.                                               *)
ParseOptionsEnds ==
  /\ stage = "parsing"
  /\ unread = {}
  /\ stage' = IF scenario.asserts /\ ~checkRequiredOptions THEN "aborted" ELSE "running"
  /\ UNCHANGED <<scenario, unread, alive, Options, Value, Parsed>>

(* A function that has an option of its own is entered, and left.           *)
EnterFunction(o) ==
  /\ stage = "running"
  /\ Construct(o)
  /\ UNCHANGED stage

LeaveFunction ==
  /\ stage = "running"
  /\ alive # <<>> /\ Last(alive) \notin Static
  /\ DestroyLast
  /\ UNCHANGED stage

MainReturns ==
  /\ stage = "running"
  /\ Alive \subseteq Static
  /\ stage' = "exiting"
  /\ UNCHANGED <<scenario, unread, alive, Options, Value, Parsed>>

DestroyStatic ==
  /\ stage = "exiting"
  /\ DestroyLast
  /\ stage' = IF Len(alive) = 1 THEN "ended" ELSE "exiting"

Lifecycle ==
  \/ ConstructStatic
  \/ Main
  \/ \E n \in unread : ParseName(n)
  \/ ParseOptionsEnds
  \/ MainReturns
  \/ DestroyStatic

-----------------------------------------------------------------------------
(***************************************************************************)
(* Properties.                                                             *)
(***************************************************************************)

(* The registry holds the options there are and no others, whatever copies   *)
(* of a name come and go in whatever order: no name outlives its last option *)
(* and none is lost with one of several, so that parse() never writes        *)
(* through the pointer of an option that was destroyed.                     *)
RegisteredAreAlive ==
  Options = [n \in {NameOf[o] : o \in Alive} |-> {o \in Alive : NameOf[o] = n}]

(* Once the configuration is parsed, every unit sees the same value of an    *)
(* option of a header: that of the configuration if it has one. An option   *)
(* that is constructed later keeps its default whatever the configuration   *)
(* says.                                                                   *)
CopiesAgree ==
  stage \in {"running", "exiting"} =>
    \A o \in Alive :
      Value[o] = IF o \in Static /\ NameOf[o] \in DOMAIN config THEN "given" ELSE "default"

(* A debug build only runs with every required option in its configuration,  *)
(* if all the units that have an option of that name require it.            *)
RequiredGiven ==
  scenario.asserts /\ stage = "running" =>
    \A o \in Static :
      (\A p \in Static : NameOf[p] = NameOf[o] => IsRequired[p]) =>
        o \in Parsed /\ NameOf[o] \in DOMAIN config
================================================================================
