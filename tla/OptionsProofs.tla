----------------------------- MODULE OptionsProofs -----------------------------
(***************************************************************************)
(* What the program's options and tables keep, in the whole program.        *)
(*                                                                         *)
(* However its units are initialized and its functions entered and left, the *)
(* options that are registered are those alive (constructed once: if one     *)
(* were alive twice, the first of its destructors would unregister both),   *)
(* the copies of one have one value, and those required were given. Tables   *)
(* keep their keys, what is printed is what they had, and a loop over keys    *)
(* that has its class to itself has its iterators to itself.                *)
(***************************************************************************)
EXTENDS YAMLForms, SequenceTheorems, Inductions

AliveOnce ==
  /\ scenario \in Scenarios
  /\ alive \in Seq(Option)
  /\ \A j, k \in 1..Len(alive) : alive[j] = alive[k] => j = k

IInv == AliveOnce /\ RegisteredAreAlive

(***************************************************************************)
(* What happens to options.                                                *)
(***************************************************************************)

(* Containers, loops and forms leave options alone, but that cfg_bb_static   *)
(* has one of its own while it prints.                                      *)
LEMMA LifeStep ==
  ASSUME [FormsNext]_<<allVars, sequenceVars>>
  PROVE  \/ UNCHANGED optionVars
         \/ Lifecycle
         \/ EnterFunction(BlocksOption)
         \/ LeaveFunction
<1> DEFINE Step == \/ UNCHANGED optionVars
                   \/ Lifecycle
                   \/ EnterFunction(BlocksOption)
                   \/ LeaveFunction
<1>1. ASSUME EnterAppendBlocks
      PROVE  Step
  BY <1>1 DEF EnterAppendBlocks
<1>2. ASSUME NEW t \in scenario.tables, AppendBlocks(t)
      PROVE  Step
  BY <1>2 DEF AppendBlocks
<1>3. ASSUME LoopTest \/ LoopIncrement \/ LoopBreak
      PROVE  Step
  BY <1>3 DEF LoopTest, LoopIncrement, LoopBreak
<1>4. ASSUME NEW t \in scenario.tables, StartLoop(t) \/ append(t) \/ fill(t)
      PROVE  Step
  BY <1>4 DEF StartLoop, append, fill
<1>5. ASSUME NEW t \in scenario.tables, NEW s, NEW v,
             setValueOf(t, s, v) \/ \E k \in Key : setValueOfKey(t, k, s, v)
      PROVE  Step
  BY <1>5 DEF setValueOf, setValueOfKey, SetValue
<1>6. ASSUME TablesNext
      PROVE  Step
  BY <1>1, <1>2, <1>3, <1>4, <1>5, <1>6 DEF TablesNext
<1>7. ASSUME UNCHANGED allVars
      PROVE  Step
  BY <1>7 DEF allVars
<1> QED BY <1>6, <1>7 DEF FormsNext

(* Units construct the options that are static.                             *)
LEMMA StaticStep ==
  ASSUME AliveOnce, ConstructStatic
  PROVE  \E o \in Static : Construct(o)
<1>1. scenario.order \in SetToSeqs(Static)
  BY OptionsAssumption DEF AliveOnce
<1>2. PICK n \in Nat : scenario.order \in [1..n -> Static]
  <2>1. Cardinality(Static) \in Nat
    BY FS_Subset, FS_CardinalityType, OptionsAssumption
  <2> QED BY <1>1, <2>1 DEF SetToSeqs
<1>3. Len(alive) + 1 \in 1..n
  BY <1>2 DEF ConstructStatic, AliveOnce
<1>4. scenario.order[Len(alive) + 1] \in Static
  BY <1>2, <1>3
<1> QED BY <1>4 DEF ConstructStatic

(* Options are constructed and destroyed, one at a time, and nothing else    *)
(* touches the registry.                                                   *)
LEMMA OptionStep ==
  ASSUME AliveOnce, [FormsNext]_<<allVars, sequenceVars>>
  PROVE  \/ UNCHANGED <<scenario, alive, Options>>
         \/ \E o \in Option : Construct(o)
         \/ DestroyLast
<1>1. CASE UNCHANGED optionVars
  BY <1>1 DEF optionVars
<1>2. CASE ConstructStatic
  BY <1>2, StaticStep, OptionsAssumption
<1>3. CASE Main \/ (\E n \in unread : ParseName(n)) \/ ParseOptionsEnds \/ MainReturns
  BY <1>3 DEF Main, ParseName, ParseOptionsEnds, MainReturns
<1>4. CASE DestroyStatic \/ LeaveFunction
  BY <1>4 DEF DestroyStatic, LeaveFunction
<1>5. CASE EnterFunction(BlocksOption)
  BY <1>5, TablesAssumption DEF EnterFunction
<1> QED BY <1>1, <1>2, <1>3, <1>4, <1>5, LifeStep DEF Lifecycle

(***************************************************************************)
(* The two steps.                                                          *)
(***************************************************************************)
LEMMA ConstructAlive ==
  ASSUME AliveOnce, NEW o \in Option, Construct(o)
  PROVE  AliveOnce' /\ Alive' = Alive \cup {o}
<1>1. /\ o \notin Alive
      /\ alive' = Append(alive, o)
      /\ scenario' = scenario
  BY DEF Construct
<1>2. /\ alive' \in Seq(Option)
      /\ Len(alive') = Len(alive) + 1
      /\ alive'[Len(alive) + 1] = o
      /\ \A k \in 1..Len(alive) : alive'[k] = alive[k]
  BY <1>1, AppendProperties DEF AliveOnce
<1>3. Alive = {alive[k] : k \in 1..Len(alive)}
  BY DEF Alive, Range, AliveOnce
<1>4. Alive' = {alive'[k] : k \in 1..Len(alive')}
  BY <1>2 DEF Alive, Range
<1>5. Alive' = Alive \cup {o}
  BY <1>2, <1>3, <1>4 DEF AliveOnce
<1>6. AliveOnce'
  BY <1>1, <1>2, <1>3 DEF AliveOnce
<1> QED BY <1>5, <1>6

LEMMA DestroyAlive ==
  ASSUME AliveOnce, DestroyLast
  PROVE  AliveOnce' /\ Last(alive) \in Alive /\ Alive' = Alive \ {Last(alive)}
<1>1. /\ alive # <<>>
      /\ alive' = Front(alive)
      /\ scenario' = scenario
  BY DEF DestroyLast
<1>2. /\ Len(alive) \in Nat \ {0}
      /\ Last(alive) = alive[Len(alive)]
  BY <1>1, EmptySeq, LenProperties DEF AliveOnce, Last
<1>3. /\ alive' \in Seq(Option)
      /\ Len(alive') = Len(alive) - 1
      /\ \A k \in 1..(Len(alive) - 1) : alive'[k] = alive[k]
  <2> DEFINE n == Len(alive) - 1
  <2>1. n \in Nat /\ \A k \in 1..n : alive[k] \in Option
    BY <1>2, ElementOfSeq DEF AliveOnce
  <2>2. alive' = SubSeq(alive, 1, n)
    BY <1>1 DEF Front
  <2> HIDE DEF n
  <2>3. /\ SubSeq(alive, 1, n) \in Seq(Option)
        /\ Len(SubSeq(alive, 1, n)) = IF 1 <= n THEN n - 1 + 1 ELSE 0
        /\ \A k \in 1..(n - 1 + 1) : SubSeq(alive, 1, n)[k] = alive[1 + k - 1]
    BY <2>1, SubSeqProperties
  <2>4. Len(alive') = n
    BY <2>1, <2>2, <2>3
  <2>5. \A k \in 1..n : alive'[k] = alive[k]
    BY <2>1, <2>2, <2>3
  <2> QED BY <2>2, <2>3, <2>4, <2>5 DEF n
<1>4. Alive = {alive[k] : k \in 1..Len(alive)}
  BY DEF Alive, Range, AliveOnce
<1>5. Alive' = {alive'[k] : k \in 1..Len(alive')}
  BY <1>3 DEF Alive, Range
<1>6. Alive' = Alive \ {Last(alive)}
  BY <1>2, <1>3, <1>4, <1>5 DEF AliveOnce
<1>7. AliveOnce'
  BY <1>1, <1>2, <1>3 DEF AliveOnce
<1> QED BY <1>2, <1>4, <1>6, <1>7

LEMMA ConstructSound ==
  ASSUME IInv, NEW o \in Option, Construct(o)
  PROVE  IInv'
<1>1. AliveOnce' /\ Alive' = Alive \cup {o}
  BY ConstructAlive DEF IInv
<1>2. \A n : Copies(n) = {p \in Alive : NameOf[p] = n}
  BY DEF IInv, RegisteredAreAlive, Copies
<1>3. DOMAIN Options = {NameOf[p] : p \in Alive}
  BY DEF IInv, RegisteredAreAlive
<1>4. Options' = add(o)
  BY DEF Construct
<1> QED BY <1>1, <1>2, <1>3, <1>4 DEF IInv, RegisteredAreAlive, add

(* The name of the option goes if the option was the last of it.            *)
LEMMA DestroySound ==
  ASSUME IInv, DestroyLast
  PROVE  IInv'
<1> DEFINE o == Last(alive)
           erased == [Options EXCEPT ![NameOf[o]] = @ \ {o}]
<1>1. AliveOnce' /\ o \in Alive /\ Alive' = Alive \ {o}
  BY DestroyAlive DEF IInv
<1>2. Options = [n \in {NameOf[p] : p \in Alive} |-> {p \in Alive : NameOf[p] = n}]
  BY DEF IInv, RegisteredAreAlive
<1>3. o \in Copies(NameOf[o])
  BY <1>1, <1>2 DEF Copies
<1>4. /\ DOMAIN erased = DOMAIN Options
      /\ \A n \in DOMAIN Options : erased[n] = {p \in Alive' : NameOf[p] = n}
  BY <1>1, <1>2
<1>5. {n \in DOMAIN Options : n # NameOf[o] \/ erased[n] # {}} = {NameOf[p] : p \in Alive'}
  <2>1. ASSUME NEW n \in DOMAIN Options, n # NameOf[o] \/ erased[n] # {}
        PROVE  \E p \in Alive' : NameOf[p] = n
    <3>1. CASE erased[n] # {}
      BY <1>4, <3>1
    <3>2. CASE n # NameOf[o]
      <4>1. PICK p \in Alive : NameOf[p] = n
        BY <1>2
      <4> QED BY <1>1, <3>2, <4>1
    <3> QED BY <2>1, <3>1, <3>2
  <2>2. ASSUME NEW p \in Alive'
        PROVE  NameOf[p] \in DOMAIN Options /\ erased[NameOf[p]] # {}
    <3>1. NameOf[p] \in DOMAIN Options
      BY <1>1, <1>2
    <3>2. p \in erased[NameOf[p]]
      BY <1>4, <3>1
    <3> QED BY <3>1, <3>2
  <2> HIDE DEF erased
  <2> QED BY <2>1, <2>2
<1>6. Options' = Restrict(erased, {NameOf[p] : p \in Alive'})
  BY <1>3, <1>5 DEF DestroyLast, remove
<1>7. {NameOf[p] : p \in Alive'} \subseteq DOMAIN Options
  BY <1>1, <1>2
<1> QED BY <1>1, <1>4, <1>6, <1>7 DEF IInv, RegisteredAreAlive, Restrict

LEMMA InitSound == FormsInit => IInv
<1> SUFFICES ASSUME FormsInit PROVE IInv
  OBVIOUS
<1>1. /\ scenario \in Scenarios
      /\ alive = <<>>
      /\ Options = <<>>
  BY DEF FormsInit, TablesInit, OptionsInit
<1>2. Alive = {}
  BY <1>1 DEF Alive, Range
<1> QED BY <1>1, <1>2 DEF IInv, AliveOnce, RegisteredAreAlive

LEMMA StepSound ==
  ASSUME IInv, [FormsNext]_<<allVars, sequenceVars>>
  PROVE  IInv'
<1>1. CASE UNCHANGED <<scenario, alive, Options>>
  BY <1>1 DEF IInv, AliveOnce, RegisteredAreAlive, Alive
<1>2. CASE \E o \in Option : Construct(o)
  BY <1>2, ConstructSound
<1>3. CASE DestroyLast
  BY <1>3, DestroySound
<1> QED BY <1>1, <1>2, <1>3, OptionStep DEF IInv

(* The registry holds the options there are and no others, in every program  *)
(* and with every order in which its units are initialized.                 *)
THEOREM RegistryIsAlive == FormsSpec => []RegisteredAreAlive
<1>1. IInv => RegisteredAreAlive
  BY DEF IInv
<1> QED BY <1>1, InitSound, StepSound, PTL DEF FormsSpec

-----------------------------------------------------------------------------
(***************************************************************************)
(* The values of options. The parser reaches the copies that are registered, *)
(* which are those alive, which before main returns from parsing are static. *)
(***************************************************************************)
ValueOf(given) ==
  Value = [o \in Alive |-> IF NameOf[o] \in given THEN "given" ELSE "default"]

ValuesSound ==
  /\ DOMAIN Value = Alive
  /\ stage \in {"starting", "parsing"} => Alive \subseteq Static /\ unread \subseteq DOMAIN config
  /\ stage = "starting" => unread = DOMAIN config /\ ValueOf({})
  /\ stage = "parsing" => ValueOf(DOMAIN config \ unread)
  /\ CopiesAgree

LEMMA StartValues == FormsInit => ValuesSound
<1> SUFFICES ASSUME FormsInit PROVE ValuesSound
  OBVIOUS
<1>1. /\ stage = "starting"
      /\ unread = DOMAIN config
      /\ alive = <<>>
      /\ Value = <<>>
  BY DEF FormsInit, TablesInit, OptionsInit
<1>2. Alive = {}
  BY <1>1 DEF Alive, Range
<1> QED BY <1>1, <1>2 DEF ValuesSound, ValueOf, CopiesAgree

(* An option has the default when it is constructed, whatever was parsed.   *)
LEMMA ConstructValues ==
  ASSUME IInv, ValuesSound, NEW o \in Option, Construct(o), UNCHANGED stage,
         \/ stage = "starting" /\ o \in Static
         \/ stage = "running" /\ o \notin Static
  PROVE  ValuesSound'
<1>1. /\ o \notin Alive
      /\ Alive' = Alive \cup {o}
  BY ConstructAlive DEF IInv, Construct
<1>2. Value' = [p \in Alive' |-> IF p = o THEN "default" ELSE Value[p]]
  BY <1>1 DEF Construct, ValuesSound
<1>3. unread' = unread /\ config' = config
  BY DEF Construct, config
<1>4. CASE stage = "starting"
  <2>1. o \in Static
    BY <1>4
  <2>2. \A p \in Alive : Value[p] = "default"
    BY <1>4 DEF ValuesSound, ValueOf
  <2>3. ValueOf({})'
    BY <1>1, <1>2, <2>2 DEF ValueOf
  <2> QED BY <1>1, <1>2, <1>3, <1>4, <2>1, <2>3 DEF ValuesSound, CopiesAgree
<1>5. CASE stage = "running"
  BY <1>1, <1>2, <1>3, <1>5 DEF ValuesSound, CopiesAgree
<1> QED BY <1>4, <1>5

LEMMA DestroyValues ==
  ASSUME IInv, ValuesSound, DestroyLast, stage \in {"running", "exiting"},
         stage' \in {"running", "exiting", "ended"}
  PROVE  ValuesSound'
<1>1. Alive' = Alive \ {Last(alive)}
  BY DestroyAlive DEF IInv
<1>2. Value' = [p \in Alive' |-> Value[p]]
  BY <1>1 DEF DestroyLast, ValuesSound, Restrict
<1>3. config' = config
  BY DEF DestroyLast, config
<1> QED BY <1>1, <1>2, <1>3 DEF ValuesSound, CopiesAgree

(* All copies of the name get the value: they are what is registered.       *)
LEMMA ParseValues ==
  ASSUME IInv, ValuesSound, NEW n \in unread, ParseName(n)
  PROVE  ValuesSound'
<1>1. /\ stage = "parsing"
      /\ unread' = unread \ {n}
      /\ UNCHANGED <<scenario, alive>>
  BY DEF ParseName
<1>2. Alive' = Alive /\ config' = config
  BY <1>1 DEF Alive, config
<1>3. CASE stage' = "aborted" /\ Value' = Value
  BY <1>1, <1>2, <1>3 DEF ValuesSound, CopiesAgree
<1>4. CASE /\ stage' = stage
           /\ Value' = [o \in DOMAIN Value |-> IF o \in Parsing(n) THEN "given" ELSE Value[o]]
  <2>1. \A o \in Alive : o \in Parsing(n) <=> NameOf[o] = n
    BY DEF Parsing, Copies, IInv, RegisteredAreAlive
  <2>2. ValueOf(DOMAIN config \ unread)
    BY <1>1 DEF ValuesSound
  <2>3. n \in DOMAIN config
    BY <1>1 DEF ValuesSound
  <2>4. ValueOf(DOMAIN config \ unread)'
    BY <1>1, <1>2, <1>4, <2>1, <2>2, <2>3 DEF ValueOf, ValuesSound
  <2> QED BY <1>1, <1>2, <1>4, <2>4 DEF ValuesSound, CopiesAgree
<1> QED BY <1>3, <1>4 DEF ParseName

LEMMA ValuesStep ==
  ASSUME IInv, ValuesSound, [FormsNext]_<<allVars, sequenceVars>>
  PROVE  ValuesSound'
<1>1. CASE UNCHANGED optionVars
  BY <1>1 DEF optionVars, ValuesSound, ValueOf, CopiesAgree, Alive, config
<1>2. CASE ConstructStatic
  <2>1. PICK o \in Static : Construct(o)
    BY <1>2, StaticStep DEF IInv
  <2>2. stage = "starting" /\ stage' = stage
    BY <1>2 DEF ConstructStatic
  <2>3. o \in Option
    BY OptionsAssumption
  <2> QED BY <2>1, <2>2, <2>3, ConstructValues
<1>3. CASE Main
  BY <1>3 DEF Main, ValuesSound, ValueOf, CopiesAgree, Alive, config
<1>4. CASE \E n \in unread : ParseName(n)
  BY <1>4, ParseValues
<1>5. CASE ParseOptionsEnds
  <2>1. /\ stage = "parsing" /\ unread = {}
        /\ stage' \in {"aborted", "running"}
        /\ Alive' = Alive /\ config' = config /\ Value' = Value
    BY <1>5 DEF ParseOptionsEnds, Alive, config
  <2>2. Alive \subseteq Static /\ ValueOf(DOMAIN config)
    BY <2>1 DEF ValuesSound
  <2> QED BY <2>1, <2>2 DEF ValuesSound, ValueOf, CopiesAgree
<1>6. CASE MainReturns
  BY <1>6 DEF MainReturns, ValuesSound, ValueOf, CopiesAgree, Alive, config
<1>7. CASE DestroyStatic \/ LeaveFunction
  BY <1>7, DestroyValues DEF DestroyStatic, LeaveFunction
<1>8. CASE EnterFunction(BlocksOption)
  BY <1>8, ConstructValues, TablesAssumption DEF EnterFunction
<1> QED BY <1>1, <1>2, <1>3, <1>4, <1>5, <1>6, <1>7, <1>8, LifeStep DEF Lifecycle

(* Every unit sees the same value of an option, that of the configuration,   *)
(* in every order of the units and of the configuration's names; and an      *)
(* option constructed after the parsing sees its default.                   *)
THEOREM CopiesHaveOneValue == FormsSpec => []CopiesAgree
<1>1. ValuesSound => CopiesAgree
  BY DEF ValuesSound
<1> QED BY <1>1, InitSound, StepSound, StartValues, ValuesStep, PTL DEF FormsSpec

-----------------------------------------------------------------------------
(***************************************************************************)
(* What is required. The check looks at the options that are registered, so  *)
(* all units must have constructed theirs before main.                       *)
(***************************************************************************)
RequiredSound ==
  /\ stage = "starting" =>
       \A k \in 1..Len(alive) : k <= Len(scenario.order) /\ alive[k] = scenario.order[k]
  /\ stage \in {"parsing", "running"} => Static \subseteq Alive
  /\ unread \subseteq DOMAIN config
  /\ Parsed \subseteq Alive /\ \A o \in Parsed : NameOf[o] \in DOMAIN config
  /\ RequiredGiven

StartedSound == AliveOnce /\ RegisteredAreAlive /\ ValuesSound

(* An order of the units has every static option.                           *)
LEMMA OrderIsComplete ==
  ASSUME AliveOnce
  PROVE  /\ scenario.order \in Seq(Static)
         /\ \A o \in Static : \E k \in 1..Len(scenario.order) : scenario.order[k] = o
<1> DEFINE order == scenario.order
           n == Cardinality(Static)
<1>1. IsFiniteSet(Static) /\ n \in Nat
  BY FS_Subset, FS_CardinalityType, OptionsAssumption
<1>2. /\ order \in [1..n -> Static]
      /\ \A i, j \in 1..n : i # j => order[i] # order[j]
  BY OptionsAssumption DEF AliveOnce, SetToSeqs
<1>3. order \in Injection(1..n, Static)
  BY <1>2 DEF Injection, IsInjective
<1>4. IsFiniteSet(1..n) /\ Cardinality(1..n) = n
  BY <1>1, FS_Interval
<1> HIDE DEF order, n
<1>5. order \in Surjection(1..n, Static)
  BY <1>1, <1>3, <1>4, FS_Injection DEF n
<1>6. order \in Seq(Static) /\ Len(order) = n
  BY <1>1, <1>2
<1> QED BY <1>5, <1>6 DEF Surjection, order

LEMMA StartRequired == FormsInit => RequiredSound
<1> SUFFICES ASSUME FormsInit PROVE RequiredSound
  OBVIOUS
<1>1. /\ stage = "starting"
      /\ unread = DOMAIN config
      /\ alive = <<>>
      /\ Parsed = {}
  BY DEF FormsInit, TablesInit, OptionsInit
<1> QED BY <1>1 DEF RequiredSound, RequiredGiven

LEMMA UnitRequired ==
  ASSUME StartedSound, RequiredSound, ConstructStatic
  PROVE  RequiredSound'
<1>1. PICK o \in Static : o = scenario.order[Len(alive) + 1] /\ Construct(o)
  <2>1. Len(alive) + 1 \in 1..Len(scenario.order)
    BY OrderIsComplete, LenProperties DEF ConstructStatic, StartedSound, AliveOnce
  <2> QED BY <2>1, OrderIsComplete, ElementOfSeq DEF ConstructStatic, StartedSound
<1>2. o \in Option
  BY <1>1, OptionsAssumption
<1>3. Alive \subseteq Alive'
  BY <1>1, <1>2, ConstructAlive DEF StartedSound
<1>4. /\ stage = "starting" /\ stage' = stage
      /\ Len(alive) < Len(scenario.order)
      /\ alive' = Append(alive, o)
      /\ unread' = unread /\ config' = config /\ Parsed' = Parsed /\ scenario' = scenario
  BY <1>1 DEF ConstructStatic, Construct, config
<1>5. \A k \in 1..Len(alive') :
        k <= Len(scenario.order') /\ alive'[k] = scenario.order'[k]
  <2>1. /\ Len(alive') = Len(alive) + 1
        /\ alive'[Len(alive) + 1] = o
        /\ \A k \in 1..Len(alive) : alive'[k] = alive[k]
    BY <1>2, <1>4, AppendProperties DEF StartedSound, AliveOnce
  <2>2. Len(alive) \in Nat /\ Len(scenario.order) \in Nat
    BY OrderIsComplete, LenProperties DEF StartedSound, AliveOnce
  <2> QED BY <1>1, <1>4, <2>1, <2>2 DEF RequiredSound
<1> QED BY <1>3, <1>4, <1>5 DEF RequiredSound, RequiredGiven

(* When main begins, every static option is alive.                          *)
LEMMA MainRequired ==
  ASSUME StartedSound, RequiredSound, Main
  PROVE  RequiredSound'
<1>1. /\ stage = "starting" /\ stage' = "parsing"
      /\ Len(alive) = Len(scenario.order)
      /\ Alive' = Alive /\ config' = config /\ unread' = unread /\ Parsed' = Parsed
  BY DEF Main, Alive, config
<1>2. ASSUME NEW o \in Static
      PROVE  o \in Alive
  <2>1. PICK k \in 1..Len(alive) : scenario.order[k] = o
    BY <1>1, <1>2, OrderIsComplete DEF StartedSound
  <2>2. alive[k] = o
    BY <1>1, <2>1 DEF RequiredSound
  <2>3. k \in DOMAIN alive
    BY <2>1 DEF StartedSound, AliveOnce
  <2> QED BY <2>2, <2>3 DEF Alive, Range
<1> QED BY <1>1, <1>2 DEF RequiredSound, RequiredGiven

LEMMA ParseRequired ==
  ASSUME StartedSound, RequiredSound, NEW n \in unread, ParseName(n)
  PROVE  RequiredSound'
<1>1. /\ stage = "parsing"
      /\ stage' \in {"parsing", "aborted"}
      /\ unread' = unread \ {n}
      /\ Parsed' \in {Parsed, Parsed \cup Parsing(n)}
      /\ Alive' = Alive /\ config' = config
  BY DEF ParseName, Alive, config
<1>2. Parsing(n) = {o \in Alive : NameOf[o] = n}
  BY DEF Parsing, Copies, StartedSound, RegisteredAreAlive
<1>3. n \in DOMAIN config
  BY DEF RequiredSound
<1> QED BY <1>1, <1>2, <1>3 DEF RequiredSound, RequiredGiven

(* The check passes over a name only if an option of it is not required.    *)
LEMMA CheckRequired ==
  ASSUME StartedSound, RequiredSound, ParseOptionsEnds
  PROVE  RequiredSound'
<1>1. /\ stage = "parsing"
      /\ stage' \in {"running", "aborted"}
      /\ stage' = "running" /\ scenario.asserts => checkRequiredOptions
      /\ UNCHANGED <<scenario, unread, alive, Parsed>>
  BY DEF ParseOptionsEnds
<1>2. Alive' = Alive /\ config' = config /\ unread' = unread /\ Parsed' = Parsed
  BY <1>1 DEF Alive, config
<1>3. Alive = Static
  BY <1>1 DEF RequiredSound, StartedSound, ValuesSound
<1>4. ASSUME checkRequiredOptions, NEW o \in Static,
             \A p \in Static : NameOf[p] = NameOf[o] => IsRequired[p]
      PROVE  o \in Parsed /\ NameOf[o] \in DOMAIN config
  <2>1. Copies(NameOf[o]) = {p \in Static : NameOf[p] = NameOf[o]}
    BY <1>3 DEF Copies, StartedSound, RegisteredAreAlive
  <2>2. o \in Checked(NameOf[o])
    BY <1>4, <2>1 DEF Checked
  <2>3. NameOf[o] \in DOMAIN Options
    BY <1>3 DEF StartedSound, RegisteredAreAlive
  <2>4. o \in Parsed
    BY <1>4, <2>2, <2>3 DEF checkRequiredOptions
  <2> QED BY <2>4 DEF RequiredSound
<1>5. RequiredGiven'
  BY <1>1, <1>2, <1>4 DEF RequiredGiven
<1> QED BY <1>1, <1>2, <1>3, <1>5 DEF RequiredSound

(* Functions come and go with options that are not static.                  *)
LEMMA FunctionRequired ==
  ASSUME StartedSound, RequiredSound, EnterFunction(BlocksOption) \/ LeaveFunction
  PROVE  RequiredSound'
<1>1. /\ stage = "running" /\ stage' = stage
      /\ config' = config /\ unread' = unread /\ scenario' = scenario
  BY DEF EnterFunction, LeaveFunction, Construct, DestroyLast, config
<1>2. \/ Alive' = Alive \cup {BlocksOption} /\ Parsed' = Parsed
      \/ \E o \in Alive \ Static : Alive' = Alive \ {o} /\ Parsed' = Parsed \ {o}
  <2>1. CASE EnterFunction(BlocksOption)
    BY <2>1, ConstructAlive, TablesAssumption DEF EnterFunction, Construct, StartedSound
  <2>2. CASE LeaveFunction
    BY <2>2, DestroyAlive DEF LeaveFunction, DestroyLast, StartedSound
  <2> QED BY <2>1, <2>2
<1> QED BY <1>1, <1>2 DEF RequiredSound, RequiredGiven

LEMMA RequiredStep ==
  ASSUME StartedSound, RequiredSound, [FormsNext]_<<allVars, sequenceVars>>
  PROVE  RequiredSound'
<1>1. CASE UNCHANGED optionVars
  BY <1>1 DEF optionVars, RequiredSound, RequiredGiven, Alive, config
<1>2. CASE ConstructStatic
  BY <1>2, UnitRequired
<1>3. CASE Main
  BY <1>3, MainRequired
<1>4. CASE \E n \in unread : ParseName(n)
  BY <1>4, ParseRequired
<1>5. CASE ParseOptionsEnds
  BY <1>5, CheckRequired
<1>6. CASE MainReturns
  BY <1>6 DEF MainReturns, RequiredSound, RequiredGiven, Alive, config
<1>7. CASE DestroyStatic
  <2>1. /\ stage' \in {"exiting", "ended"}
        /\ Alive' = Alive \ {Last(alive)}
        /\ Parsed' = Parsed \ {Last(alive)}
        /\ unread' = unread /\ config' = config
    BY <1>7, DestroyAlive DEF DestroyStatic, DestroyLast, StartedSound, config
  <2> QED BY <2>1 DEF RequiredSound, RequiredGiven
<1>8. CASE EnterFunction(BlocksOption) \/ LeaveFunction
  BY <1>8, FunctionRequired
<1> QED BY <1>1, <1>2, <1>3, <1>4, <1>5, <1>6, <1>7, <1>8, LifeStep DEF Lifecycle

(* A debug build runs only with every required option, in every program and  *)
(* however the linker orders the copies, if all of a name require it.       *)
THEOREM RequiredAreGiven == FormsSpec => []RequiredGiven
<1>1. IInv /\ ValuesSound => StartedSound
  BY DEF IInv, StartedSound
<1>2. RequiredSound => RequiredGiven
  BY DEF RequiredSound
<1>3. IInv /\ ValuesSound /\ RequiredSound /\ [FormsNext]_<<allVars, sequenceVars>>
        => RequiredSound'
  BY <1>1, RequiredStep
<1> QED BY <1>2, <1>3, InitSound, StepSound, StartValues, ValuesStep, StartRequired, PTL
        DEF FormsSpec

-----------------------------------------------------------------------------
(***************************************************************************)
(* Loops over keys. A loop has its place to itself: no loop inside it goes   *)
(* over a table of its class, or it is not followed any more. Then what      *)
(* other loops, values and printing do moves neither its iterator nor its   *)
(* end, and only adds keys to its table.                                    *)
(***************************************************************************)
Loops == [table : Table, at : {"test", "body"}, seen : Seq(Key), had : SUBSET Key,
          alone : BOOLEAN]

KeysOf(t) == DOMAIN rows[t]
KeysFor(t) == IF HasKeys(t) THEN Key ELSE {0}
RowsOf(t) == UNION {[keys -> [Columns(t) -> Values]] : keys \in SUBSET KeysFor(t)}

(* Values of table t or of another one of its class, with all of its keys.   *)
TableOf(t, values) ==
  /\ values \in RowsOf(t)
  /\ IsFiniteSet(DOMAIN values)
  /\ ~HasKeys(t) => DOMAIN values = {0}

(* What is printed of it is what it was made from, without what is left out. *)
PrintedFrom(t) ==
  /\ TableOf(t, printed.source.rows)
  /\ printed.source.reduced \in BOOLEAN
  /\ DOMAIN printed.rows = DOMAIN printed.source.rows
  /\ \A k \in DOMAIN printed.rows :
       /\ \A s \in DOMAIN printed.rows[k] :
            s \in Columns(t) /\ printed.rows[k][s] = printed.source.rows[k][s]
       /\ \A s \in Columns(t) :
            s \in DOMAIN printed.rows[k] <=>
              ~(printed.source.reduced /\ printed.source.rows[k][s] = 0)

KeysSound ==
  /\ DOMAIN rows = Table
  /\ \A t \in Table : TableOf(t, rows[t])
  /\ printed # Nothing => \A t \in Table : ClassOf[t] = printed.class => PrintedFrom(t)

(* Loop l, at key p of those there are, or past them: what it has seen is in  *)
(* order, and the keys it began with that it has not seen are ahead.        *)
Follows(l, p, keys) ==
  /\ p \in keys \cup {0}
  /\ l.had \subseteq keys
  /\ \A m \in DOMAIN l.seen : l.seen[m] \in keys
  /\ \A m, n \in DOMAIN l.seen : m < n => l.seen[m] < l.seen[n]
  /\ \A k \in l.had : p = 0 \/ k < p => \E m \in DOMAIN l.seen : l.seen[m] = k
  /\ l.at = "test" => p = 0 \/ \A m \in DOMAIN l.seen : l.seen[m] < p
  /\ l.at = "body" => /\ p # 0
                      /\ \A m \in DOMAIN l.seen : l.seen[m] <= p
                      /\ \E m \in DOMAIN l.seen : l.seen[m] = p

(* Loop l has its iterators, and follows them.                              *)
Sound(l) ==
  /\ It[ClassOf[l.table]][1] = l.table
  /\ It[ClassOf[l.table]] = <<l.table, It[ClassOf[l.table]][2]>>
  /\ End[ClassOf[l.table]] = endKeys(l.table)
  /\ Follows(l, It[ClassOf[l.table]][2], KeysOf(l.table))

LoopsSound ==
  /\ DOMAIN It = Range(ClassOf) /\ DOMAIN End = Range(ClassOf)
  /\ loops \in Seq(Loops)
  /\ \A j \in 1..Len(loops) : HasKeys(loops[j].table)
  /\ \A j \in 1..Len(loops) : loops[j].alone =>
       /\ Sound(loops[j])
       /\ \A k \in 1..Len(loops) : k > j => ClassOf[loops[k].table] # ClassOf[loops[j].table]

LEMMA WithValueKeeps ==
  ASSUME NEW t \in Table, NEW r \in RowsOf(t), NEW k \in KeysFor(t), NEW s \in Columns(t),
         NEW v \in Values, NEW q, q = WithValue(t, r, k, s, v)
  PROVE  /\ q \in RowsOf(t)
         /\ k \in DOMAIN q /\ DOMAIN r \subseteq DOMAIN q
         /\ \A j \in DOMAIN q : j \in DOMAIN r \/ j = k
         /\ q[k][s] = v
         /\ \A j \in DOMAIN q : \A c \in Columns(t) : j # k \/ c # s =>
              q[j][c] = IF j \in DOMAIN r THEN r[j][c] ELSE 0
<1>1. PICK keys \in SUBSET KeysFor(t) : r \in [keys -> [Columns(t) -> Values]]
  BY DEF RowsOf
<1>2. ZeroRow(t) \in [Columns(t) -> Values] /\ \A c \in Columns(t) : ZeroRow(t)[c] = 0
  BY DEF ZeroRow, Values
<1>3. PICK after : after = initVectorOfKey(t, r, k)
  OBVIOUS
<1>4. /\ after \in [keys \cup {k} -> [Columns(t) -> Values]]
      /\ \A j \in keys \cup {k} : after[j] = IF j \in keys THEN r[j] ELSE ZeroRow(t)
  BY <1>1, <1>2, <1>3 DEF initVectorOfKey
<1>5. q = [after EXCEPT ![k] = [after[k] EXCEPT ![s] = v]]
  BY <1>3, <1>4 DEF WithValue
<1>6. [after[k] EXCEPT ![s] = v] \in [Columns(t) -> Values]
  BY <1>4
<1>7. q \in [keys \cup {k} -> [Columns(t) -> Values]]
  BY <1>4, <1>5, <1>6
<1>8. keys \cup {k} \in SUBSET KeysFor(t)
  OBVIOUS
<1>9. q \in RowsOf(t)
  BY <1>7, <1>8 DEF RowsOf
<1>10. q[k][s] = v
  BY <1>4, <1>5
<1>11. ASSUME NEW j \in keys \cup {k}, NEW c \in Columns(t), j # k \/ c # s
       PROVE  q[j][c] = IF j \in keys THEN r[j][c] ELSE 0
  <2>1. q[j][c] = after[j][c]
    BY <1>4, <1>5, <1>11
  <2> QED
    BY <1>2, <1>4, <2>1
<1> QED
  BY <1>1, <1>7, <1>9, <1>10, <1>11

(* The fold of get(), as a function of what is set.                         *)
Filling(t, start, S) ==
  CHOOSE iter : iter = [s \in SUBSET S |->
    IF s = {} THEN start
    ELSE LET x == CHOOSE x \in s : TRUE
         IN  WithValue(t, iter[s \ {x}], x[1], x[2], printed.rows[x[1]][x[2]])]

(* A table with the values in s set, from what it was at the start.          *)
FilledWith(q, start, s) ==
  /\ DOMAIN start \subseteq DOMAIN q
  /\ \A e \in s : e[1] \in DOMAIN q
  /\ \A k \in DOMAIN q : k \in DOMAIN start \/ \E e \in s : e[1] = k
  /\ \A k \in DOMAIN q : \A c \in DOMAIN q[k] :
       /\ <<k, c>> \in s => q[k][c] = printed.rows[k][c]
       /\ <<k, c>> \notin s /\ k \in DOMAIN start => q[k][c] = start[k][c]
       /\ <<k, c>> \notin s /\ k \notin DOMAIN start => q[k][c] = 0

LEMMA FilledStep ==
  ASSUME NEW t \in Table, NEW before \in RowsOf(t), NEW after \in RowsOf(t), NEW start,
         NEW s, NEW k, NEW c \in Columns(t), <<k, c>> \in s,
         FilledWith(before, start, s \ {<<k, c>>}),
         k \in DOMAIN after, DOMAIN before \subseteq DOMAIN after,
         \A j \in DOMAIN after : j \in DOMAIN before \/ j = k,
         after[k][c] = printed.rows[k][c],
         \A j \in DOMAIN after : \A d \in Columns(t) : j # k \/ d # c =>
           after[j][d] = IF j \in DOMAIN before THEN before[j][d] ELSE 0
  PROVE  FilledWith(after, start, s)
<1>1. \A j \in DOMAIN before : DOMAIN before[j] = Columns(t)
  BY DEF RowsOf
<1>2. \A j \in DOMAIN after : DOMAIN after[j] = Columns(t)
  BY DEF RowsOf
<1>3. DOMAIN start \subseteq DOMAIN after
  BY DEF FilledWith
<1>4. ASSUME NEW e \in s
      PROVE  e[1] \in DOMAIN after
  <2>1. CASE e = <<k, c>>
    BY <2>1
  <2>2. CASE e # <<k, c>>
    BY <2>2 DEF FilledWith
  <2> QED
    BY <2>1, <2>2
<1>5. ASSUME NEW j \in DOMAIN after
      PROVE  j \in DOMAIN start \/ \E e \in s : e[1] = j
  <2>1. CASE j = k
    <3>1. <<k, c>>[1] = k
      OBVIOUS
    <3> QED
      BY <2>1, <3>1
  <2>2. CASE j # k
    BY <2>2 DEF FilledWith
  <2> QED
    BY <2>1, <2>2
<1>6. ASSUME NEW j \in DOMAIN after, NEW d \in Columns(t)
      PROVE  /\ <<j, d>> \in s => after[j][d] = printed.rows[j][d]
             /\ <<j, d>> \notin s /\ j \in DOMAIN start => after[j][d] = start[j][d]
             /\ <<j, d>> \notin s /\ j \notin DOMAIN start => after[j][d] = 0
  <2>1. CASE j = k /\ d = c
    BY <2>1
  <2>2. CASE j # k \/ d # c
    <3>1. <<j, d>> # <<k, c>>
      BY <2>2
    <3>2. CASE j \in DOMAIN before
      BY <1>1, <2>2, <3>1, <3>2 DEF FilledWith
    <3>3. CASE j \notin DOMAIN before
      <4>1. j \notin DOMAIN start /\ after[j][d] = 0
        BY <2>2, <3>3 DEF FilledWith
      <4>2. <<j, d>> \notin s
        <5>1. <<j, d>>[1] = j
          OBVIOUS
        <5> QED
          BY <3>1, <3>3, <5>1 DEF FilledWith
      <4> QED
        BY <4>1, <4>2
    <3> QED
      BY <3>2, <3>3
  <2> QED
    BY <2>1, <2>2
<1> QED
  BY <1>2, <1>3, <1>4, <1>5, <1>6 DEF FilledWith

LEMMA FillingIs ==
  ASSUME NEW t, NEW start, NEW S
  PROVE  FoldSet(LAMBDA e, q : WithValue(t, q, e[1], e[2], printed.rows[e[1]][e[2]]),
                 start, S) = Filling(t, start, S)[S]
BY DEF FoldSet, MapThenFoldSet, Filling

(* Every value that was printed is set, whatever the order, and nothing else. *)
LEMMA FilledKeeps ==
  ASSUME NEW t \in Table, NEW start \in RowsOf(t), NEW S, IsFiniteSet(S),
         \A e \in S : /\ e = <<e[1], e[2]>>
                     /\ e[1] \in KeysFor(t)
                     /\ e[2] \in Columns(t)
                     /\ printed.rows[e[1]][e[2]] \in Values,
         NEW r, r = Filling(t, start, S)[S]
  PROVE  r \in RowsOf(t) /\ FilledWith(r, start, S)
<1>2. PICK Between : Between = RowsOf(t)
  OBVIOUS
<1>3. PICK step : step = [e \in S |-> [q \in Between |->
        WithValue(t, q, e[1], e[2], printed.rows[e[1]][e[2]])]]
  OBVIOUS
<1>4. PICK chosen : chosen = [s \in SUBSET S |-> CHOOSE x \in s : TRUE]
  OBVIOUS
<1>5. \A s \in SUBSET S : s # {} => chosen[s] \in s
  BY <1>4
<1>6. \A e \in S : \A q \in Between : step[e][q] \in Between
  <2>1. ASSUME NEW e \in S, NEW q \in Between
        PROVE  step[e][q] \in Between
    <3>1. PICK k, s, v : k = e[1] /\ s = e[2] /\ v = printed.rows[k][s]
      OBVIOUS
    <3>2. q \in RowsOf(t) /\ k \in KeysFor(t) /\ s \in Columns(t) /\ v \in Values
      BY <1>2, <3>1
    <3>3. step[e][q] = WithValue(t, q, k, s, v)
      BY <1>3, <3>1
    <3>4. step[e][q] \in RowsOf(t)
      BY ONLY <3>2, <3>3, WithValueKeeps, t \in Table
    <3> QED
      BY <1>2, <3>4
  <2> QED
    BY <2>1
<1>7. start \in Between
  BY <1>2
<1>8. PICK iter \in [SUBSET S -> Between] : \A s \in SUBSET S :
        iter[s] = IF s = {} THEN start ELSE step[chosen[s]][iter[s \ {chosen[s]}]]
  <2>1. \E iter \in [SUBSET S -> Between] : IsFold(iter, S, start, chosen, step)
    BY ONLY <1>5, <1>6, <1>7, FoldExists, IsFiniteSet(S)
  <2> QED
    BY ONLY <2>1 DEF IsFold
<1> DEFINE Is(f) ==
      f = [s \in SUBSET S |->
             IF s = {} THEN start
             ELSE LET x == CHOOSE x \in s : TRUE
                  IN  WithValue(t, f[s \ {x}], x[1], x[2], printed.rows[x[1]][x[2]])]
<1>9. Is(iter)
  <2>1. ASSUME NEW s \in SUBSET S, s # {}
        PROVE  iter[s] = LET x == CHOOSE x \in s : TRUE
                         IN  WithValue(t, iter[s \ {x}], x[1], x[2], printed.rows[x[1]][x[2]])
    <3>1. PICK x : x = CHOOSE y \in s : TRUE
      OBVIOUS
    <3>2. x = chosen[s] /\ x \in S
      BY <1>4, <2>1, <3>1
    <3>3. iter[s \ {x}] \in Between /\ iter[s] = step[x][iter[s \ {x}]]
      BY <1>8, <2>1, <3>2
    <3>4. iter[s] = WithValue(t, iter[s \ {x}], x[1], x[2], printed.rows[x[1]][x[2]])
      BY <1>3, <3>2, <3>3
    <3> QED
      BY <3>1, <3>4
  <2>2. \A s \in SUBSET S : s = {} => iter[s] = start
    BY <1>8
  <2> QED
    BY <1>8, <2>1, <2>2
<1>10. Is(Filling(t, start, S))
  BY <1>9 DEF Filling

<1>11. PICK all : all = Filling(t, start, S)
  OBVIOUS
<1>12. PICK Good : Good = {s \in SUBSET S : all[s] \in RowsOf(t) /\ FilledWith(all[s], start, s)}
  OBVIOUS
<1>13. ASSUME NEW s \in SUBSET S, \A x \in s : s \ {x} \in Good
       PROVE  s \in Good
  <2>1. CASE s = {}
    <3>1. all[s] = start
      BY <1>10, <1>11, <2>1
    <3> QED
      BY <1>12, <2>1, <3>1 DEF FilledWith
  <2>2. CASE s # {}
    <3>1. PICK x : x = CHOOSE y \in s : TRUE
      OBVIOUS
    <3>2. x \in s /\ x \in S
      BY <2>2, <3>1
    <3>3. PICK before, after : before = all[s \ {x}] /\ after = all[s]
      OBVIOUS
    <3>4. PICK k, c, v : k = x[1] /\ c = x[2] /\ v = printed.rows[k][c]
      OBVIOUS
    <3>5. after = WithValue(t, before, k, c, v)
      BY <1>10, <1>11, <2>2, <3>1, <3>3, <3>4
    <3>6. before \in RowsOf(t) /\ FilledWith(before, start, s \ {x})
      BY <1>12, <1>13, <3>2, <3>3
    <3>7. x = <<k, c>> /\ k \in KeysFor(t) /\ c \in Columns(t) /\ v \in Values
      BY <3>2, <3>4
    <3>8. /\ after \in RowsOf(t)
          /\ k \in DOMAIN after /\ DOMAIN before \subseteq DOMAIN after
          /\ \A j \in DOMAIN after : j \in DOMAIN before \/ j = k
          /\ after[k][c] = v
          /\ \A j \in DOMAIN after : \A d \in Columns(t) : (j # k \/ d # c) =>
               /\ j \in DOMAIN before => after[j][d] = before[j][d]
               /\ j \notin DOMAIN before => after[j][d] = 0
      BY ONLY <3>5, <3>6, <3>7, WithValueKeeps, t \in Table
    <3>9. FilledWith(after, start, s)
      BY ONLY <1>2, <3>2, <3>4, <3>6, <3>7, <3>8, FilledStep
    <3> QED
      BY <1>12, <3>3, <3>8, <3>9
  <2> QED
    BY <2>1, <2>2
<1>14. S \in Good
  BY ONLY <1>13, FiniteInduction, IsFiniteSet(S)
<1> QED
  BY <1>11, <1>12, <1>14

(* What is printed is what the table of the class has.                      *)
LEMMA PrintedSound ==
  ASSUME KeysSound, NEW t \in Table, NEW o, printed' = Printed(t, o), UNCHANGED rows
  PROVE  KeysSound'
<1>1. \A u \in Table : TableOf(u, rows[u])'
  BY DEF KeysSound, TableOf
<1>2. CASE printed' = Nothing
  BY <1>1, <1>2 DEF KeysSound
<1>3. CASE printed' # Nothing
  <2>1. /\ printed'.class = ClassOf[t]
        /\ printed'.rows = [k \in DOMAIN rows[t] |-> PrintedRow(t, o, rows[t][k])]
        /\ printed'.source.rows = rows[t]
        /\ printed'.source.reduced = Skips(t, o)
    BY <1>3 DEF Printed
  <2>2. ASSUME NEW u \in Table, ClassOf[u] = ClassOf[t]
        PROVE  PrintedFrom(u)'
    <3>1. KindOf[u] = KindOf[t]
      BY <2>2, TablesAssumption
    <3>2. (HasKeys(u) <=> HasKeys(t)) /\ Columns(u) = Columns(t) /\ RowsOf(u) = RowsOf(t)
      BY <3>1 DEF HasKeys, Columns, RowsOf, KeysFor
    <3>3. TableOf(u, rows[t])
      BY <3>2 DEF KeysSound, TableOf
    <3>4. PICK keys \in SUBSET KeysFor(t) : rows[t] \in [keys -> [Columns(t) -> Values]]
      BY <3>2, <3>3 DEF RowsOf, TableOf
    <3>5. DOMAIN printed'.rows = keys /\ DOMAIN rows[t] = keys
      BY <2>1, <3>4
    <3>6. ASSUME NEW k \in keys
          PROVE  /\ \A s \in DOMAIN printed'.rows[k] :
                      s \in Columns(t) /\ printed'.rows[k][s] = rows[t][k][s]
                 /\ \A s \in Columns(t) :
                      s \in DOMAIN printed'.rows[k] <=> ~(Skips(t, o) /\ rows[t][k][s] = 0)
      <4>1. PICK row : row = rows[t][k]
        OBVIOUS
      <4>2. row \in [Columns(t) -> Values]
        BY <3>4, <4>1
      <4>3. PICK kept : kept = {s \in Columns(t) : ~(Skips(t, o) /\ row[s] = 0)}
        OBVIOUS
      <4>4. printed'.rows[k] = [s \in kept |-> row[s]]
        BY <2>1, <3>5, <4>1, <4>3 DEF PrintedRow, Restrict
      <4> QED
        BY <4>1, <4>2, <4>3, <4>4
    <3>7. Skips(t, o) \in BOOLEAN
      BY DEF Skips
    <3>8. TableOf(u, printed'.source.rows)
      BY <2>1, <3>3
    <3> QED
      BY <2>1, <3>2, <3>5, <3>6, <3>7, <3>8 DEF PrintedFrom, TableOf
  <2>3. DOMAIN rows' = Table
    BY DEF KeysSound
  <2> QED
    BY <1>1, <2>1, <2>2, <2>3 DEF KeysSound
<1> QED
  BY <1>2, <1>3

(* Values that are set and read leave the keys there were, and only of their *)
(* own table.                                                              *)
LEMMA KeysStart == FormsInit => KeysSound
<1> SUFFICES ASSUME FormsInit
             PROVE  KeysSound
  OBVIOUS
<1>1. /\ rows = [t \in Table |-> IF HasKeys(t) THEN <<>> ELSE [k \in {0} |-> ZeroRow(t)]]
      /\ printed = Nothing
  BY DEF FormsInit, TablesInit
<1>2. ASSUME NEW t \in Table
      PROVE  TableOf(t, rows[t])
  <2>1. CASE HasKeys(t)
    <3>1. rows[t] = <<>> /\ DOMAIN rows[t] = {}
      BY <1>1, <2>1
    <3>2. rows[t] \in [{} -> [Columns(t) -> Values]]
      BY <3>1
    <3> QED
      BY <2>1, <3>1, <3>2, FS_EmptySet DEF RowsOf, TableOf
  <2>2. CASE ~HasKeys(t)
    <3>1. ZeroRow(t) \in [Columns(t) -> Values]
      BY DEF ZeroRow, Values
    <3>2. rows[t] \in [{0} -> [Columns(t) -> Values]]
      BY <1>1, <2>2, <3>1
    <3>3. {0} \in SUBSET KeysFor(t)
      BY <2>2 DEF KeysFor
    <3> QED
      BY <2>2, <3>2, <3>3, FS_Singleton DEF RowsOf, TableOf
  <2> QED
    BY <2>1, <2>2
<1> QED
  BY <1>1, <1>2 DEF KeysSound

Grows == \A t \in Table : KeysOf(t) \subseteq KeysOf(t)'

(* A table that gets other values, with the keys it had, and more of its own. *)
LEMMA TableKeeps ==
  ASSUME KeysSound, NEW t \in Table, NEW values, TableOf(t, values),
         DOMAIN rows[t] \subseteq DOMAIN values, rows' = [rows EXCEPT ![t] = values],
         printed' = printed \/ printed' = Nothing
  PROVE  KeysSound' /\ Grows
<1>1. DOMAIN rows' = Table /\ rows'[t] = values /\ \A u \in Table \ {t} : rows'[u] = rows[u]
  BY DEF KeysSound
<1>2. ASSUME NEW u \in Table
      PROVE  TableOf(u, rows'[u]) /\ DOMAIN rows[u] \subseteq DOMAIN rows'[u]
  BY <1>1 DEF KeysSound
<1>3. printed' # Nothing => \A u \in Table : ClassOf[u] = printed'.class => PrintedFrom(u)'
  BY DEF KeysSound, PrintedFrom, TableOf
<1> QED
  BY <1>1, <1>2, <1>3 DEF KeysSound, KeysOf, Grows, TableOf

LEMMA SetKeeps ==
  ASSUME KeysSound, NEW t \in Table, NEW k \in KeysFor(t), NEW s \in Columns(t),
         NEW v \in Values,
         rows' = [rows EXCEPT ![t] = WithValue(t, rows[t], k, s, v)], UNCHANGED printed
  PROVE  KeysSound' /\ Grows
<1>1. PICK before, after : before = rows[t] /\ after = WithValue(t, before, k, s, v)
  OBVIOUS
<1>2. TableOf(t, before)
  BY <1>1 DEF KeysSound
<1>3. before \in RowsOf(t)
  BY <1>2 DEF TableOf
<1>4. /\ after \in RowsOf(t)
      /\ DOMAIN before \subseteq DOMAIN after
      /\ \A j \in DOMAIN after : j \in DOMAIN before \/ j = k
  BY ONLY <1>1, <1>3, WithValueKeeps, t \in Table, k \in KeysFor(t), s \in Columns(t), v \in Values
<1>5. IsFiniteSet(DOMAIN before \cup {k}) /\ DOMAIN after \subseteq DOMAIN before \cup {k}
  BY <1>2, <1>4, FS_AddElement DEF TableOf
<1>6. TableOf(t, after)
  BY <1>2, <1>4, <1>5, FS_Subset DEF TableOf, KeysFor
<1>7. rows' = [rows EXCEPT ![t] = after]
  BY <1>1
<1> QED
  BY <1>1, <1>4, <1>6, <1>7, TableKeeps

(* Reading sets every value that was printed, and nothing else.              *)
LEMMA FillIs ==
  ASSUME KeysSound, NEW t \in Table, fill(t)
  PROVE  /\ PrintedFrom(t)
         /\ printed' = Nothing
         /\ \E values : /\ TableOf(t, values)
                        /\ FilledWith(values, rows[t], Elements(printed))
                        /\ rows' = [rows EXCEPT ![t] = values]
<1>1. /\ printed # Nothing /\ ClassOf[t] = printed.class
      /\ printed' = Nothing
      /\ rows' = [rows EXCEPT ![t] =
           FoldSet(LAMBDA e, q : WithValue(t, q, e[1], e[2], printed.rows[e[1]][e[2]]),
                   @, Elements(printed))]
  BY DEF fill
<1>2. PICK values : values = Filling(t, rows[t], Elements(printed))[Elements(printed)]
  OBVIOUS
<1>3. rows' = [rows EXCEPT ![t] = values]
  BY <1>1, <1>2, FillingIs
<1>4. PrintedFrom(t)
  BY <1>1 DEF KeysSound
<1>5. PICK keys \in SUBSET KeysFor(t) :
        printed.source.rows \in [keys -> [Columns(t) -> Values]]
  BY <1>4 DEF PrintedFrom, TableOf, RowsOf
<1>6. keys = DOMAIN printed.rows /\ IsFiniteSet(keys)
  BY <1>4, <1>5 DEF PrintedFrom, TableOf
<1>7. \A e \in Elements(printed) :
        /\ e = <<e[1], e[2]>>
        /\ e[1] \in keys
        /\ e[2] \in Columns(t)
        /\ printed.rows[e[1]][e[2]] \in Values
  <2>1. ASSUME NEW e \in Elements(printed)
        PROVE  /\ e = <<e[1], e[2]>>
               /\ e[1] \in keys
               /\ e[2] \in Columns(t)
               /\ printed.rows[e[1]][e[2]] \in Values
    <3>1. PICK k \in keys : \E s \in DOMAIN printed.rows[k] : e = <<k, s>>
      BY <1>6 DEF Elements
    <3>4. PICK s \in DOMAIN printed.rows[k] : e = <<k, s>>
      BY <3>1
    <3>2. s \in Columns(t) /\ printed.rows[k][s] = printed.source.rows[k][s]
      BY <1>4, <1>6, <3>4 DEF PrintedFrom
    <3>3. printed.source.rows[k][s] \in Values
      BY <1>5, <3>2
    <3> QED
      BY <3>2, <3>3, <3>4
  <2> QED
    BY <2>1
<1>8. IsFiniteSet(Elements(printed))
  <2>1. IsFiniteSet(Columns(t))
    BY TablesAssumption, FS_Singleton DEF Columns
  <2>2. IsFiniteSet(keys \X Columns(t))
    BY <1>6, <2>1, FS_Product
  <2>3. Elements(printed) \subseteq keys \X Columns(t)
    BY <1>7
  <2> QED
    BY <2>2, <2>3, FS_Subset
<1>9. PICK start, S : start = rows[t] /\ S = Elements(printed)
  OBVIOUS
<1>10. TableOf(t, start)
  BY <1>9 DEF KeysSound
<1>11. values \in RowsOf(t) /\ FilledWith(values, start, S)
  <2>1. values = Filling(t, start, S)[S] /\ start \in RowsOf(t) /\ IsFiniteSet(S)
    BY <1>2, <1>8, <1>9, <1>10 DEF TableOf
  <2>2. \A e \in S : /\ e = <<e[1], e[2]>>
                     /\ e[1] \in KeysFor(t)
                     /\ e[2] \in Columns(t)
                     /\ printed.rows[e[1]][e[2]] \in Values
    BY <1>7, <1>9
  <2> QED
    BY ONLY <2>1, <2>2, FilledKeeps, t \in Table
<1>12. IsFiniteSet(DOMAIN values)
  <2>1. IsFiniteSet(DOMAIN start \cup keys)
    BY <1>6, <1>10, FS_Union DEF TableOf
  <2>2. DOMAIN values \subseteq DOMAIN start \cup keys
    BY <1>7, <1>9, <1>11 DEF FilledWith
  <2> QED
    BY <2>1, <2>2, FS_Subset
<1>13. ~HasKeys(t) => DOMAIN values = {0}
  <2>1. ASSUME ~HasKeys(t)
        PROVE  DOMAIN values = {0}
    <3>1. DOMAIN start = {0}
      BY <1>10, <2>1 DEF TableOf
    <3>2. DOMAIN start \subseteq DOMAIN values /\ DOMAIN values \subseteq KeysFor(t)
      BY <1>11 DEF FilledWith, RowsOf
    <3> QED
      BY <2>1, <3>1, <3>2 DEF KeysFor
  <2> QED
    BY <2>1
<1>14. TableOf(t, values)
  BY <1>11, <1>12, <1>13 DEF TableOf
<1> QED
  BY <1>1, <1>3, <1>4, <1>9, <1>11, <1>14

LEMMA FillKeeps ==
  ASSUME KeysSound, NEW t \in Table, fill(t)
  PROVE  KeysSound' /\ Grows
<1>1. PICK values : /\ TableOf(t, values)
                    /\ FilledWith(values, rows[t], Elements(printed))
                    /\ rows' = [rows EXCEPT ![t] = values]
  BY FillIs
<1>2. DOMAIN rows[t] \subseteq DOMAIN values
  BY <1>1 DEF FilledWith
<1> QED
  BY <1>1, <1>2, FillIs, TableKeeps

-----------------------------------------------------------------------------
(***************************************************************************)
(* What a loop does, and what is done to it.                                *)
(***************************************************************************)

(* The key behind p is the first one there is after it, or there is none.    *)
LEMMA KeyAfterIs ==
  ASSUME NEW t, KeysOf(t) \subseteq Nat \ {0}, NEW p \in Nat
  PROVE  \/ KeyAfter(t, p) = 0 /\ \A k \in KeysOf(t) : k <= p
         \/ /\ KeyAfter(t, p) \in KeysOf(t)
            /\ p < KeyAfter(t, p)
            /\ \A k \in KeysOf(t) : k <= p \/ KeyAfter(t, p) <= k
<1>1. PICK ahead : ahead = Ahead(t, p)
  OBVIOUS
<1>2. ahead = {k \in KeysOf(t) : k > p}
  BY <1>1 DEF Ahead, KeysOf
<1>3. CASE ahead = {}
  <2>1. KeyAfter(t, p) = 0
    BY <1>1, <1>3 DEF KeyAfter
  <2> QED
    BY <1>2, <1>3, <2>1
<1>4. CASE ahead # {}
  <2>1. ahead \subseteq Nat
    BY <1>2
  <2>2. PICK n \in ahead : \A m \in ahead : n <= m
    BY <1>4, <2>1, SmallestOf
  <2>3. PICK least : least = Min(ahead)
    OBVIOUS
  <2>4. least \in ahead /\ \A m \in ahead : least <= m
    BY <2>2, <2>3 DEF Min
  <2>5. KeyAfter(t, p) = least
    BY <1>1, <1>4, <2>3 DEF KeyAfter
  <2> QED
    BY <1>2, <2>1, <2>4, <2>5
<1> QED
  BY <1>3, <1>4

LEMMA FollowsMore ==
  ASSUME NEW l, NEW p, NEW keys, NEW more, keys \subseteq more, Follows(l, p, keys)
  PROVE  Follows(l, p, more)
BY DEF Follows

LEMMA TestFollows ==
  ASSUME NEW l \in Loops, NEW p \in Nat, NEW keys \in SUBSET Key, Follows(l, p, keys),
         l.at = "test", p # 0,
         NEW m, m = [l EXCEPT !.at = "body", !.seen = Append(l.seen, p)]
  PROVE  m \in Loops /\ Follows(m, p, keys)
<1>1. p \in Key
  BY DEF Follows
<1>2. l.seen \in Seq(Key) /\ Key \subseteq Nat
  BY TablesAssumption DEF Loops
<1>3. PICK n \in Nat : n = Len(l.seen) /\ DOMAIN l.seen = 1..n
  BY <1>2, LenProperties
<1>4. PICK seen : seen = Append(l.seen, p)
  OBVIOUS
<1>5. /\ seen \in Seq(Key)
      /\ DOMAIN seen = 1..(n + 1)
      /\ seen[n + 1] = p
      /\ \A j \in 1..n : seen[j] = l.seen[j]
  BY <1>1, <1>2, <1>3, <1>4, AppendProperties, LenProperties
<1>6. /\ m.at = "body" /\ m.seen = seen /\ m.had = l.had /\ m.table = l.table
      /\ m.alone = l.alone
  BY <1>4 DEF Loops
<1>7. m \in Loops
  BY <1>4, <1>5 DEF Loops
<1>8. \A j \in 1..n : l.seen[j] \in Nat /\ l.seen[j] < p /\ l.seen[j] \in keys
  BY <1>2, <1>3 DEF Follows
<1>9. \A j, k \in 1..(n + 1) : j < k => seen[j] < seen[k]
  <2>1. ASSUME NEW j \in 1..(n + 1), NEW k \in 1..(n + 1), j < k
        PROVE  seen[j] < seen[k]
    <3>1. j \in 1..n
      BY <2>1
    <3>2. CASE k = n + 1
      BY <1>5, <1>8, <3>1, <3>2
    <3>3. CASE k # n + 1
      <4>1. k \in 1..n
        BY <3>3
      <4> QED
        BY <1>3, <1>5, <2>1, <3>1, <4>1 DEF Follows
    <3> QED
      BY <3>2, <3>3
  <2> QED
    BY <2>1
<1>10. \A j \in 1..(n + 1) : seen[j] \in keys /\ seen[j] <= p
  <2>1. ASSUME NEW j \in 1..(n + 1)
        PROVE  seen[j] \in keys /\ seen[j] <= p
    <3>1. CASE j = n + 1
      BY <1>5, <3>1 DEF Follows
    <3>2. CASE j # n + 1
      <4>1. j \in 1..n
        BY <3>2
      <4> QED
        BY <1>5, <1>8, <4>1
    <3> QED
      BY <3>1, <3>2
  <2> QED
    BY <2>1
<1>11. \A k \in l.had : k < p => \E j \in 1..(n + 1) : seen[j] = k
  BY <1>3, <1>5 DEF Follows
<1>12. n + 1 \in 1..(n + 1)
  OBVIOUS
<1> QED
  BY <1>5, <1>6, <1>7, <1>9, <1>10, <1>11, <1>12 DEF Follows

(* ++, to the key behind the one of the body.                               *)
LEMMA IncrementFollows ==
  ASSUME NEW l \in Loops, NEW p \in Nat, NEW keys \in SUBSET Key, Follows(l, p, keys),
         l.at = "body", NEW next,
         \/ next = 0 /\ \A k \in keys : k <= p
         \/ next \in keys /\ p < next /\ \A k \in keys : k <= p \/ next <= k,
         NEW m, m = [l EXCEPT !.at = "test"]
  PROVE  m \in Loops /\ Follows(m, next, keys)
<1>1. keys \subseteq Nat \ {0}
  BY TablesAssumption
<1>2. /\ m.at = "test" /\ m.seen = l.seen /\ m.had = l.had /\ m.table = l.table
      /\ m.alone = l.alone
  BY DEF Loops
<1>3. m \in Loops
  BY DEF Loops
<1>4. \A j \in DOMAIN l.seen : l.seen[j] \in Nat /\ l.seen[j] <= p
  BY <1>1 DEF Follows
<1>5. \E j \in DOMAIN l.seen : l.seen[j] = p
  BY DEF Follows
<1>6. next = 0 \/ \A j \in DOMAIN l.seen : l.seen[j] < next
  BY <1>1, <1>4
<1>7. ASSUME NEW k \in l.had, next = 0 \/ k < next
      PROVE  \E j \in DOMAIN l.seen : l.seen[j] = k
  <2>1. k \in keys /\ k \in Nat /\ next \in Nat
    BY <1>1 DEF Follows
  <2>2. k <= p
    BY <1>1, <1>7, <2>1
  <2> QED
    BY <1>5, <2>1, <2>2 DEF Follows
<1> QED
  BY <1>2, <1>3, <1>6, <1>7 DEF Follows

LEMMA StartFollows ==
  ASSUME NEW t \in Table, NEW keys \in SUBSET Key, NEW first,
         \/ first = 0 /\ \A k \in keys : k <= 0
         \/ first \in keys /\ 0 < first /\ \A k \in keys : k <= 0 \/ first <= k,
         NEW m, m = [table |-> t, at |-> "test", seen |-> <<>>, had |-> keys, alone |-> TRUE]
  PROVE  m \in Loops /\ Follows(m, first, keys)
<1>1. keys \subseteq Nat \ {0}
  BY TablesAssumption
<1>2. /\ m.at = "test" /\ m.seen = <<>> /\ m.had = keys /\ m.table = t /\ m.alone = TRUE
  OBVIOUS
<1>3. m \in Loops
  BY DEF Loops
<1>4. \A k \in keys : ~(first = 0 \/ k < first)
  <2>1. ASSUME NEW k \in keys
        PROVE  ~(first = 0 \/ k < first)
    <3>1. k \in Nat /\ k > 0
      BY <1>1, <2>1
    <3> QED
      BY <1>1, <3>1
  <2> QED
    BY <2>1
<1>5. DOMAIN m.seen = {}
  BY <1>2
<1> QED
  BY <1>2, <1>3, <1>4, <1>5 DEF Follows

LEMMA LoopsStart == FormsInit => LoopsSound
<1> SUFFICES ASSUME FormsInit
             PROVE  LoopsSound
  OBVIOUS
<1>1. /\ loops = <<>>
      /\ It = [c \in Range(ClassOf) |-> Nothing]
      /\ End = [c \in Range(ClassOf) |-> Nothing]
  BY DEF FormsInit, TablesInit
<1>2. loops \in Seq(Loops) /\ Len(loops) = 0
  BY <1>1
<1> QED
  BY <1>1, <1>2 DEF LoopsSound

ClassOfAll == \A t \in Table : ClassOf[t] \in Range(ClassOf)

LEMMA ClassesAre == ClassOfAll
BY TablesAssumption DEF ClassOfAll, Range

(* A loop stays sound if its iterators and the keys there were are left.     *)
LEMMA SoundStays ==
  ASSUME KeysSound, LoopsSound, NEW l \in Loops, HasKeys(l.table), Sound(l), Grows,
         It'[ClassOf[l.table]] = It[ClassOf[l.table]],
         End'[ClassOf[l.table]] = End[ClassOf[l.table]]
  PROVE  Sound(l)'
<1>1. l.table \in Table
  BY DEF Loops
<1>2. KeysOf(l.table) \subseteq KeysOf(l.table)'
  BY <1>1 DEF Grows
<1>3. PICK p : p = It[ClassOf[l.table]][2]
  OBVIOUS
<1>4. Follows(l, p, KeysOf(l.table))
  BY <1>3 DEF Sound
<1>5. Follows(l, p, KeysOf(l.table)')
  BY <1>2, <1>4, FollowsMore
<1> QED
  BY <1>3, <1>5 DEF Sound, endKeys

(* What no loop is touched by only adds keys.                               *)
LEMMA LoopsStay ==
  ASSUME KeysSound, LoopsSound, Grows, UNCHANGED <<It, End, loops>>
  PROVE  LoopsSound'
<1>1. ASSUME NEW j \in 1..Len(loops), loops[j].alone
      PROVE  Sound(loops[j])'
  <2>1. PICK l : l = loops[j]
    OBVIOUS
  <2>2. l \in Loops /\ HasKeys(l.table) /\ Sound(l)
    BY <1>1, <2>1 DEF LoopsSound
  <2>3. Sound(l)'
    BY <2>2, SoundStays
  <2> QED
    BY <2>1, <2>3 DEF Sound, KeysOf
<1> QED
  BY <1>1 DEF LoopsSound

(* The innermost loop goes on, over the iterators of its class.              *)
LEMMA LastChanges ==
  ASSUME KeysSound, LoopsSound, NEW n \in Nat \ {0}, n = Len(loops), NEW m \in Loops,
         m.table = loops[n].table, m.alone = loops[n].alone,
         loops' = [loops EXCEPT ![n] = m], UNCHANGED <<rows, End>>,
         DOMAIN It' = DOMAIN It,
         \A c \in Range(ClassOf) : c # ClassOf[m.table] => It'[c] = It[c],
         m.alone => Sound(m)'
  PROVE  LoopsSound'
<1>1. loops \in Seq(Loops) /\ n \in 1..n
  BY DEF LoopsSound
<1>2. loops' \in Seq(Loops) /\ Len(loops') = n /\ loops'[n] = m
  BY <1>1
<1>3. \A j \in 1..n : j # n => loops'[j] = loops[j]
  BY <1>1
<1>4. \A j \in 1..n : loops'[j].table = loops[j].table /\ loops'[j].alone = loops[j].alone
  BY <1>2, <1>3
<1>5. ASSUME NEW j \in 1..n, loops'[j].alone
      PROVE  Sound(loops[j])'
  <2>1. CASE j = n
    BY <1>2, <1>5, <2>1 DEF Sound, KeysOf
  <2>2. CASE j # n
    <3>1. PICK l : l = loops[j]
      OBVIOUS
    <3>2. l \in Loops /\ HasKeys(l.table) /\ Sound(l)
      BY <1>1, <1>4, <1>5, <3>1 DEF LoopsSound
    <3>3. ClassOf[l.table] # ClassOf[m.table]
      BY <1>1, <1>4, <1>5, <2>2, <3>1 DEF LoopsSound
    <3>4. It'[ClassOf[l.table]] = It[ClassOf[l.table]]
      BY <3>2, <3>3, ClassesAre DEF ClassOfAll, Loops
    <3>5. Grows
      BY DEF Grows, KeysOf
    <3>6. Sound(l)'
      BY <3>2, <3>4, <3>5, SoundStays
    <3> QED
      BY <1>3, <2>2, <3>1, <3>6 DEF Sound, KeysOf
  <2> QED
    BY <2>1, <2>2
<1> QED
  BY <1>2, <1>4, <1>5 DEF LoopsSound

LEMMA LoopEnds ==
  ASSUME KeysSound, LoopsSound, loops # <<>>, loops' = Front(loops),
         UNCHANGED <<rows, It, End>>
  PROVE  LoopsSound'
<1>1. loops \in Seq(Loops)
  BY DEF LoopsSound
<1>2. PICK n \in Nat : n = Len(loops) - 1
  BY <1>1, EmptySeq, LenProperties
<1>3. /\ loops' \in Seq(Loops)
      /\ Len(loops') = n
      /\ \A k \in 1..n : loops'[k] = loops[k]
  <2>1. \A k \in 1..n : loops[k] \in Loops
    BY <1>1, <1>2, ElementOfSeq
  <2>2. loops' = SubSeq(loops, 1, n)
    BY <1>2 DEF Front
  <2>3. /\ SubSeq(loops, 1, n) \in Seq(Loops)
        /\ Len(SubSeq(loops, 1, n)) = IF 1 <= n THEN n - 1 + 1 ELSE 0
        /\ \A k \in 1..(n - 1 + 1) : SubSeq(loops, 1, n)[k] = loops[1 + k - 1]
    BY <2>1, SubSeqProperties
  <2>4. Len(loops') = n
    BY <2>2, <2>3
  <2>5. \A k \in 1..n : loops'[k] = loops[k]
    BY <2>2, <2>3
  <2> QED
    BY <2>2, <2>3, <2>4, <2>5
<1>4. \A k \in 1..n : k \in 1..Len(loops)
  BY <1>1, <1>2
<1>5. \A k \in 1..n : Sound(loops[k]) => Sound(loops[k])'
  BY <1>3 DEF Sound, KeysOf
<1> QED
  BY <1>3, <1>4, <1>5 DEF LoopsSound

(* Another loop over a table of the class takes the iterators of those there *)
(* are, which are not followed any more.                                    *)
LEMMA DisturbedIs ==
  ASSUME LoopsSound, NEW t \in Table, NEW d, d = Disturbed(t)
  PROVE  /\ d \in Seq(Loops)
         /\ Len(d) = Len(loops)
         /\ \A j \in 1..Len(loops) :
              /\ d[j].table = loops[j].table
              /\ d[j].alone => /\ d[j] = loops[j]
                               /\ ClassOf[loops[j].table] # ClassOf[t]
<1>1. PICK n \in Nat : n = Len(loops) /\ DOMAIN loops = 1..n
  BY LenProperties DEF LoopsSound
<1>2. \A j \in 1..n : loops[j] \in Loops
  BY <1>1, ElementOfSeq DEF LoopsSound
<1>3. d = [j \in 1..n |->
             IF ClassOf[loops[j].table] = ClassOf[t]
             THEN [loops[j] EXCEPT !.alone = FALSE, !.seen = <<>>, !.had = {}] ELSE loops[j]]
  BY <1>1 DEF Disturbed
<1>4. ASSUME NEW j \in 1..n
      PROVE  /\ d[j] \in Loops
             /\ d[j].table = loops[j].table
             /\ d[j].alone => d[j] = loops[j] /\ ClassOf[loops[j].table] # ClassOf[t]
  <2>1. PICK l \in Loops : l = loops[j]
    BY <1>2
  <2>2. <<>> \in Seq(Key)
    OBVIOUS
  <2>3. CASE ClassOf[l.table] = ClassOf[t]
    <3>1. d[j] = [l EXCEPT !.alone = FALSE, !.seen = <<>>, !.had = {}]
      BY <1>3, <2>1, <2>3
    <3> QED
      BY <2>1, <2>2, <3>1 DEF Loops
  <2>4. CASE ClassOf[l.table] # ClassOf[t]
    <3>1. d[j] = l
      BY <1>3, <2>1, <2>4
    <3> QED
      BY <2>1, <2>4, <3>1
  <2> QED
    BY <2>3, <2>4
<1>5. d \in Seq(Loops) /\ Len(d) = n
  <2>1. d \in [1..n -> Loops]
    BY <1>3, <1>4
  <2> QED
    BY <2>1
<1> QED
  BY <1>1, <1>4, <1>5

LEMMA DisturbedSound ==
  ASSUME KeysSound, LoopsSound, NEW t \in Table, NEW e, loops' = Disturbed(t),
         It' = [It EXCEPT ![ClassOf[t]] = e], End' = [End EXCEPT ![ClassOf[t]] = endKeys(t)],
         UNCHANGED rows
  PROVE  LoopsSound'
<1>1. /\ loops' \in Seq(Loops)
      /\ Len(loops') = Len(loops)
      /\ \A j \in 1..Len(loops) :
           /\ loops'[j].table = loops[j].table
           /\ loops'[j].alone => loops'[j] = loops[j] /\ ClassOf[loops[j].table] # ClassOf[t]
  BY DisturbedIs
<1>2. DOMAIN It' = Range(ClassOf) /\ DOMAIN End' = Range(ClassOf)
  BY DEF LoopsSound
<1>3. ASSUME NEW j \in 1..Len(loops), loops'[j].alone
      PROVE  Sound(loops[j])'
  <2>1. PICK l : l = loops[j] /\ l = loops'[j]
    BY <1>1, <1>3
  <2>2. l \in Loops /\ HasKeys(l.table) /\ Sound(l)
    BY <1>1, <1>3, <2>1 DEF LoopsSound
  <2>3. ClassOf[l.table] # ClassOf[t]
    BY <1>1, <1>3, <2>1
  <2>4. /\ It'[ClassOf[l.table]] = It[ClassOf[l.table]]
        /\ End'[ClassOf[l.table]] = End[ClassOf[l.table]]
    BY <2>2, <2>3, ClassesAre DEF ClassOfAll, Loops, LoopsSound
  <2>5. Grows
    BY DEF Grows, KeysOf
  <2>6. Sound(l)'
    BY <2>2, <2>4, <2>5, SoundStays
  <2> QED
    BY <2>1, <2>6 DEF Sound, KeysOf
<1>4. ASSUME NEW j \in 1..Len(loops), NEW k \in 1..Len(loops), k > j, loops'[j].alone
      PROVE  ClassOf[loops'[k].table] # ClassOf[loops'[j].table]
  BY <1>1, <1>4 DEF LoopsSound
<1> QED
  BY <1>1, <1>2, <1>3, <1>4 DEF LoopsSound

LEMMA StartSound ==
  ASSUME KeysSound, LoopsSound, NEW t \in Table, StartLoop(t)
  PROVE  LoopsSound'
<1>1. PICK d : d = Disturbed(t)
  OBVIOUS
<1>2. PICK m : m = [table |-> t, at |-> "test", seen |-> <<>>, had |-> KeysOf(t), alone |-> TRUE]
  OBVIOUS
<1>3. /\ HasKeys(t)
      /\ It' = [It EXCEPT ![ClassOf[t]] = beginKeys(t)]
      /\ End' = [End EXCEPT ![ClassOf[t]] = endKeys(t)]
      /\ loops' = Append(d, m)
      /\ UNCHANGED rows
  BY <1>1, <1>2 DEF StartLoop, KeysOf
<1>4. /\ d \in Seq(Loops)
      /\ Len(d) = Len(loops)
      /\ \A j \in 1..Len(loops) :
           /\ d[j].table = loops[j].table
           /\ d[j].alone => d[j] = loops[j] /\ ClassOf[loops[j].table] # ClassOf[t]
  BY <1>1, DisturbedIs
<1>5. PICK n \in Nat : n = Len(loops)
  BY LenProperties DEF LoopsSound
<1>6. PICK keys \in SUBSET Key : keys = KeysOf(t)
  <2>1. rows[t] \in RowsOf(t) /\ KeysFor(t) = Key
    BY <1>3 DEF KeysSound, TableOf, KeysFor
  <2> QED
    BY <2>1 DEF RowsOf, KeysOf
<1>7. PICK first : first = KeyAfter(t, 0)
  OBVIOUS
<1>8. m \in Loops /\ Follows(m, first, keys)
  <2>1. \/ first = 0 /\ \A k \in keys : k <= 0
        \/ first \in keys /\ 0 < first /\ \A k \in keys : k <= 0 \/ first <= k
    <3>1. KeysOf(t) \subseteq Nat \ {0} /\ 0 \in Nat
      BY <1>6, TablesAssumption
    <3> QED
      BY <1>6, <1>7, <3>1, KeyAfterIs
  <2> QED
    BY ONLY <1>2, <1>6, <2>1, StartFollows, t \in Table
<1>9. /\ loops' \in Seq(Loops)
      /\ Len(loops') = n + 1
      /\ loops'[n + 1] = m
      /\ \A j \in 1..n : loops'[j] = d[j]
  BY <1>3, <1>4, <1>5, <1>8, AppendProperties
<1>10. m.table = t /\ m.alone = TRUE
  BY <1>2
<1>11. /\ DOMAIN It' = Range(ClassOf) /\ DOMAIN End' = Range(ClassOf)
       /\ It'[ClassOf[t]] = <<t, first>> /\ End'[ClassOf[t]] = endKeys(t)
  BY <1>3, <1>7, ClassesAre DEF LoopsSound, ClassOfAll, beginKeys
<1>12. Sound(m)'
  <2>1. KeysOf(t)' = keys
    BY <1>3, <1>6 DEF KeysOf
  <2> QED
    BY <1>8, <1>10, <1>11, <2>1 DEF Sound, endKeys
<1>13. ASSUME NEW j \in 1..(n + 1), loops'[j].alone
       PROVE  Sound(loops[j])'
  <2>1. CASE j = n + 1
    BY <1>9, <1>12, <2>1 DEF Sound, KeysOf
  <2>2. CASE j # n + 1
    <3>1. j \in 1..n
      BY <2>2
    <3>2. PICK l : l = loops[j] /\ l = loops'[j]
      BY <1>4, <1>5, <1>9, <1>13, <3>1
    <3>3. l \in Loops /\ HasKeys(l.table) /\ Sound(l)
      <4>1. l.alone
        BY <1>13, <3>2
      <4>2. loops \in Seq(Loops) /\ j \in 1..Len(loops)
        BY <1>5, <3>1 DEF LoopsSound
      <4>3. l \in Loops
        BY <3>2, <4>2, ElementOfSeq
      <4> QED
        BY <3>2, <4>1, <4>2, <4>3 DEF LoopsSound
    <3>4. ClassOf[l.table] # ClassOf[t]
      BY <1>4, <1>5, <1>9, <1>13, <3>1, <3>2
    <3>5. /\ It'[ClassOf[l.table]] = It[ClassOf[l.table]]
          /\ End'[ClassOf[l.table]] = End[ClassOf[l.table]]
      BY <1>3, <3>3, <3>4, ClassesAre DEF ClassOfAll, Loops, LoopsSound
    <3>6. Grows
      BY <1>3 DEF Grows, KeysOf
    <3>7. Sound(l)'
      BY <3>3, <3>5, <3>6, SoundStays
    <3> QED
      BY <3>2, <3>7 DEF Sound, KeysOf
  <2> QED
    BY <2>1, <2>2
<1>14. ASSUME NEW j \in 1..(n + 1), NEW k \in 1..(n + 1), k > j, loops'[j].alone
       PROVE  ClassOf[loops'[k].table] # ClassOf[loops'[j].table]
  <2>1. j \in 1..n
    BY <1>14
  <2>2. loops'[j] = d[j] /\ d[j].alone
    BY <1>9, <1>14, <2>1
  <2>3. d[j] = loops[j] /\ ClassOf[loops[j].table] # ClassOf[t]
    BY <1>4, <1>5, <2>1, <2>2
  <2>4. CASE k = n + 1
    BY <1>9, <1>10, <2>2, <2>3, <2>4
  <2>5. CASE k # n + 1
    <3>1. k \in 1..n
      BY <2>5
    <3>2. loops'[k].table = loops[k].table
      BY <1>4, <1>5, <1>9, <3>1
    <3>3. ClassOf[loops[k].table] # ClassOf[loops[j].table]
      BY <1>5, <1>14, <2>1, <2>2, <2>3, <3>1 DEF LoopsSound
    <3> QED
      BY <2>2, <2>3, <3>2, <3>3
  <2> QED
    BY <2>4, <2>5
<1>15. \A j \in 1..(n + 1) : HasKeys(loops'[j].table)
  <2>1. ASSUME NEW j \in 1..(n + 1)
        PROVE  HasKeys(loops'[j].table)
    <3>1. CASE j = n + 1
      BY <1>3, <1>9, <1>10, <3>1
    <3>2. CASE j # n + 1
      <4>1. j \in 1..n
        BY <3>2
      <4> QED
        BY <1>4, <1>5, <1>9, <4>1 DEF LoopsSound
    <3> QED
      BY <3>1, <3>2
  <2> QED
    BY <2>1
<1> QED
  BY <1>9, <1>11, <1>13, <1>14, <1>15 DEF LoopsSound

(* The innermost of the loops that go on.                                   *)
LEMMA InnermostIs ==
  ASSUME LoopsSound, NEW at, InLoop(at)
  PROVE  \E n \in Nat \ {0}, l \in Loops :
           /\ n = Len(loops) /\ l = loops[n] /\ l = Last(loops) /\ l.at = at
           /\ class = ClassOf[l.table] /\ position = It[ClassOf[l.table]][2]
           /\ class \in Range(ClassOf) /\ HasKeys(l.table)
           /\ l.alone => Sound(l)
<1>1. loops \in Seq(Loops) /\ loops # <<>> /\ Last(loops).at = at
  BY DEF LoopsSound, InLoop
<1>2. PICK n \in Nat \ {0} : n = Len(loops)
  BY <1>1, EmptySeq, LenProperties
<1>3. n \in 1..Len(loops)
  BY <1>2
<1>4. PICK l \in Loops : l = loops[n]
  BY <1>1, <1>3, ElementOfSeq
<1>5. l = Last(loops)
  BY <1>2, <1>4 DEF Last
<1>6. HasKeys(l.table) /\ (l.alone => Sound(l))
  BY <1>3, <1>4 DEF LoopsSound
<1>7. class = ClassOf[l.table] /\ position = It[ClassOf[l.table]][2]
  BY <1>5 DEF class, position
<1>8. class \in Range(ClassOf)
  BY <1>7, ClassesAre DEF ClassOfAll, Loops
<1> QED
  BY <1>1, <1>2, <1>4, <1>5, <1>6, <1>7, <1>8

LEMMA KeysAre ==
  ASSUME KeysSound, NEW l \in Loops, HasKeys(l.table), Sound(l)
  PROVE  /\ KeysOf(l.table) \in SUBSET Key
         /\ KeysOf(l.table) \subseteq Nat \ {0}
         /\ It[ClassOf[l.table]][2] \in Nat
<1>1. l.table \in Table
  BY DEF Loops
<1>2. KeysOf(l.table) \in SUBSET Key
  <2>1. rows[l.table] \in RowsOf(l.table) /\ KeysFor(l.table) = Key
    BY <1>1 DEF KeysSound, TableOf, KeysFor
  <2> QED
    BY <2>1 DEF RowsOf, KeysOf
<1>3. PICK p, keys : p = It[ClassOf[l.table]][2] /\ keys = KeysOf(l.table)
  OBVIOUS
<1>4. p \in keys \cup {0} /\ keys \subseteq Key
  BY <1>2, <1>3 DEF Sound, Follows
<1>5. Key \subseteq Nat \ {0}
  BY TablesAssumption
<1>6. keys \subseteq Nat \ {0} /\ p \in Nat
  BY ONLY <1>4, <1>5
<1> QED
  BY <1>3, <1>4, <1>6

LEMMA TestSound ==
  ASSUME KeysSound, LoopsSound, LoopTest
  PROVE  LoopsSound'
<1>1. InLoop("test") /\ UNCHANGED <<rows, It, End>>
  BY DEF LoopTest
<1>2. PICK n \in Nat \ {0}, l \in Loops :
        /\ n = Len(loops) /\ l = loops[n] /\ l = Last(loops) /\ l.at = "test"
        /\ class = ClassOf[l.table] /\ position = It[ClassOf[l.table]][2]
        /\ class \in Range(ClassOf) /\ HasKeys(l.table)
        /\ l.alone => Sound(l)
  BY <1>1, InnermostIs
<1>3. CASE It[class] = End[class]
  <2>1. loops # <<>> /\ loops' = Front(loops)
    BY <1>3 DEF LoopTest, InLoop
  <2> QED
    BY <1>1, <2>1, LoopEnds
<1>4. CASE It[class] # End[class]
  <2>1. PICK m : m = IF l.alone THEN [l EXCEPT !.at = "body", !.seen = Append(l.seen, position)]
                     ELSE [l EXCEPT !.at = "body"]
    OBVIOUS
  <2>2. loops' = [loops EXCEPT ![n] = m]
    <3>1. loops' = [loops EXCEPT ![n].at = "body",
                                 ![n].seen = IF l.alone THEN Append(@, position) ELSE @]
      BY <1>2, <1>4 DEF LoopTest
    <3>2. loops \in Seq(Loops) /\ n \in 1..Len(loops)
      BY <1>2 DEF LoopsSound
    <3>3. DOMAIN loops' = DOMAIN loops /\ n \in DOMAIN loops
      BY <3>1, <3>2
    <3>4. \A j \in DOMAIN loops : j # n => loops'[j] = loops[j]
      BY <3>1, <3>2
    <3>5. loops'[n] = m
      BY <1>2, <2>1, <3>1, <3>3 DEF Loops
    <3> QED
      BY <3>1, <3>2, <3>3, <3>4, <3>5
  <2>3. ASSUME l.alone
        PROVE  m \in Loops /\ m.table = l.table /\ m.alone = l.alone /\ Sound(m)
    <3>1. PICK p, keys : p = position /\ keys = KeysOf(l.table)
      OBVIOUS
    <3>2. Sound(l) /\ Follows(l, p, keys)
      BY <1>2, <2>3, <3>1 DEF Sound
    <3>3. p \in Nat /\ keys \in SUBSET Key
      BY <1>2, <3>1, <3>2, KeysAre
    <3>4. p # 0
      BY <1>2, <1>4, <3>1, <3>2 DEF Sound, endKeys
    <3>5. m = [l EXCEPT !.at = "body", !.seen = Append(l.seen, p)]
      BY <2>1, <2>3, <3>1
    <3>6. m \in Loops /\ Follows(m, p, keys)
      BY ONLY <1>2, <3>2, <3>3, <3>4, <3>5, TestFollows
    <3>7. m.table = l.table /\ m.alone = l.alone
      BY <3>5 DEF Loops
    <3> QED
      BY <1>2, <3>1, <3>2, <3>6, <3>7 DEF Sound
  <2>4. ASSUME ~l.alone
        PROVE  m \in Loops /\ m.table = l.table /\ m.alone = l.alone
    BY <2>1, <2>4 DEF Loops
  <2>5. m \in Loops /\ m.table = l.table /\ m.alone = l.alone
    BY <2>3, <2>4
  <2>6. m.alone => Sound(m)'
    BY <1>1, <2>3, <2>5 DEF Sound, KeysOf
  <2> QED
    BY <1>1, <1>2, <2>2, <2>5, <2>6, LastChanges
<1> QED
  BY <1>3, <1>4

LEMMA IncrementSound ==
  ASSUME KeysSound, LoopsSound, LoopIncrement
  PROVE  LoopsSound'
<1>1. InLoop("body") /\ UNCHANGED <<rows, End>>
  BY DEF LoopIncrement
<1>2. PICK n \in Nat \ {0}, l \in Loops :
        /\ n = Len(loops) /\ l = loops[n] /\ l = Last(loops) /\ l.at = "body"
        /\ class = ClassOf[l.table] /\ position = It[ClassOf[l.table]][2]
        /\ class \in Range(ClassOf) /\ HasKeys(l.table)
        /\ l.alone => Sound(l)
  BY <1>1, InnermostIs
<1>3. PICK k \in IF position = 0 THEN DOMAIN rows[It[class][1]] \cup {0}
                 ELSE {KeyAfter(It[class][1], position)} :
        It' = [It EXCEPT ![class] = <<It[class][1], k>>]
  BY DEF LoopIncrement
<1>4. PICK m : m = [l EXCEPT !.at = "test"]
  OBVIOUS
<1>5. loops' = [loops EXCEPT ![n] = m]
  <2>1. loops' = [loops EXCEPT ![n].at = "test"]
    BY <1>2 DEF LoopIncrement
  <2>2. loops \in Seq(Loops) /\ n \in 1..Len(loops)
    BY <1>2 DEF LoopsSound
  <2> QED
    BY <1>2, <1>4, <2>1, <2>2
<1>6. m \in Loops /\ m.table = l.table /\ m.alone = l.alone
  BY <1>4 DEF Loops
<1>7. /\ DOMAIN It' = DOMAIN It
      /\ \A c \in Range(ClassOf) : c # class => It'[c] = It[c]
      /\ It'[class] = <<It[class][1], k>>
  BY <1>2, <1>3 DEF LoopsSound
<1>8. ASSUME m.alone
      PROVE  Sound(m)'
  <2>1. PICK t, p, keys : t = l.table /\ p = position /\ keys = KeysOf(t)
    OBVIOUS
  <2>2. Sound(l) /\ Follows(l, p, keys) /\ It[class][1] = t
    BY <1>2, <1>6, <1>8, <2>1 DEF Sound
  <2>3. p \in Nat /\ keys \in SUBSET Key /\ keys \subseteq Nat \ {0}
    BY <1>2, <2>1, <2>2, KeysAre
  <2>4. p # 0
    BY <1>2, <2>2 DEF Follows
  <2>5. k = KeyAfter(t, p)
    BY <1>3, <2>1, <2>2, <2>4
  <2>6. \/ k = 0 /\ \A j \in keys : j <= p
        \/ k \in keys /\ p < k /\ \A j \in keys : j <= p \/ k <= j
    BY <2>1, <2>3, <2>5, KeyAfterIs
  <2>7. Follows(m, k, keys)
    BY ONLY <1>2, <1>4, <2>2, <2>3, <2>6, IncrementFollows
  <2>8. It'[class] = <<t, k>> /\ KeysOf(t)' = keys /\ m.table = t
    BY <1>1, <1>6, <1>7, <2>1, <2>2 DEF KeysOf
  <2>9. End'[ClassOf[m.table]] = endKeys(m.table)
    BY <1>1, <1>6, <2>2 DEF Sound
  <2> QED
    BY <1>2, <2>1, <2>7, <2>8, <2>9 DEF Sound, endKeys, KeysOf
<1>9. /\ m.table = loops[n].table /\ m.alone = loops[n].alone
      /\ \A c \in Range(ClassOf) : c # ClassOf[m.table] => It'[c] = It[c]
  BY <1>2, <1>6, <1>7
<1> QED
  BY ONLY <1>1, <1>2, <1>5, <1>6, <1>7, <1>8, <1>9, LastChanges, KeysSound, LoopsSound

LEMMA BreakSound ==
  ASSUME KeysSound, LoopsSound, LoopBreak
  PROVE  LoopsSound'
BY LoopEnds DEF LoopBreak, InLoop

(* The keys, where actions leave them as they are.                          *)
LEMMA KeysStay ==
  ASSUME KeysSound, UNCHANGED <<rows, printed>>
  PROVE  KeysSound' /\ Grows
BY DEF KeysSound, Grows, KeysOf, TableOf, PrintedFrom

LEMMA AppendKeeps ==
  ASSUME KeysSound, LoopsSound, NEW t \in Table, append(t)
  PROVE  KeysSound' /\ LoopsSound'
<1>1. printed' = Printed(t, WrapperOption) /\ UNCHANGED rows
  BY DEF append
<1>2. KeysSound'
  BY <1>1, PrintedSound
<1>3. CASE HasKeys(t)
  <2>1. /\ It' = [It EXCEPT ![ClassOf[t]] = endKeys(t)]
        /\ End' = [End EXCEPT ![ClassOf[t]] = endKeys(t)]
        /\ loops' = Disturbed(t)
    BY <1>3 DEF append
  <2> QED
    BY <1>1, <1>2, <2>1, DisturbedSound
<1>4. CASE ~HasKeys(t)
  <2>1. UNCHANGED <<It, End, loops>> /\ Grows
    BY <1>1, <1>4 DEF append, Grows, KeysOf
  <2> QED
    BY <1>2, <2>1, LoopsStay
<1> QED
  BY <1>3, <1>4

LEMMA TablesStep ==
  ASSUME IInv, KeysSound, LoopsSound, [FormsNext]_<<allVars, sequenceVars>>
  PROVE  KeysSound' /\ LoopsSound'
<1> DEFINE Kept == KeysSound' /\ LoopsSound'
<1>1. scenario.tables \subseteq Table
  BY TablesAssumption DEF IInv, AliveOnce
<1>2. CASE UNCHANGED tableVars
  BY <1>2, KeysStay, LoopsStay DEF tableVars
<1>3. ASSUME LoopTest \/ LoopIncrement \/ LoopBreak
      PROVE  Kept
  <2>1. UNCHANGED <<rows, printed>>
    BY <1>3 DEF LoopTest, LoopIncrement, LoopBreak
  <2> QED
    BY <1>3, <2>1, KeysStay, TestSound, IncrementSound, BreakSound
<1>4. ASSUME NEW t \in Table, NEW s \in Columns(t), NEW v \in Values,
             setValueOf(t, s, v) \/ \E k \in Key : setValueOfKey(t, k, s, v)
      PROVE  Kept
  <2>1. PICK k \in KeysFor(t) : SetValue(t, k, s, v)
    BY <1>4 DEF setValueOf, setValueOfKey, KeysFor
  <2>2. /\ rows' = [rows EXCEPT ![t] = WithValue(t, rows[t], k, s, v)]
        /\ UNCHANGED <<printed, It, End, loops>>
    BY <2>1 DEF SetValue
  <2>3. KeysSound' /\ Grows
    BY <2>1, <2>2, SetKeeps
  <2> QED
    BY <2>2, <2>3, LoopsStay
<1>5. ASSUME NEW t \in Table, StartLoop(t)
      PROVE  Kept
  BY <1>5, StartSound, KeysStay DEF StartLoop
<1>6. ASSUME NEW t \in Table, AppendBlocks(t)
      PROVE  Kept
  <2>1. printed' = Printed(t, BlocksOption) /\ UNCHANGED <<rows, It, End, loops>>
    BY <1>6 DEF AppendBlocks
  <2>2. Grows
    BY <2>1 DEF Grows, KeysOf
  <2> QED
    BY <2>1, <2>2, PrintedSound, LoopsStay
<1>7. ASSUME NEW t \in Table, fill(t)
      PROVE  Kept
  <2>1. UNCHANGED <<It, End, loops>>
    BY <1>7 DEF fill
  <2> QED
    BY <1>7, <2>1, FillKeeps, LoopsStay
<1>8. ASSUME EnterAppendBlocks
      PROVE  Kept
  BY <1>2, <1>8 DEF EnterAppendBlocks
<1>9. ASSUME TablesNext
      PROVE  Kept
  BY <1>1, <1>2, <1>3, <1>4, <1>5, <1>6, <1>7, <1>8, <1>9, AppendKeeps DEF TablesNext
<1>10. ASSUME UNCHANGED allVars
       PROVE  Kept
  BY <1>2, <1>10 DEF allVars
<1> QED
  BY <1>9, <1>10 DEF FormsNext

LEMMA SoundVisits ==
  ASSUME KeysSound, LoopsSound
  PROVE  LoopVisitsAll
<1>1. SUFFICES ASSUME NEW j \in DOMAIN loops, loops[j].alone
               PROVE  LET l == loops[j]
                          p == It[ClassOf[l.table]][2]
                      IN  /\ It[ClassOf[l.table]][1] = l.table
                          /\ \A m, n \in DOMAIN l.seen : m < n => l.seen[m] < l.seen[n]
                          /\ Range(l.seen) \subseteq DOMAIN rows[l.table]
                          /\ {k \in l.had : p = 0 \/ k < p} \subseteq Range(l.seen)
  BY DEF LoopVisitsAll
<1>2. loops \in Seq(Loops) /\ j \in 1..Len(loops)
  BY LenProperties DEF LoopsSound
<1>3. PICK l \in Loops : l = loops[j]
  BY <1>2, ElementOfSeq
<1>4. Sound(l)
  BY <1>1, <1>2, <1>3 DEF LoopsSound
<1> QED
  BY <1>3, <1>4 DEF Sound, Follows, Range, KeysOf

(* A loop over the keys of a table comes to each key it began with once and   *)
(* in order, for any tables, classes, loops inside one another, and values  *)
(* that are set, printed and read in between.                               *)
THEOREM LoopsVisitAll == FormsSpec => []LoopVisitsAll
<1>1. FormsInit => KeysSound /\ LoopsSound
  BY KeysStart, LoopsStart
<1>2. IInv /\ KeysSound /\ LoopsSound /\ [FormsNext]_<<allVars, sequenceVars>>
        => KeysSound' /\ LoopsSound'
  BY TablesStep
<1>3. KeysSound /\ LoopsSound => LoopVisitsAll
  BY SoundVisits
<1> QED
  BY <1>1, <1>2, <1>3, InitSound, StepSound, PTL DEF FormsSpec

-----------------------------------------------------------------------------
(***************************************************************************)
(* Reading back. A key that is kept has a value that was printed; it is set, *)
(* and nothing is that was not printed.                                    *)
(***************************************************************************)
Lost(t, source) ==
  IF HasKeys(t) /\ source.reduced
  THEN {k \in DOMAIN source.rows : Range(source.rows[k]) = {0}} ELSE {}

LEMMA ZerosAre ==
  ASSUME NEW S, S # {}, NEW row \in [S -> Values]
  PROVE  Range(row) = {0} <=> \A s \in S : row[s] = 0
<1>1. ASSUME Range(row) = {0}
      PROVE  \A s \in S : row[s] = 0
  BY <1>1 DEF Range
<1>2. ASSUME \A s \in S : row[s] = 0
      PROVE  Range(row) = {0}
  <2>1. \A v \in Range(row) : v = 0
    BY <1>2 DEF Range
  <2>2. 0 \in Range(row)
    BY <1>2 DEF Range
  <2> QED
    BY <2>1, <2>2
<1> QED
  BY <1>1, <1>2

(* Of the keys of the source, those that are lost have no value printed.     *)
LEMMA LostAre ==
  ASSUME NEW t \in Table, PrintedFrom(t), NEW k \in DOMAIN printed.source.rows
  PROVE  /\ printed.source.rows[k] \in [Columns(t) -> Values]
         /\ HasKeys(t) => (k \in Lost(t, printed.source) <=>
                             \A s \in Columns(t) : s \notin DOMAIN printed.rows[k])
<1>1. Columns(t) # {}
  BY TablesAssumption DEF Columns
<1>2. PICK row : row = printed.source.rows[k]
  OBVIOUS
<1>3. row \in [Columns(t) -> Values]
  BY <1>2 DEF PrintedFrom, TableOf, RowsOf
<1>4. Range(row) = {0} <=> \A s \in Columns(t) : row[s] = 0
  BY ONLY <1>1, <1>3, ZerosAre
<1>5. \A s \in Columns(t) :
        s \in DOMAIN printed.rows[k] <=> ~(printed.source.reduced /\ row[s] = 0)
  BY <1>2 DEF PrintedFrom
<1>6. HasKeys(t) => (k \in Lost(t, printed.source) <=>
                       printed.source.reduced /\ Range(row) = {0})
  BY <1>2 DEF Lost
<1> QED
  BY <1>1, <1>2, <1>3, <1>4, <1>5, <1>6

LEMMA ElementsAre ==
  ASSUME NEW t \in Table, PrintedFrom(t)
  PROVE  /\ \A k \in DOMAIN printed.source.rows : \A s \in Columns(t) :
              <<k, s>> \in Elements(printed) <=> s \in DOMAIN printed.rows[k]
         /\ \A e \in Elements(printed) :
              /\ e[1] \in DOMAIN printed.source.rows
              /\ \E s \in Columns(t) : s \in DOMAIN printed.rows[e[1]]
<1>1. ASSUME NEW k \in DOMAIN printed.source.rows, NEW s \in Columns(t)
      PROVE  <<k, s>> \in Elements(printed) <=> s \in DOMAIN printed.rows[k]
  BY DEF Elements, PrintedFrom
<1>2. ASSUME NEW e \in Elements(printed)
      PROVE  /\ e[1] \in DOMAIN printed.source.rows
             /\ \E s \in Columns(t) : s \in DOMAIN printed.rows[e[1]]
  <2>1. PICK k \in DOMAIN printed.rows : \E s \in DOMAIN printed.rows[k] : e = <<k, s>>
    BY DEF Elements
  <2>2. PICK s \in DOMAIN printed.rows[k] : e = <<k, s>>
    BY <2>1
  <2>3. s \in Columns(t) /\ e[1] = k /\ k \in DOMAIN printed.source.rows
    BY <2>2 DEF PrintedFrom
  <2> QED
    BY <2>2, <2>3
<1> QED
  BY <1>1, <1>2

LEMMA FillReadsBack ==
  ASSUME KeysSound, NEW t \in Table, fill(t), NEW source, source = printed.source,
         NEW kept, kept = DOMAIN source.rows \ Lost(t, source)
  PROVE  /\ \A k \in kept, s \in Columns(t) :
              source.rows[k][s] # 0 => rows'[t][k][s] = source.rows[k][s]
         /\ (\A k \in DOMAIN rows[t] : Range(rows[t][k]) = {0} /\ ~HasKeys(t)) =>
              rows'[t] = Restrict(source.rows, kept)
<1>1. PrintedFrom(t)
  BY FillIs
<1>2. PICK values : /\ TableOf(t, values)
                    /\ FilledWith(values, rows[t], Elements(printed))
                    /\ rows' = [rows EXCEPT ![t] = values]
  BY FillIs
<1>3. rows'[t] = values
  BY <1>2 DEF KeysSound
<1>4. \A k \in DOMAIN source.rows :
        /\ source.rows[k] \in [Columns(t) -> Values]
        /\ HasKeys(t) => (k \in Lost(t, source) <=>
                            \A s \in Columns(t) : s \notin DOMAIN printed.rows[k])
  BY <1>1, LostAre
<1>5. \A k \in DOMAIN values : values[k] \in [Columns(t) -> Values]
  BY <1>2 DEF TableOf, RowsOf
<1>6. \A k \in DOMAIN source.rows : \A s \in Columns(t) :
        s \in DOMAIN printed.rows[k] <=> ~(source.reduced /\ source.rows[k][s] = 0)
  BY <1>1 DEF PrintedFrom
<1>7. ASSUME NEW k \in DOMAIN source.rows, NEW s \in Columns(t), s \in DOMAIN printed.rows[k]
      PROVE  k \in DOMAIN values /\ values[k][s] = source.rows[k][s]
  <2>1. <<k, s>> \in Elements(printed)
    BY <1>1, <1>7, ElementsAre
  <2>2. <<k, s>>[1] = k
    OBVIOUS
  <2>3. k \in DOMAIN values
    BY <1>2, <2>1, <2>2 DEF FilledWith
  <2>4. s \in DOMAIN values[k]
    BY <1>5, <2>3
  <2>5. values[k][s] = printed.rows[k][s]
    BY <1>2, <2>1, <2>3, <2>4 DEF FilledWith
  <2>6. printed.rows[k][s] = source.rows[k][s]
    BY <1>1, <1>7 DEF PrintedFrom
  <2> QED
    BY <2>3, <2>5, <2>6
<1>8. ASSUME NEW k \in kept, NEW s \in Columns(t), source.rows[k][s] # 0
      PROVE  rows'[t][k][s] = source.rows[k][s]
  BY <1>3, <1>6, <1>7, <1>8
<1>9. ASSUME \A k \in DOMAIN rows[t] : Range(rows[t][k]) = {0} /\ ~HasKeys(t)
      PROVE  rows'[t] = Restrict(source.rows, kept)
  <2>1. PICK start : start = rows[t]
    OBVIOUS
  <2>2. TableOf(t, start)
    BY <2>1 DEF KeysSound
  <2>3. DOMAIN values = kept
    <3>1. CASE HasKeys(t)
      <4>1. DOMAIN start = {}
        BY <1>9, <2>1, <3>1
      <4>2. ASSUME NEW k \in DOMAIN values
            PROVE  k \in kept
        <5>1. \E e \in Elements(printed) : e[1] = k
          BY <1>2, <2>1, <4>1 DEF FilledWith
        <5>2. k \in DOMAIN source.rows /\ \E s \in Columns(t) : s \in DOMAIN printed.rows[k]
          BY <1>1, <5>1, ElementsAre
        <5> QED
          BY <1>4, <3>1, <5>2
      <4>3. ASSUME NEW k \in kept
            PROVE  k \in DOMAIN values
        <5>1. \E s \in Columns(t) : s \in DOMAIN printed.rows[k]
          BY <1>4, <3>1
        <5> QED
          BY <1>7, <5>1
      <4> QED
        BY <4>2, <4>3
    <3>2. CASE ~HasKeys(t)
      <4>1. kept = DOMAIN source.rows
        BY <3>2 DEF Lost
      <4> QED
        BY <1>1, <1>2, <3>2, <4>1 DEF PrintedFrom, TableOf
    <3> QED
      BY <3>1, <3>2
  <2>4. ASSUME NEW k \in kept, NEW s \in Columns(t)
        PROVE  values[k][s] = source.rows[k][s]
    <3>1. CASE s \in DOMAIN printed.rows[k]
      BY <1>7, <3>1
    <3>2. CASE s \notin DOMAIN printed.rows[k]
      <4>1. source.rows[k][s] = 0
        BY <1>6, <3>2
      <4>2. <<k, s>> \notin Elements(printed)
        BY <1>1, <3>2, ElementsAre
      <4>3. k \in DOMAIN values /\ s \in DOMAIN values[k]
        BY <1>5, <2>3
      <4>4. CASE k \in DOMAIN start
        <5>1. PICK row : row = start[k]
          OBVIOUS
        <5>2. row \in [Columns(t) -> Values] /\ Columns(t) # {}
          BY <2>2, <4>4, <5>1 DEF TableOf, RowsOf
        <5>3. Range(row) = {0}
          BY <1>9, <2>1, <4>4, <5>1
        <5>4. row[s] = 0
          BY ONLY <5>2, <5>3, ZerosAre, s \in Columns(t)
        <5> QED
          BY <1>2, <2>1, <4>1, <4>2, <4>3, <4>4, <5>1, <5>4 DEF FilledWith
      <4>5. CASE k \notin DOMAIN start
        BY <1>2, <2>1, <4>1, <4>2, <4>3, <4>5 DEF FilledWith
      <4> QED
        BY <4>4, <4>5
    <3> QED
      BY <3>1, <3>2
  <2>5. ASSUME NEW k \in kept
        PROVE  values[k] = source.rows[k]
    <3>1. values[k] \in [Columns(t) -> Values] /\ source.rows[k] \in [Columns(t) -> Values]
      BY <1>4, <1>5, <2>3
    <3> QED
      BY <2>4, <3>1
  <2>6. values = [k \in DOMAIN values |-> values[k]]
    BY <1>2 DEF TableOf, RowsOf
  <2>7. values = [k \in kept |-> source.rows[k]]
    BY <2>3, <2>5, <2>6
  <2> QED
    BY <1>3, <2>7 DEF Restrict
<1> QED
  BY <1>8, <1>9

(* Reading what was printed brings back every value that is not zero, and    *)
(* into a fresh table all that was not lost, for any containers, keys and    *)
(* sub-features, reduced or not, in the table that printed or in another one *)
(* of its class, and whatever happened in between.                          *)
THEOREM FormsReadBack == FormsSpec => ReadsBack
<1>1. FormsInit => KeysSound /\ LoopsSound
  BY KeysStart, LoopsStart
<1>2. IInv /\ KeysSound /\ LoopsSound /\ [FormsNext]_<<allVars, sequenceVars>>
        => KeysSound' /\ LoopsSound'
  BY TablesStep
<1>3. KeysSound =>
        \A t \in Table : fill(t) =>
          LET source == printed.source
              lost == IF HasKeys(t) /\ source.reduced
                      THEN {k \in DOMAIN source.rows : Range(source.rows[k]) = {0}} ELSE {}
              kept == DOMAIN source.rows \ lost
          IN  /\ \A k \in kept, s \in Columns(t) :
                   source.rows[k][s] # 0 => rows'[t][k][s] = source.rows[k][s]
              /\ (\A k \in DOMAIN rows[t] : Range(rows[t][k]) = {0} /\ ~HasKeys(t)) =>
                   rows'[t] = Restrict(source.rows, kept)
  <2>1. ASSUME KeysSound, NEW t \in Table, fill(t)
        PROVE  LET source == printed.source
                   kept == DOMAIN source.rows \ Lost(t, source)
               IN  /\ \A k \in kept, s \in Columns(t) :
                        source.rows[k][s] # 0 => rows'[t][k][s] = source.rows[k][s]
                   /\ (\A k \in DOMAIN rows[t] : Range(rows[t][k]) = {0} /\ ~HasKeys(t)) =>
                        rows'[t] = Restrict(source.rows, kept)
    BY ONLY <2>1, FillReadsBack
  <2> QED
    BY <2>1 DEF Lost
<1> QED
  BY <1>1, <1>2, <1>3, InitSound, StepSound, PTL DEF FormsSpec, ReadsBack

-----------------------------------------------------------------------------
(***************************************************************************)
(* Sequences. An info has at least the arguments its optimization takes, and *)
(* of their types, unless one that had arguments was assigned to.           *)
(***************************************************************************)
Args == UNION {[type : {t}, value : ValuesOf[t]] : t \in DOMAIN ValuesOf}
Info == [opt : Optimization, args : Seq(Args)]

(* Info i has the arguments its optimization takes.                         *)
Fits(i) ==
  /\ Len(i.args) = Len(DefaultArgs[i.opt])
  /\ \A n \in 1..Len(i.args) : i.args[n].type = DefaultArgs[i.opt][n].type

InfosFit(s, a) ==
  /\ s \in Seq(Info) /\ a \in BOOLEAN
  /\ \A k \in 1..Len(s) : /\ Len(s[k].args) >= Len(DefaultArgs[s[k].opt])
                          /\ ~a => Fits(s[k])

SequenceSound ==
  /\ InfosFit(sequence, assigned)
  /\ file # Unprinted =>
       /\ InfosFit(file.source, file.assigned)
       /\ file.infos = [k \in DOMAIN file.source |-> PrintedInfo(file.source[k])]

LEMMA FunctionIsSeq ==
  ASSUME NEW n \in Nat, NEW S, NEW f \in [1..n -> S]
  PROVE  f \in Seq(S) /\ Len(f) = n
OBVIOUS

LEMMA ArgsAre ==
  ASSUME NEW a
  PROVE  a \in Args <=> /\ a = [type |-> a.type, value |-> a.value]
                        /\ a.type \in DOMAIN ValuesOf /\ a.value \in ValuesOf[a.type]
<1>1. ASSUME a \in Args
      PROVE  /\ a = [type |-> a.type, value |-> a.value]
             /\ a.type \in DOMAIN ValuesOf /\ a.value \in ValuesOf[a.type]
  <2>1. PICK t \in DOMAIN ValuesOf : a \in [type : {t}, value : ValuesOf[t]]
    BY <1>1 DEF Args
  <2> QED
    BY <2>1
<1>2. ASSUME a = [type |-> a.type, value |-> a.value],
             a.type \in DOMAIN ValuesOf, a.value \in ValuesOf[a.type]
      PROVE  a \in Args
  <2>1. a \in [type : {a.type}, value : ValuesOf[a.type]]
    BY <1>2
  <2> QED
    BY <1>2, <2>1 DEF Args
<1> QED
  BY <1>1, <1>2

LEMMA NewFits ==
  ASSUME NEW o \in Optimization
  PROVE  /\ DefaultArgs[o] \in Seq(Args) /\ Len(DefaultArgs[o]) \in Nat
         /\ New(o) \in Info /\ New(o).opt = o /\ New(o).args = DefaultArgs[o]
         /\ Fits(New(o)) /\ Len(New(o).args) >= Len(DefaultArgs[o])
<1>1. o \in DOMAIN DefaultArgs
  BY InfosAssumption DEF Optimization
<1>2. PICK args : args = DefaultArgs[o]
  OBVIOUS
<1>3. args \in Seq(Range(args)) /\ \A a \in Range(args) : a \in Args
  BY <1>1, <1>2, InfosAssumption, ArgsAre
<1>4. Len(args) \in Nat /\ DOMAIN args = 1..Len(args) /\ \A n \in 1..Len(args) : args[n] \in Args
  BY <1>3, LenProperties, ElementOfSeq
<1>5. args \in Seq(Args)
  <2>1. args \in [1..Len(args) -> Args]
    BY <1>3, <1>4, LenProperties
  <2> QED
    BY <1>4, <2>1, FunctionIsSeq
<1> QED
  BY <1>2, <1>4, <1>5 DEF New, Info, Fits

LEMMA NamesAreOf ==
  ASSUME NEW o \in Optimization
  PROVE  getOptimization(getOptimizationName(o)) = o
<1>1. Len(Optimizations) \in Nat /\ DOMAIN Optimizations = 1..Len(Optimizations)
  BY InfosAssumption, LenProperties
<1>2. ASSUME NEW p \in Optimization, getOptimizationName(p) = getOptimizationName(o)
      PROVE  p = o
  <2>1. o + 1 \in DOMAIN Optimizations /\ p + 1 \in DOMAIN Optimizations /\ o \in Int /\ p \in Int
    BY <1>1 DEF Optimization
  <2>2. o + 1 = p + 1
    BY <1>2, <2>1, InfosAssumption DEF getOptimizationName, IsInjective
  <2> QED
    BY <2>1, <2>2
<1>3. \A p \in 0..(o - 1) : p \in Optimization /\ p # o
  BY <1>1 DEF Optimization
<1>4. \A p \in 0..(o - 1) : getOptimizationName(p) # getOptimizationName(o)
  BY <1>2, <1>3
<1> QED
  BY <1>2, <1>4 DEF getOptimization

(* An info that is read from the form of another one has its optimization    *)
(* and the arguments that takes, and those it printed where they fit.       *)
LEMMA FilledAre ==
  ASSUME NEW info \in Info, Len(info.args) >= Len(DefaultArgs[info.opt]),
         NEW read \in FilledInfos(PrintedInfo(info))
  PROVE  /\ read \in Info /\ read.opt = info.opt
         /\ Len(read.args) = Len(DefaultArgs[read.opt])
         /\ Fits(info) => read = info
<1>1. info.opt \in Optimization /\ info.args \in Seq(Args)
  BY DEF Info
<1>2. PICK default, n : default = DefaultArgs[info.opt] /\ n = Len(default)
  OBVIOUS
<1>3. default \in Seq(Args) /\ n \in Nat
  BY <1>1, <1>2, NewFits
<1>4. getOptimization(PrintedInfo(info).opt) = info.opt /\ PrintedInfo(info).args = info.args
  BY <1>1, NamesAreOf DEF PrintedInfo
<1>5. New(info.opt) = [opt |-> info.opt, args |-> default]
  BY <1>2 DEF New
<1>6. PICK args : /\ DOMAIN args = 1..n /\ args = [k \in 1..n |-> args[k]]
                  /\ \A k \in 1..n : args[k] \in FilledArgs(default[k], info.args[k])
                  /\ read = [opt |-> info.opt, args |-> args]
  BY <1>2, <1>4, <1>5 DEF FilledInfos
<1>7. Len(info.args) \in Nat /\ DOMAIN info.args = 1..Len(info.args)
      /\ \A k \in 1..n : k \in 1..Len(info.args)
  BY <1>1, <1>2, <1>3, LenProperties
<1>8. ASSUME NEW k \in 1..n
      PROVE  args[k] \in Args /\ (default[k].type = info.args[k].type => args[k] = info.args[k])
  <2>1. info.args[k] \in Args
    BY <1>1, <1>7, ElementOfSeq
  <2>2. PICK v \in IF default[k].type = info.args[k].type THEN {info.args[k].value}
                   ELSE ValuesOf[info.args[k].type] :
          args[k] = [type |-> info.args[k].type, value |-> v]
    BY <1>6 DEF FilledArgs
  <2>3. v \in ValuesOf[info.args[k].type] /\ info.args[k].type \in DOMAIN ValuesOf
    BY <2>1, <2>2, ArgsAre
  <2>4. args[k] \in Args
    BY <2>2, <2>3, ArgsAre
  <2> QED
    BY <2>1, <2>2, <2>4, ArgsAre
<1>9. args \in Seq(Args) /\ Len(args) = n
  <2>1. args \in [1..n -> Args]
    BY <1>6, <1>8
  <2> QED
    BY <1>3, <2>1, FunctionIsSeq
<1>10. read \in Info
  BY <1>1, <1>6, <1>9 DEF Info
<1>11. ASSUME Fits(info)
       PROVE  read = info
  <2>1. Len(info.args) = n /\ \A k \in 1..n : default[k].type = info.args[k].type
    BY <1>2, <1>11 DEF Fits
  <2>2. \A k \in 1..n : args[k] = info.args[k]
    BY <1>8, <2>1
  <2>3. args = info.args
    BY <1>1, <1>9, <2>1, <2>2, SeqEqual
  <2> QED
    BY <1>6, <2>3 DEF Info
<1> QED
  BY <1>2, <1>6, <1>9, <1>10, <1>11

LEMMA ArgsFit ==
  ASSUME NEW info \in Info, Fits(info)
  PROVE  Len(info.args) >= Len(DefaultArgs[info.opt])
<1>1. Len(info.args) \in Nat
  BY LenProperties DEF Info
<1> QED
  BY <1>1 DEF Fits

(* What is read behind front: it stays, and behind it are the infos printed. *)
BehindIs(front) ==
  LET n == Len(file.source)
      behind == SubSeq(sequence', Len(sequence') - n + 1, Len(sequence'))
  IN  /\ n \in Nat /\ Len(front) \in Nat /\ Len(sequence') - n = Len(front)
      /\ \A k \in 1..(Len(sequence') - n) : sequence'[k] = front[k]
      /\ IF ~file.assigned THEN behind = file.source
         ELSE \A k \in 1..n : /\ behind[k].opt = file.source[k].opt
                              /\ Len(behind[k].args) = Len(DefaultArgs[behind[k].opt])

LEMMA ReadBehindIs ==
  ASSUME SequenceSound, NEW front, NEW a, InfosFit(front, a), ReadBehind(front)
  PROVE  InfosFit(sequence', a \/ file.assigned) /\ file' = Unprinted /\ BehindIs(front)
<1>1. PICK infos \in [DOMAIN file.infos -> UNION {FilledInfos(node) : node \in Range(file.infos)}] :
        /\ \A k \in DOMAIN infos : infos[k] \in FilledInfos(file.infos[k])
        /\ sequence' = front \o infos
  BY DEF ReadBehind
<1>2. file # Unprinted /\ file' = Unprinted
  BY DEF ReadBehind
<1>3. PICK source, n : source = file.source /\ n = Len(source)
  OBVIOUS
<1>4. InfosFit(source, file.assigned)
  BY <1>2, <1>3 DEF SequenceSound
<1>5. source \in Seq(Info) /\ n \in Nat /\ DOMAIN source = 1..n
  BY <1>3, <1>4, LenProperties DEF InfosFit
<1>6. DOMAIN file.infos = 1..n /\ \A k \in 1..n : file.infos[k] = PrintedInfo(source[k])
  BY <1>2, <1>3, <1>5 DEF SequenceSound
<1>7. DOMAIN infos = 1..n
  BY <1>1, <1>6
<1>8. ASSUME NEW k \in 1..n
      PROVE  /\ infos[k] \in Info /\ infos[k].opt = source[k].opt
             /\ Len(infos[k].args) = Len(DefaultArgs[infos[k].opt])
             /\ ~file.assigned => infos[k] = source[k]
  <2>1. PICK info \in Info : info = source[k]
    BY <1>3, <1>5, ElementOfSeq
  <2>2. Len(info.args) >= Len(DefaultArgs[info.opt]) /\ (~file.assigned => Fits(info))
    BY <1>3, <1>4, <2>1 DEF InfosFit
  <2>3. PICK read : read = infos[k]
    OBVIOUS
  <2>4. read \in FilledInfos(PrintedInfo(info))
    BY <1>1, <1>6, <1>7, <2>1, <2>3
  <2>5. /\ read \in Info /\ read.opt = info.opt
        /\ Len(read.args) = Len(DefaultArgs[read.opt])
        /\ Fits(info) => read = info
    BY <2>2, <2>4, FilledAre
  <2> QED
    BY <2>1, <2>2, <2>3, <2>5
<1>9. infos \in Seq(Info) /\ Len(infos) = n
  <2>1. infos \in [1..n -> Info]
    BY <1>1, <1>7, <1>8
  <2> QED
    BY <1>5, <2>1, FunctionIsSeq
<1>10. PICK all : all = sequence'
  OBVIOUS
<1>11. front \in Seq(Info) /\ Len(front) \in Nat /\ a \in BOOLEAN
  BY LenProperties DEF InfosFit
<1>12. /\ all \in Seq(Info) /\ Len(all) = Len(front) + n
       /\ \A k \in 1..(Len(front) + n) :
            all[k] = IF k <= Len(front) THEN front[k] ELSE infos[k - Len(front)]
  BY <1>1, <1>9, <1>10, <1>11, ConcatProperties
<1>13. ASSUME NEW k \in 1..Len(all)
       PROVE  /\ Len(all[k].args) >= Len(DefaultArgs[all[k].opt])
              /\ ~(a \/ file.assigned) => Fits(all[k])
  <2>1. CASE k <= Len(front)
    <3>1. k \in 1..Len(front) /\ all[k] = front[k]
      BY <1>5, <1>11, <1>12, <2>1
    <3> QED
      BY <3>1 DEF InfosFit
  <2>2. CASE ~(k <= Len(front))
    <3>1. PICK j \in 1..n : all[k] = infos[j]
      <4>1. k - Len(front) \in 1..n
        BY <1>5, <1>11, <1>12, <2>2
      <4> QED
        BY <1>12, <2>2, <4>1
    <3>2. infos[j] \in Info /\ Len(infos[j].args) = Len(DefaultArgs[infos[j].opt])
      BY <1>8
    <3>3. Len(infos[j].args) \in Nat
      BY <3>2, LenProperties DEF Info
    <3>4. ~file.assigned => Fits(infos[j])
      BY <1>3, <1>4, <1>8 DEF InfosFit
    <3> QED
      BY <3>1, <3>2, <3>3, <3>4
  <2> QED
    BY <2>1, <2>2
<1>14. InfosFit(all, a \/ file.assigned)
  <2>1. file.assigned \in BOOLEAN
    BY <1>4 DEF InfosFit
  <2> QED
    BY <1>11, <1>12, <1>13, <2>1 DEF InfosFit
<1>15. PICK behind : behind = SubSeq(all, Len(all) - n + 1, Len(all))
  OBVIOUS
<1>16. Len(all) - n = Len(front) /\ Len(all) - n + 1 \in Int /\ Len(all) \in Int
  BY <1>5, <1>11, <1>12
<1>17. \A k \in (Len(all) - n + 1)..Len(all) : all[k] \in Info
  <2>1. \A k \in (Len(all) - n + 1)..Len(all) : k \in 1..Len(all)
    BY <1>11, <1>16
  <2> QED
    BY <1>12, <2>1, ElementOfSeq
<1>18. /\ behind \in Seq(Info)
       /\ Len(behind) = IF Len(all) - n + 1 <= Len(all)
                        THEN Len(all) - (Len(all) - n + 1) + 1 ELSE 0
       /\ \A k \in 1..(Len(all) - (Len(all) - n + 1) + 1) :
            behind[k] = all[Len(all) - n + 1 + k - 1]
  BY ONLY <1>15, <1>16, <1>17, SubSeqProperties
<1>19. Len(behind) = n /\ \A k \in 1..n : behind[k] = infos[k]
  <2>1. Len(behind) = n
    BY <1>5, <1>11, <1>12, <1>18
  <2>2. ASSUME NEW k \in 1..n
        PROVE  behind[k] = infos[k]
    <3>1. behind[k] = all[Len(all) - n + 1 + k - 1]
      BY <1>5, <1>11, <1>12, <1>18
    <3>2. PICK j : j = Len(all) - n + 1 + k - 1
      OBVIOUS
    <3>3. j \in 1..(Len(front) + n) /\ ~(j <= Len(front)) /\ j - Len(front) = k
      BY <1>5, <1>11, <1>12, <3>2
    <3> QED
      BY <1>12, <3>1, <3>2, <3>3
  <2> QED
    BY <2>1, <2>2
<1>20. ~file.assigned => behind = source
  <2>1. ASSUME ~file.assigned
        PROVE  behind = source
    <3>1. \A k \in 1..Len(behind) : behind[k] = source[k]
      BY <1>8, <1>19, <2>1
    <3> QED
      BY <1>3, <1>5, <1>18, <1>19, <3>1, SeqEqual
  <2> QED
    BY <2>1
<1>21. \A k \in 1..n : /\ behind[k].opt = source[k].opt
                       /\ Len(behind[k].args) = Len(DefaultArgs[behind[k].opt])
  BY <1>8, <1>19
<1>22. \A k \in 1..(Len(all) - n) : all[k] = front[k]
  BY <1>5, <1>11, <1>12
<1>23. BehindIs(front)
  BY <1>3, <1>5, <1>10, <1>11, <1>15, <1>16, <1>20, <1>21, <1>22 DEF BehindIs
<1> QED
  BY <1>2, <1>10, <1>14, <1>23

LEMMA MadeSound ==
  ASSUME SequenceSound, NEW seq \in Seq(Info), \A k \in 1..Len(seq) : Fits(seq[k]), Made(seq)
  PROVE  SequenceSound'
<1>1. sequence' = seq /\ assigned' = FALSE /\ UNCHANGED file
  BY DEF Made
<1>2. \A k \in 1..Len(seq) : Len(seq[k].args) >= Len(DefaultArgs[seq[k].opt])
  BY ElementOfSeq, ArgsFit
<1>3. InfosFit(seq, FALSE)
  BY <1>2 DEF InfosFit
<1> QED
  BY <1>1, <1>3 DEF SequenceSound, InfosFit, Fits

(* One of the infos becomes another one.                                    *)
LEMMA OneFits ==
  ASSUME NEW s, NEW a, InfosFit(s, a), NEW k \in 1..Len(s), NEW info \in Info,
         NEW b \in BOOLEAN, a => b,
         Len(info.args) >= Len(DefaultArgs[info.opt]), ~b => Fits(info)
  PROVE  InfosFit([s EXCEPT ![k] = info], b)
<1>1. PICK t : t = [s EXCEPT ![k] = info]
  OBVIOUS
<1>2. /\ t \in Seq(Info) /\ Len(t) = Len(s)
      /\ \A j \in 1..Len(s) : t[j] = IF j = k THEN info ELSE s[j]
  BY <1>1, ExceptSeq DEF InfosFit
<1>3. ASSUME NEW j \in 1..Len(t)
      PROVE  Len(t[j].args) >= Len(DefaultArgs[t[j].opt]) /\ (~b => Fits(t[j]))
  BY <1>2 DEF InfosFit
<1> QED
  BY <1>1, <1>2, <1>3 DEF InfosFit

LEMMA SetArgSound ==
  ASSUME SequenceSound, NEW k \in DOMAIN sequence, NEW n \in DOMAIN sequence[k].args,
         NEW v \in ValuesOf[sequence[k].args[n].type], setArg(k, n, v)
  PROVE  SequenceSound'
<1>1. sequence \in Seq(Info) /\ k \in 1..Len(sequence)
  BY LenProperties DEF SequenceSound, InfosFit
<1>2. PICK info \in Info : info = sequence[k]
  BY <1>1, ElementOfSeq
<1>3. info = [opt |-> info.opt, args |-> info.args] /\ info.args \in Seq(Args)
  BY DEF Info
<1>4. n \in 1..Len(info.args) /\ info.args[n] \in Args
  BY <1>2, <1>3, LenProperties, ElementOfSeq
<1>5. PICK arg : arg = [info.args[n] EXCEPT !.value = v]
  OBVIOUS
<1>6. arg \in Args /\ arg.type = info.args[n].type
  <2>1. /\ info.args[n] = [type |-> info.args[n].type, value |-> info.args[n].value]
        /\ info.args[n].type \in DOMAIN ValuesOf
    BY <1>4, ArgsAre
  <2>2. arg = [type |-> info.args[n].type, value |-> v]
    BY <1>5, <2>1
  <2> QED
    BY <1>2, <2>1, <2>2, ArgsAre
<1>7. PICK args : args = [info.args EXCEPT ![n] = arg]
  OBVIOUS
<1>8. /\ args \in Seq(Args) /\ Len(args) = Len(info.args)
      /\ \A j \in 1..Len(info.args) : args[j] = IF j = n THEN arg ELSE info.args[j]
  BY <1>3, <1>4, <1>6, <1>7, ExceptSeq
<1>9. PICK after : after = [opt |-> info.opt, args |-> args]
  OBVIOUS
<1>10. after \in Info
  BY <1>8, <1>9 DEF Info
<1>11. sequence' = [sequence EXCEPT ![k] = after] /\ UNCHANGED <<file, assigned>>
  <2>1. sequence' = [sequence EXCEPT ![k].args[n].value = v] /\ UNCHANGED <<file, assigned>>
    BY DEF setArg
  <2> DEFINE was == sequence[k].args[n]
  <2>3. arg = [was EXCEPT !.value = v] /\ args = [sequence[k].args EXCEPT ![n] = arg]
    BY <1>2, <1>5, <1>7
  <2>4. [sequence[k] EXCEPT !.args = args] = after
    BY <1>2, <1>3, <1>9
  <2>5. [sequence[k] EXCEPT !.args[n].value = v] = after
    BY <2>3, <2>4
  <2> QED
    BY <2>1, <2>5
<1>12. /\ Len(after.args) >= Len(DefaultArgs[after.opt])
       /\ ~assigned => Fits(after)
  <2>1. Len(info.args) >= Len(DefaultArgs[info.opt]) /\ (~assigned => Fits(info))
    BY <1>1, <1>2 DEF SequenceSound, InfosFit
  <2> QED
    BY <1>6, <1>8, <1>9, <2>1 DEF Fits
<1>13. InfosFit([sequence EXCEPT ![k] = after], assigned)
  BY <1>1, <1>10, <1>12, OneFits DEF SequenceSound, InfosFit
<1> QED
  BY <1>11, <1>13 DEF SequenceSound, InfosFit, Fits

LEMMA AssignSound ==
  ASSUME SequenceSound, NEW k \in DOMAIN sequence, NEW o \in Optimization, Assign(k, o)
  PROVE  SequenceSound'
<1>1. sequence \in Seq(Info) /\ k \in 1..Len(sequence) /\ assigned \in BOOLEAN
  BY LenProperties DEF SequenceSound, InfosFit
<1>2. PICK info \in Info : info = sequence[k]
  BY <1>1, ElementOfSeq
<1>3. /\ sequence' = [sequence EXCEPT ![k] = Assigned(info, New(o))]
      /\ assigned' = (assigned \/ info.args # <<>>)
      /\ UNCHANGED file
  BY <1>2 DEF Assign
<1>4. PICK new : new = DefaultArgs[o]
  OBVIOUS
<1>5. info.args \in Seq(Args) /\ new \in Seq(Args) /\ Len(new) \in Nat /\ Fits(New(o))
  BY <1>4, NewFits DEF Info
<1>6. PICK after : after = [opt |-> o, args |-> info.args \o new]
  OBVIOUS
<1>7. after = Assigned(info, New(o))
  BY <1>4, <1>6 DEF Assigned, New
<1>8. info.args \o new \in Seq(Args) /\ Len(info.args \o new) = Len(info.args) + Len(new)
  BY <1>5, ConcatProperties
<1>9. after \in Info /\ Len(after.args) >= Len(DefaultArgs[after.opt])
  <2>1. Len(info.args) \in Nat
    BY <1>5, LenProperties
  <2> QED
    BY <1>4, <1>5, <1>6, <1>8, <2>1 DEF Info
<1>10. ASSUME info.args = <<>>
       PROVE  Fits(after)
  <2>1. info.args \o new = new
    BY <1>5, <1>10, ConcatEmptySeq
  <2> QED
    BY <1>4, <1>5, <1>6, <2>1 DEF New, Fits
<1>11. PICK b \in BOOLEAN : b = (assigned \/ info.args # <<>>)
  OBVIOUS
<1>12. InfosFit([sequence EXCEPT ![k] = after], b)
  BY <1>1, <1>9, <1>10, <1>11, OneFits DEF SequenceSound
<1> QED
  BY <1>3, <1>7, <1>11, <1>12 DEF SequenceSound, InfosFit, Fits

(* A sequence that is made new fits, and what happens to it keeps it fitting. *)
LEMMA SequenceStep ==
  ASSUME SequenceSound, NEW m \in Nat, SequencesNext(m)
  PROVE  /\ SequenceSound'
         /\ file # Unprinted /\ file' = Unprinted =>
              \E front : front \in {<<>>, sequence} /\ BehindIs(front)
<1>1. ASSUME NEW n \in Nat, NEW opts \in [1..n -> Optimization],
             Made([k \in 1..n |-> New(opts[k])])
      PROVE  SequenceSound' /\ UNCHANGED file
  <2>1. PICK seq : seq = [k \in 1..n |-> New(opts[k])]
    OBVIOUS
  <2>2. \A k \in 1..n : seq[k] \in Info /\ Fits(seq[k])
    BY <2>1, NewFits
  <2>3. seq \in [1..n -> Info]
    BY <2>1, <2>2
  <2>4. seq \in Seq(Info) /\ Len(seq) = n
    BY <2>3, FunctionIsSeq
  <2>5. Made(seq)
    BY <1>1, <2>1
  <2> QED
    BY <2>2, <2>4, <2>5, MadeSound DEF Made
<1>2. ASSUME NEW n \in Nat, randomize(n)
      PROVE  SequenceSound' /\ UNCHANGED file
  BY <1>1, <1>2 DEF randomize
<1>3. ASSUME NEW n \in Nat, NEW opts \in [1..n -> Optimization], generateOf(opts)
      PROVE  SequenceSound' /\ UNCHANGED file
  <2>1. DOMAIN opts = 1..n /\ Made([k \in DOMAIN opts |-> New(opts[k])])
    BY <1>3 DEF generateOf
  <2> QED
    BY <1>1, <2>1
<1>4. ASSUME NEW k \in DOMAIN sequence, NEW n \in DOMAIN sequence[k].args,
             NEW v \in ValuesOf[sequence[k].args[n].type], setArg(k, n, v)
      PROVE  SequenceSound' /\ UNCHANGED file
  BY <1>4, SetArgSound DEF setArg
<1>5. ASSUME NEW k \in DOMAIN sequence, NEW o \in Optimization, Assign(k, o)
      PROVE  SequenceSound' /\ UNCHANGED file
  BY <1>5, AssignSound DEF Assign
<1>6. ASSUME print
      PROVE  SequenceSound'
  <2>1. /\ file' = [infos |-> [k \in DOMAIN sequence |-> PrintedInfo(sequence[k])],
                    source |-> sequence, assigned |-> assigned]
        /\ UNCHANGED <<sequence, assigned>>
    BY <1>6 DEF print
  <2> QED
    BY <2>1 DEF SequenceSound, InfosFit, Fits
<1>7. ASSUME NEW front, NEW a, InfosFit(front, a), ReadBehind(front),
             assigned' = (a \/ file.assigned)
      PROVE  SequenceSound' /\ BehindIs(front)
  <2>1. InfosFit(sequence', a \/ file.assigned) /\ file' = Unprinted /\ BehindIs(front)
    BY <1>7, ReadBehindIs
  <2> QED
    BY <1>7, <2>1 DEF SequenceSound, InfosFit, Fits
<1>8. ASSUME getSequence
      PROVE  SequenceSound' /\ BehindIs(<<>>)
  <2>1. InfosFit(<<>>, FALSE)
    BY EmptySeq DEF InfosFit
  <2>2. file # Unprinted
    BY <1>8 DEF getSequence, ReadBehind
  <2>3. ReadBehind(<<>>) /\ assigned' = (FALSE \/ file.assigned)
    BY <1>8, <2>2 DEF getSequence, SequenceSound, InfosFit
  <2> QED
    BY <1>7, <2>1, <2>3
<1>9. ASSUME fillSequence
      PROVE  SequenceSound' /\ BehindIs(sequence)
  BY <1>7, <1>9 DEF fillSequence, SequenceSound
<1>10. \A n \in 1..IF file = Unprinted THEN m ELSE 1 : n \in Nat
  OBVIOUS
<1> QED
  BY <1>2, <1>3, <1>4, <1>5, <1>6, <1>8, <1>9, <1>10 DEF SequencesNext

LEMMA SequenceStart == FormsInit => SequenceSound
<1>1. SUFFICES ASSUME sequence = <<>>, file = Unprinted, assigned = FALSE
               PROVE  SequenceSound
  BY DEF FormsInit, SequencesInit
<1>2. InfosFit(<<>>, FALSE)
  BY EmptySeq DEF InfosFit
<1> QED
  BY <1>1, <1>2 DEF SequenceSound

LEMMA FormsSequenceStep ==
  ASSUME SequenceSound, scenario \in Scenarios, [FormsNext]_<<allVars, sequenceVars>>
  PROVE  /\ SequenceSound'
         /\ file # Unprinted /\ file' = Unprinted =>
              \E front : front \in {<<>>, sequence} /\ BehindIs(front)
<1>1. CASE UNCHANGED sequenceVars
  BY <1>1 DEF sequenceVars, SequenceSound, InfosFit, Fits
<1>2. CASE SequencesNext(scenario.maxInfos)
  BY <1>2, SequenceStep, FormsAssumption
<1> QED
  BY <1>1, <1>2 DEF FormsNext

(* A sequence is read back as it was printed, in front of it what there was,  *)
(* for any optimizations, arguments and lengths, and with the arguments each *)
(* takes even if an info was assigned over another.                         *)
THEOREM SequencesReadBack == FormsSpec => SequenceReadsBack
<1>1. IInv => scenario \in Scenarios
  BY DEF IInv, AliveOnce
<1>2. SequenceSound /\ IInv /\ [FormsNext]_<<allVars, sequenceVars>> => SequenceSound'
  BY <1>1, FormsSequenceStep
<1>3. SequenceSound /\ IInv /\ [FormsNext]_<<allVars, sequenceVars>> =>
        [file # Unprinted /\ file' = Unprinted =>
           LET n == Len(file.source)
               behind == SubSeq(sequence', Len(sequence') - n + 1, Len(sequence'))
           IN  /\ Len(sequence') - n \in {0, Len(sequence)}
               /\ \A k \in 1..(Len(sequence') - n) : sequence'[k] = sequence[k]
               /\ IF ~file.assigned THEN behind = file.source
                  ELSE \A k \in 1..n :
                         /\ behind[k].opt = file.source[k].opt
                         /\ Len(behind[k].args) = Len(DefaultArgs[behind[k].opt])]_sequenceVars
  <2>1. ASSUME SequenceSound, IInv, [FormsNext]_<<allVars, sequenceVars>>,
               file # Unprinted, file' = Unprinted
        PROVE  LET n == Len(file.source)
                   behind == SubSeq(sequence', Len(sequence') - n + 1, Len(sequence'))
               IN  /\ Len(sequence') - n \in {0, Len(sequence)}
                   /\ \A k \in 1..(Len(sequence') - n) : sequence'[k] = sequence[k]
                   /\ IF ~file.assigned THEN behind = file.source
                      ELSE \A k \in 1..n :
                             /\ behind[k].opt = file.source[k].opt
                             /\ Len(behind[k].args) = Len(DefaultArgs[behind[k].opt])
    <3>1. PICK front : front \in {<<>>, sequence} /\ BehindIs(front)
      BY <1>1, <2>1, FormsSequenceStep
    <3>2. Len(front) \in {0, Len(sequence)} /\ (front = <<>> => Len(front) = 0)
      BY <3>1, EmptySeq
    <3>3. \A k \in 1..Len(front) : front[k] = sequence[k]
      BY <3>1, <3>2
    <3> QED
      BY <3>1, <3>2, <3>3 DEF BehindIs
  <2> QED
    BY <2>1
<1> QED
  BY <1>2, <1>3, SequenceStart, InitSound, StepSound, PTL DEF FormsSpec, SequenceReadsBack

=============================================================================
