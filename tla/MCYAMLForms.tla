------------------------------ MODULE MCYAMLForms ------------------------------
(* Two units with a copy of print-reduced, the name of a module that is      *)
(* required wherever it is an option, and a name that is only required by one *)
(* of its options, behind one that does not; a pair of tables of every class, *)
(* with one of another; and optimizations without arguments, with one, and   *)
(* with two of different types.                                             *)
EXTENDS YAMLForms

Mixed == 1
Module == 2
PrintReduced == 3

MCOption == 1..7
MCStatic == 1..6
MCNameOf == <<Module, PrintReduced, Mixed, Module, PrintReduced, Mixed, PrintReduced>>
MCIsRequired == <<TRUE, FALSE, FALSE, TRUE, FALSE, TRUE, FALSE>>

MCTable == 1..10
MCKindOf == <<"string", "string", "vector", "vector", "map", "map",
              "mapvector", "mapvector", "blocks", "blocks">>
MCClassOf == [t \in MCTable |-> (t + 1) \div 2]

Configs ==
  UNION {[S -> {"good", "bad"}] : S \in SUBSET {Module, PrintReduced, Mixed, 4}}

UnitOrders == {<<1, 2, 3, 4, 5, 6>>, <<4, 5, 6, 1, 2, 3>>, <<6, 5, 4, 3, 2, 1>>}

(* All configurations and some orders of the units, without features.       *)
Configured ==
  [order : UnitOrders, config : Configs, asserts : BOOLEAN,
   tables : {{}}, reads : {FALSE}, maxRows : {0}, maxLoops : {0}, maxInfos : {0}]

WithTables(names, ts, r, rs, ls) ==
  [order |-> <<1, 2, 3, 4, 5, 6>>, config |-> [n \in names |-> "good"], asserts |-> TRUE,
   tables |-> ts, reads |-> r, maxRows |-> rs, maxLoops |-> ls, maxInfos |-> 0]

Reading(names) ==
  {WithTables(names, {t, t + 1}, TRUE, 2, 0) : t \in {1, 3, 7, 9}}

Looping ==
  {WithTables({Module}, {5, 6}, FALSE, 3, 2), WithTables({Module}, {5, 7}, FALSE, 3, 2),
   WithTables({Module}, {5, 6}, TRUE, 2, 1)}

SequenceForms == [WithTables({Module}, {}, FALSE, 0, 0) EXCEPT !.maxInfos = 2]

MCOptimizations == <<"adce", "gvn", "jump-threading", "scalarrepl">>

Arg(t, v) == [type |-> t, value |-> v]
MCDefaultArgs ==
  [o \in 0..3 |-> CASE o = 0 -> <<>>
                    [] o = 1 -> <<Arg("Bool", TRUE)>>
                    [] o = 2 -> <<Arg("Int", -1)>>
                    [] o = 3 -> <<Arg("Int", -1), Arg("Bool", TRUE)>>]
MCValuesOf == [Int |-> {-1, 0}, Bool |-> BOOLEAN]

MCScenarios ==
  {SequenceForms} \cup Configured \cup Reading({Module})
    \cup Reading({Module, PrintReduced}) \cup Looping
================================================================================
