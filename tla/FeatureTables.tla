----------------------------- MODULE FeatureTables -----------------------------
(***************************************************************************)
(* The containers that features keep their values in, the iterators over    *)
(* their keys, and how containers are printed and read back, in a program    *)
(* whose options say how.                                                  *)
(*                                                                         *)
(* A table has a row for each of its keys, and a row a value for each of the *)
(* sub-features, or one value of its own. A feature without keys has a      *)
(* single row. The iterators of all tables of one class are the same two    *)
(* objects, which beginKeys and endKeys set and return. A scenario also has  *)
(* the features in use, whether what is printed is read again, and two       *)
(* bounds: on the rows that values are set in and on loops inside one another. *)
(***************************************************************************)
EXTENDS Options

CONSTANTS
  Table,         \* the features there are
  KindOf,        \* the container of each, "blocks" for that of cfg_bb_static
  ClassOf,       \* the class that the template is made into
  Key,           \* their keys
  SubFeature,    \* the sub-features of those that have any
  WrapperOption, \* the copy of print-reduced in the unit that prints
  BlocksOption   \* the local one of cfg_bb_static

ASSUME TablesAssumption ==
  /\ KindOf \in [Table -> {"string", "vector", "map", "mapvector", "blocks"}]
  /\ DOMAIN ClassOf = Table
  /\ \A t, u \in Table : ClassOf[t] = ClassOf[u] => KindOf[t] = KindOf[u]
  /\ Key \subseteq Nat \ {0} /\ IsFiniteSet(SubFeature) /\ SubFeature # {}
  /\ WrapperOption \in Static /\ BlocksOption \in Option \ Static
  /\ \A s \in Scenarios : s.tables \subseteq Table /\ {s.maxRows, s.maxLoops} \subseteq Nat

VARIABLES
  rows,    \* the rows of each table, by key
  It,      \* of each class: the table and the key at which beginKeys' object is
  End,     \* of each class: the same of endKeys' object
  loops,   \* the loops over keys that go on, the innermost one last
  printed  \* what is printed and not read yet

tableVars == <<rows, It, End, loops, printed>>
allVars == <<optionVars, tableVars>>

Idle == stage = "running" /\ Alive \subseteq Static
Nothing == <<>>
Values == {0, 1}

HasKeys(t) == KindOf[t] \notin {"string", "vector"}
Columns(t) == IF KindOf[t] \in {"string", "map"} THEN {"itself"} ELSE SubFeature
ZeroRow(t) == [s \in Columns(t) |-> 0]

TablesInit ==
  /\ OptionsInit
  /\ rows = [t \in Table |-> IF HasKeys(t) THEN <<>> ELSE [k \in {0} |-> ZeroRow(t)]]
  /\ It = [c \in Range(ClassOf) |-> Nothing]
  /\ End = [c \in Range(ClassOf) |-> Nothing]
  /\ loops = <<>>
  /\ printed = Nothing

-----------------------------------------------------------------------------
(***************************************************************************)
(* Values.                                                                 *)
(***************************************************************************)

(* Mutant: without the early return.                                        *)
NewVectorOfKey(t, r, k) == [j \in DOMAIN r \cup {k} |-> IF j = k THEN ZeroRow(t) ELSE r[j]]

initVectorOfKey(t, r, k) ==
  [j \in DOMAIN r \cup {k} |-> IF j \in DOMAIN r THEN r[j] ELSE ZeroRow(t)]

WithValue(t, r, k, s, v) == [initVectorOfKey(t, r, k) EXCEPT ![k][s] = v]

SetValue(t, k, s, v) ==
  /\ Idle
  /\ rows' = [rows EXCEPT ![t] = WithValue(t, @, k, s, v)]
  /\ MapThenSumSet(LAMBDA u : Cardinality(DOMAIN rows'[u]), scenario.tables) <= scenario.maxRows
  /\ UNCHANGED <<optionVars, It, End, loops, printed>>

setValueOf(t, s, v) == ~HasKeys(t) /\ SetValue(t, 0, s, v)
setValueOfKey(t, k, s, v) == HasKeys(t) /\ SetValue(t, k, s, v)

-----------------------------------------------------------------------------
(***************************************************************************)
(* Loops over the keys: for (auto &I = beginKeys(), &E = endKeys(); I != E;  *)
(* ++I), whose body may do anything, loops over other tables included. A    *)
(* pointer to no key, at the end, is 0.                                     *)
(***************************************************************************)
Ahead(t, k) == {j \in DOMAIN rows[t] : j > k}
KeyAfter(t, k) == IF Ahead(t, k) = {} THEN 0 ELSE Min(Ahead(t, k))

(* Mutant: the static object is initialized once.                           *)
beginOnce(t) == IF It[ClassOf[t]] = Nothing THEN <<t, KeyAfter(t, 0)>> ELSE It[ClassOf[t]]

beginKeys(t) == <<t, KeyAfter(t, 0)>>
endKeys(t) == <<t, 0>>

(* History: the loops whose iterators a new one takes are not followed.     *)
Disturbed(t) ==
  [j \in DOMAIN loops |->
     IF ClassOf[loops[j].table] = ClassOf[t]
     THEN [loops[j] EXCEPT !.alone = FALSE, !.seen = <<>>, !.had = {}]
     ELSE loops[j]]

StartLoop(t) ==
  /\ Idle
  /\ HasKeys(t)
  /\ Len(loops) < scenario.maxLoops
  /\ loops # <<>> => Last(loops).at = "body"
  /\ It' = [It EXCEPT ![ClassOf[t]] = beginKeys(t)]
  /\ End' = [End EXCEPT ![ClassOf[t]] = endKeys(t)]
  /\ loops' = Append(Disturbed(t),
       [table |-> t, at |-> "test", seen |-> <<>>, had |-> DOMAIN rows[t], alone |-> TRUE])
  /\ UNCHANGED <<optionVars, rows, printed>>

InLoop(at) ==
  /\ Idle
  /\ loops # <<>>
  /\ Last(loops).at = at

class == ClassOf[Last(loops).table]
position == It[class][2]

LoopTest ==
  /\ InLoop("test")
  /\ loops' = IF It[class] = End[class] THEN Front(loops)
              ELSE [loops EXCEPT ![Len(loops)].at = "body",
                                 ![Len(loops)].seen =
                                   IF Last(loops).alone THEN Append(@, position) ELSE @]
  /\ UNCHANGED <<optionVars, rows, It, End, printed>>

(* Past the end, where a loop over a table of the class may have left the   *)
(* iterator, ++ goes anywhere in the map, or nowhere.                       *)
LoopIncrement ==
  /\ InLoop("body")
  /\ loops' = [loops EXCEPT ![Len(loops)].at = "test"]
  /\ LET t == It[class][1]
     IN  \E k \in IF position = 0 THEN DOMAIN rows[t] \cup {0} ELSE {KeyAfter(t, position)} :
           It' = [It EXCEPT ![class] = <<t, k>>]
  /\ UNCHANGED <<optionVars, rows, End, printed>>

LoopBreak ==
  /\ InLoop("body")
  /\ loops' = Front(loops)
  /\ UNCHANGED <<optionVars, rows, It, End, printed>>

-----------------------------------------------------------------------------
(***************************************************************************)
(* Printing, and reading what was printed.                                  *)
(***************************************************************************)
Reduced(o) == Value[o] = "default"
Skips(t, o) == KindOf[t] \notin {"string", "map"} /\ Reduced(o)

PrintedRow(t, o, row) ==
  Restrict(row, {s \in Columns(t) : ~(Skips(t, o) /\ row[s] = 0)})

(* The row of a key is printed even when all of its values are left out.     *)
Printed(t, o) ==
  IF ~scenario.reads THEN Nothing ELSE
  [class  |-> ClassOf[t],
   rows   |-> [k \in DOMAIN rows[t] |-> PrintedRow(t, o, rows[t][k])],
   source |-> [reduced |-> Skips(t, o), rows |-> rows[t]]]

(* The loop over the keys is one like any other.                            *)
append(t) ==
  /\ Idle
  /\ KindOf[t] # "blocks"
  /\ loops # <<>> => Last(loops).at = "body"
  /\ printed' = Printed(t, WrapperOption)
  /\ IF HasKeys(t)
     THEN /\ It' = [It EXCEPT ![ClassOf[t]] = endKeys(t)]
          /\ End' = [End EXCEPT ![ClassOf[t]] = endKeys(t)]
          /\ loops' = Disturbed(t)
     ELSE UNCHANGED <<It, End, loops>>
  /\ UNCHANGED <<optionVars, rows>>

(* cfg_bb_static prints its map itself, and with an option of its own, which *)
(* it constructs then: the configuration does not reach it.                 *)
EnterAppendBlocks ==
  /\ \E t \in scenario.tables : KindOf[t] = "blocks"
  /\ loops # <<>> => Last(loops).at = "body"
  /\ Alive \subseteq Static
  /\ EnterFunction(BlocksOption)
  /\ UNCHANGED tableVars

AppendBlocks(t) ==
  /\ KindOf[t] = "blocks"
  /\ LeaveFunction
  /\ printed' = Printed(t, BlocksOption)
  /\ UNCHANGED <<rows, It, End, loops>>

Elements(p) == UNION {{<<k, s>> : s \in DOMAIN p.rows[k]} : k \in DOMAIN p.rows}

(* get, which fills the table: what it has and what was not printed stays.   *)
fill(t) ==
  /\ Idle
  /\ printed # Nothing
  /\ ClassOf[t] = printed.class
  /\ rows' = [rows EXCEPT ![t] =
       FoldSet(LAMBDA e, r : WithValue(t, r, e[1], e[2], printed.rows[e[1]][e[2]]),
               @, Elements(printed))]
  /\ printed' = Nothing
  /\ UNCHANGED <<optionVars, It, End, loops>>

TablesNext ==
  \/ Lifecycle /\ loops = <<>> /\ UNCHANGED tableVars
  \/ EnterAppendBlocks
  \/ LoopTest
  \/ LoopIncrement
  \/ LoopBreak
  \/ \E t \in scenario.tables :
       \/ \E s \in Columns(t), v \in Values :
            setValueOf(t, s, v) \/ \E k \in Key : setValueOfKey(t, k, s, v)
       \/ StartLoop(t)
       \/ append(t)
       \/ AppendBlocks(t)
       \/ fill(t)

TablesSpec == TablesInit /\ [][TablesNext]_allVars

-----------------------------------------------------------------------------
(***************************************************************************)
(* Properties.                                                             *)
(***************************************************************************)

(* A loop over the keys of a table comes to each key it began with once and  *)
(* in order, whatever is added to its table, looped over, printed or read in *)
(* between, as long as no other loop is over a table of the same class.     *)
LoopVisitsAll ==
  \A j \in DOMAIN loops : loops[j].alone =>
    LET l == loops[j]
        p == It[ClassOf[l.table]][2]
    IN  /\ It[ClassOf[l.table]][1] = l.table
        /\ \A m, n \in DOMAIN l.seen : m < n => l.seen[m] < l.seen[n]
        /\ Range(l.seen) \subseteq DOMAIN rows[l.table]
        /\ {k \in l.had : p = 0 \/ k < p} \subseteq Range(l.seen)

(* Reading back what was printed brings back every value that is not zero,   *)
(* and into a fresh table all the values there were: of a table printed     *)
(* reduced, only rows of zeros are lost.                                    *)
ReadsBack ==
  [][\A t \in Table : fill(t) =>
       LET source == printed.source
           lost == IF HasKeys(t) /\ source.reduced
                   THEN {k \in DOMAIN source.rows : Range(source.rows[k]) = {0}} ELSE {}
           kept == DOMAIN source.rows \ lost
       IN  /\ \A k \in kept, s \in Columns(t) :
                source.rows[k][s] # 0 => rows'[t][k][s] = source.rows[k][s]
           /\ (\A k \in DOMAIN rows[t] : Range(rows[t][k]) = {0} /\ ~HasKeys(t)) =>
                rows'[t] = Restrict(source.rows, kept)]_allVars
================================================================================
