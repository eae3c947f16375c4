----------------------------- MODULE MCProgramFeatures -----------------------------
(* Every instruction before a return; every graph of up to three blocks; every *)
(* choice of names for three functions with and without bodies, of none, of   *)
(* their own and of those that are made for functions without one.          *)
EXTENDS ProgramFeatures

Plain(o) == [op |-> o, args |-> 0, pointers |-> 0, returns |-> "void"]
Calls == [op : {"call"}, args : {0, 4, 5}, pointers : {0, 2},
          returns : {"void", "int", "flt", "ptr", "struct"}]
Instructions ==
  {Plain(o) : o \in Opcodes \ (Terminators \cup {"call"})}
    \cup {c \in Calls : c.pointers <= c.args}

Ends(n) ==
  {[insts |-> <<Plain("terminator")>>, succs |-> <<>>]}
    \cup {[insts |-> <<Plain("uncondbr")>>, succs |-> <<t>>] : t \in 2..n}
    \cup {[insts |-> <<Plain(o)>>, succs |-> <<t, u>>] :
            o \in {"condbr", "invoke"}, t, u \in 2..n}
    \cup {[insts |-> <<Plain(o)>>, succs |-> <<t, u, 2>>] :
            o \in {"switch", "indirectbr"}, t, u \in 2..n}

Return == CHOOSE e \in Ends(1) : TRUE
Body(b) == [name |-> <<"f">>, blocks |-> b]

SingleBlocks ==
  {<<Body(<<[insts |-> <<i, Plain("terminator")>>, succs |-> <<>>]>>)>> :
     i \in Instructions}
Graphs == {<<Body(b)>> : b \in [1..2 -> Ends(2)] \cup [1..3 -> Ends(3)]}

Bodies == {<<>>, <<Return>>,
           <<[insts |-> <<Plain("load"), Plain("uncondbr")>>, succs |-> <<2>>], Return>>}
Names(f) == {<<>>, << <<"f", "g", "h">>[f] >>, <<"Nameless", 0>>, <<"Nameless", 1>>}
Named ==
  {p \in [1..3 -> [name : UNION {Names(f) : f \in 1..3}, blocks : Bodies]] :
     /\ \A f \in 1..3 : p[f].name \in Names(f)
     /\ \A f, g \in 1..3 : p[f].name = p[g].name => f = g \/ p[f].name = <<>>}

MCPrograms == SingleBlocks \cup Graphs \cup Named

=============================================================================
