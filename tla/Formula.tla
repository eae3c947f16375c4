-------------------------------- MODULE Formula --------------------------------
(***************************************************************************)
(* The formulas of a candidate: how they are generated, evolved, simplified,*)
(* evaluated, ordered and written to the knowledge base.                    *)
(*                                                                         *)
(* A formula is a record.  The types are those the grammar generates, Int   *)
(* and Bool; a Bool is 0 or 1.  An operator is kept as the code keeps it,   *)
(* as its distance from the first operator of its formula's kind.           *)
(***************************************************************************)
EXTENDS Integers, FiniteSets

CONSTANTS
  Width,       \* bound: an int has this many bits
  MaxLiteral,  \* bound: the largest literal that is generated
  MaxNodes,    \* bound: how many formulas a formula is made of, itself included
  Features,    \* the int features, by their place in the order of their names
  Counts       \* bound: the values a feature may have

(* One more than the largest int.                                          *)
Half == 2 ^ (Width - 1)

ASSUME FormulaAssumption ==
  /\ {Width, MaxLiteral, MaxNodes, Half} \subseteq Nat \ {0}
  /\ MaxLiteral < Half
  /\ IsFiniteSet(Features) /\ Features \subseteq Nat /\ Features # {}
  /\ Counts \subseteq Nat

Types == {"Int", "Bool"}
Ints == -Half .. Half - 1

(* enum OperatorKind.                                                      *)
PLUS == 0
MIN  == 1
MUL  == 2
DIV  == 3
LT   == 4
GT   == 5
LEQ  == 6
GEQ  == 7
EQ   == 8
NEQ  == 9
AND  == 10
OR   == 11

Lit(t, v)   == [kind |-> "literal", type |-> t, value |-> v]
Feature(p)  == [kind |-> "feature", type |-> "Int", pair |-> p]
Arith(o, l, r) ==
  [kind |-> "arith-binop", type |-> "Int", optype |-> "Int", op |-> o, lhs |-> l, rhs |-> r]
Boolean(t, o, l, r) ==
  [kind |-> "bool-binop", type |-> "Bool", optype |-> t, op |-> o, lhs |-> l, rhs |-> r]
If(t, c, a, b) == [kind |-> "if", type |-> t, cond |-> c, then |-> a, else |-> b]

isLiteral(f) == f.kind = "literal"
isBinOp(f) == f.kind \in {"arith-binop", "bool-binop"}

(* The parts of a formula that are formulas.                                *)
Parts(f) ==
  CASE isBinOp(f)    -> {"lhs", "rhs"}
    [] f.kind = "if" -> {"cond", "then", "else"}
    [] OTHER         -> {}

(* What the fields of a formula can hold: formulas n deep, if their parts    *)
(* are in S, whether or not types and operators fit.                        *)
Atoms ==
  [kind : {"literal"}, type : Types, value : Int]
    \cup [kind : {"feature"}, type : {"Int"}, pair : Features]

BinOps(S) ==
  [kind : {"arith-binop", "bool-binop"}, type : Types, optype : Types, op : Int,
   lhs : S, rhs : S]

Ifs(S) == [kind : {"if"}, type : Types, cond : S, then : S, else : S]

Trees[n \in Nat] ==
  IF n = 0 THEN {} ELSE Atoms \cup BinOps(Trees[n - 1]) \cup Ifs(Trees[n - 1])

Tree == Trees[MaxNodes]

Subformulas[f \in Tree] == {f} \cup UNION {Subformulas[f[part]] : part \in Parts(f)}

(***************************************************************************)
(* Operators.                                                              *)
(***************************************************************************)
(* ints wrap around, as the instructions the build emits for them do.       *)
Wrap(n) == ((n + Half) % (2 * Half)) - Half

Abs(n) == IF n < 0 THEN -n ELSE n
Quotient(a, b) ==
  LET q == Abs(a) \div Abs(b) IN IF (a < 0) = (b < 0) THEN q ELSE -q

Truth(P) == IF P THEN 1 ELSE 0

(* What the operators mean.                                                *)
Apply(k, a, b) ==
  CASE k = PLUS -> Wrap(a + b)
    [] k = MIN  -> Wrap(a - b)
    [] k = MUL  -> Wrap(a * b)
    [] k = DIV  -> IF b = 0 THEN 0 ELSE Wrap(Quotient(a, b))
    [] k = LT   -> Truth(a < b)
    [] k = GT   -> Truth(a > b)
    [] k = LEQ  -> Truth(a <= b)
    [] k = GEQ  -> Truth(a >= b)
    [] k = EQ   -> Truth(a = b)
    [] k = NEQ  -> Truth(a # b)
    [] k = AND  -> Truth(a = 1 /\ b = 1)
    [] k = OR   -> Truth(a = 1 \/ b = 1)

(* The operators a formula of that kind and operand type can have.          *)
OperatorsOf(kind, optype) ==
  CASE kind = "arith-binop" -> PLUS .. DIV
    [] kind = "bool-binop" /\ optype = "Int" -> LT .. NEQ
    [] kind = "bool-binop" /\ optype = "Bool" -> EQ .. OR

getMinOperator(kind, optype) ==
  CASE kind = "arith-binop" -> PLUS
    [] kind = "bool-binop" /\ optype = "Int" -> LT
    [] kind = "bool-binop" /\ optype = "Bool" -> EQ

getNumberOfOperators(kind, optype) ==
  Cardinality(OperatorsOf(kind, optype))

getOperator(f) == f.op + getMinOperator(f.kind, f.optype)

(* A boolean formula adds DIV, not its first operator, to find the operator *)
(* it executes; what is not one of its operators yields false.              *)
doOperation(f, a, b) ==
  LET k == IF f.kind = "arith-binop" THEN f.op ELSE f.op + DIV
  IN  IF k \in OperatorsOf(f.kind, f.optype) THEN Apply(k, a, b) ELSE 0

(***************************************************************************)
(* Evaluation for the features of a module.                                *)
(***************************************************************************)
FeatureSets == [Features -> Counts]

Solve[f \in Tree] ==
  [set \in FeatureSets |->
     CASE isLiteral(f)       -> f.value
       [] f.kind = "feature" -> set[f.pair]
       [] isBinOp(f)         -> doOperation(f, Solve[f.lhs][set], Solve[f.rhs][set])
       [] OTHER              -> IF Solve[f.cond][set] = 1 THEN Solve[f.then][set]
                                                          ELSE Solve[f.else][set]]

(***************************************************************************)
(* Generation and simplification: sets of outcomes, for the dice.          *)
(***************************************************************************)
Literals(t) == {Lit(t, v) : v \in IF t = "Bool" THEN 0..1 ELSE 0..MaxLiteral}

(* Mutant: no divisor is looked at.                                         *)
AnyDivisor(f) == {f.rhs}

(* checkZeroDivision: a literal zero to divide by is generated again until  *)
(* it is none.                                                             *)
Divisors(f) ==
  IF f.kind = "arith-binop" /\ getOperator(f) = DIV /\ isLiteral(f.rhs) /\ f.rhs.value = 0
  THEN {Lit("Int", v) : v \in 1..MaxLiteral}
  ELSE {f.rhs}

checkZeroDivision(f) == {[f EXCEPT !.rhs = r] : r \in Divisors(f)}

Nodes[f \in Tree] ==
  CASE isBinOp(f) -> 1 + Nodes[f.lhs] + Nodes[f.rhs]
    [] f.kind = "if" -> 1 + Nodes[f.cond] + Nodes[f.then] + Nodes[f.else]
    [] OTHER -> 1

(* What is generated of operands that were.                                 *)
OpNumbers(kind, optype) == 0 .. getNumberOfOperators(kind, optype) - 1

Ariths(L, R) ==
  UNION {checkZeroDivision(Arith(o, l, r)) :
           o \in OpNumbers("arith-binop", "Int"), l \in L, r \in R}

Booleans(t, L, R) ==
  {Boolean(t, o, l, r) : o \in OpNumbers("bool-binop", t), l \in L, r \in R}

Choices(t, C, A, B) == {If(t, c, a, b) : c \in C, a \in A, b \in B}

(* generateFormula: the formulas of a type that are made of n.              *)
Generated[n \in 1..MaxNodes] ==
  [t \in Types |->
     IF n = 1
     THEN Literals(t) \cup (IF t = "Int" THEN {Feature(p) : p \in Features} ELSE {})
     ELSE (UNION {IF t = "Int"
                  THEN Ariths(Generated[i]["Int"], Generated[n - 1 - i]["Int"])
                  ELSE UNION {Booleans(u, Generated[i][u], Generated[n - 1 - i][u]) : u \in Types} :
                    i \in 1..n-2})
          \cup (UNION {UNION {Choices(t, Generated[i]["Bool"], Generated[j][t],
                                      Generated[n - 1 - i - j][t]) :
                                j \in 1..n-2-i} : i \in 1..n-3})]

Grammar == [n \in 1..MaxNodes |-> Generated[n]]
Formulas(t, max) == UNION {Grammar[n][t] : n \in {n \in 1..MaxNodes : n <= max}}

(* Mutant: nothing is left to compute when the first operand is zero.      *)
FoldedZero(f) ==
  IF isLiteral(f.lhs) /\ f.lhs.value = 0 THEN Lit(f.type, 0)
  ELSE IF isLiteral(f.lhs) /\ isLiteral(f.rhs)
       THEN Lit(f.type, doOperation(f, f.lhs.value, f.rhs.value))
       ELSE f

(* A binary operation of two literals becomes the literal it yields.        *)
Folded(f) ==
  IF isLiteral(f.lhs) /\ isLiteral(f.rhs)
  THEN Lit(f.type, doOperation(f, f.lhs.value, f.rhs.value))
  ELSE f

(* An if whose condition became a literal becomes its branch.               *)
Chosen(f) ==
  IF isLiteral(f.cond) THEN IF f.cond.value = 1 THEN f.then ELSE f.else ELSE f

(* What a binary operation, or an if, becomes once its operands are simplified. *)
SimplifiedOp(f, L, R) ==
  {Folded(g) : g \in UNION {checkZeroDivision([f EXCEPT !.lhs = l, !.rhs = r]) :
                              l \in L, r \in R}}

SimplifiedIf(f, C, A, B) ==
  {Chosen([f EXCEPT !.cond = c, !.then = a, !.else = b]) : c \in C, a \in A, b \in B}

Simplified[f \in Tree] ==
  CASE isBinOp(f) -> SimplifiedOp(f, Simplified[f.lhs], Simplified[f.rhs])
    [] f.kind = "if" -> SimplifiedIf(f, Simplified[f.cond], Simplified[f.then], Simplified[f.else])
    [] OTHER -> {f}

(***************************************************************************)
(* Evolution: SimpleEvolution changes one place of a formula.               *)
(***************************************************************************)
(* UniformRandom: floor(Die * (to - from + 1)) + from, Die in [0, 1).       *)
RandomInts(from, to) == IF to >= from THEN from..to ELSE to + 1 .. from

Evolutions(v) == RandomInts(0, Wrap(2 * v))

(* One of the operands is mutated, replaced by any formula of its type, or  *)
(* evolves itself; a literal, or a feature, takes another value.  The       *)
(* result is made of at most max.                                          *)
Evolved[f \in Tree] ==
  [max \in Int |->
     CASE isLiteral(f) ->
            {Lit(f.type, v) : v \in IF f.type = "Bool" THEN {1 - f.value}
                                                       ELSE Evolutions(f.value)}
       [] f.kind = "feature" -> {Feature(p) : p \in Features}
       [] OTHER ->
            UNION {LET room == max - Nodes[f] + Nodes[f[part]]
                   IN  {[f EXCEPT ![part] = g] :
                          g \in Formulas(f[part].type, room) \cup Evolved[f[part]][room]} :
                   part \in Parts(f)}]

(***************************************************************************)
(* Comparison.  Operators are not looked at.                               *)
(***************************************************************************)
KindNumber(f) ==
  CASE isLiteral(f) -> 0 [] f.kind = "bool-binop" -> 1 [] f.kind = "arith-binop" -> 2
    [] f.kind = "if" -> 3 [] f.kind = "feature" -> 4
TypeNumber(t) == IF t = "Int" THEN 0 ELSE 2

(* getOperandsType: that of a formula without operands is its own.          *)
OperandsType(f) == IF isBinOp(f) THEN f.optype ELSE f.type

(* In the order they are compared.                                          *)
Operands(f) ==
  CASE isBinOp(f) -> <<f.lhs, f.rhs>>
    [] f.kind = "if" -> <<f.cond, f.then, f.else>>
    [] OTHER -> <<>>

(* The value of a literal, or the place of a feature.                       *)
Leaf(f) == IF isLiteral(f) THEN f.value ELSE f.pair

(* Mutant: only the first operands are compared.                            *)
ComparedFirst(f) == DOMAIN Operands(f) \cap {1}

(* The operands that are compared: all of them.                             *)
Compared(f) == DOMAIN Operands(f)

(* operator== of a feature returns early only if kind AND type differ: of    *)
(* another formula of its type it reads a name that is not there.           *)
Misread(f, g) == f.kind = "feature" /\ g.kind # "feature" /\ f.type = g.type

(* What is compared before the operands.                                    *)
SameHead(f, g) ==
  f.kind = g.kind /\ f.type = g.type /\ OperandsType(f) = OperandsType(g)

(* operator==: the set of its outcomes, for what it may read.               *)
Equal[f \in Tree] ==
  [g \in Tree |->
     IF Misread(f, g) THEN BOOLEAN
     ELSE IF ~SameHead(f, g) THEN {FALSE}
     ELSE IF Operands(f) = <<>> THEN {Leaf(f) = Leaf(g)}
     ELSE {answer \in BOOLEAN :
             IF answer THEN \A i \in Compared(f) : TRUE \in Equal[Operands(f)[i]][Operands(g)[i]]
             ELSE \E i \in Compared(f) : FALSE \in Equal[Operands(f)[i]][Operands(g)[i]]}]

(* operator<, likewise: the first operands that are found different decide.  *)
Less[f \in Tree] ==
  [g \in Tree |->
     IF KindNumber(f) # KindNumber(g) THEN {KindNumber(f) < KindNumber(g)}
     ELSE IF f.type # g.type THEN {TypeNumber(f.type) < TypeNumber(g.type)}
     ELSE IF OperandsType(f) # OperandsType(g)
          THEN {TypeNumber(OperandsType(f)) < TypeNumber(OperandsType(g))}
     ELSE IF Operands(f) = <<>> THEN {Leaf(f) < Leaf(g)}
     ELSE {answer \in BOOLEAN :
             \/ /\ answer = FALSE
                /\ \A i \in DOMAIN Operands(f) : TRUE \in Equal[Operands(f)[i]][Operands(g)[i]]
             \/ \E i \in DOMAIN Operands(f) :
                  /\ \A j \in 1..i-1 : TRUE \in Equal[Operands(f)[j]][Operands(g)[j]]
                  /\ FALSE \in Equal[Operands(f)[i]][Operands(g)[i]]
                  /\ answer \in Less[Operands(f)[i]][Operands(g)[i]]}]

(***************************************************************************)
(* The knowledge base: a formula is written as a map of the operator's name *)
(* and the operands' maps, and read back.                                  *)
(***************************************************************************)
Node[f \in Tree] ==
  CASE isBinOp(f) -> [f EXCEPT !.op = getOperator(f), !.lhs = Node[f.lhs], !.rhs = Node[f.rhs]]
    [] f.kind = "if" ->
         [f EXCEPT !.cond = Node[f.cond], !.then = Node[f.then], !.else = Node[f.else]]
    [] OTHER -> f

(* Mutant: setOperatorId's place taken for setOperator's.                   *)
setOperatorId(n, k) == k

setOperator(n, k) == k - getMinOperator(n.kind, n.optype)

Read[n \in Tree] ==
  CASE isBinOp(n) ->
         [n EXCEPT !.op = setOperator(n, n.op), !.lhs = Read[n.lhs], !.rhs = Read[n.rhs]]
    [] n.kind = "if" ->
         [n EXCEPT !.cond = Read[n.cond], !.then = Read[n.then], !.else = Read[n.else]]
    [] OTHER -> n
================================================================================
