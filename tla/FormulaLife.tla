------------------------------ MODULE FormulaLife ------------------------------
(***************************************************************************)
(* One formula of a candidate through the generations: it is generated and  *)
(* simplified when the candidate misses it, evolved and simplified again    *)
(* each time a clone evolves, and written to and read from the knowledge    *)
(* base between runs.                                                      *)
(***************************************************************************)
EXTENDS Formula, Sequences

VARIABLES
  form,  \* the formula
  raw    \* history: what was simplified last

lifeVars == <<form, raw>>

LifeInit ==
  /\ raw \in UNION {Formulas(t, MaxNodes) : t \in Types}
  /\ form \in Simplified[raw]

Evolve ==
  /\ raw' \in Evolved[form][MaxNodes]
  /\ form' \in Simplified[raw']

SaveAndLoad ==
  /\ form' = Read[Node[form]]
  /\ UNCHANGED raw

LifeNext == Evolve \/ SaveAndLoad

LifeSpec == LifeInit /\ [][LifeNext]_lifeVars

(***************************************************************************)
(* Properties.                                                             *)
(***************************************************************************)
(* The type of each part of a formula that the code casts it to.            *)
WellTyped(f) ==
  CASE isLiteral(f) -> f.value \in IF f.type = "Bool" THEN 0..1 ELSE Ints
    [] f.kind = "feature" -> f.type = "Int" /\ f.pair \in Features
    [] isBinOp(f) -> /\ f.type = IF f.kind = "arith-binop" THEN "Int" ELSE "Bool"
                     /\ f.kind = "arith-binop" => f.optype = "Int"
                     /\ getOperator(f) \in OperatorsOf(f.kind, f.optype)
                     /\ f.lhs.type = f.optype
                     /\ f.rhs.type = f.optype
    [] f.kind = "if" -> /\ f.cond.type = "Bool"
                        /\ f.then.type = f.type
                        /\ f.else.type = f.type

Simple(f) ==
  /\ isBinOp(f) => ~(isLiteral(f.lhs) /\ isLiteral(f.rhs))
  /\ f.kind = "arith-binop" /\ getOperator(f) = DIV => f.rhs # Lit("Int", 0)
  /\ f.kind = "if" => ~isLiteral(f.cond)

(* However a formula evolved, every operand has the type the code casts it   *)
(* to, every operator is one of its formula's, and the type of the formula  *)
(* is kept. Once simplified, nothing is left to compute: no operation on    *)
(* two literals, no if with a literal condition, and nothing divided by a   *)
(* literal zero.                                                           *)
NothingLeftToCompute ==
  /\ raw.type = form.type
  /\ \A f \in Subformulas[form] \cup Subformulas[raw] : WellTyped(f)
  /\ \A f \in Subformulas[form] : Simple(f)

(* A division simplification finds to have a literal zero for its divisor.  *)
DividesByZero(f) ==
  /\ f.kind = "arith-binop"
  /\ getOperator(f) = DIV
  /\ Lit("Int", 0) \in Simplified[f.rhs]

(* Simplifying a formula does not change what it evaluates to, whatever the *)
(* features of the module, but where it replaces a divisor of zero.         *)
SimplifyKeepsValue ==
  \/ \E f \in Subformulas[raw] : DividesByZero(f)
  \/ \A set \in FeatureSets : Solve[form][set] = Solve[raw][set]

(* A formula read back from the knowledge base is the one written, operators *)
(* included, although operator== would not tell.                            *)
KnowledgeBaseKeepsFormula == [][SaveAndLoad => form' = form]_lifeVars

(* What a formula is compared with: small formulas, and its own past.       *)
Others == {raw} \cup UNION {Formulas(t, 3) : t \in Types}

Before(f, g) == Less[f][g] = {TRUE}
NotBefore(f, g) == Less[f][g] = {FALSE}

(* Whatever a feature that is compared with another formula reads there, the *)
(* comparisons whose outcome does not depend on it are those of an order, as *)
(* std::set and std::map need one: nothing is before itself, no formula is   *)
(* surely before one that is surely before it, the order is transitive, and  *)
(* the formulas neither of which is before the other are those that          *)
(* operator== surely holds of.  The outcomes that do depend on it may break  *)
(* the order (FeatureFormula.h:74).                                         *)
OrderIsStrict ==
  /\ NotBefore(form, form)
  /\ \A g \in Others :
       /\ Before(form, g) => FALSE \in Less[g][form]
       /\ NotBefore(form, g) /\ NotBefore(g, form) <=> Equal[form][g] = {TRUE}
       /\ Before(form, g) /\ Before(g, raw) => TRUE \in Less[form][raw]
       /\ Before(raw, g) /\ Before(g, form) => TRUE \in Less[raw][form]

(* BinOpFormula.h:21 of doOperation: "Executes the specified operation, and *)
(* returns the value."  The operation specified is the one getOperator      *)
(* returns, which is also the one written to the knowledge base.            *)
ExecutesTheOperation ==
  isBinOp(form) =>
    \A a, b \in IF form.optype = "Bool" THEN 0..1 ELSE 0..MaxLiteral :
      doOperation(form, a, b) = Apply(getOperator(form), a, b)
================================================================================
