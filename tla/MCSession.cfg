SPECIFICATION Spec
CONSTANTS
  Runs = {r1, r2, r3}
  Heuristics = {h1, h2}
  Orders = {o1, o2}
  Missing = Missing
  Empty = Empty
  None = None
SYMMETRY Symmetry
INVARIANTS KnowledgeKept OneSequence
CHECK_DEADLOCK FALSE
