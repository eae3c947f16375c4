SPECIFICATION LifeSpec
CONSTANTS
  Width = 2
  MaxLiteral = 1
  MaxNodes = 6
  Features = {1}
  Counts = {0, 1}
INVARIANTS NothingLeftToCompute SimplifyKeepsValue OrderIsStrict
PROPERTY KnowledgeBaseKeepsFormula
