SPECIFICATION LifeSpec
CONSTANTS
  Width = 2
  MaxLiteral = 1
  MaxNodes = 5
  Features = {1}
  Counts = {0}
INVARIANT ExecutesTheOperation
