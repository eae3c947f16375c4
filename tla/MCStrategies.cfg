\* One candidate a generation, two decision points, files of older and of
\* parameterised runs.
SPECIFICATION StrategySpec
CONSTANTS
  s1 = s1
  s2 = s2
  plus = plus
  minus = minus
  AllPoints <- ThreePoints
  DecisionPoints <- TwoPoints
  Shapes = {s1, s2}
  Operators = {plus, minus}
  CandidatesNumber = 1
  GenerationsNumber = 2
  MaxEvolutionRate = 50
  SpeedUps = {10}
  FallbackScore = 7
  KnowledgeBaseFiles <- TwoPointFiles
INVARIANTS
  EvaluatedComplete
PROPERTIES
  EventuallyEnds
  ImplementsStore
