\* Two candidates a generation, one decision point, two generations.
SPECIFICATION Spec
CONSTANTS
  s1 = s1
  s2 = s2
  plus = plus
  minus = minus
  AllPoints <- OnePoint
  DecisionPoints <- OnePoint
  Shapes = {s1, s2}
  Operators = {plus, minus}
  CandidatesNumber = 2
  GenerationsNumber = 2
  MaxEvolutionRate = 100
  SpeedUps = {10}
  FallbackScore = 7
  KnowledgeBaseFiles <- OnePointFiles
INVARIANTS
  TypeOK
  EntriesDistinct
  ScoresBounded
  CountsKeepPace
  BestMeasuredAgain
  ReportsTheBest
PROPERTIES
  KnowledgeFrozen
  NothingForgotten
