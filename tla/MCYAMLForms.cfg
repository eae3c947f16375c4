SPECIFICATION FormsSpec
CONSTANTS
  Option <- MCOption
  Static <- MCStatic
  NameOf <- MCNameOf
  IsRequired <- MCIsRequired
  Scenarios <- MCScenarios
  Table <- MCTable
  KindOf <- MCKindOf
  ClassOf <- MCClassOf
  Key = {1, 2}
  SubFeature = {"a", "b"}
  WrapperOption = 2
  BlocksOption = 7
  Optimizations <- MCOptimizations
  DefaultArgs <- MCDefaultArgs
  ValuesOf <- MCValuesOf
INVARIANTS RegisteredAreAlive CopiesAgree RequiredGiven LoopVisitsAll
PROPERTIES ReadsBack SequenceReadsBack
CHECK_DEADLOCK FALSE
