SPECIFICATION ClientSpec
CONSTANTS
  Infos <- MCInfos
  Default = 0
  ClientInfos <- MCClientInfos
  MaxRep = 2
  MaxEntries = 2
  MaxSize = 3
INVARIANTS OneEntryPerInfo Budget AppliesDecisions
PROPERTIES ImplementsBag LeavesOutTheLast GenerationEnds
CHECK_DEADLOCK FALSE
