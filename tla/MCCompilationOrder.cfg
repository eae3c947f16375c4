SPECIFICATION CompilationSpec
CONSTANTS
  Infos <- MCInfos
  Default = 0
  ClientInfos = {}
  MaxRep = 1
  MaxEntries = 3
  MaxSize = 0
INVARIANT AppliesInOrder
CHECK_DEADLOCK FALSE
