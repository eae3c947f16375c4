SPECIFICATION Spec
CONSTANTS
  Names = {1, 2, 3, 4}
  SubNames = {1, 2}
  Registered <- MCRegistered
  Modules = {m1, m2}
  Width = 3
INVARIANTS LoopFindsAll NthOfKindAndType
PROPERTY OneModule
SYMMETRY ModulesInterchange
CHECK_DEADLOCK FALSE
