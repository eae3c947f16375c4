SPECIFICATION FeaturesSpec
CONSTANTS
  Programs <- MCPrograms
  Events = {1, 2}
  Asserts = {TRUE, FALSE}
INVARIANTS NothingLost DegreesAddUp TablesAgree MeasuresInPlace
CHECK_DEADLOCK FALSE
