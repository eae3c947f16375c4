\* Two runs in one directory, one candidate each, two seconds.
SPECIFICATION Spec
SYMMETRY TunersInterchange
CONSTANTS
  t1 = t1
  t2 = t2
  Tuners = {t1, t2}
  Steps = 1
  Machines = {TRUE, FALSE}
  MaxTime = 1
INVARIANTS
  OwnModule
  HonestMeasurement
  OnlyFailuresLeak
  ExportsBounded
