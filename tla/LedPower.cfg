SPECIFICATION Spec
CONSTANTS
  t1 = t1
  t2 = t2
  Tasks = {t1, t2, t3}
  t3 = t3
  NumRails = 2
  MaxFaults = 1
  Led = 2
  None = None
INVARIANTS
  TypeOK
  LedFollows
  OffAtRestart
SYMMETRY AnyTask
