SPECIFICATION Spec
CONSTANTS
  Timer = {p1, p2, p3}
  Reader = {p1, p2, p3}
  MaxTime = 3
  STDIN_BUFSIZE = 2
  CONSBUFSIZE = 3
  MaxKeys = 4
  MaxBurst = 3
  MaxLen = 2
SYMMETRY ProcessSymmetry
INVARIANTS HeadNotDue NoSleeperForgotten KeysExact
PROPERTIES ImplementsClock ShortOnlyIfKilled
CHECK_DEADLOCK FALSE
