SPECIFICATION FairSpec
CONSTANTS
  N = 4
  TIMES <- MCTimes
  Thread <- MCThread
  CV <- MCThread
  mutex <- MCMutex
  next <- MCNext
  Sem <- MCSem
  NoSem = NoSem
INVARIANTS OneToken CountsExact UnitsReach ForksExclusive ConditionHolds
PROPERTIES EverybodyQuits
