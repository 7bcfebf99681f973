SPECIFICATION Spec
CONSTANTS
  Thread = {t1, t2, t3, t4}
  mutex = mutex
  empty = empty
  Sem = {mutex, empty}
  NoSem = NoSem
  Initial <- MCInitial
  MaxUps = 2
  MaxCalls = 4
SYMMETRY ThreadSymmetry
INVARIANTS QueuesExact FirstComeFirstServed
CHECK_DEADLOCK FALSE
