SPECIFICATION Spec
CONSTANTS
  Root = Root
  File = {a}
  Gone = Gone
  B = 1
  NDIRECT = 1
  MaxSize = 4
  Proc = {p, q}
  Table = {t1, t2}
  None = None
  NFD = 2
  STD = 1
  Flags <- MCFlags
  Capacity = 3
  Seeks = {0, 3}
  MaxLen = 1
  MaxLost = 1
INVARIANTS InodesReclaimed
CHECK_DEADLOCK FALSE
