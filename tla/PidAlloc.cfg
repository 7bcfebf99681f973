SPECIFICATION FairSpec
CONSTANTS
  Slot = {s1, s2, s3, s4}
  None = None
  MaxProcess = 5
  MaxPid = 10
INVARIANTS PidsUnique
PROPERTIES InTurn GetPidReturns
