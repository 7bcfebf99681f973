SPECIFICATION SchedSpec
CONSTANTS
  Proc = {a, b, c}
  Idle = Idle
  Started = {a, b}
  Half = 4
  MAX_TIME_SLICE = 2
  Priorities = {2, 3}
  MaxSleeps = 1
  MaxForks = 1
  MaxSets = 1
  MaxPass = 16
INVARIANTS HeapOrdered Share
PROPERTIES EverybodyRuns ImplementsShare
