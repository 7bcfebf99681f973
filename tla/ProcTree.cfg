SPECIFICATION TreeSpec
CONSTANTS
  Proc = {idle, init, u1, u2, u3, u4}
  Idle = idle
  Init1 = init
  Nobody = Nobody
  AnyChild = AnyChild
  MaxProcess = 5
  MaxSleep = 2
  MaxForks = 5
SYMMETRY UserSymmetry
INVARIANTS TypeOK RunqueueExact NoLostWakeup TimersLive LiveParents ShutdownClean TreeExact
PROPERTIES OnlyParentReaps WakeupHasCause UsesClock
