SPECIFICATION FairSpec
CONSTANTS
  Proc = {idle, init, u1, u2}
  Idle = idle
  Init1 = init
  Nobody = Nobody
  AnyChild = AnyChild
  MaxProcess = 5
  MaxSleep = 2
  MaxForks = 4
PROPERTIES   ShutsDown
