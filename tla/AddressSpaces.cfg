SPECIFICATION Spec
CONSTANTS
  Proc = {p1, p2, p3}
  initproc = p1
  check = check
  None = None
  Swapped = Swapped
  NFrames = 22
  NPTE = 4
  NPDE = 2
  NPages = 16
  KSTACKPAGE = 2
  CHECK_VALID_VIR_PAGE_NUM = 3
  CHECK_VALID_PHY_PAGE_NUM = 2
  Images <- MCImages
  Stack <- MCStack
  STACKPAGES = 1
  Value = {v}
  Written = {1, 2, 3}
  File = File
  Unset = Unset
  HeapPages = 1
  MaxHeap = 2
INVARIANTS OneOwner  FreeListExact
PROPERTIES ImplementsMemory
SYMMETRY MCSymmetry
CHECK_DEADLOCK FALSE
