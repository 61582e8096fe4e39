SPECIFICATION Spec
CONSTANTS
  Objs = {o1, o2}
  NMaps = 2
  NProgs = 1
  P = P
  NoPath = NoPath
  None = None
  Placeholder = Placeholder
  Closed = Closed
  PinPath <- MCPinPath
  Slots <- MCSlots
  ArrayProgs = {1}
  User = User
  ReuseFds = {2}
  InnerFd = FALSE
SYMMETRY Symm
CHECK_DEADLOCK FALSE
INVARIANTS
  PinnedIsOwn
  FailedLoadUndone
  AgreeOnPinned
  
  ManualDataKept
PROPERTIES
  LoadComplete
