SPECIFICATION Spec
CONSTANTS
  i1 = i1
  i2 = i2
  Clients = {c1, c2, c3}
  Ids = {i1, i2}
  UNIDENTIFIED_CLIENT = UNIDENTIFIED_CLIENT
  NULL = NULL
  Chunks <- Takeover
  MAX_EVENTS = 2
  RcvBuf = 1
  SndBuf = 1
  WriteQueue = 2
  CallsMayFail = FALSE
  UrgentData = FALSE
SYMMETRY ClientSymmetry
INVARIANTS
  NoLostWakeup
  RoutedToOwner
PROPERTIES
  RelaySpec
