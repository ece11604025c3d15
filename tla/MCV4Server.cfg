SPECIFICATION Spec
CONSTANTS
  i1 = i1
  i2 = i2
  Clients = {c1, c2}
  Ids = {i1, i2}
  UNIDENTIFIED_CLIENT = UNIDENTIFIED_CLIENT
  NULL = NULL
  Packets <- Traffic
  MAX_EVENTS = 3
  RcvBuf = 2
  SndBuf = 1
  WriteQueue = 1
  CallsMayFail = TRUE
SYMMETRY Symmetry
INVARIANTS
  Inv
PROPERTIES
  CMSpec
  RelaySpec
CHECK_DEADLOCK FALSE
