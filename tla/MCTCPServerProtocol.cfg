SPECIFICATION Spec
CONSTANTS
  i1 = i1
  i2 = i2
  Clients = {c1, c2}
  Ids = {i1, i2}
  UNIDENTIFIED_CLIENT = UNIDENTIFIED_CLIENT
  NULL = NULL
  Chunks <- Misbehaviour
  MAX_EVENTS = 2
  RcvBuf = 1
  SndBuf = 1
  WriteQueue = 1
  CallsMayFail = TRUE
  UrgentData = TRUE
SYMMETRY ClientSymmetry
INVARIANTS
  NoDanglingEvent
  OrphanIsInert
PROPERTIES
  CMSpec
  MuteBehindShort
CHECK_DEADLOCK FALSE
