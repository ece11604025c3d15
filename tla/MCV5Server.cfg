SPECIFICATION Spec
CONSTANTS
  i1 = i1
  i2 = i2
  Clients = {c1, c2}
  Ids = {i1, i2}
  UNIDENTIFIED_CLIENT = UNIDENTIFIED_CLIENT
  NULL = NULL
  Packets <- Traffic
  PACKET_HDR_LENGTH = 1
  MAX_PACKET_LENGTH = 2
  MAX_ALLOWED_WRITE_QUEUE = 2
  MAX_EVENTS = 2
  RcvBuf = 1
  SndBuf = 2
  UINT32 = 8
  CallsMayFail = TRUE
SYMMETRY Symmetry
VIEW Heard
INVARIANTS
  Inv
  WholePackets
  TableConsistent
  NoDoubleFree
PROPERTIES
  CMSpec
  EvictedIsDoomed
  RejectedIsHarmless
  RelaySpec
CHECK_DEADLOCK FALSE
