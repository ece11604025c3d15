SPECIFICATION LiveSpec
CONSTANTS
  i1 = i1
  i2 = i2
  Clients = {c1}
  Ids = {i1}
  UNIDENTIFIED_CLIENT = UNIDENTIFIED_CLIENT
  NULL = NULL
  Chunks <- Traffic
  MAX_EVENTS = 3
  RcvBuf = 1
  SndBuf = 1
  WriteQueue = 1
  CallsMayFail = FALSE
  UrgentData = FALSE
PROPERTIES
  CalledBackToWrite
