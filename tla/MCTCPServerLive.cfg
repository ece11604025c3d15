SPECIFICATION LiveSpec
CONSTANTS
  i1 = i1
  i2 = i2
  Clients = {c1, c2}
  Ids = {i1}
  UNIDENTIFIED_CLIENT = UNIDENTIFIED_CLIENT
  NULL = NULL
  Chunks <- OneOfEach
  MAX_EVENTS = 3
  RcvBuf = 1
  SndBuf = 1
  WriteQueue = 2
  CallsMayFail = FALSE
  UrgentData = FALSE
PROPERTIES
  EveryoneAccepted
  EveryoneReclaimed
  FlushedOnceSilent
