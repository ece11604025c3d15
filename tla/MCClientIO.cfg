SPECIFICATION LiveSpec
CONSTANTS
  i1 = i1
  i2 = i2
  Packets <- AllSorts
  PACKET_HDR_LENGTH = 2
  MAX_PACKET_LENGTH = 4
  MAX_ALLOWED_WRITE_QUEUE = 5
  ChannelSize = 2
  UINT32 = 16
  Ids = {i1, i2}
  UNIDENTIFIED_CLIENT = UNIDENTIFIED_CLIENT
  NULL = NULL
INVARIANTS
  Inv
  Framed
PROPERTIES
  PipeSpec
  KeepsReading
CHECK_DEADLOCK FALSE
