SPECIFICATION ReaderSpec
CONSTANTS
    Packets <- Nameless
    PACKET_HDR_LENGTH = 2
    MIN_BUFFER_SIZE = 4
    MAX_PACKET_LENGTH = 6
    ChannelSize = 6
    i1 = i1
    Ids = {i1}
    UNIDENTIFIED_CLIENT = UNIDENTIFIED_CLIENT
    NULL = NULL
INVARIANT PreviousConsumed
CHECK_DEADLOCK FALSE
