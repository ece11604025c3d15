SPECIFICATION LiveSpec
CONSTANTS
    SndBuf = 1
    RcvBuf = 2
    WriteQueue = 2
    Chunks = {"PART", "DATA", "HELLO", "BAD", "LARGE"}
    Answers = TRUE
    Kicks = TRUE
    Failing = {"connect", "epoll_ctl"}
INVARIANTS Inv NoFailure HelloFirst
PROPERTIES RetriesOnceSet EndsUpKnown
CHECK_DEADLOCK FALSE
