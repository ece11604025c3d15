SPECIFICATION LiveSpec
CONSTANTS
    TICKS = 2
    LOOP_TIMEOUT = 2
    EPOLL_LOOP_TIMEOUT = 3
    Horizon = 3
INVARIANTS Inv OneMoreSleep
PROPERTIES NotTooEarly HouseKeepingRecurs
CHECK_DEADLOCK FALSE
