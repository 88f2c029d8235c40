SPECIFICATION EpollSpec
CHECK_DEADLOCK FALSE
CONSTANTS
    Clients = {c1, c2}
    Listen = listen
    MAXSIZE = 3
    EPOLLEVENTS = 2
    MaxMsgs = 2
    MaxLines = 3
    Garbage = garbage
    Nobody = nobody
    MaxBytes = 2
INVARIANTS
    EventsAreTrue
    BufferHandedOver
    ClientWaits
    EndsOnlyWithClient
PROPERTIES
    EveryoneServed
