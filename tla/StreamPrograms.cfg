SPECIFICATION StreamSpec
CHECK_DEADLOCK FALSE
CONSTANTS
    Bytes = 5
    N = 2
    Capacity = 3
    Servers = {s1}
    Clients = {c1}
    MaxSegments = 2
    Addresses = {1, 2}
    Users = {u1, u2}
    Endpoints = 2
    RADIX = 2
    header_length = 2
    MaxData = 5
    Senders = {s1, s2}
    max_length = 2
    MaxSize = 3
    MaxArrivals = 3
    QueueSize = 2
INVARIANTS
    NothingSkipped
    OwnFault
    NothingLeft
    HeaderIsBelieved
    ErrorsHaveCause
    EchoesGoHome
PROPERTIES
    CopiedToTheEnd
    ChainsGoOn
