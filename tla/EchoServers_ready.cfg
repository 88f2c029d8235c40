SPECIFICATION Spec
CHECK_DEADLOCK FALSE
CONSTANTS
    SIZE = 2
    FDs = 3
    OPEN_MAX = 3
    Clients = {c1, c2, c3, c4}
    PollClients = {c1, c2, c3}
    NoFd = NoFd
INVARIANT
    ReadOnlyWhenReady
