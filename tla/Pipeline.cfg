\* One source, two clients, buffers of one: drops at both ends.
SPECIFICATION Spec
CONSTANTS
    ChanCap = 1
    MaxWait = 2
    MaxEvents = 3
    Clients = {c1, c2}
    BufCap = 1
INVARIANTS
    TypeOK
    NothingHoldsTheAgent
PROPERTIES
    ImplementsFeed
    DeadClientsLeave
    SourceComesBack
    WindsDown
CHECK_DEADLOCK FALSE
