SPECIFICATION FairSpec
CONSTANTS
    Clients = {c1, c2, c3}
    OtherClients = {o1}
    Backlog = 2
INVARIANTS
    AtMostOneLateClient
PROPERTIES
    ClosesOwnFd
    ImplementsPortServer
    StopWindsDown
    PendingIsServed
    PendingFreesStop
