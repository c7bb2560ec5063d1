SPECIFICATION FairSpec
CONSTANTS
    Clients = {c1, c2}
    OtherClients = {}
    Backlog = 2
PROPERTY StopReturns
