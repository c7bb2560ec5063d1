SPECIFICATION FairSpec
CONSTANT
    NumStreams = 3
INVARIANTS
    DecodesOnOwnPort
    EndedHoldsNothing
    AtMostOneStuck
PROPERTIES
    ImplementPortServers
    AllButOneStart
