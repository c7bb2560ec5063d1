SPECIFICATION Spec
CONSTANT
    NumStreams = 2
INVARIANTS
    StreamsGetTheirPorts
