SPECIFICATION Spec
INVARIANTS
    HardwareComplete
PROPERTIES
    ImplementsFrameBuffers
CHECK_DEADLOCK FALSE
