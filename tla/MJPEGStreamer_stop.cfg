SPECIFICATION FairSpec
CONSTANTS
    MaxFrames = 2
    MAX_QUEUE_SIZE = 2
    MaxInMpp = 1
PROPERTY StopReturns
CHECK_DEADLOCK FALSE
