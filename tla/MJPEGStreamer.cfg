SPECIFICATION FairSpec
CONSTANTS
    MaxFrames = 7
    MAX_QUEUE_SIZE = 5
    MaxInMpp = 2
INVARIANTS
    QueueHoldsNewest
    WakeupsMatchFrames
    BoxesMatchPixels
    FramesAccountedFor
    StoppedIsQuiet
PROPERTIES
    StopWindsDown
    ImplementsLiveStream
    QueueIsDrained
    StopJoinsAwakeEncoder
