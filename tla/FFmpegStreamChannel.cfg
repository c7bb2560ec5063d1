SPECIFICATION FairSpec
CONSTANTS
    MaxFailures = 2
    PacketsPerSession = 2
    DecoderDepth = 2
    LiveSource = FALSE
INVARIANTS
    SessionStartsClean
    DecoderMatchesStream
    PushIsCurrent
    DrainedBeforeSend
    GivesUpOnlyAfterFailures
PROPERTIES
    ImplementsFrameBuffers
    OnlySuccessRenews
    StopHonoured
    GivesUp
