SPECIFICATION FairSpec
CONSTANTS
    Media <- SomeMedia
    Skips = {0, 1, 2}
    Faults = {"read", "plugin"}
    MultiFrame = TRUE
INVARIANTS
    RawdataOrdered
    RawdataComplete
    ErrorKept
    AudioInStep
PROPERTIES
    WorkerEnds
CHECK_DEADLOCK FALSE
