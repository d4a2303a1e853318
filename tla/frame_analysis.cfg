SPECIFICATION FairSpec
CONSTANTS
    Detectors = {"a", "b", "c"}
    Effects = {"e", "f"}
    Requests <- AllRequests
    MaxFrames = 2
    MaxLength = 5
INVARIANTS
    PipelinesMeanRequest
    IncludeIsMeaningPlain
    OncePerFrame
    CacheIsFresh
    EffectsRight
PROPERTIES
    FrameEnds
CHECK_DEADLOCK FALSE
