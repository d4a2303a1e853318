SPECIFICATION Spec
CONSTANTS
    Renders = {r1}
    Jobs <- SomeJobs
    LabelLimit = 3
    MayFail = FALSE
INVARIANTS
    KeptFramesShown
CHECK_DEADLOCK FALSE
