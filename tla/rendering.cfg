SPECIFICATION Spec
CONSTANTS
    Renders = {r1, r2}
    Jobs <- SomeJobs
    LabelLimit = 3
    MayFail = TRUE
SYMMETRY Symmetry
INVARIANTS
    OutputIsWhole
    NothingLeftBehind
    MediaSurvives
CHECK_DEADLOCK FALSE
