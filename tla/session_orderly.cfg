SPECIFICATION FairSpec
CONSTANTS
    App = app
    None = none
    Workers = {w1, w2, w3}
    Tasks = {k1, k2, k3}
    Calls = {"start", "stop", "destroy"}
    Endings = {"clean", "error", "foreign"}
    Serial = TRUE
INVARIANTS
    StateTellsTruth
    NoThreadOutlives
    NotStranded
PROPERTIES
    RenderReadsFinished
    CallsReturn
    LifeCycleSpec
CHECK_DEADLOCK FALSE
