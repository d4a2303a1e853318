SPECIFICATION Spec
CONSTANTS
    App = app
    None = none
    Workers = {w1, w2}
    Tasks = {k1, k2}
    Calls = {"start", "stop", "destroy"}
    Endings = {"clean", "error", "foreign"}
    Serial = FALSE
SYMMETRY ThreadSymmetry
INVARIANTS
    OneAnalysis
    CutNeverRenders
PROPERTIES
    StopJoins
CHECK_DEADLOCK FALSE
