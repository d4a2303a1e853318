SPECIFICATION Spec
CONSTANTS
    App = app
    None = none
    Workers = {w1}
    Tasks = {k1}
    Calls = {"start"}
    Endings = {"clean"}
    Serial = FALSE
SYMMETRY ThreadSymmetry
INVARIANTS
    NotStranded
CHECK_DEADLOCK FALSE
