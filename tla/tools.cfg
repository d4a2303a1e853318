SPECIFICATION Spec
CONSTANTS
    Programs = {"ovi_session", "ovi_launcher"}
INVARIANTS
    DeletedOnce
    LeavesForReason
PROPERTIES
    WaitEnds
CHECK_DEADLOCK FALSE
