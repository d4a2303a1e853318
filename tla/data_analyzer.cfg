SPECIFICATION Spec
CONSTANTS
    Inputs <- AllInputs
    MaxLength = 6
    Corrections = {0, 1, 2, 3, 7}
INVARIANTS
    RangesApart
    RangesAreKept
    CollectionsAreOwn
CHECK_DEADLOCK FALSE
