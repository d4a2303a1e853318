SPECIFICATION FairSpec
CONSTANTS
    Clients = {c1, c2}
    Loader = loader
    Modules = {face, audio, bad}
    Importable = {face, audio}
    Fickle = TRUE
    MaxKeys = 3
INVARIANTS
    ServedAlive
    ModulesAreOwned
    ExitFindsNothing
PROPERTIES
    AllAnswered
CHECK_DEADLOCK FALSE
