SPECIFICATION Spec
CONSTANTS
    Clients = {c1, c2}
    Mux = mux
    Values = {0, 1}
    HandlerFails = FALSE
    PersistFails = FALSE
    MaxSends = 2
    MaxReads = 2
    MaxChanges = 0
    MaxRestarts = 0
SYMMETRY Names
PROPERTY NoConflict
CHECK_DEADLOCK FALSE
