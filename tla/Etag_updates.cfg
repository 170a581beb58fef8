SPECIFICATION Spec
CONSTANTS
    Clients = {c1, c2}
    Mux = mux
    Values = {0, 1}
    HandlerFails = TRUE
    PersistFails = TRUE
    MaxSends = 2
    MaxReads = 2
    MaxChanges = 1
    MaxRestarts = 1
SYMMETRY Names
INVARIANTS TypeOK
PROPERTIES NoLostUpdate AppliedOnce
CHECK_DEADLOCK FALSE
