SPECIFICATION Spec
CONSTANTS
    Shapes <- AppAndNative
    Values = {zero, x, y}
    Zero = zero
    Keys = {k1, k2}
    Mux = mux
    Fsm = fsm
    Overlap = FALSE
    EmptySecrets = FALSE
    UpdateFails = TRUE
    MaxMsgs = 1
    MaxLives = 3
INVARIANTS TypeOK CurrentStored
PROPERTY RestoredOnStart
CHECK_DEADLOCK FALSE
