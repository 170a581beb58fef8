SPECIFICATION FairSpec
CONSTANTS
    Children = {a, b, c}
    Self = self
    Bootstrap = "first"
    Clients = {}
    AddsDuringStop = FALSE
    Timeouts = TRUE
    StopMayFail = FALSE
INVARIANTS TypeOK LifoStop NoOrphan ListMatchesMap QuietStop
PROPERTY StopReturns
CHECK_DEADLOCK FALSE
