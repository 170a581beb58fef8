SPECIFICATION Spec
CONSTANTS
    Senders = {s1, s2, s3}
    Shutdowners = {s1, s2}
    EarlySenders = {s1}
    Muxes = {m1, m2}
    Runs = {r1, r2, r3, r4}
    Act = act
    None = none
    Restartable = TRUE
    StopMayFail = TRUE
    MaxRestarts = 1
    MaxAdds = 2
SYMMETRY Slots
INVARIANTS TypeOK SerialMux SingleStart StartedHasMux AckedShutdown
PROPERTIES ShutdownIrrevocable ImplementsServer
CHECK_DEADLOCK FALSE
