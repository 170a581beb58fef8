SPECIFICATION FairSpec
CONSTANTS
    Senders = {s1, s2, s3}
    Shutdowners = {s1}
    EarlySenders = {s1}
    Muxes = {m1, m2}
    Runs = {r1}
    Act = act
    None = none
    Restartable = FALSE
    StopMayFail = FALSE
    MaxRestarts = 0
    MaxAdds = 2
PROPERTIES AddReturns ShutdownCompletes MessagesRouted
CHECK_DEADLOCK FALSE
