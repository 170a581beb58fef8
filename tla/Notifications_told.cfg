SPECIFICATION FairSpec
CONSTANTS
    Fw = fw
    Users = {u1, u2}
    SelfRemoving = {u1}
    Slow = {u1}
    Subs = {s1}
    Mux = mux
    Runner = runner
    None = none
    MaxMessages = 1
    MaxRestarts = 2
INVARIANTS TypeOK NobodySkipped
PROPERTIES RemovesItself SubscriberChain NotifierReturns StoppedIsTold
CHECK_DEADLOCK FALSE
