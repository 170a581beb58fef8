SPECIFICATION FairSpec
CONSTANTS
    x1 = x1
    x2 = x2
    x3 = x3
    x4 = x4
    Callers = {x1, x2, x3, x4}
    Name <- Named
    Invalid = {"root"}
    FirstAlone = TRUE
INVARIANTS TypeOK OwnAnswer NoAnswerLost 
 
CHECK_DEADLOCK FALSE
