SPECIFICATION Spec
CONSTANTS
    root = root
    app = app
    x = x
    x2 = x2
    y = y
    Root = root
    None = none
    Containers = {root, app}
    Comps = {root, app, x, x2, y}
    Name <- MCName
    Lower <- MCLower
    Method = "m"
    NonRest = {}
    Adds <- MCAdds
    StopRejected = FALSE
INVARIANTS TypeOK Reachable
 
CHECK_DEADLOCK FALSE
