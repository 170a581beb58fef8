SPECIFICATION FairSpec
CONSTANTS
    root = root
    http = http
    db = db
    t1 = t1
    t2 = t2
    q1 = q1
    q2 = q2
    Root = root
    Tops = {t1, t2}
    Http = http
    Attached <- MCAttached
    Hangs = {t2}
    Requests = {q1, q2}
    Target <- ToApp
INVARIANTS TypeOK OrderlyEnd
 
CHECK_DEADLOCK FALSE
