SPECIFICATION Spec
CONSTANTS
    Users = {u}
    Tokens = {t1, t2}
    Requests = {r1, r2}
    None = None
    Ttl = 2
    Grace = 0
    MaxTime = 3
SYMMETRY RequestSymmetry
INVARIANTS TypeOK OneTokenPerSession RotationChain 
PROPERTY ImplementsSessions
CHECK_DEADLOCK FALSE
