SPECIFICATION Spec
CONSTANTS
    Users = {u}
    Tokens = {t1, t2}
    Requests = {r1, r2}
    None = None
    Ttl = 1
    Grace = 0
    MaxTime = 1
PROPERTY PasswordChangeEndsSessions
CHECK_DEADLOCK FALSE
