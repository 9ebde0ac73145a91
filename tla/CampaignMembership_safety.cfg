SPECIFICATION Spec
CONSTANTS
    dm = dm
    a = a
    b = b
    k1 = k1
    ca = ca
    cb = cb
    Requests = {r1, r2}
    None = None
    Users = {dm, a}
    Campaigns = {k1}
    Owner <- OneTable
    Characters = {ca}
    PlayedBy <- OneSheet
    MaxVersion = 2
SYMMETRY Interchangeable
INVARIANTS TypeOK NothingLeftBehind
PROPERTIES StaleArrayAddsNobody
CHECK_DEADLOCK FALSE
