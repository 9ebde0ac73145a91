SPECIFICATION InPlaySpec
CONSTANTS
    dm = dm
    a = a
    b = b
    k1 = k1
    ca = ca
    cb = cb
    Requests = {r1, r2}
    None = None
    Users = {dm, a, b}
    Campaigns = {k1}
    Owner <- OneTable
    Characters = {ca, cb}
    PlayedBy <- TwoSheets
    MaxVersion = 2
SYMMETRY Interchangeable
PROPERTY StrippedStaysOut
CHECK_DEADLOCK FALSE
