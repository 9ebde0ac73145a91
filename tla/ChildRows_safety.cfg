SPECIFICATION FairListSpec
CONSTANTS
    k1 = k1
    k2 = k2
    a = a
    b = b
    Keys = {k1, k2}
    Removable = {k1}
    Texts = {a, b}
    Saves <- SomeSaves
    Savers = {r1, r2, r3}
    Nil = Nil
    Unsent = Unsent
INVARIANTS ListTypeOK NoFalseConflict
PROPERTIES Whole SavesEnd
CHECK_DEADLOCK FALSE
