SPECIFICATION FairSpec
CONSTANTS
    Tabs = {i1, i2}
    MaxToken = 2
    WebLocks = TRUE
    i1 = i1
    i2 = i2
INVARIANTS TypeOK ReplayOnlyAfterLoss
PROPERTIES OnlyLoginFillsJar ActivityEnds DeadSessionLosesHint
CHECK_DEADLOCK FALSE
