SPECIFICATION Spec
CONSTANTS
    Combatants = {m1, p}
    Monsters = {m1}
    Departing = {p}
    Trackers = {i1, i2}
    Initiatives = {1, 2}
    None = None
    MaxVersion = 2
    MaxRound = 2
    MaxCalls = 2
SYMMETRY Symmetry
VIEW WhatMatters
INVARIANTS TypeOK VersionNamesRow
PROPERTIES WritesKeepTurnInRange EditsKeepTurn
CHECK_DEADLOCK FALSE
