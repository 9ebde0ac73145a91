SPECIFICATION Spec
CONSTANTS
    Authors = {u}
    Admins = {u}
    Plain = {}
    Published = {i}
    Feats = {f}
    Backgrounds = {b}
    Subclasses = {s}
    Classes = {c}
    SrdFeats = {f0}
    SrdClasses = {}
    Requests = {r1, r2}
    None = None
    Absent = Absent
SYMMETRY Interchangeable
INVARIANTS TypeOK NothingOrphaned ConflictMeansTwoArrivals
PROPERTIES AllOrNothing OptionStrayedByRaceOnly
CHECK_DEADLOCK FALSE
