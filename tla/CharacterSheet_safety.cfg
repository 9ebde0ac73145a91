SPECIFICATION Spec
CONSTANTS
    d8 = d8
    d10 = d10
    bard = bard
    own = own
    Tabs = {t1, t2}
    Requests = {r1, r2}
    Dice = {d8, d10}
    Classes = {bard, own}
    Changes <- SomeChanges
    HitDie <- ClassDice
    Builds <- SomeBuilds
    Edits <- SomeEdits
    NoDie = NoDie
    MaxLevel = 3
    MaxWounds = 1
    MaxHeal = 1
    MaxVersion = 2
    None = None
SYMMETRY Interchangeable
INVARIANTS TypeOK SheetAddsUp OneLevelPerDialog
PROPERTIES SnapshotOfTheReplacedRow HealingIsPaid
CHECK_DEADLOCK FALSE
