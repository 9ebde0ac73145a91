SPECIFICATION Spec
CONSTANTS
    breastplate = breastplate
    studded = studded
    buckler = buckler
    Items = {breastplate, studded, buckler}
    Catalog <- Wardrobe
    Fold <- Folded
    Alias <- Aliases
    Unstated = Unstated
    NoGear = NoGear
    None = None
    Tabs = {t1, t2}
    Requests = {r1, r2}
    Kits <- Outfits
    Typed = {"rope"}
    Wares <- Sold
    Quantities = {2}
    Dexterities <- Either
    Purses = {1}
    MaxCoins = 1
    Slots = 1
    MaxLines = 3
    MaxVersion = 2
SYMMETRY Interchangeable
INVARIANTS TypeOK ArmorClassFollowsNames
PROPERTIES WriteReachesItsItem
CHECK_DEADLOCK FALSE
