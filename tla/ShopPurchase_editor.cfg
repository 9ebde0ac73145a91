SPECIFICATION Spec
CONSTANTS
    Buyers = {b1}
    Editing = {b1}
    Wares = {w1}
    Prices <- SixSilver
    Stocks = {1}
    Quantities = {1}
    Purses <- TwoElectrum
    Silent = {}
    Requests = {r1}
    None = None
    MaxLines = 1
    MaxShop = 1
    MaxSheet = 2
PROPERTY EditorKeepsNewerSheet
CHECK_DEADLOCK FALSE
