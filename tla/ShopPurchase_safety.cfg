SPECIFICATION Spec
CONSTANTS
    Buyers = {b1, b2}
    Editing = {b1}
    Wares = {w1}
    Prices <- SixSilver
    Stocks = {1}
    Quantities = {1, 2}
    Purses <- TwoElectrum
    Silent = {b2}
    Requests = {r1, r2}
    None = None
    MaxLines = 1
    MaxShop = 1
    MaxSheet = 1
SYMMETRY Symmetry
INVARIANT TypeOK
PROPERTIES SaleMatchesPage SaleSettles
CHECK_DEADLOCK FALSE
