SPECIFICATION Spec
CONSTANTS
    Symbols = {btc, eth}
    Prices = {1500, 2000, 2400, 2800}
    Quantity = 20
    InitialEquity = 1000000
    SlippageDivisor = 20
    StopDivisor = 5
    FeeUnit = 20
    MaxOpenPositions = 1
    MaxPositions = 2
    MaxCrashes = 1
INVARIANTS
    MoneyIsConserved
    StopOutIsBounded
    AtMostOnePartial
PROPERTIES
    StopNeverLoosens
CHECK_DEADLOCK FALSE
