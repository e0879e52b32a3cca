SPECIFICATION Spec
CONSTANTS
    t1 = t1
    t2 = t2
    s1 = s1
    s2 = s2
    Tasks = {t1, t2}
    Symbols = {s1, s2}
    Results <- MCResults
    Snapshots <- MCSnapshots
    MinimumSamples = 2
    MaximumSamples = 2
    MinimumExpectedR = 5
    MinimumProfitFactor = 110
    MaximumDrawdown = 8
    Folds = 2
    MinimumPassRatio = 50
    MaxOpenPositions = 2
    MaximumEntries = 1
    MaxRuns = 2
    MaxShadows = 2
    MaxPositions = 2
    MayCrash = TRUE
SYMMETRY Symmetry
INVARIANTS
    OnePositionPerSymbol
    EntryIsEarned
    HandedRunIsStored
    ObservationsAreCausal
CHECK_DEADLOCK FALSE
