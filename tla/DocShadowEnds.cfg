SPECIFICATION FairSpec
CONSTANTS
    t1 = t1
    t2 = t2
    s1 = s1
    s2 = s2
    Tasks = {t1}
    Symbols = {s1, s2}
    Results <- MCResults
    Snapshots <- MCSnapshots
    MinimumSamples = 2
    MaximumSamples = 2
    MinimumExpectedR = 5
    MinimumProfitFactor = 110
    MaximumDrawdown = 8
    Folds = 2
    MinimumPassRatio = 50
    MaxOpenPositions = 2
    MaximumEntries = 1
    MaxRuns = 1
    MaxShadows = 1
    MaxPositions = 1
    MayCrash = FALSE
PROPERTY
    ShadowEnds
CHECK_DEADLOCK FALSE
