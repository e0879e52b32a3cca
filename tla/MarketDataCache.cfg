SPECIFICATION FairMarketSpec
CONSTANTS
    t1 = t1
    t2 = t2
    t3 = t3
    btc = btc
    Tasks = {t1, t2, t3}
    Symbols = {btc}
    CacheTTL = 1
    StaleAfter = 2
    FailureCooldown = 2
    RequestTime = 1
    MaxNow = 5
INVARIANTS
    FreshAnswersAreRecent
PROPERTIES
    NoNeedlessRequest
    CacheHardlyRegresses
    EveryoneIsAnswered
CHECK_DEADLOCK FALSE
