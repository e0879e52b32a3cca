SPECIFICATION FairLadderSpec
CONSTANTS
    MinimumDays = 1
    MinimumTrades = 2
    MaximumDrawdown = 1
    RecentTrades = 2
    CertifiedDays = 1
    CertifiedTrades = 1
    CertifiedDrawdown = 1
    MaxTrades = 3
    MaxNow = 2
INVARIANTS
    MilestoneIsEarned
    RiskPauses
PROPERTIES
    MilestoneIsReached
CHECK_DEADLOCK FALSE
