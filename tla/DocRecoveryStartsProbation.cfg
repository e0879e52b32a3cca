SPECIFICATION Spec
CONSTANTS
    c1 = c1
    c2 = c2
    Clients <- MCClients
    Readings <- MCThreeReadings
    CooldownSeconds = 2
    RequiredHealthyChecks = 2
    MinHealthyCheckInterval = 1
    ProbationSeconds = 4
    MinEntryInterval = 1
    MaxProbationEntries = 2
    ReservationTTL = 2
    MaxNow = 7
    MaxEntries = 3
    MaxCrashes = 0
SYMMETRY Symmetry
PROPERTIES
    RecoveryStartsProbation
CHECK_DEADLOCK FALSE
