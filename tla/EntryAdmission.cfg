SPECIFICATION FairSpec
CONSTANTS
    c1 = c1
    c2 = c2
    Clients <- MCClients
    Readings <- MCThreeReadings
    CooldownSeconds = 2
    RequiredHealthyChecks = 2
    MinHealthyCheckInterval = 1
    ProbationSeconds = 3
    MinEntryInterval = 1
    MaxProbationEntries = 2
    ReservationTTL = 2
    MaxNow = 5
    MaxEntries = 3
    MaxCrashes = 1
INVARIANTS
    GuardsAreCoherent
    SerializedWithinTTL
    LatchStopsNewEntries
    ProbationCapHolds
    ProbationEntriesAreSpaced
    ExposureStillCurrent
PROPERTIES
    NoForeignRelease
    ImplementsHysteresis
    ReservationIsNeverStuck
CHECK_DEADLOCK FALSE
