SPECIFICATION Spec
CONSTANTS
    RequiredPasses = 2
    MinimumInterval = 1
    MinimumCampaign = 2
    EnvironmentReady = TRUE
    AuditAnswers = TRUE
    MaxNow = 3
INVARIANTS
    PassesAreSpaced
    DossierIsEarned
PROPERTIES
    CompletionIsKept
CHECK_DEADLOCK FALSE
