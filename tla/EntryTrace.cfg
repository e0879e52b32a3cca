SPECIFICATION Spec
CONSTANTS
    CooldownSeconds = 2
    RequiredHealthyChecks = 2
    MinHealthyCheckInterval = 1
    MaxNow = 4
    MaxAsked = 2
    MaxFaults = 1
    Readers = {r1}
    Evidences <- MCEvidences
INVARIANTS
    TraceIsTruthful
    AnswersAreCounted
    ChecksAreSpaced
    ProgressIsEarned
PROPERTIES
    ReleaseIsEarned
