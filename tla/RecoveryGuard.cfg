SPECIFICATION Spec
CONSTANTS
    enter = enter
    exit = exit
    btc = btc
    c1 = c1
    c2 = c2
    r1 = r1
    Callers = {c1, c2}
    Intents = {enter, exit}
    Symbols = {btc}
    SymbolOf <- MCSymbolOf
    DeltaOf <- MCDeltaOf
    ClientOf <- MCClientOf
    PaperPositions = {0, 1}
    Reconcilers = {r1}
    MaxCrashes = 1
SYMMETRY Symmetry
INVARIANTS
    RowsTellTheTruth
PROPERTIES
    ImplementsOrderOnce
    StandingIssuesAreReported
CHECK_DEADLOCK FALSE
