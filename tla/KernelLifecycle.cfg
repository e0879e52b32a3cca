SPECIFICATION FairSpec
CONSTANTS
    j1 = j1
    j2 = j2
    c1 = c1
    kernel = kernel
    Jobs = {j1, j2}
    Clients = {c1}
    Kernel = kernel
    Publishers = {j1, j2, c1, kernel}
    QueueSize = 2
    MaxEvents = 6
INVARIANTS
    DrainedStop
PROPERTIES
    RecordedInOrder
    StopEnds
CHECK_DEADLOCK FALSE
