SPECIFICATION Spec
CONSTANTS
    b1 = b1
    b2 = b2
    c1 = c1
    MaxTasks = 2
    Batches = {b1, b2, c1}
    CliBatches = {c1}
    NoBatch = NoBatch
    MaxRequests = 1
    MaxRuns = 2
    MaxParallel = 2
    MaxOvertaken = 1
    MaxFaults = 1
SYMMETRY Symmetry
INVARIANTS
    TypeOK
    RunsOnce
    RunningHasBatch
PROPERTIES
    FinishedStays
CHECK_DEADLOCK FALSE
