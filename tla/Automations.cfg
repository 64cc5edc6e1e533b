SPECIFICATION FairSpec
CONSTANTS
    Autos = {a1}
    Tasks = {t1}
    NoId = NoId
    Outcomes = {"Completed"}
    Periods = {2}
    Dates = {1}
    MaxCatchup = 1
    SlotLimit = 1
    ReconcileLimit = 2
    Horizon = 2
    MaxRuns = 3
    MaxManual = 1
    MaxFaults = 1
INVARIANTS
    TypeOK
    SlotFiredOnce
PROPERTIES
    DeletedForGood
    DueIsHandled
    RunSettles
CHECK_DEADLOCK FALSE
