SPECIFICATION FairSpec
CONSTANTS
    Tasks = {t1, t2}
    Workers = {w1, w2}
    NoTask = NoTask
    MaxFaults = 1
INVARIANTS
    TypeOK
    QueueMatchesStatus
    ExclusiveExecution
    CanceledNeverRuns
    FinishedNeverReruns
    AckedNeverLost
    NoLostWakeup
    CancelWins
PROPERTIES
    ImplementsTaskLife
    AckedFinishes
CHECK_DEADLOCK FALSE
