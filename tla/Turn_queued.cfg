SPECIFICATION FairSpec
CONSTANTS
    Calls = {c1, c2, c3}
    Compactions = {}
    NoTurn = NoTurn
    Deliveries = {"queue"}
    Serial = TRUE
    MaxEngines = 1
    MaxInterrupts = 0
    MaxUnloads = 0
    MaxFailures = 0
    MaxCrashes = 0
PROPERTIES
    QueuedPromptRuns
CHECK_DEADLOCK FALSE
