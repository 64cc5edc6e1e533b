SPECIFICATION Spec
CONSTANTS
    Calls = {c1, c2}
    Compactions = {}
    NoTurn = NoTurn
    Deliveries = {"queue"}
    Serial = FALSE
    MaxEngines = 2
    MaxInterrupts = 1
    MaxUnloads = 1
    MaxFailures = 1
    MaxCrashes = 0
SYMMETRY Symmetry
INVARIANTS
    PromptRunsOnce
    NoMonitorStarves
CHECK_DEADLOCK FALSE
