SPECIFICATION Spec
CONSTANTS
    Calls = {c1, c2}
    Compactions = {}
    NoTurn = NoTurn
    Deliveries = {"none", "queue"}
    Serial = FALSE
    MaxEngines = 1
    MaxInterrupts = 0
    MaxUnloads = 0
    MaxFailures = 0
    MaxCrashes = 0
INVARIANTS
    OneDrainChain
CHECK_DEADLOCK FALSE
