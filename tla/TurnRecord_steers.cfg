SPECIFICATION Spec
CONSTANTS
    Steers = {s1}
    Items = {}
    NoItem = NoItem
    MaxCrashes = 0
INVARIANTS
    SteersSurvive
CHECK_DEADLOCK FALSE
