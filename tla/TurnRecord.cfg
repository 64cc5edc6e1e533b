SPECIFICATION FairSpec
CONSTANTS
    Steers = {s1, s2}
    Items = {i1, i2}
    NoItem = NoItem
    MaxCrashes = 1
INVARIANTS
    TypeOK
    AttachedHaveRows
PROPERTIES
    OpensAgain
CHECK_DEADLOCK FALSE
