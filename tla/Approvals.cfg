SPECIFICATION Spec
CONSTANTS
    t1 = t1
    t2 = t2
    t3 = t3
    Tools = {t1, t2, t3}
    Key <- MCKey
    AutoApproved <- MCAuto
    NoTool = NoTool
    MaxDisplaced = 1
CHECK_DEADLOCK FALSE
SYMMETRY Symmetry
INVARIANTS
    TypeOK
    ExecutedByRight
    OneDecision
    AnswerKept
