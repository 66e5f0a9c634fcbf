SPECIFICATION FairAuditSpec
CONSTANTS
    c1 = c1
    a1 = a1
    a2 = a2
    NoRequest = NoRequest
    Requests <- ThreeAppends
    Cases = {c1}
    RecordIds = {1, 2, 3}
    MaxStepBacks = 0
INVARIANTS
    AlterationDetected
    LossDetected
PROPERTY
    EveryAppendAnswered
CHECK_DEADLOCK FALSE
