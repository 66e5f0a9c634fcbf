SPECIFICATION Spec
CONSTANTS
    c1 = c1
    c2 = c2
    a1 = a1
    a2 = a2
    a3 = a3
    NoRequest = NoRequest
    Requests <- TwoCases
    Cases = {c1, c2}
    RecordIds = {1, 2, 3, 4}
    MaxStepBacks = 1
INVARIANTS
    TypeOK
    NoFork
    HeadCommitsToHistory
    ValidUntilClockSetBack
    ProofServed
PROPERTIES
    AppendOnly
    ImplementsLog
CHECK_DEADLOCK FALSE
