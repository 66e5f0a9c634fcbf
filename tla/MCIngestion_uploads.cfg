SPECIFICATION FairSpec
CONSTANTS
    a1 = a1
    a2 = a2
    Artifacts <- TwoUploads
    Verifications <- NoVerification
    Accesses <- Accessed
    MaxFaults = 3
    MaxChanges = 0
INVARIANTS
    IngestedIsComplete
    IngestedEventIsBacked
    AnswerIsTruthful
PROPERTY
    PendingIsDecided
CHECK_DEADLOCK FALSE
