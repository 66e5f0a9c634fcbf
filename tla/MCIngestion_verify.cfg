SPECIFICATION Spec
CONSTANTS
    a1 = a1
    a2 = a2
    Artifacts <- OneUpload
    Verifications <- TwoVerifications
    Accesses <- NoAccess
    MaxFaults = 2
    MaxChanges = 2
INVARIANTS
    TypeOK
    VerdictIsSound
    OutcomesAgree
    TempFileLifetime
CHECK_DEADLOCK FALSE
