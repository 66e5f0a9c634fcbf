SPECIFICATION Spec
CONSTANTS
    a1 = a1
    a2 = a2
    Events <- WithReport
    CONSUMER_RETRIES = 1
    BatchLimit = 2
    TicksPerSecond = 2
    MaxFaults = 2
    BrokerMayFail = TRUE
    QueueDeclared = TRUE
INVARIANTS
    TypeOK
    RecordedOnce
    NoPublishedEventLost
    DeadLetterAfterAllAttempts
    TimelineValidIffInOrder
CHECK_DEADLOCK FALSE
