SPECIFICATION Spec
CONSTANTS
    a1 = a1
    a2 = a2
    Events <- TwoOutboxEvents
    CONSUMER_RETRIES = 3
    BatchLimit = 2
    TicksPerSecond = 2
    MaxFaults = 0
    BrokerMayFail = FALSE
    QueueDeclared = FALSE
INVARIANT
    NoPublishedEventLost
CHECK_DEADLOCK FALSE
