SPECIFICATION FairSpec
CONSTANTS
    a1 = a1
    a2 = a2
    Events <- TwoOutboxEvents
    CONSUMER_RETRIES = 3
    BatchLimit = 2
    TicksPerSecond = 2
    MaxFaults = 2
    BrokerMayFail = TRUE
    QueueDeclared = TRUE
PROPERTY
    EveryOutboxEventSettles
CHECK_DEADLOCK FALSE
