SPECIFICATION FairSpec
CONSTANTS
    a1 = a1
    a2 = a2
    Events <- TwoOutboxEvents
    CONSUMER_RETRIES = 1
    BatchLimit = 1
    TicksPerSecond = 2
    MaxFaults = 3
    BrokerMayFail = FALSE
    QueueDeclared = TRUE
PROPERTY
    EveryOutboxEventSettles
CHECK_DEADLOCK FALSE
