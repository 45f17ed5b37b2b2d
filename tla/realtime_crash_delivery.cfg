CONSTANTS
    e1 = e1
    e2 = e2
    c1 = c1
    c2 = c2
    Event <- TwoEvents
    Client <- OneClient
    Faults <- OnlyCrash
    MaxRestarts = 1
SPECIFICATION FairSpec
PROPERTIES
    QueuedIsDelivered
CHECK_DEADLOCK FALSE
