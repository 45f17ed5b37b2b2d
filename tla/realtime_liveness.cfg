CONSTANTS
    e1 = e1
    e2 = e2
    c1 = c1
    c2 = c2
    Event <- TwoEvents
    Client <- TwoClients
    Faults <- NoFault
    MaxRestarts = 1
SPECIFICATION FairSpec
PROPERTIES
    QueuedIsDelivered
    QueuedIsPublished
    StopEndsBusyStreams
CHECK_DEADLOCK FALSE
