CONSTANTS
    e1 = e1
    e2 = e2
    c1 = c1
    c2 = c2
    Event <- TwoEvents
    Client <- TwoClients
    Faults <- AnyFault
    MaxRestarts = 1
SPECIFICATION Spec
SYMMETRY Symmetry
INVARIANTS
    TypeOK
    NoDuplicateDelivery
    OrderAgreement
    ServedInFull
PROPERTIES
    UnpublishedStaysQueued
    ImplementsBus
CHECK_DEADLOCK FALSE
