CONSTANTS
    p1 = p1
    p2 = p2
    p3 = p3
    Pid <- ThreePids
    MaxClients = 1
    Operations <- AllOperations
    Faults <- NoFault
    NoPid = NoPid
SPECIFICATION Spec
INVARIANTS
    StopTerminatesAll
CHECK_DEADLOCK FALSE
