CONSTANTS
    p1 = p1
    p2 = p2
    p3 = p3
    Pid <- ThreePids
    MaxClients = 2
    Operations <- AllOperations
    Faults <- FaultKinds
    NoPid = NoPid
SPECIFICATION Spec
SYMMETRY PidSymmetry
INVARIANTS
    TypeOK
    LaunchMatchesConfig
PROPERTIES
    StopNeverForgets
    StopTellsTheTruth
CHECK_DEADLOCK FALSE
