SPECIFICATION Spec
CONSTANTS
    s1 = s1
    s2 = s2
    m1 = m1
    m2 = m2
    m3 = m3
    j1 = j1
    j2 = j2
    Server <- TwoServers
    Mod <- ThreeMods
    Modlist <- OneLarge
    BatchN = 2
    Broken <- SecondBroken
    Job <- TwoJobs
    Faults <- AllFaults
    UserStarts = TRUE
    MaxVersion = 1
    MaxInstances = 2
SYMMETRY JobSymmetry
INVARIANTS
    TypeOK
    RecordNeverAhead
    
