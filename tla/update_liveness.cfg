SPECIFICATION FairSpec
CONSTANTS
    s1 = s1
    s2 = s2
    m1 = m1
    m2 = m2
    m3 = m3
    j1 = j1
    j2 = j2
    Server <- TwoServers
    Mod <- TwoMods
    Modlist <- SharedMod
    BatchN = 1
    Broken <- NoneBroken
    Job <- TwoJobs
    Faults <- NoFault
    UserStarts = FALSE
    MaxVersion = 1
    MaxInstances = 2
PROPERTIES
    ServersComeBack
