CONSTANTS
    av1 = av1
    av2 = av2
    a = a
    b = b
    altis = altis
    coop = coop
    s1 = s1
    s2 = s2
    j1 = j1
    j2 = j2
    t1 = t1
    t2 = t2
    Nothing = Nothing
    Pbo <- Files
    Name <- Names
    Map <- Maps
    MapInPath <- OnAltis
    Reported <- ReportedAsA
    Tag <- Tags
    Server <- Servers
    Upload <- Uploads
    Tester <- Testers
    MaxResults = 2
    MaxFaults = 1
    MaxSessions = 1
    MaxPlayed = 1
SPECIFICATION Spec
SYMMETRY Symmetry
CONSTRAINT Explored
INVARIANTS
    TypeOK
    RecordedIsOnServer
    FileIdentifiesIteration
    VotesCountedOnce
PROPERTY
    PlayedIsWhatRan
