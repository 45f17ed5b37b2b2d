SPECIFICATION OperationsSpec
CONSTANTS
    k1 = k1
    k2 = k2
    k3 = k3
    v1 = v1
    v2 = v2
    upload = upload
    c1 = c1
    c2 = c2
    c3 = c3
    c4 = c4
    ma = ma
    mb = mb
    mc = mc
    dash = dash
    f0 = f0
    f1 = f1
    f2 = f2
    p1 = p1
    p2 = p2
    l1 = l1
    l2 = l2
    s1 = s1
    s2 = s2
    title = title
    j1 = j1
    j2 = j2
    Part = {"cache"}
    Key <- Keys
    Value <- Values
    EventClass = {upload}
    Nil = Nil
    Limit = 3
    Size <- Sizes
    CronFile <- Crons
    WithClass <- Classes
    Period <- Periods
    Phase <- Phases
    LoginAttempts = 2
    CronFaults <- CronFaultKinds
    MaxOverrun = 1
    MaxMinute = 6
    MaxChanges = 2
    ModName <- ModNames
    ModlistName = {l1, l2}
    Server = {s1, s2}
    ServerList <- ListsOfServers
    WorkshopId <- Numbers
    ModKey <- ModKeys
    NameOf <- NamesOfKeys
    Filename = {f0, f1, f2}
    Unnamed = f0
    Place = {p1, p2}
    Addable <- Added
    Line <- Lines
    Title <- Titles
    ModFiles <- ModContents
    ListFiles <- Directories
    Reload = {j1, j2}
    ConfigFaults = {"workshop", "details", "stop"}
    MaxLoads = 2
    MaxWrites = 1
INVARIANT
    NewestIsThere
CHECK_DEADLOCK FALSE
