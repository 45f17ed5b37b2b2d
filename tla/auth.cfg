SPECIFICATION AuthSpec
CONSTANTS
    c1 = c1
    u1 = u1
    u2 = u2
    p1 = p1
    p2 = p2
    g1 = g1
    g2 = g2
    Discord <- Users
    Code = {c1}
    Login <- TwoLogins
    SessionLength <- ShortHuman
    MaxUsers = 3
    MaxTokens = 3
    MaxTime = 2
    MaxFaults = 2
    Nobody = Nobody
    User <- Users
    RoleName = {"admin", "member"}
    PermissionName = {p1, p2}
    GroupName <- Groups
    RoleGrants <- AdminOrNot
    PermissionGrants <- UploadOrTest
    MaxRows = 2
    Nothing = Nothing
SYMMETRY Symmetry
INVARIANTS
    TypeOK
    OneApiSession
    StrandedOnlyByFailure
    AccessTypeOK
    DeletionsAccepted
    ChecksFollowRoster
PROPERTIES
    InactiveForEver
    AccountKeepsItsUser
    ImplementsRoster
