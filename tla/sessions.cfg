SPECIFICATION FairSpec
CONSTANTS
    u1 = u1
    r1 = r1
    r2 = r2
    r3 = r3
    NoUser = NoUser
    Users = {u1}
    Requests = {r1, r2}
    Databases <- AllDatabases
    MaxTokens = 3
    MaxUpdates = 1
    MaxCrashes = 1
    MaxExpiries = 1
INVARIANTS
    OneLiveToken
    EndedStayEnded
PROPERTIES
    FamiliesRotate
    RequestsEnd
CHECK_DEADLOCK FALSE
