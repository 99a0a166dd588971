SPECIFICATION Spec
CONSTANTS
    u1 = u1
    r1 = r1
    r2 = r2
    r3 = r3
    NoUser = NoUser
    Users = {u1}
    Requests = {r1, r2}
    Databases <- OnPostgres
    MaxTokens = 3
    MaxUpdates = 0
    MaxCrashes = 0
    MaxExpiries = 0
INVARIANTS
    SessionsEnd
CHECK_DEADLOCK FALSE
