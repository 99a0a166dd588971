SPECIFICATION FactorsSpec
CONSTANTS
    FactorRequests = {r1, r2}
    Passkeys = {p1, p2}
    ListLength = 2
    MaxStep = 2
    MaxChanges = 4
INVARIANTS
    OneSignInPerCode
    FactorsWork
PROPERTIES
    LastFactorStays
SYMMETRY Symmetry
CHECK_DEADLOCK FALSE
