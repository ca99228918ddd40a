\* Calls that need the access token, while either account changes once.
CONSTANTS
    Tabs = {t1, t2}
    Kinds = {"sign_in", "me", "update"}
    AccessLife = 2
    Buffer = 1
    MinTtl = 0
    MaxRequests = 3
    MaxChanges = 1
    MaxTime = 2
SPECIFICATION Spec
CHECK_DEADLOCK FALSE
SYMMETRY Symmetry
INVARIANTS
    TypeOK
    CacheDiesWithToken
PROPERTIES
    UpdatesAreEntitled
