SPECIFICATION Spec
CONSTANTS
    w1 = w1
    w2 = w2
    w3 = w3
    s1 = s1
    s2 = s2
    Ids = {i1, i2, i3}
    Roles = {r1, r2}
    Stores = {s1, s2}
    Writers = {w1, w2, w3}
    StoreOf <- MCStoreOf
    NoId = NoId
    NoRoles = NoRoles
    MaxActive = 1
    MaxVersions = 2
    MaxPerAnalysis = 3
SYMMETRY Symmetry
CHECK_DEADLOCK FALSE
INVARIANTS
    TypeOK
    StoredVersionsAreSound
    CapsHold
PROPERTY ImplementsHistory
