SPECIFICATION Spec
CONSTANTS
    Ids = {a1}
    Workers = {w1}
    Requests = {r1}
    NoId = NoId
    MaxCrashes = 0
    MaxStoreErrors = 0
INVARIANT CancelIsNeverMissed
