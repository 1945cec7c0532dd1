SPECIFICATION FairSpec
CONSTANTS
    Ids = {a1, a2}
    Workers = {w1, w2}
    Requests = {r1}
    NoId = NoId
    MaxCrashes = 1
    MaxStoreErrors = 1
INVARIANTS
    TypeOK
    OneWriter
    UnfinishedIsOwned
    CancellationsAreExact
PROPERTIES
    ImplementsLifecycle
    EveryAnalysisEnds
