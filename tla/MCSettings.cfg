SPECIFICATION Spec
CONSTANTS
    Clients = {c1, c2}
    Stores = {s1, s2}
    NoStore = NoStore
    Installed <- MCInstalled
    Interval = 1
    MaxVersion = 2
    MaxTime = 2
    MaxRestarts = 1
    MaxFaults = 1
SYMMETRY Symmetry
CHECK_DEADLOCK FALSE
INVARIANTS
    TypeOK
    TestsAreSound
    SaysTheSame
PROPERTIES
    ImplementsRegister
    EditsAreInformed
