SPECIFICATION FairSpec
CONSTANTS
    Findings = {f1, f2}
    Workers = {w1, w2}
    Requests = {r1, r2}
    Editors = {e1, e2}
    NoFinding = NoFinding
    Models = {m1, m2}
    Off = Off
    MaxPreparing = 1
    Analyses <- FinalAnalyses
    MaxEdits = 2
    MaxSwitches = 2
    MaxPosts = 2
    MaxRestarts = 1
    MaxFaults = 1
    MaxEvents = 2
CHECK_DEADLOCK FALSE
INVARIANTS
    TypeOK
    RowsAreAccountedFor
    CallsAreCounted
    ShownIsCurrent
PROPERTY PreparingEnds
