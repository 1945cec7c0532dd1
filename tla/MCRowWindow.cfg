SPECIFICATION WindowFairSpec
CONSTANTS
    MaxSide = 3
    MaxChars = 5
    MaxFileRows = 6
    MaxTotal = 8
    MaxAsked = 4
CHECK_DEADLOCK FALSE
INVARIANTS
    WindowTypeOK
    WindowIsRight
PROPERTY WindowEnds
