SPECIFICATION Spec
CONSTANTS
    f1 = f1
    f2 = f2
    Refs = {r1, r2, r3}
    Files = {f1, f2}
    SizeOf <- MCSizeOf
    Callers = {c1, c2}
    NoRef = NoRef
    NoFile = NoFile
    Damaged = Damaged
    MaxCount = 2
    MaxBytes = 3
    Ttl = 1
    MaxTime = 1
    MaxCrashes = 1
    MaxDamages = 1
SYMMETRY Symmetry
CHECK_DEADLOCK FALSE
INVARIANTS
    TypeOK
    WithinBounds
    RunsOnlySoundFiles
PROPERTY ImplementsOneTimeReference
