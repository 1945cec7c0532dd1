SPECIFICATION Spec
CONSTANTS
    Threads = {t1, t2}
    MaxChanges = 3
SYMMETRY Symmetry
INVARIANTS
    TypeOK
    RowIsConsistent
    CountIsKept
    DeletedForGood
