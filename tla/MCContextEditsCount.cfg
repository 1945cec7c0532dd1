SPECIFICATION Spec
CONSTANTS
    Threads = {t1, t2}
    MaxChanges = 2
INVARIANT ZeroMeansNoCall
