SPECIFICATION Spec
CONSTANTS
    Callers = {t1, t2}
    Docs = {d1, d2, d3}
    None = None
    Bodiless = {d2}
    Stored = {d1, d2}
    Cap = 2
    MaxCalls = 5
SYMMETRY MCSymmetry
CHECK_DEADLOCK FALSE
INVARIANT CacheIsLru
INVARIANT RowsBelong
