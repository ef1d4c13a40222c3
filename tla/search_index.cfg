SPECIFICATION Spec
CONSTANTS
    d1 = d1
    d2 = d2
    x = x
    y = y
    Docs = {d1, d2}
    Terms = {x, y}
    Tokens <- MCTokens
    Queries <- MCQueries
    Faults = {"crash", "row", "read"}
    MaxRuns = 2
    MaxSearches = 1
CHECK_DEADLOCK FALSE
INVARIANT IndexSound
INVARIANT CertifiedComplete
INVARIANT HitsExact
INVARIANT SearchCoheres
INVARIANT ScoreDefined
