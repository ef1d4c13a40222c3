SPECIFICATION Spec
CONSTANTS
    d1 = d1
    d2 = d2
    x = x
    y = y
    Docs = {d1, d2}
    Terms = {x, y}
    Tokens <- MCTokens
    Queries <- MCQueries
    Faults = {}
    MaxRuns = 1
    MaxSearches = 1
CHECK_DEADLOCK FALSE
INVARIANT PairedWithTerms
