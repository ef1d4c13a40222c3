SPECIFICATION FairSpec
CONSTANTS
    a = a
    b = b
    c = c
    d = d
    e = e
    f = f
    Urls = {a, b, c, d, e, f}
    NoUrl = NoUrl
    LinksOf <- MCTwoLayers
    Unreachable = {b, d}
    Seeds <- MCSeeds
    Level = 2
    MAX_THREADS = 3
    MaxSpawns = 7
CHECK_DEADLOCK FALSE
INVARIANT SlotsExact
INVARIANT RoomForLeaves
INVARIANT Coverage
PROPERTY Terminates
