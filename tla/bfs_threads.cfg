SPECIFICATION FairSpec
CONSTANTS
    a = a
    b = b
    c = c
    d = d
    e = e
    f = f
    g = g
    h = h
    Urls = {a, b, c, d, e, f, g, h}
    LinksOf <- MCLinksOf
    Unreachable = {c}
    Seeds <- MCSeeds
    Level = 3
    Machines <- MCMachines
    MaxSpawns = 9
CHECK_DEADLOCK FALSE
INVARIANT SlotsAccounted
INVARIANT BankBounded
INVARIANT NoEarlyExit
INVARIANT FetchedOnce
INVARIANT Coverage
PROPERTY Terminates
