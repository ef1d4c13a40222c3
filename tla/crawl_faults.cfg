SPECIFICATION Spec
CONSTANTS
    w1 = w1
    w2 = w2
    a = a
    b = b
    c = c
    la = la
    lb = lb
    lc = lc
    lc2 = lc2
    Workers = {w1, w2}
    Urls = {a, b, c}
    NoUrl = NoUrl
    Links = {la, lb, lc, lc2}
    UrlOf <- MCUrlOf
    RowKey <- MCRowKeyDistinct
    Web <- MCWeb
    Seeds <- MCSeeds
    MAX_URLS = 2
    Faults = {"crash", "lost", "unsent", "refused"}
    MaxStarts = 4
SYMMETRY WorkerSymmetry
CHECK_DEADLOCK FALSE
INVARIANT TypeOK
INVARIANT OneClaimPerUrl
INVARIANT OvershootBounded
INVARIANT LossBounded
INVARIANT CountedPagesStored
PROPERTY QuotaSpec
