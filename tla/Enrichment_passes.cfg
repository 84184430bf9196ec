SPECIFICATION FairSpec
CONSTANTS
    w1 = w1
    w2 = w2
    t1 = t1
    Addr = {1, 2, 3}
    Tracker = {t1}
    Kept <- MCKept
    Pool = {2, 3}
    Worker = {w1, w2}
    ASN = {1, 2}
    Announced = {1}
    BatchLimit = 2
    Interval = 1
INVARIANTS
    EnrichmentInv
    FeedKeepsUp
PROPERTIES
    LookedUpForEver
