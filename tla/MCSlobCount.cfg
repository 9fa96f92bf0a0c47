SPECIFICATION WalkSpec
CONSTANTS
    Threads = {t1}
    Pages = {p1, p2}
    PageUnits = 8
    MinAlign = 4
    SLOB_ALIGN = 8
    StructBytes = 4
    RcuBytes = 2
    KmallocSizes = {1, 12}
    Caches = {}
    CacheSpec <- MCCacheSpec
    Walkers = {}
    UIntMod = 256
    MaxSum = 40
    MaxObjects = 3
INVARIANT PagesCounted
