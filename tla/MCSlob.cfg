SPECIFICATION WalkSpec
CONSTANTS
    Threads = {t1, t2}
    Pages = {p1, p2, p3}
    PageUnits = 10
    MinAlign = 4
    SLOB_ALIGN = 8
    StructBytes = 4
    RcuBytes = 2
    KmallocSizes = {1, 15, 17}
    Caches = {"plain", "rcu", "large"}
    CacheSpec <- MCCacheSpec
    Walkers = {t1}
    UIntMod = 1
    MaxSum = 60
    MaxObjects = 3
SYMMETRY Symmetry
INVARIANTS HeapSound PagesConserved NoBug FreeReported
PROPERTIES NoNeedlessPage BestFit
