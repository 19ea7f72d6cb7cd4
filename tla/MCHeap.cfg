SPECIFICATION HeapFairSpec
CONSTANTS
    pool_size = 6
    big_memory_pool = 20
    Requests = {1, 2, 3}
INVARIANTS
    TypeOK
    NoOverlap
    NoWordLost
    CountIsFreeWords
    CursorInPool
PROPERTIES
    CollectsUnmarked
    SweepCoalesces
    CollectionEnds
    ImplementsMemory
\* the process stops when it runs out of memory: error() calls abort()
CHECK_DEADLOCK FALSE
