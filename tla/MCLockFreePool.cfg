SPECIFICATION FairSpec
CONSTANTS
    a = a
    f = f
    b = b
    w = w
    NULL = NULL
    PoolSize = 3
    Threads = {a, b, f}
    Allocators = {a}
    Freers = {b, f}
    WriteSpan = 1
    Words = {w}
INVARIANTS
    NoDoubleAllocation
    ListIsFreeBlocks
    IInv
PROPERTY
    ImplementsPool
    AllocateEnds
