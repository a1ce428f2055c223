SPECIFICATION Spec
CONSTANTS
    a = a
    f = f
    b = b
    w = w
    NULL = NULL
    PoolSize = 3
    Threads = {a, b}
    Allocators = {a, b}
    Freers = {a}
    WriteSpan = 1
    Words = {w}
INVARIANT
    NoDoubleAllocation
