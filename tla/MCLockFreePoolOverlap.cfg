SPECIFICATION Spec
CONSTANTS
    a = a
    f = f
    b = b
    w = w
    NULL = NULL
    PoolSize = 5
    Threads = {a}
    Allocators = {a}
    Freers = {a}
    WriteSpan = 4
    Words = {w}
INVARIANT
    HeadIsABlock
