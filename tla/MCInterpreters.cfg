SPECIFICATION Spec
CONSTANTS
    WordMod = 8
    Arith <- ArithDef
    Trap <- TRAP
    NewAddress = 16
    Capacity <- CapacityDef
    Bodies <- BodiesDef
    ArgLists <- ArgsDef
    Peeks = {0, 3}
    MaxRuns = 2
    MaxDepth = 4
INVARIANTS
    TypeOK
    ThreadedAgrees
    HPAgrees
    ExecuteForgets
    UnsignedSeesZeros
CHECK_DEADLOCK FALSE
