SPECIFICATION PushStealSpec
CONSTANTS
    i1 = i1
    i2 = i2
    NoItem = NoItem
    Capacity = 2
    SizeMod = 16
    Thieves = {i1, i2}
    MaxPush = 4
INVARIANTS
    DequeInv
    TakenOnce
PROPERTY
    ImplementsFifo
