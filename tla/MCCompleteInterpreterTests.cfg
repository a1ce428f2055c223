SPECIFICATION Spec
CONSTANTS
    Methods = {0, 1, 2, 3}
    Entry = 0
    Programs <- TestPrograms
    MaxFrames = 2
    MaxNest = 4
INVARIANT
    AlwaysInBounds
