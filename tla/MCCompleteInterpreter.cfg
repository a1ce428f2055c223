SPECIFICATION FairSpec
CONSTANTS
    Methods = {0, 1, 2, 3}
    Entry = 0
    Programs <- AllPrograms
    MaxFrames = 2
    MaxNest = 4
INVARIANTS
    TypeOK
    StacksInBounds
    FramesAreCallSites
    DepthsAsTyped
    Activations
PROPERTIES
    LoopFreeEnds
    AlwaysMovesOn
CHECK_DEADLOCK FALSE
