SPECIFICATION Spec
CONSTANTS
    MinChunk = 4
    Addresses <- AddressesDef
    AddressEnd = 24
    Sizes = {0, 2}
    Arrays <- ArraysDef
    Thresholds = {1, 4, 30}
    SizeMod = 64
    MaxBlocks = 4
INVARIANTS
    TypeOK
    HeldBacked
    AccountsAgree
PROPERTIES
    FreeMerges
    ImplementsHeap
