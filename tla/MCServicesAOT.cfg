SPECIFICATION Spec
CONSTANTS
    NodeWords = 2
    PoolNodes = 2
    SmallMax = 3
    MediumMax = 5
    BlockWords = 16
    Align = 2
    RawSizes = {2, 4, 9, 63}
    ObjectSizes = {1, 6}
    ArrayShapes <- ArrayShapesDef
    WordRange = 64
    MaxCalls = 5
    TypeNames = {"object", "A", "B"}
    BuiltIn = {"object"}
    MemberNames = {"m"}
    TypeAddresses = {1, 2, 3, 4}
    MaxTypeOps = 4
    StrayIds = {0, 3}
    AskedIds = {1, 3, 4, 5}
    MaxId = 6
    ILMethods <- ILMethodsDef
    CutShort = {0, 1, 3}
    BytesBehind = {0, 254}
    Pcs = {0, 1, 2, 3}
    CatchTypes = {"None", "NullReference"}
    NoCatchType = "None"
    CatchIndices = {0, 7}
    Exceptions = {"e"}
    NoException = "none"
    MaxFrames = 3
    MaxActivations = 2
    TypeIds = {0, 1, 2, 3, 4, 5}
    CalledTypes = {0, 1, 2, 3, 4}
    Targets = {"f", "g"}
    NoTarget = "null"
    MaxChecks = 5
    JITMethods = {1, 2}
    Bodies <- BodiesDef
    InitialSize = 8
    MaxCompiles = 3
    Names = {"A", "B", "C", "run", "stop"}
    Images = {"image"}
    Files <- FilesDef
    Bases = {0, 1}
    InstanceArgs <- InstanceArgsDef
    InstHash <- InstHashDef
    HashMod = 65536
    Golden = 31161
    MaxLoads = 2
    Tokens = {1, 2}
    TypeArgs <- AOTArgsDef
    WordMod = 4
    MaxCached = 3
    MaxOperations = 4
INVARIANT AOTExact
CHECK_DEADLOCK FALSE
