SPECIFICATION Spec
CONSTANTS
    pool_size = 17
    big_memory_pool = 20
    Requests = {1, 2, 3, 4, 6}
    BlockBits = 1
    FunctionBlocks = 1
    ASTFields <- NoTags
    PlainTypes = {}
    TypeShapes <- PointersAndPairs
    spare_elements = 1
    max_fuzztester_size = 0
    MaxHeld = 1
    MaxObjects = 5
    MaxWritten = 5
    MaxFields = 1
    Menu = {"type","vector","vecpb","pointer","dynamic","imv","store","compile","run","event_root","GC"}
    special_value = 99
INVARIANTS
    LivingIsRooted
    Intact
    TypesUnique
    ChecksNeverFail
\* the process stops when it runs out of memory: error() calls abort()
CHECK_DEADLOCK FALSE
