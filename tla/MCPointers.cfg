SPECIFICATION Spec
CONSTANTS
    pool_size = 18
    big_memory_pool = 20
    Requests = {1}
    BlockBits = 1
    FunctionBlocks = 1
    ASTFields <- NoTags
    PlainTypes = {}
    TypeShapes <- StructPointers
    spare_elements = 1
    max_fuzztester_size = 0
    MaxHeld = 1
    MaxObjects = 9
    MaxWritten = 9
    MaxFields = 1
    Menu = {"type", "pointer", "dynamic", "imv", "compile", "event_root", "GC"}
    special_value = 99
INVARIANTS
    MarkedWhole
\* the process stops when it runs out of memory: error() calls abort()
CHECK_DEADLOCK FALSE
