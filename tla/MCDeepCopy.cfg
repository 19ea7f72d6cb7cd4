SPECIFICATION Spec
CONSTANTS
    pool_size = 20
    big_memory_pool = 20
    Requests = {2, 3, 4, 5, 6, 7}
    BlockBits = 1
    FunctionBlocks = 1
    ASTFields <- NoTags
    PlainTypes = {1}
    TypeShapes <- NoTypes
    spare_elements = 1
    max_fuzztester_size = 0
    MaxHeld = 1
    MaxObjects = 9
    MaxWritten = 9
    MaxFields = 1
    Menu = {"basicblock", "pushback", "compile", "event_root", "GC"}
    special_value = 99
INVARIANTS
    CopyIsDeep
\* the process stops when it runs out of memory: error() calls abort()
CHECK_DEADLOCK FALSE
