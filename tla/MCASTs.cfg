SPECIFICATION FairSpec
CONSTANTS
    pool_size = 14
    big_memory_pool = 20
    Requests = {2, 3, 4}
    BlockBits = 1
    FunctionBlocks = 1
    ASTFields <- TwoFields
    PlainTypes = {}
    TypeShapes <- NoTypes
    spare_elements = 1
    max_fuzztester_size = 0
    MaxHeld = 1
    MaxObjects = 3
    MaxWritten = 9
    MaxFields = 1
    Menu = {"AST", "store", "compile", "AST_from_function", "event_root", "GC"}
    special_value = 99
INVARIANTS
    Intact
    CopyIsDeep
PROPERTIES
    CollectorReturns
\* the process stops when it runs out of memory: error() calls abort()
CHECK_DEADLOCK FALSE
