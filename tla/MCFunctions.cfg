SPECIFICATION Spec
CONSTANTS
    pool_size = 8
    big_memory_pool = 20
    Requests = {2}
    BlockBits = 2
    FunctionBlocks = 2
    ASTFields <- OneField
    PlainTypes = {}
    TypeShapes <- NoTypes
    spare_elements = 1
    max_fuzztester_size = 1
    MaxHeld = 1
    MaxObjects = 9
    MaxWritten = 9
    MaxFields = 1
    Menu = {"AST", "compile", "find_random_AST", "overfunc", "event_root", "clear", "GC"}
    special_value = 99
INVARIANTS
    CollectorTypeOK
    FunctionsMatchModules
\* the process stops when it runs out of memory: error() calls abort()
CHECK_DEADLOCK FALSE
