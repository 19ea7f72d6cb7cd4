SPECIFICATION Spec
CONSTANTS
    pool_size = 8
    big_memory_pool = 20
    Requests = {2}
    BlockBits = 1
    FunctionBlocks = 1
    ASTFields <- OneField
    PlainTypes = {}
    TypeShapes <- Pointers
    spare_elements = 1
    max_fuzztester_size = 0
    MaxHeld = 2
    MaxObjects = 9
    MaxWritten = 9
    MaxFields = 1
    Menu = {"AST", "type", "compile", "dynamify", "event_root", "GC"}
    special_value = 99
INVARIANTS
    TypeReferencesStayValid
\* the process stops when it runs out of memory: error() calls abort()
CHECK_DEADLOCK FALSE
