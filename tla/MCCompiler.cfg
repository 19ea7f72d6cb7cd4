SPECIFICATION FairSpec
CONSTANTS
    Programs <- MCPrograms
    Root = 1
    ImvTypes <- MCImvTypes
    Huge = 3
    SameTarget <- MCSameTarget
INVARIANTS
    CompilerTypeOK
    TablesAgree
    ObjectsAreMade
    PointersHaveTargets
    SlotsHold
PROPERTIES
    ScopesNest
    StatementsLeaveOne
    CompileReturns
\* the compilation ends
CHECK_DEADLOCK FALSE
