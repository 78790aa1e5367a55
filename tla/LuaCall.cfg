SPECIFICATION Spec
CONSTANTS
    Coroutines = {"a", "b"}
    MaxCCalls = 3
    ErrorCalls = 2
    BasicCI = 3
    MaxCalls = 5
    BasicStack = 9
    ExtraStack = 3
    MinStack = 1
    MaxStack = 5
    MaxFrames = 4
    MaxTotal = 7
INVARIANTS SuspendedClean StacksInStep LocalsKept StackFits
CHECK_DEADLOCK FALSE
