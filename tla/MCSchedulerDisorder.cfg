\* A process and its children may exit in any order; nobody kills.
CONSTANTS
    TASKPOOL_MAXCOUNT = 5
    PRIORITY_TYPES = 2
    PROCESSOR_TIME = 2
    UsedPriorities = {0, 1}
    ProcessCalls = {"exit", "create"}
    ThreadCalls = {"yield", "exit"}
    FillsPool = FALSE
    Orderly = FALSE
SPECIFICATION Spec
INVARIANTS
    LinkedOnce
CHECK_DEADLOCK FALSE
