\* The tasks may use up the pool.
CONSTANTS
    TASKPOOL_MAXCOUNT = 4
    PRIORITY_TYPES = 2
    PROCESSOR_TIME = 2
    UsedPriorities = {0, 1}
    ProcessCalls = {"exit", "create", "kill"}
    ThreadCalls = {"yield", "exit", "create", "kill"}
    FillsPool = TRUE
    Orderly = TRUE
SPECIFICATION Spec
INVARIANTS
    ChildrenEnqueued
CHECK_DEADLOCK FALSE
