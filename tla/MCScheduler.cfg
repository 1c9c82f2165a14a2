\* Every kernel call; up to three tasks beside sched, in a pool of five.
CONSTANTS
    TASKPOOL_MAXCOUNT = 5
    PRIORITY_TYPES = 2
    PROCESSOR_TIME = 2
    UsedPriorities = {0, 1}
    ProcessCalls = {"exit", "create", "kill"}
    ThreadCalls = {"yield", "exit", "create", "kill"}
    FillsPool = FALSE
    Orderly = TRUE
SPECIFICATION Spec
INVARIANTS
    TypeOK
    LinkedOnce
    NoTaskLost
    UseCountExact
    ThreadsHaveProcess
    ChildrenNameParent
    ChecksStillHold
    ChildrenEnqueued
PROPERTIES
    ImplementsLifecycle
