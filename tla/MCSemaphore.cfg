\* One semaphore with one permit, as the disk driver uses it, and five PCBs.
CONSTANTS
    TASKPOOL_MAXCOUNT = 5
    PRIORITY_TYPES = 1
    PROCESSOR_TIME = 1
    UsedPriorities = {0}
    ProcessCalls = {"create", "kill"}
    ThreadCalls = {"exit"}
    FillsPool = FALSE
    Orderly = TRUE
    SEMAPHOER_MAXCOUNT = 1
    Permits = {1}
    DebtBound = 1
SPECIFICATION SemaphoreSpec
CONSTRAINT
    NothingTorn
INVARIANTS
    AtMostMaxCount
    CountAccounts
    WaitersQueued
PROPERTIES
    ImplementsLifecycle
CHECK_DEADLOCK FALSE
