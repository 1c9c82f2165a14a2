\* The tasks the kernel runs: a shell that creates and kills, threads that
\* yield for ever.
CONSTANTS
    TASKPOOL_MAXCOUNT = 5
    PRIORITY_TYPES = 2
    PROCESSOR_TIME = 2
    UsedPriorities = {1}
    ProcessCalls = {"kill", "create"}
    ThreadCalls = {"yield"}
    FillsPool = FALSE
    Orderly = TRUE
SPECIFICATION FairSpec
INVARIANTS
    IInv
PROPERTIES
    ReadyTaskRuns
    TerminatedIsReaped
