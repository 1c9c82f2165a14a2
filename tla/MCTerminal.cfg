\* A screen of two lines, a ring of two keys; a PID is the row of a task.
CONSTANTS
    ScanCodes = {"letter", "enter", "backspace", "tab", "shift"}
    BUFFER_SIZE = 2
    COMMAND_MAX = 4
    WIDTH = 4
    HEIGHT = 2
    Outputs <- ShortOutputs
    PIDs = {0, 1}
    MaxTabs = 1
SPECIFICATION Spec
CONSTRAINT Undisturbed
INVARIANTS
    ReadsInOrder
    LineIsOnScreen
    PromptKept
PROPERTIES
    BackspaceErases
CHECK_DEADLOCK FALSE
