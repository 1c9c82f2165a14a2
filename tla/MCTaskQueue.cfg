\* Five PCBs, so that a queue has a middle on either side of its half.
CONSTANTS
    PCBs = {a, b, c, d, e}
    QueueIds = {ready, terminate}
    NULL = NULL
    InsertsInMiddle = FALSE
SYMMETRY PCBSymmetry
SPECIFICATION Spec
INVARIANTS
    GetReturnsElement
PROPERTIES
    ImplementsQueues
