\* A client that has several of the smallest blocks at once.
CONSTANTS
    Depth = 3
    g_RootCount = 1
    Sizes = {1}
    Clients = {"any"}
SPECIFICATION Spec
INVARIANTS
    FlagMeansAllocated
CHECK_DEADLOCK FALSE
