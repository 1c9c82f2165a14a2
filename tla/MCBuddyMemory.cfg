\* Three roots of eight blocks, four of which hold the tree.
CONSTANTS
    Depth = 3
    g_RootCount = 3
    Sizes = {1, 2, 3}
    Clients = {"shell", "careful"}
SPECIFICATION Spec
INVARIANTS
    TypeOK
    FlagMeansAllocated
    RefusedOnlyWhenFull
    FreeFindsBlock
PROPERTIES
    ImplementsHeap
CHECK_DEADLOCK FALSE
