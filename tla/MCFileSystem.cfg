\* Directories of two blocks and two entries; blocks for two directories and a half.
CONSTANTS
    FileNames = {a, b}
    NoName = NoName
    InodeCount = 5
    BlockCount = 9
    Reserved = 2
    DIR_BLOCKS = 2
    EntriesPerSector = 3
    InodesBefore <- TablesBefore
SYMMETRY Symmetry
CONSTRAINT Undamaged
SPECIFICATION Spec
INVARIANTS
    TypeOK
    EntriesMarked
    DirectoriesOwnBlocks
    NothingLeaks
    WorkingDirectoryExists
PROPERTIES
    ImplementsTree
CHECK_DEADLOCK FALSE
