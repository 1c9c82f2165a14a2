\* Sectors of two entries: the second entry of a block is in its second sector.
CONSTANTS
    FileNames = {a, b}
    NoName = NoName
    InodeCount = 5
    BlockCount = 7
    Reserved = 2
    DIR_BLOCKS = 2
    EntriesPerSector = 2
    InodesBefore <- TablesBefore
CONSTRAINT OnlyHidden
SPECIFICATION Spec
PROPERTIES
    RemovedIsEmpty
CHECK_DEADLOCK FALSE
