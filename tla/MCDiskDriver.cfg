\* Calls of up to three sectors on a disk of six.
CONSTANTS
    Sectors = 6
    MaxCount = 3
SPECIFICATION FairSpec
INVARIANTS
    TypeOK
    TransferWhenReady
    CallMovesItsSectors
    MutexHeldInCall
PROPERTIES
    CommandWhenIdle
    CallReturns
CHECK_DEADLOCK FALSE
