SPECIFICATION LoaderSpec
CONSTANTS
    Tables <- MCTables
    FileLen = 5
    PageSize = 2
    Addresses = 12
INVARIANTS
    LoaderTypeOK
    ImageComplete
    MappingsRecorded
    FileClosed
    RefusedForAReason
PROPERTIES
    LoaderReturns
CHECK_DEADLOCK FALSE
