SPECIFICATION LoaderSpec
CONSTANTS
    Tables <- MCTables
    FileLen = 5
    PageSize = 2
    Addresses = 12
INVARIANTS
    LoadableSegmentsLoad
CHECK_DEADLOCK FALSE
