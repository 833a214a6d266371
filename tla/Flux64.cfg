SPECIFICATION Spec
CONSTANTS
    Tables <- MCTables
    FileLen = 5
    PageSize = 2
    Addresses = 12
    Statuses = {0, 263}
INVARIANTS
    TypeOK
    RunsWhenLoaded
    ReleasesEverything
    UnmapsOnlyMapped
    ExitStatus
PROPERTIES
    ProcessEnds
CHECK_DEADLOCK FALSE
