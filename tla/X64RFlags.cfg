SPECIFICATION Spec
CONSTANTS
    Images <- MCImages
    StatusSets <- MCStatusSets
    MaxUnits = 5
    MaxInstrs = 7
INVARIANTS
    TypeOK
    NoForbiddenBit
    PrivilegeUntilSyscall
PROPERTIES
    SavedFlagsComeBack
CHECK_DEADLOCK FALSE
