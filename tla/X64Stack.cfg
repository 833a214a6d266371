SPECIFICATION Spec
CONSTANTS
    Top = 512
    MaxArgs = 2
    MaxEnvs = 2
    StringSizes = {1, 9, 16}
    HostAuxv <- MCHostAuxv
INVARIANTS
    TypeOK
    NothingOverwritten
    ArgumentBlock
    AuxiliaryVector
    EntryAlignment
CHECK_DEADLOCK FALSE
