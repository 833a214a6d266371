SPECIFICATION Spec
CONSTANTS
    Base = 2
    Top = 13
    Entry = 3
    Imms <- MCImms
    Rels <- MCRels
    Displs <- MCDispls
    Adjusts <- MCAdjusts
    MaxInstrs = 4
INVARIANTS
    TypeOK
PROPERTIES
    CallsReturn
    OperandsOfRsp
CHECK_DEADLOCK FALSE
