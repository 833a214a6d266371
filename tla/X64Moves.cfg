SPECIFICATION Spec
CONSTANTS
    Size = 128
    Half = 64
    Word = 16
    Cells = 36
    Addressing <- MCAddressing
    Leas <- MCLeas
    Pointers <- MCPointers
    MaxInstrs = 2
INVARIANTS
    TypeOK
PROPERTIES
    MovesAgree
    LanesAgree
CONSTRAINT
    FollowedUp
CHECK_DEADLOCK FALSE
