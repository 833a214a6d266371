SPECIFICATION Spec
CONSTANTS
    Half = 128
    Operands = {0, 1, 2, 15, 16, 126, 127, 128, 129, 255}
    SignedWraps = TRUE
INVARIANTS
    TypeOK
    ResultFlagsAgree
PROPERTIES
    CmpDecidesOrder
    OverflowReported
    ChainStartsExactly
