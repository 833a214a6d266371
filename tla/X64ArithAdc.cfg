SPECIFICATION Spec
CONSTANTS
    Half = 128
    Operands = {1, 127, 128, 255}
    SignedWraps = TRUE
PROPERTIES
    CarryReachesResult
