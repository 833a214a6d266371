SPECIFICATION Spec
CONSTANTS
    Bytes <- MCBytes
    OperandBytes <- MCOperandBytes
    MaxPrefixes = 4
INVARIANTS
    TypeOK
    OperandsFetched
    TraceFits
PROPERTIES
    DeliversInstructions
CHECK_DEADLOCK FALSE
