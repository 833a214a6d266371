SPECIFICATION Spec
CONSTANTS
    Widths = {4}
    IntWidth = 4
    Operands <- MCOperands
    Counts <- MCCounts
PROPERTIES
    RotatesThroughCarry
