SPECIFICATION Spec
CONSTANTS
    Widths = {2, 4, 8}
    IntWidth = 4
    Operands <- MCOperands
    Counts <- MCCounts
INVARIANTS
    TypeOK
PROPERTIES
    ShiftsBitByBit
    OverflowIsSignChange
    LogicComparesWithZero
