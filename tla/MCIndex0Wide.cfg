CONSTANTS
    LogicalBlocks <- MCBlocks
    Inputs <- MCInputs
    Word = 16
    MaxLength = 8
    NMAPPING = 2
    KeySpace = 3
SPECIFICATION Spec
INVARIANT LookupExact
