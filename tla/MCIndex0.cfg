CONSTANTS
    LogicalBlocks <- MCBlocks
    Inputs <- MCInputs
    Word = 16
    MaxLength = 8
    NMAPPING = 2
    KeySpace = 8
SPECIFICATION Spec
INVARIANTS
    TypeOK
    Sorted
    BlockCountExact
    LookupExact
PROPERTY ImplementsBlockMap
