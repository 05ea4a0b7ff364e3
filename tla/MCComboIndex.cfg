CONSTANTS
    MaxLength = 3
    NMAPPING = 2
    Span = 3
    Writes <- MCWrites
    MaxFiles = 4
SPECIFICATION Spec
INVARIANTS
    TypeOK
    TagsMatchLayers
    ForeachExact
    FlattenExact
    CompressExact
PROPERTY ImplementsBlockMap
