SPECIFICATION Spec
CONSTANTS
    Sizes <- FewSizes
    ChunkSize = 2
    MaxTransmissions = 4
    MaxLosses = 2
    MaxWashes = 1
INVARIANTS TypeOK IntactNotMixed WasteBounded
CHECK_DEADLOCK FALSE
