SPECIFICATION Spec
CONSTANTS
    Weight <- MCWeight
    ShapeOf <- MCShapeOf
    Batch <- MCBatch
    MaxThreads <- MCMaxThreads
INVARIANTS
    OneOwner
    OnlyUsedBlocksAreLost
    UniqueShapeGetsItsWeights
    NoThreadOutlivesClear
PROPERTIES
    NobodyWaitsForEver
