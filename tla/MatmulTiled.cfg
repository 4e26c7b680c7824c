SPECIFICATION Spec
CONSTANTS
    Quantum <- MCQuantum
    MaxDim <- MCMaxDim
    KLimit <- MCKLimit
    TiledShape <- MCTiledShape
    Global <- MCGlobal
CHECK_DEADLOCK FALSE
INVARIANTS
    FirstTileExact
    ReadsInBounds
    TileRespectsLimits
