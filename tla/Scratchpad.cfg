SPECIFICATION Spec
CONSTANTS
    Align <- MCAlign
    ArenaSizes <- MCArenaSizes
    DefaultSize <- MCDefaultSize
    Request <- MCRequest
    HeapAddress <- MCHeapAddress
    RpcmemLoaded <- MCRpcmemLoaded
INVARIANTS
    TypeOK
    BlocksTileArena
    FreeFindsItsBlock
    FullCoalescing
    PayloadAligned
PROPERTIES
    HeapOnlyWhenFull
    PoolSpec
