SPECIFICATION Spec
CONSTANTS
    Choice <- MCChoice
    Key <- MCKey
    HasDeviceCreate <- MCHasDeviceCreate
    HasDeviceFree <- MCHasDeviceFree
    HasLogCreate <- MCHasLogCreate
    HasLogFree <- MCHasLogFree
    MaxLoads <- MCMaxLoads
    Quantum <- MCQuantum
    MaxDim <- MCMaxDim
    KLimit <- MCKLimit
    Shape <- MCShape
    GlobalSplits <- MCGlobalSplits
CHECK_DEADLOCK FALSE
INVARIANTS
    TypeOK
    PreparedDirectIsCached
    EngineHoldsNoStaleHandle
    ContextsMatchCache
    DirectRunsWhereAsked
PROPERTIES
    CompiledWorkIsKept
    OnlyInvalidGraphsFreedTwice
