SPECIFICATION QnnSpec
CONSTANTS
    Library <- MCLibrary
    QnnShape <- MCQnnShape
    HasDevice <- MCHasDevice
    HasDeviceFree <- MCHasDeviceFree
INVARIANTS
    NothingHeldBetweenRequests
PROPERTIES
    EveryRequestAnswered
CHECK_DEADLOCK FALSE
