SPECIFICATION Spec
CONSTANTS
    Shape <- MCShape
    MaxCalls <- MCMaxCalls
INVARIANTS
    OwnOperands
    NothingLeftBehind
PROPERTIES
    BuffersAreLive
