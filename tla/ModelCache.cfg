SPECIFICATION Spec
CONSTANTS
    Shape <- MCShape
    Backend <- MCBackend
    MaxResources <- MCMaxResources
INVARIANTS
    OwnedOnce
    CopiesFit
    OneModelPerKey
