SPECIFICATION Spec
CONSTANTS
    FracBits = 3
    Bias = 7
    Word = 8
    Lanes = 4
    Precision = 4
    MantissaBits = 6
    Offset = 7
    Row <- MCRow
INVARIANT
    RoundTrip
CHECK_DEADLOCK FALSE
