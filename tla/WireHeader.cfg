CONSTANTS
    Modulus = 4
    MaxElements = 1
    MaxCalls = 1
    ReprSizes = {1, 4}
SPECIFICATION Spec
CHECK_DEADLOCK FALSE
INVARIANTS
    AtLeastHeaderHasHeader
