\* A program may be refused, or have made all its calls, hence no deadlock check.
CONSTANTS
    Modulus = 8
    MaxElements = 3
    MaxCalls = 2
    ReprSizes = {1, 3, 4}
SPECIFICATION Spec
CHECK_DEADLOCK FALSE
INVARIANTS
    TypeOK
    AssertsCoverOverloads
    ExamplesCompile
    InStep
