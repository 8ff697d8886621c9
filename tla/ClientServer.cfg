\* Every program with every setting, and the examples.  A program may be done,
\* hence no deadlock check.
CONSTANTS
    MaxRequests = 3
    MaxLate = 1
    RequestCap = 2
    AnswerCap = 1
    Timeouts = {"none", "default"}
SPECIFICATION FairSpec
CHECK_DEADLOCK FALSE
INVARIANTS
    TypeOK
    AnswerIsOwn
    WaitsAreTheUsers
PROPERTIES
    RequestReturns
