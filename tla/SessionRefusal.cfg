CONSTANTS
    MaxRequests = 2
    MaxLate = 1
SPECIFICATION Spec
CHECK_DEADLOCK FALSE
PROPERTIES
    RefusalIsFinal
