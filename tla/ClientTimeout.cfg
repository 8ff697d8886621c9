\* One call suffices: the payload leaves no data, and the client waits for them.
CONSTANTS
    MaxRequests = 1
    MaxLate = 1
    RequestCap = 2
    AnswerCap = 1
    Timeouts = {"none"}
SPECIFICATION FairSpec
CHECK_DEADLOCK FALSE
PROPERTIES
    AnswerTimesOut
