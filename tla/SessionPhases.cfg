\* All the settings.  A session really ends, hence no deadlock check.
CONSTANTS
    MaxRequests = 3
    MaxLate = 2
SPECIFICATION FairSpec
CHECK_DEADLOCK FALSE
INVARIANTS
    TypeOK
    AnswersExact
    TimerOnlyWhileReading
PROPERTIES
    SilentPeerIsDropped
    RefusedSessionEnds
    OpenPeerIsServed
