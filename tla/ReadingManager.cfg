\* The chain ends when a receive fails, hence no deadlock check.
CONSTANTS
    Bytes = {0, 1, 2}
    InitBufferSize = 2
    MaxSent = 6
SPECIFICATION FairSpec
CHECK_DEADLOCK FALSE
INVARIANTS
    TypeOK
    NothingMissed
    AlwaysRoom
PROPERTIES
    FramesTheStream
