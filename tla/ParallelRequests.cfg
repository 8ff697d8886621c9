\* Two sessions that share a pool of one or two threads, two requests each.  A
\* server that is gone, or has nothing to do, rests, hence no deadlock check.
CONSTANTS
    Sessions = {s1, s2}
    PoolThreads = {p1, p2}
    Pools = {{p1}, {p1, p2}}
    MaxRequests = 2
    MaxSent = 3
SPECIFICATION FairSpec
CHECK_DEADLOCK FALSE
INVARIANTS
    TypeOK
    BuffersArePrivate
    EachRequestOnce
    OwnersExact
    SpecificExact
PROPERTIES
    RequestIsProcessed
    SessionIsFreed
    ImplementsLifetime
