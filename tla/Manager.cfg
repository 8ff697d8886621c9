\* Two sessions, two workers and a pool thread; the self-lock of ManagerRelock.cfg
\* may stop the server, hence no deadlock check.
CONSTANTS
    Sessions = {s1, s2}
    Workers = {w1, w2}
    PoolThreads = {p1}
    Main = Main
    NoThread = NoThread
    NoSession = NoSession
    MaxTasks = 1
SPECIFICATION FairSpec
CHECK_DEADLOCK FALSE
INVARIANTS
    TypeOK
    OwnedSessionIsAlive
    ArmedTimerHasSession
    NoOrphan
    LastHolderIsAlone
    MapIsExact
    RemovalIsNeverObserved
PROPERTIES
    ImplementsLifetime
    EndedSessionIsFreed
    AcceptorRearms
    ShutdownCompletes
