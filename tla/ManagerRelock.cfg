\* Two workers suffice for the self-lock of startSession.
CONSTANTS
    Sessions = {s1}
    Workers = {w1, w2}
    PoolThreads = {}
    Main = Main
    NoThread = NoThread
    NoSession = NoSession
    MaxTasks = 1
SPECIFICATION Spec
CHECK_DEADLOCK FALSE
INVARIANTS
    ExitDetectorNeverRelocks
