\* One session and one worker suffice: the read and the timer of a session end
\* together, and the read's handler runs first.
CONSTANTS
    Sessions = {s1}
    Workers = {w1}
    PoolThreads = {p1}
    Main = Main
    NoThread = NoThread
    NoSession = NoSession
    MaxTasks = 1
SPECIFICATION Spec
INVARIANTS
    TimerFindsSession
