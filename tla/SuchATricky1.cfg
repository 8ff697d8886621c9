\* Two sessions that ask for one or two requests, or for none; sessions may go on for
\* more requests than the range of the counter, and so be shut down a second time; all
\* byte orders.  When all sessions are over nothing is left to do, hence no deadlock
\* check.
CONSTANTS
    Sessions = {s1, s2}
    Base = 2
    Numbers = {0, 1, 2}
    MaxRequests = 6
    MaxTime = 3
    Free = Free
SPECIFICATION Spec
SYMMETRY Symmetry
CHECK_DEADLOCK FALSE
INVARIANTS
    TypeOK
    CountedAsAsked
    PositionIsExact
