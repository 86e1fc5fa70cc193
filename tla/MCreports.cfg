SPECIFICATION Safe
CONSTANTS
    m1 = m1  m2 = m2  w1 = w1  w2 = w2
    Machine = {m1}
    Controller = {w1}
    MaxConn = 2
    MaxReq = 1
    PageUri = {"lock"}
    PageId = {1}
    TimerAction = {}
    Duration = {"some"}
PROPERTIES
    SuccessMeansLocked
\* The loop waits in select() once nobody has anything to say, and the
\* process may die.
CHECK_DEADLOCK FALSE
