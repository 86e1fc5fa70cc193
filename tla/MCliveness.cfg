SPECIFICATION LiveSpec
CONSTANTS
    m1 = m1  m2 = m2  w1 = w1  w2 = w2
    Machine = {m1, m2}
    Controller = {w1}
    MaxConn = 3
    MaxReq = 2
    PageUri = {"lock", "timer"}
    PageId = {1}
    TimerAction = {"lock"}
    Duration = {"some"}
PROPERTIES
    AnswerArrives
    TimerExpires
    DeadAgentsLeave
\* The loop waits in select() once nobody has anything to say, and the
\* process may die.
CHECK_DEADLOCK FALSE
