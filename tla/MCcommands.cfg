SPECIFICATION Safe
CONSTANTS
    m1 = m1  m2 = m2  w1 = w1  w2 = w2
    Machine = {m1}
    Controller = {w1}
    MaxConn = 2
    MaxReq = 3
    PageUri = {"lock", "unlock", "message", "ping", "action", "timer", "notification", "poweroff", "clientall", "client"}
    PageId = {1}
    TimerAction = {"lock", "clientall", "timer", "notification"}
    Duration = {"some", "zero"}
INVARIANTS
    AnswerIsForRequest
    TimerFiresOnce
PROPERTIES
    ImplementsTable
\* The loop waits in select() once nobody has anything to say, and the
\* process may die.
CHECK_DEADLOCK FALSE
