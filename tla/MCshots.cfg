SPECIFICATION Spec
CONSTANTS
    m1 = m1  m2 = m2  w1 = w1
    Machine = {m1, m2}
    Controller = {w1}
    MaxConn = 3
    MaxReq = 2
    ImageSize = {1, 2}
    TimerUri = {"lock"}
    MaxTimers = 1
INVARIANTS
    ExchangeInv
    PageShowsItsPC
    ReadsToTheEnd
    BytesOnlyToReaders
    WorkerSurvives
PROPERTIES
    HandlerReturns
    PageAnswered
\* Everyone waits for a message when all requests are answered.
CHECK_DEADLOCK FALSE
