SPECIFICATION TwoSafe
CONSTANTS
    m1 = m1  m2 = m2  w1 = w1  w2 = w2
    Machine = {m1, m2}
    Controller = {w1, w2}
    MaxConn = 3
    MaxReq = 2
    PageUri = {"lock", "unlock"}
    PageId = {1, 2}
    TimerAction = {}
    Duration = {"some"}
    Token <- Tokens
    MaxParam = 10
    MaxKeyval = 20
    MaxRecord = 20
    BatchMessage <- BatchMessages
    MaxBatch = 4
INVARIANTS
    IInv
    RoutingInv
    RequestsAgree
    ResponsesAgree
    TypeOK
    ArrayMirrorsList
    IdsInJoinOrder
    SelectNeverFails
    RequestsReachAddressee
    OfflineMeansLocked
    ReadsNeverBlock
    PeersCloseFirst
PROPERTIES
    LeavesOnlyAtEof
    PagesTellTheTruth
    ImplementsControl
SYMMETRY PeerSymmetry
\* The loop waits in select() once nobody has anything to say, the process
\* may die, and a batch is complete at its bound.
CHECK_DEADLOCK FALSE
