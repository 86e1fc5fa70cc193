SPECIFICATION Spec
CONSTANTS
    Address = {a1, a2, a3}
    Datum = {"x", "y"}
    Null = Null
    MaxParam = 3
    MaxKeyval = 3
    MaxRecord = 3
    Token <- Tokens
    Key <- KeyTexts
    Value <- ValueTexts
    MaxSet = 4
    TextSize <- Sizes
    ServerBuf = 16
    AgentBuf = 15
    BigBuf = 100
    Payload <- Payloads
    Details <- ClientDetails
    MaxAsk = 2
    Instance = {s1, s2, s3}
    Agent = {g1}
    Worker = {w1}
    Nobody = Nobody
INVARIANTS
    Linked
    ArrayHasRoom
    RequestReadsBack
    ResponseReadsBack
    MessagesArriveWhole
    MessagesAreOnlyCut
    IndexShowsClients
    AnswerIsUnderWay
    NewWorkersReachServer
PROPERTIES
    WalksEnd
    ImplementsItems
    LoneServerServes
\* Each part stops at its bounds.
CHECK_DEADLOCK FALSE
