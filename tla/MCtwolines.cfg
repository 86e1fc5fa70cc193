SPECIFICATION Spec
CONSTANTS
    Address = {a1, a2, a3}
    Datum = {"x", "y"}
    Null = Null
    MaxParam = 3
    MaxKeyval = 3
    MaxRecord = 3
    Token <- Tokens
    Key <- KeyTexts
    Value <- ValueTexts
    MaxSet = 4
    TextSize <- Sizes
    ServerBuf = 26
    AgentBuf = 25
    BigBuf = 100
    Payload <- SecondMessage
    Details <- ClientDetails
    MaxAsk = 2
    Instance = {s1, s2, s3}
    Agent = {g1}
    Worker = {w1}
    Nobody = Nobody
INVARIANT
    SuccessMeansTaken
\* Each part stops at its bounds.
CHECK_DEADLOCK FALSE
