\* A careful caller over a line that loses nothing; a meter that answers
\* long GETs with two blocks, ends them with a type 2 last block, answers
\* an acknowledgement of the last block with an ExceptionResponse, and may
\* refuse GET and RLRQ.
SPECIFICATION Spec
CONSTANTS
    NBlocks = 2
    MaxLoss = 0
    MaxRetries = 0
    CarefulCaller = TRUE
    DerefEvents = TRUE
    AareResults = {0}
    FinalBlockTypes = {2}
    ExceptionServices = {"ReleaseRequest", "GetRequestNormal"}
    NoTransferReply = "ExceptionResponse"
INVARIANTS
    SessionWaitsOnlyOnLiveRequest
    LinkPhaseMatchesExchange
PROPERTIES
    RequestEventuallyAnswered
