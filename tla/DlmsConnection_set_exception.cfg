\* A meter that may refuse SET and ACTION with an ExceptionResponse.
SPECIFICATION Spec
CONSTANTS
    NBlocks = 2
    MaxLoss = 0
    MaxRetries = 0
    CarefulCaller = TRUE
    DerefEvents = TRUE
    AareResults = {0}
    FinalBlockTypes = {2}
    ExceptionServices = {"SetRequestNormal", "ActionRequestNormal"}
    NoTransferReply = "ExceptionResponse"
INVARIANTS
    SessionWaitsOnlyOnLiveRequest
