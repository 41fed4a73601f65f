\* A caller that re-sends and disconnects whenever it can, over a line that may lose one frame.
SPECIFICATION RetryingSpec
CONSTANTS
    NBlocks = 2
    MaxLoss = 1
    MaxRetries = 1
    CarefulCaller = TRUE
    DerefEvents = TRUE
    AareResults = {0}
    FinalBlockTypes = {2}
    ExceptionServices = {"ReleaseRequest", "GetRequestNormal"}
    NoTransferReply = "ExceptionResponse"
PROPERTIES
    ConnectionAttemptResolves
CHECK_DEADLOCK FALSE
