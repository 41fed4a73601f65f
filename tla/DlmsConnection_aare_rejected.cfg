\* A meter that may reject the association.
SPECIFICATION Spec
CONSTANTS
    NBlocks = 2
    MaxLoss = 0
    MaxRetries = 0
    CarefulCaller = TRUE
    DerefEvents = TRUE
    AareResults = {0, 1}
    FinalBlockTypes = {2}
    ExceptionServices = {"ReleaseRequest", "GetRequestNormal"}
    NoTransferReply = "ExceptionResponse"
PROPERTIES
    ReadyOnlyAfterAcceptedAare
