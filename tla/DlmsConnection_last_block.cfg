\* A meter that ends a long GET with a type 2 block whose last-block flag is set.
SPECIFICATION Spec
CONSTANTS
    NBlocks = 2
    MaxLoss = 0
    MaxRetries = 0
    CarefulCaller = TRUE
    DerefEvents = TRUE
    AareResults = {0}
    FinalBlockTypes = {2}
    ExceptionServices = {"ReleaseRequest", "GetRequestNormal"}
    NoTransferReply = "ExceptionResponse"
PROPERTIES
    LastBlockReturnsToReady
