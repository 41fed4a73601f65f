\* A careful caller that re-sends once, over a line that may lose one frame.
\* The system really stops here: a lost SNRM, UA or DISC leaves the link
\* machine in a state no frame the caller may send leaves (run
\* lost_frame_wedges_link), so deadlock is not checked.
SPECIFICATION Spec
CONSTANTS
    NBlocks = 2
    MaxLoss = 1
    MaxRetries = 1
    CarefulCaller = TRUE
    DerefEvents = TRUE
    AareResults = {0}
    FinalBlockTypes = {2}
    ExceptionServices = {"ReleaseRequest", "GetRequestNormal"}
    NoTransferReply = "ExceptionResponse"
INVARIANTS
    TypeOK
    
CHECK_DEADLOCK FALSE
