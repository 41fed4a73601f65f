\* AAREs without authentication or user information in the standard layout
\* of ISO/IEC 8650-1 and spec scenario S5.
SPECIFICATION Spec
CONSTANTS
    Checks = {"aare"}
    Bytes <- AllByteValues
    MaxLen = 2
    Lengths <- CheckedLengths
    InvokeIds = {0, 5, 15}
    Descriptors <- CheckedDescriptors
    Selections <- CheckedSelections
    MaxList = 2
    Payloads <- CheckedPayloads
    Blocks <- CheckedBlocks
    ObisCodes <- CheckedObisCodes
    HdlcFields = {}
    Frames = {}
    DataTrees = {}
    AxdrInputs = {}
    RawLengths = {0, 1, 255}
    Results = {0, 1, 6, 250}
    Kinds = {"GetRequestNormal", "GetRequestNext", "GetResponseNormal",
             "GetResponseNormalWithError", "GetResponseWithDataBlock",
             "GetResponseLastBlock", "GetResponseLastBlockWithError",
             "SetRequestNormal", "SetResponseNormal", "ActionRequestNormal",
             "ActionResponseNormal", "ActionResponseNormalWithError",
             "ExceptionResponse", "ApplicationAssociationResponse",
             "ReleaseResponse"}
INVARIANT StandardAareParses
CHECK_DEADLOCK FALSE
