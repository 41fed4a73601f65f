\* The CRC over every message of up to two bytes; A-XDR lengths up to 300
\* and the edges of two and three length bytes; the round trip of every
\* APDU kind that has one (all but ActionResponseNormalWithData, whose
\* decoder is broken, the InitiateRequest/Response, AARQ and RLRQ, whose
\* encoders are, and AAREs with user information, which need the
\* InitiateResponse encoder), GET and SET requests with range and entry
\* selections over whole-second UTC times, and GET-with-list requests of
\* up to two attributes; the parse of meter InitiateResponses; the string
\* and byte forms of Obis values with one- to four-digit components; every
\* HDLC format field and control field; the frames of CodecInputs; A-XDR
\* data trees of depth two with up to two items per list, and the decoder
\* on sequence, attribute and choice configurations.
SPECIFICATION Spec
CONSTANTS
    Checks = {"crc", "length", "apdu", "initiate", "obis", "fields", "frame", "data", "axdr"}
    Bytes <- AllByteValues
    MaxLen = 2
    Lengths <- CheckedLengths
    InvokeIds = {0, 5, 15}
    Descriptors <- CheckedDescriptors
    Selections <- CheckedSelections
    MaxList = 2
    Payloads <- CheckedPayloads
    Blocks <- CheckedBlocks
    ObisCodes <- CheckedObisCodes
    HdlcFields <- HdlcFieldInputs
    Frames <- CheckedFrames
    DataTrees <- CheckedDataTrees
    AxdrInputs <- CheckedAxdrInputs
    RawLengths = {0, 1, 255}
    Results = {0, 1, 6, 250}
    Kinds = {"GetRequestNormal", "GetRequestNext", "GetRequestWithList", "GetResponseNormal",
             "DataNotification", "EventNotification",
             "GlobalCipherInitiateRequest", "GlobalCipherInitiateResponse",
             "GetResponseNormalWithError", "GetResponseWithDataBlock",
             "GetResponseLastBlock", "GetResponseLastBlockWithError",
             "SetRequestNormal", "SetResponseNormal", "ActionRequestNormal",
             "ActionResponseNormal", "ActionResponseNormalWithError",
             "ExceptionResponse", "ApplicationAssociationResponse",
             "ReleaseResponse"}
INVARIANTS
    CrcIsHdlcFcs
    LengthRoundTrip
    ApduRoundTrip
    CipheredInitiateRoundTrip
    InitiateResponseParses
    ObisFormsParse
    DataTreeRoundTrip
    AxdrDecodes
    HdlcFieldsRoundTrip
    FrameFieldsParse
CHECK_DEADLOCK FALSE
