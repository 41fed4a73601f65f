\* Block responses whose raw data reaches 256 bytes: ToBytes writes the
\* raw-data length as one byte.
CONSTANTS
    InvokeIds = {0}
    Descriptors <- CheckedDescriptors
    Selections <- CheckedSelections
    MaxList = 2
    Payloads <- CheckedPayloads
    Blocks <- CheckedBlocks
    RawLengths = {255, 256}
    Results = {0}
    Kinds = {"GetResponseWithDataBlock", "GetResponseLastBlock"}
SPECIFICATION Spec
INVARIANT ApduRoundTrip
CHECK_DEADLOCK FALSE
