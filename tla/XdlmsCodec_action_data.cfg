\* ActionResponseNormalWithData: ToBytes writes no result choice byte, and
\* the factory reads the first byte of the data as that choice.
CONSTANTS
    InvokeIds = {0, 5, 15}
    Descriptors <- CheckedDescriptors
    Selections <- CheckedSelections
    MaxList = 2
    Payloads <- CheckedPayloads
    Blocks <- CheckedBlocks
    RawLengths = {0}
    Results = {0, 1, 6, 250}
    Kinds = {"ActionResponseNormalWithData"}
SPECIFICATION Spec
INVARIANT ApduRoundTrip
CHECK_DEADLOCK FALSE
