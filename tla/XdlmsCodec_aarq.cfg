\* The AARQ the client sends to open an association: with an
\* InitiateRequest as user information, with or without LLS, ciphered or
\* not, with or without a system title and a password.
CONSTANTS
    InvokeIds = {0}
    Descriptors <- CheckedDescriptors
    Selections <- CheckedSelections
    MaxList = 2
    Payloads <- CheckedPayloads
    Blocks <- CheckedBlocks
    RawLengths = {0}
    Results = {0}
    Kinds = {"ApplicationAssociationRequest"}
SPECIFICATION Spec
INVARIANT ApduRoundTrip
CHECK_DEADLOCK FALSE
