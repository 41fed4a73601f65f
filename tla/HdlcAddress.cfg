\* Every server and client address over logical and physical values 0, 1
\* and 127 (the smallest, the usual and the largest one byte holds).
SPECIFICATION Spec
CONSTANTS
    Values = {0, 1, 127}
INVARIANTS
    AddressRoundTrip
