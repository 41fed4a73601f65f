---------------------------- MODULE AxdrLength ----------------------------
(***************************************************************************)
(* The length prefixes of the A-XDR codec.                                  *)
(*                                                                         *)
(*  - EncodeVariableInteger and DecodeVariableInteger (src/unnamed/        *)
(*    part_007 lines 850-904), used by DataArray and DataStructure;        *)
(*  - GetAXdrLength (src/unnamed/part_001 lines 13-37), used by the        *)
(*    AXdrDecoder.                                                          *)
(*                                                                         *)
(* A length n is encoded and the encoding, followed by a trailing byte,   *)
(* decoded again.  Byte contents other than the prefix are abstracted to  *)
(* their count.                                                            *)
(***************************************************************************)
EXTENDS Naturals, Sequences, CodecInputs

CONSTANT Lengths            \* the lengths to encode

ASSUME Lengths \subseteq Nat

VARIABLE n

\* The loop of EncodeVariableInteger that finds the number of length
\* bytes: the smallest k >= 1 with length <= 2^(8k) - 1.
RECURSIVE EncodedLength(_, _)
EncodedLength(length, k) ==
    IF length <= 2 ^ (8 * k) - 1 THEN k ELSE EncodedLength(length, k + 1)

\* The big-endian bytes of length in k bytes (the second loop).
BigEndian(length, k) == [i \in 1..k |-> (length \div 2 ^ (8 * (k - i))) % 256]

\* A plausible slip in EncodeVariableInteger: the short form up to 0xFF.
EncodeVariableIntegerByteLimit(length) ==
    IF length <= 255 THEN <<length % 256>>
    ELSE LET k == EncodedLength(length, 1)
         IN  <<(128 + k) % 256>> \o BigEndian(length, k)

\* EncodeVariableInteger (part_007 lines 850-875).
EncodeVariableInteger(length) ==
    IF length <= 127 THEN <<length % 256>>
    ELSE LET k == EncodedLength(length, 1)
         IN  <<(128 + k) % 256>> \o BigEndian(length, k)

\* (length << 8) | b over the length bytes.
RECURSIVE BytesValue(_)
BytesValue(bs) ==
    IF bs = <<>> THEN 0
    ELSE BytesValue(SubSeq(bs, 1, Len(bs) - 1)) * 256 + bs[Len(bs)]

DecodeError == [length |-> 0, rest |-> <<>>, ok |-> FALSE]

\* DecodeVariableInteger (part_007 lines 878-904): the length and the bytes
\* after it.
DecodeVariableInteger(data) ==
    IF data = <<>> THEN DecodeError
    ELSE IF data[1] < 128
           THEN [length |-> data[1] % 128, rest |-> Tail(data), ok |-> TRUE]
         ELSE LET k == data[1] % 128 IN
              IF Len(data) < k + 1 THEN DecodeError
              ELSE [length |-> BytesValue(SubSeq(data, 2, k + 1)),
                    rest |-> SubSeq(data, k + 2, Len(data)), ok |-> TRUE]

\* GetAXdrLength (part_001 lines 13-37).
GetAXdrLength(data) ==
    IF data = <<>> THEN DecodeError
    ELSE IF data[1] < 128
           THEN [length |-> data[1], rest |-> Tail(data), ok |-> TRUE]
         ELSE LET k == data[1] % 128 IN
              IF Len(data) < k + 1 THEN DecodeError
              ELSE [length |-> BytesValue(SubSeq(data, 2, k + 1)),
                    rest |-> SubSeq(data, k + 2, Len(data)), ok |-> TRUE]

----------------------------------------------------------------------------

Trailer == <<0>>            \* the first byte of whatever follows

Init == n \in Lengths

Next == UNCHANGED n

Spec == Init /\ [][Next]_n

\* A-XDR length prefixes round-trip: both decoders give back the length
\* EncodeVariableInteger encoded and leave exactly the bytes after it;
\* and the encoding is the short form for 0..127 and the shortest long
\* form above (spec section 3, A-XDR length).
LengthRoundTrip ==
    LET enc == EncodeVariableInteger(n)
        d1  == DecodeVariableInteger(enc \o Trailer)
        d2  == GetAXdrLength(enc \o Trailer)
    IN  /\ d1.ok /\ d1.length = n /\ d1.rest = Trailer
        /\ d2.ok /\ d2.length = n /\ d2.rest = Trailer
        /\ (n <= 127) <=> (Len(enc) = 1)
        /\ Len(enc) > 1 => enc[2] # 0

=============================================================================
