------------------------------- MODULE Codecs -------------------------------
(***************************************************************************)
(* The stateless codec checks, one state space: each initial state picks  *)
(* a check and its input.                                                  *)
(*   "crc"       a message for the HDLC CRC (Crc, grown byte by byte);     *)
(*   "length"    an A-XDR length (AxdrLength);                             *)
(*   "apdu"      an APDU object for the round trip through ToBytes and     *)
(*               APDUFromBytes (XdlmsCodec, with the ACSE codecs);         *)
(*   "initiate"  an InitiateResponse a meter sends, for the parse of its   *)
(*               standard bytes;                                           *)
(*   "aare"      an AARE a meter sends, in the standard layout;            *)
(*   "obis"      an Obis value, for its string and byte forms (Cosem);     *)
(*   "fields"    an HDLC format or control field (HdlcFrame);              *)
(*   "frame"     an HDLC frame, for the parse of its spec layout;          *)
(*   "data"      an A-XDR data tree, for the dlmsdata codec (AxdrData);    *)
(*   "axdr"      an encoding configuration and its parts, for the bytes    *)
(*               the AXdrDecoder is given (AxdrData).                      *)
(***************************************************************************)
EXTENDS Integers, Sequences, CodecInputs

CONSTANTS
    Checks,                                     \* the checks to run
    Bytes, MaxLen,                              \* Crc
    Lengths,                                    \* AxdrLength
    InvokeIds, Descriptors, Selections, MaxList,  \* XdlmsCodec
    Payloads, Blocks,
    RawLengths, Results, Kinds,
    ObisCodes,                                  \* Cosem
    HdlcFields, Frames,                         \* HdlcFrame
    DataTrees, AxdrInputs                       \* AxdrData

ASSUME Checks \subseteq {"crc", "length", "apdu", "initiate", "aare", "obis",
                       "fields", "frame", "data", "axdr"}

VARIABLES check, msg, n, apdu, obis, hdlc, axdr

vars == <<check, msg, n, apdu, obis, hdlc, axdr>>

C == INSTANCE Crc
L == INSTANCE AxdrLength
X == INSTANCE XdlmsCodec
F == INSTANCE HdlcFrame
D == INSTANCE AxdrData

\* Every byte, for the CRC messages; the other inputs are in CodecInputs.
AllByteValues == 0..255

Unused == [check |-> "none"]    \* the input of the checks not taken

Init ==
    /\ check \in Checks
    /\ IF check = "crc" THEN C!Init ELSE msg = <<>>
    /\ IF check = "length" THEN L!Init ELSE n = 0
    /\ CASE check = "apdu"     -> X!Init
         [] check = "initiate" -> apdu \in X!CheckedInitiateResponses
         [] check = "aare"     -> apdu \in X!StandardAares
         [] OTHER              -> apdu = Unused
    /\ obis \in IF check = "obis" THEN ObisCodes ELSE {<<>>}
    /\ hdlc \in CASE check = "fields" -> HdlcFields
               [] check = "frame"  -> Frames
               [] OTHER            -> {Unused}
    /\ axdr \in CASE check = "data" -> DataTrees
               [] check = "axdr" -> AxdrInputs
               [] OTHER          -> {Unused}

\* Only the CRC message grows; the other inputs are fixed.
Next == check = "crc" /\ C!AppendByte /\ UNCHANGED <<check, n, apdu, obis, hdlc, axdr>>

Spec == Init /\ [][Next]_vars

\* The HCS/FCS of every frame is the HDLC frame check sequence (Crc).
CrcIsHdlcFcs == check = "crc" => C!CrcIsHdlcFcs

\* A-XDR length prefixes round-trip through both decoders (AxdrLength).
LengthRoundTrip == check = "length" => L!LengthRoundTrip

\* Every APDU the library encodes is decoded by APDUFromBytes into an equal
\* object (XdlmsCodec; spec section 8, property 3).
ApduRoundTrip == check = "apdu" => X!ApduRoundTrip

\* A ciphered initiate APDU with a byte security control is read back by
\* its own FromBytes exactly when its octet string has at most 253 bytes;
\* one with an int security control cannot be written (XdlmsCodec).
CipheredInitiateRoundTrip == check = "apdu" => X!CipheredInitiateRoundTrip

\* The InitiateResponse of a meter, in the layout of spec section 4.7 with
\* the conformance bits at the positions of section 4.1 (property 7), is
\* parsed by APDUFromBytes (tag 8) and by UserInformation.FromBytes inside
\* an AARE into the response that was sent: its conformance flags, quality
\* of service, version and PDU size.
InitiateResponseParses ==
    check = "initiate" =>
        /\ X!Decode(X!SpecInitiateResponse(apdu)) = apdu
        /\ X!UserInformationFromBytes(X!BerEncode(<<4>>, X!SpecInitiateResponse(apdu)))
             = [kind |-> "UserInformation", content |-> apdu]

\* An AARE in the standard layout of spec scenario S5 (the diagnostics an
\* explicitly tagged CHOICE around an INTEGER) is parsed by APDUFromBytes
\* into its result and result-source-diagnostics.
StandardAareParses == check = "aare" => X!Decode(X!StandardAare(apdu)) = apdu


\* Spec section 8, property 5, for the dotted forms: an Obis value written
\* by ToString with "." is parsed back by FromString to the same code, its
\* first five parts to the code with F = 255, and its six bytes by
\* FromBytes; a value with a component outside 0..255 (Obis has int
\* fields) is rejected in both string forms, by NewObis's range check or by
\* the one-to-three-digit groups of the regular expressions.
ObisFormsParse ==
    check = "obis" =>
        LET dotted == X!ObisToString(obis, ".")
            valid(k) == \A i \in 1..k : obis[i] \in 0..255
        IN  /\ X!ObisFromString(dotted) = IF valid(6) THEN obis ELSE X!ObisError
            /\ X!ObisFromString(SubSeq(dotted, 1, 9))
                 = IF valid(5) THEN SubSeq(obis, 1, 5) \o <<255>> ELSE X!ObisError
            /\ valid(6) => X!ObisFromBytes(X!ObisToBytes(obis)) = obis


\* Spec section 4.4: the control byte of each frame type before the
\* poll/final bit, and the format field 1010, segmentation bit 11 and the
\* length in bits 0-10 (section 2).
SpecControlByte(c) ==
    IF c.kind = "I" THEN c.ssn * 2 + c.rsn * 32 + (IF c.final THEN 16 ELSE 0)
    ELSE IF c.kind = "RR" THEN 1 + c.rsn * 32 + 16
    ELSE [SNRM |-> 131, UA |-> 99, DISC |-> 67, UI |-> 3][c.kind]
           + (IF c.final THEN 16 ELSE 0)

SpecFormat(length, segmented) ==
    <<160 + (IF segmented THEN 8 ELSE 0) + length \div 256, length % 256>>

\* Spec section 4.4 and the bit-field rule of section 9: every format and
\* control field is written by its ToBytes as the spec lays it out, and
\* read back by the FromBytes of its kind (format fields of every length
\* 0..2047; I, RR and UI control fields of every sequence number).
HdlcFieldsRoundTrip ==
    check = "fields" =>
        IF hdlc.kind = "format"
          THEN /\ F!FormatFieldToBytes(hdlc) = SpecFormat(hdlc.length, hdlc.segmented)
               /\ F!FormatFieldFromBytes(F!FormatFieldToBytes(hdlc))
                    = [length |-> hdlc.length, segmented |-> hdlc.segmented]
          ELSE /\ F!ControlToBytes(hdlc) = <<SpecControlByte(hdlc)>>
               /\ hdlc.kind = "I" =>
                    F!InformationControlFromBytes(<<SpecControlByte(hdlc)>>) = hdlc
               /\ hdlc.kind = "RR" =>
                    F!ReceiveReadyControlFromBytes(<<SpecControlByte(hdlc)>>) = hdlc
               /\ hdlc.kind = "UI" =>
                    F!UnnumberedInformationControlFromBytes(<<SpecControlByte(hdlc)>>) = hdlc

\* A frame in the layout of spec section 4.4: format, addresses, control,
\* an HCS when there is an information field (always for an I-frame), the
\* information (an I-frame's behind the response LLC header E7 E7 00),
\* the FCS, between two flags.  The addresses are written by
\* HdlcAddress.ToBytes and the checksums by the CRC of Crc.
SpecInformation(f) ==
    IF f.kind = "I" /\ f.payload # <<>> THEN <<231, 231, 0>> \o f.payload
    ELSE f.payload

SpecHasHcs(f) == f.kind = "I" \/ f.payload # <<>>

SpecHeader(f, infoLength) ==
    SpecFormat(5 + Len(F!A!ToBytes(f.dest)) + Len(F!A!ToBytes(f.src))
                 + (IF SpecHasHcs(f) THEN 2 + infoLength ELSE 0), f.segmented)
    \o F!A!ToBytes(f.dest) \o F!A!ToBytes(f.src) \o <<SpecControlByte(f)>>

SpecBody(header, hasHcs, info) ==
    header \o (IF hasHcs THEN C!CalculateFor(header, FALSE) ELSE <<>>) \o info

SpecFramed(body) == <<126>> \o body \o C!CalculateFor(body, FALSE) \o <<126>>

SpecFrame(f) ==
    SpecFramed(SpecBody(SpecHeader(f, Len(SpecInformation(f))), SpecHasHcs(f),
                        SpecInformation(f)))

\* Spec section 4.4, parsing: the FromBytes of each frame type takes a
\* frame a meter sends (UA with negotiation data, RR, I) or a client
\* sends (DISC) apart into the addresses, sequence numbers, segmentation,
\* final bit and payload it was made of: the flag and length checks, the
\* address scan, the control-byte and HCS positions and the LLC header
\* all have to agree.  (What FromBytes then does with the frame, the
\* checksum comparison, panics; see FrameFromBytes.)
FrameFieldsParse == check = "frame" => F!FrameFields(hdlc.kind, SpecFrame(hdlc)) = hdlc

----------------------------------------------------------------------------
(* The A-XDR layout of spec sections 3 and 4.3: a one-byte tag; for an     *)
(* array or structure the item count and the items; for an octet or       *)
(* visible string its length and bytes; otherwise a fixed-width           *)
(* big-endian payload (a boolean 0 or 1, null none).  Counts and lengths  *)
(* are all below 128 here, in the one-byte short form.                    *)

SpecTag ==
    [null |-> 0, array |-> 1, structure |-> 2, boolean |-> 3, doubleLong |-> 5,
     doubleLongUnsigned |-> 6, octetString |-> 9, visibleString |-> 10,
     integer |-> 15, long |-> 16, unsigned |-> 17, longUnsigned |-> 18]

SpecWidth ==
    [null |-> 0, boolean |-> 1, integer |-> 1, unsigned |-> 1, long |-> 2,
     longUnsigned |-> 2, doubleLong |-> 4, doubleLongUnsigned |-> 4]

SpecFixed(w, v) == [i \in 1..w |-> (v \div 256 ^ (w - i)) % 256]   \* two's complement

RECURSIVE SpecDataBytes(_), SpecItemsBytes(_)

SpecItemsBytes(items) ==
    IF items = <<>> THEN <<>> ELSE SpecDataBytes(Head(items)) \o SpecItemsBytes(Tail(items))

SpecDataBytes(x) ==
    LET t == D!TypeOf(x) IN
    <<SpecTag[t]>>
      \o (IF t \in {"array", "structure"} THEN <<Len(x[t])>> \o SpecItemsBytes(x[t])
          ELSE IF t \in {"octetString", "visibleString"} THEN <<Len(x[t])>> \o x[t]
          ELSE IF t = "boolean" THEN <<IF x[t] THEN 1 ELSE 0>>
          ELSE SpecFixed(SpecWidth[t], x[t]))

\* The trees whose leaves are all null.
RECURSIVE NullTree(_)
NullTree(x) ==
    \/ D!TypeOf(x) = "null"
    \/ /\ D!TypeOf(x) \in {"array", "structure"}
       /\ \A i \in DOMAIN x[D!TypeOf(x)] : NullTree(x[D!TypeOf(x)][i])

DataTreeHolds(x, spec, enc, dec) ==
    /\ enc \in {D!Encoded(spec), D!EncodeFailed}
    /\ dec \in {x, D!DataFailed}
    /\ NullTree(x) => enc = D!Encoded(spec) /\ dec = x

\* Spec section 8, property 4 (A-XDR round trip), for the arrays and
\* structures of dlmsdata: DataArray/DataStructure.ToBytes writes a tree
\* in the A-XDR layout or fails, and their FromBytes, which hands each item
\* the bytes from its tag and advances by the length of the item's own
\* ToBytes, reads the layout back as the tree or fails, never as another
\* tree; trees of nulls go both ways.  (Trees with other leaves fail both
\* ways; see the README.)
DataTreeRoundTrip ==
    check = "data" =>
        DataTreeHolds(axdr, SpecDataBytes(axdr), D!DataToBytes(axdr),
                      D!DataFromBytes(D!TypeOf(axdr), SpecDataBytes(axdr)))

\* Spec section 4.3: the bytes of each element of an encoding
\* configuration: an optional attribute's 0x00/0x01 indicator, a defaulted
\* one's (0x00 for the default), a fixed-length value, a last
\* variable-length value with no length; a sequence's values; a choice's
\* byte and the element it selects.
SpecElementBytes(el, part) ==
    IF el.kind = "sequence" THEN SpecItemsBytes(part.values)
    ELSE IF el.optional /\ ~part.present THEN <<0>>
    ELSE IF el.optional THEN <<1>> \o part.bytes
    ELSE IF el.default # NilDefault
      THEN IF part.present THEN <<1>> \o part.bytes ELSE <<0>>
    ELSE part.bytes

SpecChosenBytes(el, part) ==
    IF el.kind = "choice" THEN <<part.choice>> \o SpecElementBytes(el.choices[part.choice], part.part)
    ELSE SpecElementBytes(el, part)

\* What the decoder gives an element: nil for an absent optional
\* attribute, the default for a defaulted one, the bytes of a present one;
\* a sequence's values, one alone unwrapped.
SpecElementValue(el, part) ==
    IF el.kind = "sequence"
      THEN IF Len(part.values) = 1 THEN D!ToPython(part.values[1])
           ELSE [list |-> [i \in DOMAIN part.values |-> D!ToPython(part.values[i])]]
    ELSE IF el.optional /\ ~part.present THEN D!PyNone
    ELSE IF el.default # NilDefault /\ ~part.present THEN el.default
    ELSE [bytes |-> part.bytes]

SpecChosen(el, part) == IF el.kind = "choice" THEN el.choices[part.choice] ELSE el
SpecChosenPart(el, part) == IF el.kind = "choice" THEN part.part ELSE part

SpecConfBytes(conf, parts) ==
    LET RECURSIVE From(_)
        From(i) == IF i > Len(conf) THEN <<>> ELSE SpecChosenBytes(conf[i], parts[i]) \o From(i + 1)
    IN  From(1)

SpecConfResult(conf, parts) ==
    [name \in {SpecChosen(conf[i], parts[i]).name : i \in DOMAIN conf} |->
       LET i == CHOOSE j \in DOMAIN conf : SpecChosen(conf[j], parts[j]).name = name
       IN  SpecElementValue(SpecChosen(conf[i], parts[i]), SpecChosenPart(conf[i], parts[i]))]

\* Spec section 4.3: AXdrDecoder.Decode reads bytes laid out by an
\* encoding configuration back into its fields: fixed-length attributes
\* with their optional and default indicators, a choice, a last
\* variable-length attribute taking the rest, and a sequence of
\* fixed-width values read tag by tag to the end of the buffer, one value
\* returned alone.
AxdrDecodes ==
    check = "axdr" =>
        D!Decode(axdr.conf, SpecConfBytes(axdr.conf, axdr.parts))
          = [decoded |-> SpecConfResult(axdr.conf, axdr.parts)]

=============================================================================
