---------------------------- MODULE CodecInputs ----------------------------
(***************************************************************************)
(* The inputs the codec checks enumerate, in a module without constants so *)
(* that a configuration can give them to the constants of AxdrLength and   *)
(* XdlmsCodec whether it checks those modules or instantiates them.        *)
(***************************************************************************)
EXTENDS Integers

\* A-XDR lengths: every one-byte and the first two-byte lengths, and the
\* edges of the two- and three-byte encodings.
CheckedLengths == (0..300) \cup {65535, 65536, 65537}

\* Register 1.0.1.8.0.255 attribute 2 and disconnect control 0.0.96.3.10.255
\* method 1; an interface class above 255 exercises the u16 encoding.
CheckedDescriptors ==
    { [ic |-> 3,   obis |-> <<1, 0, 1, 8, 0, 255>>,   id |-> 2],
      [ic |-> 70,  obis |-> <<0, 0, 96, 3, 10, 255>>, id |-> 1],
      [ic |-> 300, obis |-> <<0, 0, 0, 0, 0, 0>>,     id |-> 0] }

\* A-XDR values: null-data, an array head, a long-unsigned and an empty
\* value (the tags 0, 1 and 18 lead the data).
CheckedPayloads == { <<>>, <<0>>, <<1, 0>>, <<18, 0, 5>> }

CheckedBlocks == {0, 1, 256, 2147483647}

\* Whole-second date-times in UTC: a leap day at the last second and the
\* first second of a day (the month and day edges of the 12-byte form).
CheckedTimes ==
    { [year |-> 2024, month |-> 2, day |-> 29, hour |-> 23, minute |-> 59,
       second |-> 59, ns |-> 0, offset |-> 0],
      [year |-> 1999, month |-> 12, day |-> 31, hour |-> 0, minute |-> 0,
       second |-> 0, ns |-> 0, offset |-> 0] }

\* The date-times of data notifications: the UTC ones and two in fixed
\* zones, two hours east (deviation -120) and five hours west (300).
CheckedNotificationTimes ==
    CheckedTimes \cup
    { [year |-> 2025, month |-> 6, day |-> 1, hour |-> 8, minute |-> 30,
       second |-> 0, ns |-> 0, offset |-> 120],
      [year |-> 2025, month |-> 1, day |-> 1, hour |-> 0, minute |-> 0,
       second |-> 1, ns |-> 0, offset |-> -300] }

\* Long invoke-ids: zero, one, and the largest that fits the 24 bits.
CheckedLongInvokeIds == {0, 1, 16777215}

\* Security controls of the ciphered initiate APDUs: bytes 0x00 and 0x30,
\* and 0x30 as the int an untyped constant passed as interface{} becomes;
\* invocation counters at 0, 1 and the top of the TLC range (the layout of
\* larger uint32 values is the same); ciphered texts whose octet strings
\* are 5, 6, 127, 128, 253, 254, 255, 256 and 261 bytes long: the shortest
\* FromBytes accepts, both sides of the one-byte A-XDR length form, the
\* last length whose slice bound 2+length does not wrap, the two that
\* wrap it, and two that wrap byte(len) to 0 and to 5.
SecurityControls == {[byte |-> 0], [byte |-> 48], [int |-> 48]}
CheckedCounters == {0, 1, 2147483647}
CheckedCipheredTexts == {[i \in 1..n |-> i % 256] : n \in {0, 1, 122, 123, 248, 249, 250, 251, 256}}

\* The clock's time attribute as the restricting object of a profile.
CheckedCapture ==
    [desc |-> [ic |-> 8, obis |-> <<0, 0, 1, 0, 0, 255>>, id |-> 2], index |-> 0]

\* No selection; a range over all columns between two times; entries
\* from the first to the highest, and at the u16/u32 byte edges.
CheckedSelections ==
    {[type |-> 0]}
    \cup {[type |-> 1, capture |-> CheckedCapture, from |-> f, to |-> t,
           selected |-> <<>>] : f, t \in CheckedTimes}
    \cup { [type |-> 2, fromEntry |-> 1, toEntry |-> 0, fromSel |-> 1, toSel |-> 0],
          [type |-> 2, fromEntry |-> 256, toEntry |-> 2147483647,
           fromSel |-> 65535, toSel |-> 258] }

\* Obis values whose components have one to four digits: 0, 42, 255, and
\* 256 and 1000, which an Obis literal can hold but NewObis rejects.
CheckedObisCodes == [1..6 -> {0, 42, 255, 256, 1000}]


\* Every format field NewDlmsHdlcFrameFormatField accepts; every I, RR and
\* UI control field over the sequence numbers 0..7, and SNRM, UA and DISC.
CheckedFormatFields == [kind : {"format"}, length : 0..2047, segmented : BOOLEAN]

CheckedControlFields ==
    [kind : {"I"}, ssn : 0..7, rsn : 0..7, final : BOOLEAN]
    \cup [kind : {"RR"}, ssn : {0}, rsn : 0..7, final : {TRUE}]
    \cup [kind : {"UI"}, ssn : {0}, rsn : {0}, final : BOOLEAN]
    \cup [kind : {"SNRM", "UA", "DISC"}, ssn : {0}, rsn : {0}, final : {TRUE}]

HdlcFieldInputs == CheckedFormatFields \cup CheckedControlFields

\* Meter addresses of one, two and four bytes (the last extended, with a
\* zero physical part), the largest two-byte one, and client addresses;
\* all of them come back from FindAddressInFrameBytes (HdlcAddress).
FrameServers ==
    { [type |-> "server", logical |-> 1,   physical |-> -1,  extended |-> FALSE],
      [type |-> "server", logical |-> 16,  physical |-> 17,  extended |-> FALSE],
      [type |-> "server", logical |-> 127, physical |-> 127, extended |-> FALSE],
      [type |-> "server", logical |-> 1,   physical |-> 0,   extended |-> TRUE] }

FrameClients ==
    { [type |-> "client", logical |-> l, physical |-> -1, extended |-> FALSE] : l \in {1, 16} }

\* xDLMS payloads: a flag byte, and the head of a GET response.
FramePayloads == { <<126>>, <<196, 1, 193, 0, 9>> }

\* The frames a meter sends the client (a UA with negotiation data, RR
\* and I-frames, segmented or not) and a DISC the client sends a meter.
CheckedFrames ==
    [kind : {"UA"}, dest : FrameClients, src : FrameServers, payload : FramePayloads,
     ssn : {0}, rsn : {0}, segmented : {FALSE}, final : {TRUE}]
    \cup [kind : {"RR"}, dest : FrameClients, src : FrameServers, payload : {<<>>},
          ssn : {0}, rsn : 0..7, segmented : {FALSE}, final : {TRUE}]
    \cup [kind : {"I"}, dest : FrameClients, src : FrameServers,
          payload : FramePayloads \cup {<<>>}, ssn : {0, 6}, rsn : {0, 7},
          segmented : BOOLEAN, final : BOOLEAN]
    \cup [kind : {"DISC"}, dest : {a \in FrameServers : ~a.extended},
          src : FrameClients, payload : {<<>>}, ssn : {0}, rsn : {0},
          segmented : {FALSE}, final : {TRUE}]

\* A-XDR data trees (AxdrData): arrays and structures of up to two items,
\* two levels deep, over null and four primitives (a boolean, a negative
\* long, an octet string and an unsigned).
DataLeaves ==
    {[null |-> TRUE], [boolean |-> FALSE], [long |-> -2], [octetString |-> <<1, 2>>],
     [unsigned |-> 0]}

UpToTwo(T) == {<<>>} \cup {<<t>> : t \in T} \cup {<<t, u>> : t, u \in T}

DataLists(T) == {[array |-> s] : s \in UpToTwo(T)} \cup {[structure |-> s] : s \in UpToTwo(T)}

CheckedDataTrees == DataLists(DataLeaves \cup DataLists({[null |-> TRUE]}))

\* Fixed-width values at the edges of their ranges, for the decoder (a
\* double-long-unsigned up to 2^31-1, the largest integer of TLC).
FixedLeaves ==
    {[null |-> TRUE], [boolean |-> FALSE], [boolean |-> TRUE], [integer |-> -128],
     [integer |-> 127], [unsigned |-> 255], [long |-> -2], [long |-> 32767],
     [longUnsigned |-> 65535], [doubleLong |-> -2147483647 - 1],
     [doubleLongUnsigned |-> 2147483647]}

\* Encoding configurations: a lone Sequence; and a two-byte attribute with
\* a default, an optional one-byte attribute, and a Choice of a last
\* variable-length attribute (length -1, VariableLength) or a Sequence.
NilDefault == [none |-> "default"]

SequenceConf == <<[kind |-> "sequence", name |-> "values"]>>

AttributeConf ==
    << [kind |-> "attribute", name |-> "a", length |-> 2, optional |-> FALSE,
        default |-> [bytes |-> <<0, 0>>]],
       [kind |-> "attribute", name |-> "b", length |-> 1, optional |-> TRUE,
        default |-> NilDefault],
       [kind |-> "choice",
        choices |-> [k \in {0, 1} |->
                       IF k = 0
                       THEN [kind |-> "attribute", name |-> "c", length |-> -1,
                             optional |-> FALSE, default |-> NilDefault]
                       ELSE [kind |-> "sequence", name |-> "c"]]] >>

\* What each element of a configuration carries: an attribute's presence
\* and bytes, a sequence's values, a choice's byte and the part it selects.
ChoiceParts ==
    {[choice |-> 0, part |-> [present |-> TRUE, bytes |-> s]] : s \in {<<>>, <<7, 8>>}}
    \cup {[choice |-> 1, part |-> [values |-> v]] :
            v \in {<<>>, <<[unsigned |-> 7]>>, <<[null |-> TRUE], [long |-> -2]>>}}

CheckedAxdrInputs ==
    {[conf |-> SequenceConf, parts |-> <<[values |-> v]>>] : v \in UpToTwo(FixedLeaves)}
    \cup {[conf |-> AttributeConf,
           parts |-> <<[present |-> pa, bytes |-> <<1, 2>>], [present |-> pb, bytes |-> <<9>>], c>>] :
            pa, pb \in BOOLEAN, c \in ChoiceParts}


=============================================================================
