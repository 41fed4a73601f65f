---------------------------- MODULE XdlmsCodec -----------------------------
(***************************************************************************)
(* The byte codecs of the GET, SET, ACTION and ExceptionResponse APDUs     *)
(* (src/meterlibs/protocol/dlms/protocol/xdlms/{get,set,action,             *)
(* exception_response,invoke_id_and_priority}.go and the COSEM            *)
(* descriptors of cosem/base.go), composed with the factory dispatch of   *)
(* src/unnamed/part_005 that picks the FromBytes to call.                  *)
(*                                                                         *)
(* An APDU object is a record with one field per Go field; fields a kind   *)
(* does not have keep their Blank value.  Each ToBytes is translated byte *)
(* for byte; each FromBytes with its length checks, in order.  Payloads   *)
(* (A-XDR values, raw block data) are short byte sequences.  Selective    *)
(* access descriptors are those of Cosem, parsed by its factory.          *)
(***************************************************************************)
EXTENDS Integers, Sequences, ApduFactory, AcseCodec, Cosem, CodecInputs

CONSTANTS
    InvokeIds,      \* invoke-id values to try
    Descriptors,    \* COSEM attribute/method descriptors [ic, obis, id]
    Selections,     \* access selections of GET and SET requests
    MaxList,        \* the most attributes in a GetRequestWithList
    Payloads,       \* A-XDR payloads of GET, SET and ACTION
    Blocks,         \* block numbers (below 2^31, the range of TLC integers)
    RawLengths,     \* lengths of the raw data of block responses
    Results,        \* DataAccessResult / ActionResultStatus / exception bytes
    Kinds           \* the APDU kinds checked

ASSUME InvokeIds \subseteq 0..15 /\ Blocks \subseteq 0..2147483647
ASSUME Results \subseteq 0..255 /\ RawLengths \subseteq Nat /\ MaxList \in Nat

VARIABLE apdu

NoCounter == -1     \* InvocationCounterData == nil

Blank == [kind |-> "none", iip |-> [id |-> 0, confirmed |-> FALSE, high |-> FALSE],
          desc |-> [ic |-> 0, obis |-> <<>>, id |-> 0], access |-> NoAccess,
          data |-> <<>>, block |-> 0, last |-> FALSE, res |-> 0, status |-> 0,
          counter |-> NoCounter, list |-> <<>>]

\* What a FromBytes returns with a non-nil error.
Failed == [Blank EXCEPT !.kind = "error"]

\* binary.BigEndian.PutUint32 and binary.BigEndian.Uint32.
Uint32Bytes(n) ==
    <<(n \div 16777216) % 256, (n \div 65536) % 256, (n \div 256) % 256, n % 256>>
Uint32Of(bs) == ((bs[1] * 256 + bs[2]) * 256 + bs[3]) * 256 + bs[4]

\* InvokeIdAndPriority.ToBytes (invoke_id_and_priority.go lines 52-62).
IipToByte(i) ==
    i.id + (IF i.confirmed THEN 64 ELSE 0) + (IF i.high THEN 128 ELSE 0)

\* A plausible slip in InvokeIdAndPriority.FromBytes: a 3-bit invoke-id mask.
IipFromByteLowBits(b) ==
    [id |-> b % 8, confirmed |-> (b \div 64) % 2 = 1, high |-> b \div 128 = 1]

\* InvokeIdAndPriority.FromBytes (lines 38-50): bits 0-3, 6 and 7.
IipFromByte(b) ==
    [id |-> b % 16, confirmed |-> (b \div 64) % 2 = 1, high |-> b \div 128 = 1]

\* CosemAttribute/CosemMethod ToBytes and FromBytes (cosem/base.go lines
\* 29-55 and 76-102): interface class as u16, the OBIS bytes, attribute
\* or method.  The nine bytes are always there when it is called, and
\* six bytes always make an OBIS code.
DescToBytes(c) == BigEndian(c.ic, 2) \o ObisToBytes(c.obis) \o <<c.id>>

DescFromBytes(bs) ==
    [ic |-> BigEndianOf(SubSeq(bs, 1, 2)), obis |-> ObisFromBytes(SubSeq(bs, 3, 8)),
     id |-> bs[9]]

\* The access-selection part the request encoders write (get.go lines
\* 109-121, set.go 133-146): 0, or 1 and the descriptor; a
\* RangeDescriptor.ToBytes that panics takes the whole ToBytes with it.
WithAccess(bs, sel) ==
    IF sel = NoAccess THEN bs \o <<0>>
    ELSE IF AccessToBytes(sel) = RangePanicked THEN Panicked
    ELSE bs \o <<1>> \o AccessToBytes(sel)

\* The outcome of the access-descriptor factory as a FromBytes result.
AccessFailure(a) == IF a.status = "panic" THEN DecodePanicked ELSE Failed

\* The checks every FromBytes starts with: at least two bytes, the tag,
\* the type choice, and a byte for invoke_id_and_priority.
Prefixed(d, tag, type) == Len(d) >= 3 /\ d[1] = tag /\ d[2] = type

Flag(b) == IF b THEN 1 ELSE 0

----------------------------------------------------------------------------
(* GET (get.go).                                                           *)

\* GetRequestNormal.ToBytes (lines 99-124).
GetRequestNormalToBytes(v) ==
    WithAccess(<<192, 1, IipToByte(v.iip)>> \o DescToBytes(v.desc), v.access)

\* The request once its access selection a is parsed: the selection, or
\* the factory's error.
GetRequestNormalWith(d, a) ==
    IF a.status # "ok" THEN AccessFailure(a)
    ELSE [Blank EXCEPT !.kind = "GetRequestNormal", !.iip = IipFromByte(d[3]),
                       !.desc = DescFromBytes(SubSeq(d, 4, 12)), !.access = a.sel]

\* GetRequestNormal.FromBytes (lines 42-96): the flag byte is optional;
\* what follows the descriptor is not looked at.
GetRequestNormalFromBytes(d) ==
    IF ~Prefixed(d, 192, 1) \/ Len(d) < 12 THEN Failed
    ELSE GetRequestNormalWith(d, IF Len(d) = 12 \/ d[13] = 0
                                 THEN AccessParsed(NoAccess, 0)
                                 ELSE AccessFromBytes(After(d, 13)))

\* GetRequestNext.ToBytes (lines 182-194) and FromBytes (lines 145-179).
GetRequestNextToBytes(v) == <<192, 2, IipToByte(v.iip)>> \o Uint32Bytes(v.block)

GetRequestNextFromBytes(d) ==
    IF ~Prefixed(d, 192, 2) \/ Len(d) < 7 THEN Failed
    ELSE [Blank EXCEPT !.kind = "GetRequestNext", !.iip = IipFromByte(d[3]),
                       !.block = Uint32Of(SubSeq(d, 4, 7))]

\* GetResponseNormal.ToBytes (lines 265-276) and FromBytes (lines 220-262).
GetResponseNormalToBytes(v) == <<196, 1, IipToByte(v.iip), 0>> \o v.data

GetResponseNormalFromBytes(d) ==
    IF ~Prefixed(d, 196, 1) \/ Len(d) < 4 \/ d[4] # 0 THEN Failed
    ELSE [Blank EXCEPT !.kind = "GetResponseNormal", !.iip = IipFromByte(d[3]),
                       !.data = After(d, 4)]

\* GetResponseNormalWithError.ToBytes (lines 347-358) and FromBytes
\* (lines 300-344).
GetResponseNormalWithErrorToBytes(v) == <<196, 1, IipToByte(v.iip), 1, v.res>>

GetResponseNormalWithErrorFromBytes(d) ==
    IF ~Prefixed(d, 196, 1) \/ Len(d) < 4 \/ d[4] # 1 \/ Len(d) < 5 THEN Failed
    ELSE [Blank EXCEPT !.kind = "GetResponseNormalWithError",
                       !.iip = IipFromByte(d[3]), !.res = d[5]]

\* GetResponseWithDataBlock.ToBytes (lines 445-466): the raw-data length
\* is written as byte(len(RawData)).
GetResponseWithDataBlockToBytes(v) ==
    <<196, 2, IipToByte(v.iip), Flag(v.last)>> \o Uint32Bytes(v.block)
        \o <<Len(v.data) % 256>> \o v.data

\* GetResponseWithDataBlock.FromBytes (lines 388-443).
GetResponseWithDataBlockFromBytes(d) ==
    IF ~Prefixed(d, 196, 2) \/ Len(d) < 9 \/ Len(d) - 9 < d[9] THEN Failed
    ELSE [Blank EXCEPT !.kind = "GetResponseWithDataBlock",
                       !.iip = IipFromByte(d[3]), !.last = d[4] # 0,
                       !.block = Uint32Of(SubSeq(d, 5, 8)),
                       !.data = SubSeq(d, 10, 9 + d[9])]

\* GetResponseLastBlock.ToBytes (lines 708-723) and FromBytes (658-705).
GetResponseLastBlockToBytes(v) ==
    <<196, 4, IipToByte(v.iip)>> \o Uint32Bytes(v.block)
        \o <<Len(v.data) % 256>> \o v.data

GetResponseLastBlockFromBytes(d) ==
    IF ~Prefixed(d, 196, 4) \/ Len(d) < 8 \/ Len(d) - 8 < d[8] THEN Failed
    ELSE [Blank EXCEPT !.kind = "GetResponseLastBlock", !.iip = IipFromByte(d[3]),
                       !.block = Uint32Of(SubSeq(d, 4, 7)),
                       !.data = SubSeq(d, 9, 8 + d[8])]

\* GetResponseLastBlockWithError.ToBytes (lines 794-807) and FromBytes
\* (lines 750-791).
GetResponseLastBlockWithErrorToBytes(v) ==
    <<196, 5, IipToByte(v.iip)>> \o Uint32Bytes(v.block) \o <<v.res>>

GetResponseLastBlockWithErrorFromBytes(d) ==
    IF ~Prefixed(d, 196, 5) \/ Len(d) < 8 THEN Failed
    ELSE [Blank EXCEPT !.kind = "GetResponseLastBlockWithError",
                       !.iip = IipFromByte(d[3]),
                       !.block = Uint32Of(SubSeq(d, 4, 7)), !.res = d[8]]

\* GetRequestWithList.ToBytes (lines 563-592): the count as one byte,
\* then each attribute with its access selection.  An attribute is
\* [desc, access]; one without a selection in AccessSelections has
\* NoAccess.
\* The bytes of two parts written one after the other, or the panic of
\* either.
Joined(head, rest) ==
    IF head = Panicked \/ rest = Panicked THEN Panicked ELSE head \o rest

RECURSIVE AttributesToBytes(_)
AttributesToBytes(l) ==
    IF l = <<>> THEN <<>>
    ELSE Joined(WithAccess(DescToBytes(l[1].desc), l[1].access), AttributesToBytes(Tail(l)))

GetRequestWithListToBytes(v) ==
    Joined(<<192, 3, IipToByte(v.iip), Len(v.list) % 256>>, AttributesToBytes(v.list))

\* The loop of GetRequestWithList.FromBytes (lines 530-557) over the k
\* attributes still to read from d: nine descriptor bytes, an optional
\* flag, and the descriptor the factory parses when the flag is set.
\* Returns [status, list] or the factory's failure.
RECURSIVE AttributesFromBytes(_, _)

\* The attribute at the head of d with access selection sel, before the
\* attributes read after it.
AttributeCons(d, sel, tail) ==
    IF tail.status # "ok" THEN tail
    ELSE [status |-> "ok",
          list |-> <<[desc |-> DescFromBytes(SubSeq(d, 1, 9)), access |-> sel]>> \o tail.list]

\* One attribute read, with the outcome a of its access selection found
\* after the flag (or none), and the loop on the bytes after it.
AttributeThen(d, a, from, k) ==
    IF a.status # "ok" THEN a
    ELSE AttributeCons(d, a.sel, AttributesFromBytes(After(d, from + a.consumed), k - 1))

AttributesFromBytes(d, k) ==
    IF k = 0 THEN [status |-> "ok", list |-> <<>>]
    ELSE IF Len(d) < 9 THEN AccessFailed
    ELSE IF Len(d) = 9 THEN AttributeThen(d, AccessParsed(NoAccess, 0), 9, k)
    ELSE IF d[10] = 0 THEN AttributeThen(d, AccessParsed(NoAccess, 0), 10, k)
    ELSE AttributeThen(d, AccessFromBytes(After(d, 10)), 10, k)

\* The request once its attribute list l is read.
GetRequestWithListOf(d, l) ==
    IF l.status # "ok" THEN AccessFailure(l)
    ELSE [Blank EXCEPT !.kind = "GetRequestWithList", !.iip = IipFromByte(d[3]),
                       !.list = l.list]

\* GetRequestWithList.FromBytes (lines 493-560): the count byte, then the
\* attributes; bytes after the last one are not looked at.
GetRequestWithListFromBytes(d) ==
    IF ~Prefixed(d, 192, 3) \/ Len(d) < 4 THEN Failed
    ELSE GetRequestWithListOf(d, AttributesFromBytes(After(d, 4), d[4]))

----------------------------------------------------------------------------
(* SET (set.go), ACTION (action.go), ExceptionResponse.                    *)

\* SetRequestNormal.ToBytes (set.go lines 123-150): the value follows
\* the access selection.
SetRequestNormalToBytes(v) ==
    LET bs == WithAccess(<<193, 1, IipToByte(v.iip)>> \o DescToBytes(v.desc), v.access)
    IN  IF bs = Panicked THEN Panicked ELSE bs \o v.data

\* The request once the access selection a is parsed from the bytes
\* after the flag: the value is what the factory did not consume.
SetRequestNormalWith(d, a) ==
    IF a.status # "ok" THEN AccessFailure(a)
    ELSE [Blank EXCEPT !.kind = "SetRequestNormal", !.iip = IipFromByte(d[3]),
                       !.desc = DescFromBytes(SubSeq(d, 4, 12)), !.access = a.sel,
                       !.data = After(d, 13 + a.consumed)]

\* SetRequestNormal.FromBytes (set.go lines 47-120): after the descriptor
\* an optional access flag and, when it is set, a descriptor that must be
\* there; the rest is the value.
SetRequestNormalFromBytes(d) ==
    IF ~Prefixed(d, 193, 1) \/ Len(d) < 12 THEN Failed
    ELSE IF Len(d) > 12 /\ d[13] # 0 /\ Len(d) = 13 THEN Failed
    ELSE SetRequestNormalWith(d, IF Len(d) = 12 \/ d[13] = 0
                                 THEN AccessParsed(NoAccess, 0)
                                 ELSE AccessFromBytes(After(d, 13)))

\* SetResponseNormal.ToBytes (lines 214-224) and FromBytes (177-211).
SetResponseNormalToBytes(v) == <<197, 1, IipToByte(v.iip), v.res>>

SetResponseNormalFromBytes(d) ==
    IF ~Prefixed(d, 197, 1) \/ Len(d) < 4 THEN Failed
    ELSE [Blank EXCEPT !.kind = "SetResponseNormal", !.iip = IipFromByte(d[3]),
                       !.res = d[4]]

\* ActionRequestNormal.ToBytes (action.go lines 89-108): has_data is
\* written as len(Data) > 0.
ActionRequestNormalToBytes(v) ==
    <<195, 1, IipToByte(v.iip)>> \o DescToBytes(v.desc)
        \o (IF Len(v.data) > 0 THEN <<1>> \o v.data ELSE <<0>>)

\* ActionRequestNormal.FromBytes (lines 37-86).
ActionRequestNormalFromBytes(d) ==
    IF ~Prefixed(d, 195, 1) \/ Len(d) < 12 THEN Failed
    ELSE [Blank EXCEPT !.kind = "ActionRequestNormal", !.iip = IipFromByte(d[3]),
                       !.desc = DescFromBytes(SubSeq(d, 4, 12)),
                       !.data = IF Len(d) > 12 /\ d[13] # 0 THEN After(d, 13)
                                ELSE <<>>]

\* The checks the three ActionResponse FromBytes share (status, has_data).
ActionResponsePrefix(d) == Prefixed(d, 199, 1) /\ Len(d) >= 5

\* ActionResponseNormal.ToBytes (lines 181-191) and FromBytes (133-178).
ActionResponseNormalToBytes(v) == <<199, 1, IipToByte(v.iip), v.status, 0>>

ActionResponseNormalFromBytes(d) ==
    IF ~ActionResponsePrefix(d) \/ d[5] # 0 THEN Failed
    ELSE [Blank EXCEPT !.kind = "ActionResponseNormal",
                       !.iip = IipFromByte(d[3]), !.status = d[4]]

\* ActionResponseNormalWithData.ToBytes (lines 272-283): has_data, then
\* the data; no result choice byte is written.
ActionResponseNormalWithDataToBytes(v) ==
    <<199, 1, IipToByte(v.iip), v.status, 1>> \o v.data

\* ActionResponseNormalWithData.FromBytes (lines 219-269).
ActionResponseNormalWithDataFromBytes(d) ==
    IF ~ActionResponsePrefix(d) \/ d[5] = 0 THEN Failed
    ELSE [Blank EXCEPT !.kind = "ActionResponseNormalWithData",
                       !.iip = IipFromByte(d[3]), !.status = d[4],
                       !.data = After(d, 5)]

\* ActionResponseNormalWithError.ToBytes (lines 376-388) and FromBytes
\* (lines 311-373).
ActionResponseNormalWithErrorToBytes(v) ==
    <<199, 1, IipToByte(v.iip), v.status, 1, 1, v.res>>

ActionResponseNormalWithErrorFromBytes(d) ==
    IF ~ActionResponsePrefix(d) \/ d[5] = 0 \/ Len(d) < 6 \/ d[6] # 1
       \/ Len(d) < 7 THEN Failed
    ELSE [Blank EXCEPT !.kind = "ActionResponseNormalWithError",
                       !.iip = IipFromByte(d[3]), !.status = d[4], !.res = d[7]]

\* ExceptionResponse.ToBytes (exception_response.go lines 67-77): state
\* and service error, then the counter if there is one.  res holds the
\* state error, status the service error.
ExceptionResponseToBytes(v) ==
    <<216, v.res, v.status>>
        \o (IF v.counter # NoCounter THEN Uint32Bytes(v.counter) ELSE <<>>)

\* ExceptionResponse.FromBytes (lines 37-64): the counter is read only for
\* InvocationCounterError (6).
ExceptionResponseFromBytes(d) ==
    IF Len(d) < 3 \/ d[1] # 216 \/ (d[3] = 6 /\ Len(d) < 7) THEN Failed
    ELSE [Blank EXCEPT !.kind = "ExceptionResponse", !.res = d[2], !.status = d[3],
                       !.counter = IF d[3] = 6 THEN Uint32Of(SubSeq(d, 4, 7))
                                   ELSE NoCounter]

----------------------------------------------------------------------------
(* DataNotification (src/unnamed/part_004).  Its object is a record of its *)
(* own: the long invoke-id, a date-time or none, and the body bytes.       *)

NoDateTime == [nil |-> TRUE]        \* DateTime == nil

\* LongInvokeIdAndPriority.ToBytes (lines 53-71): 0x80 prioritized, 0x40
\* confirmed, 0x20 break-on-error, 0x10 self-descriptive, then the id
\* shifted right by 16, 8 and 0 into bytes: its top byte is dropped.
LongIipToBytes(l) ==
    << Flag(l.prioritized) * 128 + Flag(l.confirmed) * 64
         + Flag(l.breakOnError) * 32 + Flag(l.selfDescriptive) * 16,
       (l.id \div 65536) % 256, (l.id \div 256) % 256, l.id % 256 >>

StatusBit(b, k) == (b \div 2 ^ k) % 2 = 1

\* LongInvokeIdAndPriority.FromBytes (lines 37-50).  Its length check
\* never fails here: DataNotification passes data[:4] of at least 4 bytes.
LongIipFromBytes(bs) ==
    [id |-> (bs[2] * 256 + bs[3]) * 256 + bs[4],
     prioritized |-> StatusBit(bs[1], 7), confirmed |-> StatusBit(bs[1], 6),
     breakOnError |-> StatusBit(bs[1], 5), selfDescriptive |-> StatusBit(bs[1], 4)]

DataNotificationOf(d, t, body) ==
    [kind |-> "DataNotification", liip |-> LongIipFromBytes(SubSeq(d, 2, 5)),
     dateTime |-> t, body |-> body]

\* DataNotification.ToBytes (lines 147-163): the tag, the long invoke-id,
\* 0x01 and DateTimeToBytes with the default clock status or 0x00, the
\* body.  (The method opens two braces and closes one; it is modelled as
\* the function its statements describe.)
DataNotificationToBytes(v) ==
    <<15>> \o LongIipToBytes(v.liip)
        \o (IF v.dateTime = NoDateTime THEN <<0>>
            ELSE <<1>> \o DateTimeToBytes(v.dateTime, DefaultClockStatus))
        \o v.body

\* The notification once the 12 date-time bytes are parsed to t.
DataNotificationWithDateTime(d, t) ==
    IF t = DateTimeError THEN Failed ELSE DataNotificationOf(d, t, After(d, 18))

\* DataNotification.FromBytes (lines 100-144): five bytes and the tag, the
\* has_datetime byte, and when it is non-zero twelve bytes that
\* dlmsdata.DateTimeFromBytes accepts; the rest is the body.
DataNotificationFromBytes(d) ==
    IF Len(d) < 6 \/ d[1] # 15 THEN Failed
    ELSE IF d[6] = 0 THEN DataNotificationOf(d, NoDateTime, After(d, 6))
    ELSE IF Len(d) < 18 THEN Failed
    ELSE DataNotificationWithDateTime(d, DateTimeFromBytes(SubSeq(d, 7, 18)))

----------------------------------------------------------------------------
(* EventNotification (xdlms/base.go lines 20-119): the same fields as a    *)
(* DataNotification under its own EventNotificationTag, which is also 15. *)

EventNotificationTag == 15

EventNotificationOf(d, t, body) ==
    [kind |-> "EventNotification", liip |-> LongIipFromBytes(SubSeq(d, 2, 5)),
     dateTime |-> t, body |-> body]

\* EventNotification.FromBytes (lines 56-100): at least five bytes, the
\* tag, data[:4] to LongInvokeIdAndPriority.FromBytes, the has_datetime
\* byte, twelve date-time bytes when it is non-zero, the rest the body.
EventNotificationFromBytes(d) ==
    IF Len(d) < 5 \/ d[1] # EventNotificationTag THEN Failed
    ELSE IF Len(d) < 6 THEN Failed
    ELSE IF d[6] = 0 THEN EventNotificationOf(d, NoDateTime, After(d, 6))
    ELSE IF Len(d) < 18 THEN Failed
    ELSE LET t == DateTimeFromBytes(SubSeq(d, 7, 18))
         IN  IF t = DateTimeError THEN Failed ELSE EventNotificationOf(d, t, After(d, 18))

\* A ToBytes that writes the has_datetime byte only when there is a
\* date-time.
\* EventNotification.ToBytes (lines 103-119): the tag, the long invoke-id,
\* 0x01 and DateTimeToBytes with the default clock status, or 0x00; the
\* body.
EventNotificationToBytes(v) ==
    <<EventNotificationTag>> \o LongIipToBytes(v.liip)
        \o (IF v.dateTime = NoDateTime THEN <<0>>
            ELSE <<1>> \o DateTimeToBytes(v.dateTime, DefaultClockStatus))
        \o v.body

----------------------------------------------------------------------------
(* GlobalCipherInitiateRequest and GlobalCipherInitiateResponse           *)
(* (xdlms/initiate_request.go lines 186-276, initiate_response.go lines   *)
(* 140-231; the two are the same code under tags 33 and 40).  The         *)
(* SecurityControl field is an interface{}: [byte |-> n] holds a byte,    *)
(* [int |-> n] the int an untyped constant becomes.                       *)

GlobalCipherTag == [GlobalCipherInitiateRequest |-> 33, GlobalCipherInitiateResponse |-> 40]

ToBytesError == <<-2>>      \* ToBytes returned a non-nil error

\* The constructor, with the parsed security control byte.
GlobalCipherOf(kind, os) ==
    [kind |-> kind, sc |-> [byte |-> os[1]], ic |-> Uint32Of(SubSeq(os, 2, 5)),
     text |-> After(os, 5)]

\* A FromBytes that slices data[2:2+length] in int arithmetic.
GlobalCipherFromBytesNoWrap(kind, d) ==
    IF Len(d) = 0 \/ d[1] # GlobalCipherTag[kind] THEN Failed
    ELSE IF Len(d) < 2 \/ Len(d) < d[2] + 2 THEN Failed
    ELSE IF d[2] < 5 THEN Failed
    ELSE GlobalCipherOf(kind, SubSeq(d, 3, 2 + d[2]))

\* The high bound of data[2 : 2+length] with length a byte: 2+length is
\* byte arithmetic and wraps to 0 or 1 for lengths 254 and 255.
OctetStringEnd(length) == (2 + length) % 256

\* FromBytes: the tag, the length byte, the slice data[2:2+length] (the
\* rest is ignored), which panics when its wrapped high bound is below 2,
\* and of which at least five bytes: security control, counter, text.
GlobalCipherFromBytes(kind, d) ==
    IF Len(d) = 0 \/ d[1] # GlobalCipherTag[kind] THEN Failed
    ELSE IF Len(d) < 2 \/ Len(d) < d[2] + 2 THEN Failed
    ELSE IF OctetStringEnd(d[2]) < 2 THEN DecodePanicked
    ELSE IF OctetStringEnd(d[2]) - 2 < 5 THEN Failed
    ELSE GlobalCipherOf(kind, SubSeq(d, 3, OctetStringEnd(d[2])))

\* A ToBytes whose length byte counts the tag and itself as well.
GlobalCipherToBytesWholeLength(v) ==
    IF "byte" \notin DOMAIN v.sc THEN ToBytesError
    ELSE LET os == <<v.sc.byte>> \o Uint32Bytes(v.ic) \o v.text
         IN  <<GlobalCipherTag[v.kind], (Len(os) + 2) % 256>> \o os

\* ToBytes: an error unless the security control is a byte; the tag, the
\* octet string's length as byte(len), security control, counter, text.
GlobalCipherToBytes(v) ==
    IF "byte" \notin DOMAIN v.sc THEN ToBytesError
    ELSE LET os == <<v.sc.byte>> \o Uint32Bytes(v.ic) \o v.text
         IN  <<GlobalCipherTag[v.kind], Len(os) % 256>> \o os

GlobalCipherInitiateRequestFromBytes(d) == GlobalCipherFromBytes("GlobalCipherInitiateRequest", d)
GlobalCipherInitiateResponseFromBytes(d) == GlobalCipherFromBytes("GlobalCipherInitiateResponse", d)

----------------------------------------------------------------------------
(* The factory dispatch (part_005) and ToBytes by kind.                    *)

\* The bytes the factories peek at, as the Apdu record of ApduFactory:
\* GetResponseFromBytes reads the result choice (byte 3) of a type 1
\* response; ActionResponseFromBytes reads has_data (byte 4) and, when it
\* is set and present, the choice byte 5 (0 data, 1 error).
PeekSel(d) ==
    CASE d[1] = 196 /\ Len(d) >= 4                       -> d[4]
      [] d[1] = 199 /\ Len(d) >= 6 /\ d[5] # 0 /\ d[6] \in {0, 1} -> d[6] + 1
      [] OTHER                                            -> 0

Peek(d) == Apdu(d[1], IF Len(d) >= 2 THEN d[2] ELSE 0, PeekSel(d), 0)

\* The FromBytes method of the APDU type the tag names.
FromBytesOf(t, d) ==
    CASE t = "GetRequestNormal"              -> GetRequestNormalFromBytes(d)
      [] t = "GetRequestNext"                -> GetRequestNextFromBytes(d)
      [] t = "GetRequestWithList"            -> GetRequestWithListFromBytes(d)
      [] t = "GetResponseNormal"             -> GetResponseNormalFromBytes(d)
      [] t = "GetResponseNormalWithError"    -> GetResponseNormalWithErrorFromBytes(d)
      [] t = "GetResponseWithDataBlock"      -> GetResponseWithDataBlockFromBytes(d)
      [] t = "GetResponseLastBlock"          -> GetResponseLastBlockFromBytes(d)
      [] t = "GetResponseLastBlockWithError" -> GetResponseLastBlockWithErrorFromBytes(d)
      [] t = "SetRequestNormal"              -> SetRequestNormalFromBytes(d)
      [] t = "SetResponseNormal"             -> SetResponseNormalFromBytes(d)
      [] t = "ActionRequestNormal"           -> ActionRequestNormalFromBytes(d)
      [] t = "ActionResponseNormal"          -> ActionResponseNormalFromBytes(d)
      [] t = "ActionResponseNormalWithData"  -> ActionResponseNormalWithDataFromBytes(d)
      [] t = "ActionResponseNormalWithError" -> ActionResponseNormalWithErrorFromBytes(d)
      [] t = "ExceptionResponse"             -> ExceptionResponseFromBytes(d)
      [] t = "DataNotification"              -> DataNotificationFromBytes(d)
      [] t = "InitiateRequest"               -> InitiateRequestFromBytes(d)
      [] t = "InitiateResponse"              -> InitiateResponseFromBytes(d)
      [] t = "ApplicationAssociationRequest" -> AarqFromBytes(d)
      [] t = "ApplicationAssociationResponse" -> AareFromBytes(d)
      [] t = "ReleaseRequest"                -> ReleaseRequestFromBytes(d)
      [] t = "ReleaseResponse"               -> ReleaseResponseFromBytes(d)
      [] OTHER                               -> Failed

\* APDUFromBytes with the per-service factories (part_005 lines 13-257):
\* an empty input, a service factory given fewer than 2 bytes and an
\* ActionResponse of fewer than 4 bytes fail before any FromBytes.
Decode(d) ==
    IF \/ Len(d) = 0
       \/ d[1] \in {192, 193, 195, 196, 197} /\ Len(d) < 2
       \/ d[1] = 199 /\ Len(d) < 4
       \/ d[1] = 216 /\ Len(d) < 2
    THEN Failed
    ELSE FromBytesOf(ApduType(Peek(d)), d)

\* The ToBytes method of the object's type.
ToBytes(v) ==
    CASE v.kind = "GetRequestNormal"              -> GetRequestNormalToBytes(v)
      [] v.kind = "GetRequestNext"                -> GetRequestNextToBytes(v)
      [] v.kind = "GetRequestWithList"            -> GetRequestWithListToBytes(v)
      [] v.kind = "GetResponseNormal"             -> GetResponseNormalToBytes(v)
      [] v.kind = "GetResponseNormalWithError"    -> GetResponseNormalWithErrorToBytes(v)
      [] v.kind = "GetResponseWithDataBlock"      -> GetResponseWithDataBlockToBytes(v)
      [] v.kind = "GetResponseLastBlock"          -> GetResponseLastBlockToBytes(v)
      [] v.kind = "GetResponseLastBlockWithError" -> GetResponseLastBlockWithErrorToBytes(v)
      [] v.kind = "SetRequestNormal"              -> SetRequestNormalToBytes(v)
      [] v.kind = "SetResponseNormal"             -> SetResponseNormalToBytes(v)
      [] v.kind = "ActionRequestNormal"           -> ActionRequestNormalToBytes(v)
      [] v.kind = "ActionResponseNormal"          -> ActionResponseNormalToBytes(v)
      [] v.kind = "ActionResponseNormalWithData"  -> ActionResponseNormalWithDataToBytes(v)
      [] v.kind = "ActionResponseNormalWithError" -> ActionResponseNormalWithErrorToBytes(v)
      [] v.kind = "ExceptionResponse"             -> ExceptionResponseToBytes(v)
      [] v.kind = "DataNotification"              -> DataNotificationToBytes(v)
      [] v.kind = "EventNotification"             -> EventNotificationToBytes(v)
      [] v.kind \in DOMAIN GlobalCipherTag          -> GlobalCipherToBytes(v)
      [] v.kind = "InitiateRequest"               -> InitiateRequestToBytes(v)
      [] v.kind = "InitiateResponse"              -> InitiateResponseToBytes(v)
      [] v.kind = "ApplicationAssociationRequest" -> AarqToBytes(v)
      [] v.kind = "ApplicationAssociationResponse" -> AareToBytes(v)
      [] v.kind = "ReleaseRequest"                -> ReleaseRequestToBytes(v)
      [] v.kind = "ReleaseResponse"               -> ReleaseResponseToBytes(v)

----------------------------------------------------------------------------
(* The objects a caller or meter can build with the constructors.         *)

Iips == [id : InvokeIds, confirmed : BOOLEAN, high : BOOLEAN]

LongIips == [id : CheckedLongInvokeIds, prioritized : BOOLEAN, confirmed : BOOLEAN,
             breakOnError : BOOLEAN, selfDescriptive : BOOLEAN]

Raw(n) == [i \in 1..n |-> 9]        \* n bytes of block data

RawData == {Raw(n) : n \in RawLengths}

\* The fields each kind sets; the others stay Blank.
Make(k, i, c, dt, b, l, r, s, n) ==
    [Blank EXCEPT !.kind = k, !.iip = i, !.desc = c, !.data = dt, !.block = b,
                  !.last = l, !.res = r, !.status = s, !.counter = n]

\* The attribute lists of GetRequestWithList, up to MaxList long.
AttributeLists ==
    UNION {[1..n -> [desc : Descriptors, access : Selections]] : n \in 0..MaxList}

Objects(k) ==
    LET B == Blank IN
    CASE k = "GetRequestNormal" -> {[Make(k, i, c, <<>>, 0, FALSE, 0, 0, NoCounter) EXCEPT !.access = a] : i \in Iips, c \in Descriptors, a \in Selections}
      [] k = "GetRequestWithList" -> {[Make(k, i, B.desc, <<>>, 0, FALSE, 0, 0, NoCounter) EXCEPT !.list = l] : i \in Iips, l \in AttributeLists}
      [] k = "GetRequestNext" -> {Make(k, i, B.desc, <<>>, b, FALSE, 0, 0, NoCounter) : i \in Iips, b \in Blocks}
      [] k = "GetResponseNormal" -> {Make(k, i, B.desc, p, 0, FALSE, 0, 0, NoCounter) : i \in Iips, p \in Payloads}
      [] k = "GetResponseNormalWithError" -> {Make(k, i, B.desc, <<>>, 0, FALSE, r, 0, NoCounter) : i \in Iips, r \in Results}
      [] k = "GetResponseWithDataBlock" -> {Make(k, i, B.desc, p, b, l, 0, 0, NoCounter) : i \in Iips, p \in RawData, b \in Blocks, l \in BOOLEAN}
      [] k = "GetResponseLastBlock" -> {Make(k, i, B.desc, p, b, FALSE, 0, 0, NoCounter) : i \in Iips, p \in RawData, b \in Blocks}
      [] k = "GetResponseLastBlockWithError" -> {Make(k, i, B.desc, <<>>, b, FALSE, r, 0, NoCounter) : i \in Iips, b \in Blocks, r \in Results}
      [] k = "SetRequestNormal" -> {[Make(k, i, c, p, 0, FALSE, 0, 0, NoCounter) EXCEPT !.access = a] : i \in Iips, c \in Descriptors, p \in Payloads, a \in Selections}
      [] k = "SetResponseNormal" -> {Make(k, i, B.desc, <<>>, 0, FALSE, r, 0, NoCounter) : i \in Iips, r \in Results}
      [] k = "ActionRequestNormal" -> {Make(k, i, c, p, 0, FALSE, 0, 0, NoCounter) : i \in Iips, c \in Descriptors, p \in Payloads}
      [] k = "ActionResponseNormal" -> {Make(k, i, B.desc, <<>>, 0, FALSE, 0, s, NoCounter) : i \in Iips, s \in Results}
      [] k = "ActionResponseNormalWithData" -> {Make(k, i, B.desc, p, 0, FALSE, 0, s, NoCounter) : i \in Iips, p \in Payloads, s \in Results}
      [] k = "ActionResponseNormalWithError" -> {Make(k, i, B.desc, <<>>, 0, FALSE, r, s, NoCounter) : i \in Iips, r \in Results, s \in Results}
      \* NewExceptionResponse: the counter goes with InvocationCounterError (6).
      [] k = "ExceptionResponse" -> {Make(k, B.iip, B.desc, <<>>, 0, FALSE, r, s, IF s = 6 THEN b ELSE NoCounter) : r \in Results, s \in Results, b \in Blocks}
      \* NewDataNotification with a NewLongInvokeIdAndPriority of any flags.
      [] k = "DataNotification" -> [kind : {k}, liip : LongIips, dateTime : {NoDateTime} \cup CheckedNotificationTimes, body : Payloads]
      \* NewEventNotification, with the same fields.
      [] k = "EventNotification" -> [kind : {k}, liip : LongIips, dateTime : {NoDateTime} \cup CheckedNotificationTimes, body : Payloads]
      \* NewGlobalCipherInitiateRequest/Response with a byte or an int.
      [] k \in DOMAIN GlobalCipherTag -> [kind : {k}, sc : SecurityControls, ic : CheckedCounters, text : CheckedCipheredTexts]
      [] OTHER -> AssociationObjects(k)

Init == apdu \in UNION {Objects(k) : k \in Kinds}

Next == UNCHANGED apdu

Spec == Init /\ [][Next]_apdu

\* The ciphered initiate kinds, whose tags APDUFromBytes answers with "not
\* yet implemented".
DirectOnly == DOMAIN GlobalCipherTag

\* The object APDUFromBytes gives for the bytes of v: a tag-15 APDU always
\* comes back as a DataNotification.
Delivered(v) == IF v.kind = "EventNotification" THEN [v EXCEPT !.kind = "DataNotification"] ELSE v

\* Every APDU the library encodes is decoded by APDUFromBytes into an equal
\* object of the same type (spec section 8, property 3: FromBytes(ToBytes(x))
\* == x), through the factory's peeking dispatch and the length checks of
\* each FromBytes; an EventNotification comes back as the DataNotification
\* of its fields.
ApduRoundTrip == apdu.kind \notin DirectOnly => Decode(ToBytes(apdu)) = Delivered(apdu)

\* The reach of the ciphered initiate codecs (GlobalCipher ToBytes and
\* FromBytes of initiate_request.go and initiate_response.go): an object
\* built with a byte security control is read back by its own FromBytes
\* as itself exactly when its octet string (control, counter, text) has
\* at most 253 bytes.  Longer ones never come back: at 254 and 255 bytes
\* FromBytes's byte-typed slice bound 2+length wraps and the slice
\* panics, from 256 bytes ToBytes's byte(len) wraps and FromBytes reads
\* an error or a shorter object.  One built with an untyped constant,
\* which Go stores as an int, cannot be written at all.
CipheredInitiateRoundTrip ==
    apdu.kind \in DOMAIN GlobalCipherTag =>
        IF "byte" \in DOMAIN apdu.sc
          THEN (GlobalCipherFromBytes(apdu.kind, ToBytes(apdu)) = apdu
                  <=> 5 + Len(apdu.text) <= 253)
          ELSE ToBytes(apdu) = ToBytesError

=============================================================================
