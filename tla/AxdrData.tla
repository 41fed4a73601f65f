----------------------------- MODULE AxdrData ------------------------------
(***************************************************************************)
(* The A-XDR data values of dlmsdata (src/unnamed/part_007 lines 175-944) *)
(* and the AXdrDecoder with its encoding configurations (src/unnamed/     *)
(* part_001 lines 39-387).                                                 *)
(*                                                                         *)
(* A DlmsData value is a record with one field, named after its Go type:  *)
(* [long |-> -2], [array |-> <<...>>].  Its ToBytes is what Go's method   *)
(* sets give it: NullData, DataArray and DataStructure have their own;    *)
(* every other type has the promoted BaseDlmsData.ToBytes, which calls    *)
(* the base ValueToBytes and fails.  Each FromBytes reads the bytes it is *)
(* given as Go does; DataArray and DataStructure hand each item the bytes *)
(* from its tag on, and advance by the length of the item's ToBytes.      *)
(*                                                                         *)
(* A value of the decoder (ToPython) is a record with one field too:      *)
(* [int |-> n], [bool |-> b], [bytes |-> s], [str |-> s], [list |-> l],   *)
(* PyNone.  A string is its bytes.                                          *)
(***************************************************************************)
EXTENDS Integers, Sequences, TLC

AL == INSTANCE AxdrLength WITH Lengths <- {}, n <- 0

VariableLength == -1

\* The tags of the types dataFactoryMap knows (lines 177-204, 908-921).
DataTag ==
    [null |-> 0, array |-> 1, structure |-> 2, boolean |-> 3, doubleLong |-> 5,
     doubleLongUnsigned |-> 6, octetString |-> 9, visibleString |-> 10,
     integer |-> 15, long |-> 16, unsigned |-> 17, longUnsigned |-> 18]

\* The Length each constructor gives its BaseDlmsData (lines 262-747).
DataLength ==
    [null |-> 0, boolean |-> 1, integer |-> 1, unsigned |-> 1, long |-> 2,
     longUnsigned |-> 2, doubleLong |-> 4, doubleLongUnsigned |-> 4,
     octetString |-> VariableLength, visibleString |-> VariableLength,
     array |-> VariableLength, structure |-> VariableLength]

TypeOf(x) == CHOOSE t \in DOMAIN x : TRUE      \* the Go type of a value

DataValue(type, v) == [t \in {type} |-> v]      \* New<type>Data(v)

\* DlmsDataFactory.GetDataClass (lines 924-930): the type of a known tag.
KnownTag(tag) == \E t \in DOMAIN DataTag : DataTag[t] = tag
DataClass(tag) == CHOOSE t \in DOMAIN DataTag : DataTag[t] = tag

----------------------------------------------------------------------------
(* ToBytes.                                                                 *)

Encoded(bs) == [bytes |-> bs]
EncodeFailed == [failed |-> "value_to_bytes must be implemented in subclass"]

EncodedJoin(a, b) ==
    IF a = EncodeFailed \/ b = EncodeFailed THEN EncodeFailed
    ELSE Encoded(a.bytes \o b.bytes)

RECURSIVE DataToBytes(_), ItemsToBytes(_, _)

\* The loop of DataArray.ToBytes and DataStructure.ToBytes over the items,
\* appending to the bytes so far: the first item whose ToBytes fails fails
\* the whole.  (The test of the bytes so far comes first: TLC evaluates it
\* at each step rather than piling up deferred joins.)
ItemsToBytes(result, items) ==
    IF result = EncodeFailed \/ items = <<>> THEN result
    ELSE ItemsToBytes(EncodedJoin(result, DataToBytes(Head(items))), Tail(items))

\* ToBytes through the DlmsData interface: NullData.ToBytes (lines
\* 283-286); DataArray.ToBytes and DataStructure.ToBytes (641-655,
\* 752-766): the tag, EncodeVariableInteger of the item count, the items;
\* the promoted BaseDlmsData.ToBytes (238-254) for the other types, whose
\* call of ValueToBytes reaches the base method and returns its error.
DataToBytes(x) ==
    IF TypeOf(x) = "null" THEN Encoded(<<0>>)
    ELSE IF TypeOf(x) \in {"array", "structure"}
      THEN ItemsToBytes(Encoded(<<DataTag[TypeOf(x)]>>
                                \o AL!EncodeVariableInteger(Len(x[TypeOf(x)]))),
                        x[TypeOf(x)])
    ELSE EncodeFailed

----------------------------------------------------------------------------
(* FromBytes.                                                               *)

DataFailed == [failed |-> "from_bytes"]

\* int8(data[0]), int16 and int32 of binary.BigEndian: the first byte
\* signed, then the others.
SignedValue(bs) ==
    (IF bs[1] >= 128 THEN bs[1] - 256 ELSE bs[1]) * 256 ^ (Len(bs) - 1)
        + AL!BytesValue(Tail(bs))

\* The FromBytes of the fixed-width types (lines 273-548): at least Length
\* bytes, of which the first Length are read big-endian (a boolean is its
\* first byte non-zero; integer, long and double-long are signed).
FixedFromBytes(type, d) ==
    IF Len(d) < DataLength[type] THEN DataFailed
    ELSE IF type = "null" THEN DataValue(type, TRUE)
    ELSE IF type = "boolean" THEN DataValue(type, d[1] # 0)
    ELSE IF type \in {"integer", "long", "doubleLong"}
      THEN DataValue(type, SignedValue(SubSeq(d, 1, DataLength[type])))
    ELSE DataValue(type, AL!BytesValue(SubSeq(d, 1, DataLength[type])))

RECURSIVE DataFromBytes(_, _), ItemsFromBytes(_, _, _, _)

\* A loop that steps over one byte per item, whatever the item's length.
ItemNextByOne(rem, pos, length, items, item, enc) ==
    IF enc = EncodeFailed THEN DataFailed
    ELSE ItemsFromBytes(rem, pos + 1, length, Append(items, item))

\* One item read: its FromBytes failed, its ToBytes failed, or the loop
\* goes on past the bytes its ToBytes gives.
ItemNext(rem, pos, length, items, item, enc) ==
    IF enc = EncodeFailed THEN DataFailed
    ELSE ItemsFromBytes(rem, pos + Len(enc.bytes), length, Append(items, item))

ItemStep(rem, pos, length, items, item) ==
    IF item = DataFailed THEN DataFailed
    ELSE ItemNext(rem, pos, length, items, item, DataToBytes(item))

\* The item loop of DataArray.FromBytes (lines 685-717) and
\* DataStructure.FromBytes (796-827): while i < length and pos <
\* len(remaining), the factory of the tag at pos and its FromBytes of
\* remaining[pos:]; a count above the items present ends the loop early.
\* The index i is the number of items read so far.
ItemsFromBytes(rem, pos, length, items) ==
    IF Len(items) >= length \/ pos >= Len(rem) THEN [items |-> items]
    ELSE IF ~KnownTag(rem[pos + 1]) THEN DataFailed
    ELSE ItemStep(rem, pos, length, items,
                  DataFromBytes(DataClass(rem[pos + 1]), SubSeq(rem, pos + 1, Len(rem))))

ListOf(type, items) == IF items = DataFailed THEN DataFailed ELSE DataValue(type, items.items)

ListWithLength(type, v) ==
    IF ~v.ok THEN DataFailed ELSE ListOf(type, ItemsFromBytes(v.rest, 0, v.length, <<>>))

\* DataArray.FromBytes and DataStructure.FromBytes (lines 668-720,
\* 779-830): the tag of the type, the item count by DecodeVariableInteger,
\* the items.
ListFromBytes(type, d) ==
    IF Len(d) < 1 \/ d[1] # DataTag[type] THEN DataFailed
    ELSE ListWithLength(type, AL!DecodeVariableInteger(Tail(d)))

\* The FromBytes of a type: OctetStringData and VisibleStringData take
\* all the bytes (lines 571-576, 609-612).
DataFromBytes(type, d) ==
    IF type \in {"array", "structure"} THEN ListFromBytes(type, d)
    ELSE IF type \in {"octetString", "visibleString"} THEN DataValue(type, d)
    ELSE FixedFromBytes(type, d)

\* DataArray.ToPython and BaseDlmsData.ToPython (lines 233-235, 657-666):
\* the Go value of a primitive, nil for null.
PyNone == [none |-> TRUE]

ToPython(x) ==
    IF TypeOf(x) = "null" THEN PyNone
    ELSE IF TypeOf(x) = "boolean" THEN [bool |-> x.boolean]
    ELSE IF TypeOf(x) = "octetString" THEN [bytes |-> x.octetString]
    ELSE IF TypeOf(x) = "visibleString" THEN [str |-> x.visibleString]
    ELSE [int |-> x[TypeOf(x)]]

----------------------------------------------------------------------------
(* AXdrDecoder (part_001 lines 66-387).  The decoder's Buffer and Pointer *)
(* are passed along; a step gives a value and the Pointer after it, or an  *)
(* error.  An encoding configuration is a sequence of elements:            *)
(*   [kind |-> "attribute", name, length, optional, default]               *)
(*   [kind |-> "sequence", name]                                           *)
(*   [kind |-> "choice", choices]   (a function from bytes to elements)    *)
(* An attribute's CreateInstance is the constructor of the configuration; *)
(* its value is the bytes it is given, [bytes |-> data].  NoDefault is a  *)
(* nil Default.                                                            *)
(***************************************************************************)

NoDefault == [none |-> "default"]       \* a nil Default (NilDefault of CodecInputs)

Got(val, ptr) == [val |-> val, ptr |-> ptr]
DecoderError == [error |-> "axdr"]

\* GetBytes (lines 361-369): length bytes at the Pointer, which moves on.
GetBytes(buf, ptr, length) ==
    IF ptr + length > Len(buf) THEN DecoderError
    ELSE Got(SubSeq(buf, ptr + 1, ptr + length), ptr + length)

\* GetBufferTail (lines 116-120) and BufferEmpty (84-88).
BufferTail(buf, ptr) == SubSeq(buf, ptr + 1, Len(buf))
BufferEmpty(buf, ptr) == ptr >= Len(buf)

\* GetBytes of the length the package GetAXdrLength reads from the tail:
\* the Pointer is not moved past the length bytes, so they are read as the
\* first bytes of the value (lines 186-195, 255-262, 333-341).
LengthThenBytes(buf, ptr, l) == IF ~l.ok THEN DecoderError ELSE GetBytes(buf, ptr, l.length)

BytesOfLength(buf, ptr) == LengthThenBytes(buf, ptr, AL!GetAXdrLength(BufferTail(buf, ptr)))

\* FromBytes of the data read, then ToPython.
DecodedValue(type, got) ==
    IF got = DecoderError THEN DecoderError
    ELSE Got(ToPython(DataFromBytes(type, got.val)), got.ptr)

\* DecodeData (lines 330-359).  DecodeSequenceOf passes it the instance
\* where it takes the constructor (line 326), which Go does not compile;
\* the model takes the call to mean the constructor of the type.
DecodeData(buf, ptr, type) ==
    IF DataLength[type] = VariableLength
      THEN DecodedValue(type, BytesOfLength(buf, ptr))
    ELSE DecodedValue(type, GetBytes(buf, ptr, DataLength[type]))

RECURSIVE DecodeSequenceOf(_, _), DecodeElements(_, _, _, _)

ElementThen(buf, count, acc, e) ==
    IF e = DecoderError THEN DecoderError
    ELSE DecodeElements(buf, e.ptr, count, Append(acc, e.val))

\* The loop of DecodeArray and DecodeStructure: count elements.
DecodeElements(buf, ptr, count, acc) ==
    IF Len(acc) >= count THEN Got([list |-> acc], ptr)
    ELSE ElementThen(buf, count, acc, DecodeSequenceOf(buf, ptr))

\* DecodeArray and DecodeStructure (lines 270-304): the item count by the
\* package GetAXdrLength, which leaves the Pointer on it, then the items.
DecodeListWith(buf, ptr, l) ==
    IF ~l.ok THEN DecoderError ELSE DecodeElements(buf, ptr, l.length, <<>>)

DecodeList(buf, ptr) == DecodeListWith(buf, ptr, AL!GetAXdrLength(BufferTail(buf, ptr)))

\* DecodeSequenceOf (lines 306-328): the tag, its class from the factory,
\* then an array, a structure or DecodeData.
DecodeSequenceOf(buf, ptr) ==
    IF ptr + 1 > Len(buf) \/ ~KnownTag(buf[ptr + 1]) THEN DecoderError
    ELSE IF DataClass(buf[ptr + 1]) \in {"array", "structure"}
      THEN DecodeList(buf, ptr + 1)
    ELSE DecodeData(buf, ptr + 1, DataClass(buf[ptr + 1]))

RECURSIVE SequenceItems(_, _, _)

SequenceThen(buf, acc, e) ==
    IF e = DecoderError THEN DecoderError ELSE SequenceItems(buf, e.ptr, Append(acc, e.val))

\* The loop of DecodeSequence (lines 203-257): until the buffer is empty,
\* a tag, its class, and the value as DecodeSequenceOf reads it (the body
\* repeats DecodeSequenceOf's steps).
SequenceItems(buf, ptr, acc) ==
    IF BufferEmpty(buf, ptr) THEN Got([list |-> acc], ptr)
    ELSE SequenceThen(buf, acc, DecodeSequenceOf(buf, ptr))

\* DecodeSequence (lines 200-268): one value is returned alone.
SequenceResult(name, r) ==
    IF r = DecoderError THEN DecoderError
    ELSE Got([x \in {name} |-> IF Len(r.val.list) = 1 THEN r.val.list[1] ELSE r.val], r.ptr)

DecodeSequence(name, buf, ptr) == SequenceResult(name, SequenceItems(buf, ptr, <<>>))

\* An indicator test that takes 0x01, not 0x00, as the absent value.
IndicatedSwapped(buf, ind, v, rest) ==
    IF ind = DecoderError THEN DecoderError
    ELSE IF ind.val = <<1>> THEN Got(v, ind.ptr)
    ELSE rest

\* An indicator byte of DecodeAttribute: 0x00 gives the value v at once.
Indicated(buf, ind, v, rest) ==
    IF ind = DecoderError THEN DecoderError
    ELSE IF ind.val = <<0>> THEN Got(v, ind.ptr)
    ELSE rest

\* The value of an attribute after its indicators (lines 171-197): a fixed
\* length; all the remaining bytes in the last element; else an A-XDR
\* length, which the Pointer is not moved past.
AttributeBytes(a, last, buf, ptr) ==
    IF a.length # VariableLength THEN GetBytes(buf, ptr, a.length)
    ELSE IF last THEN Got(BufferTail(buf, ptr), ptr)
    ELSE BytesOfLength(buf, ptr)

AttributeValue(got) == IF got = DecoderError THEN DecoderError ELSE Got([bytes |-> got.val], got.ptr)

\* DecodeAttribute after the optional indicator: the default indicator.
DefaultThen(a, last, buf, ptr) ==
    IF a.default = NoDefault THEN AttributeValue(AttributeBytes(a, last, buf, ptr))
    ELSE Indicated(buf, GetBytes(buf, ptr, 1), a.default,
                   AttributeValue(AttributeBytes(a, last, buf, ptr + 1)))

\* DecodeAttribute (lines 148-198): an optional attribute whose indicator
\* is 0x00 is nil; so is a defaulted one its default.
DecodeAttribute(a, last, buf, ptr) ==
    IF a.optional
      THEN Indicated(buf, GetBytes(buf, ptr, 1), PyNone, DefaultThen(a, last, buf, ptr + 1))
    ELSE DefaultThen(a, last, buf, ptr)

Named(name, r) == IF r = DecoderError THEN DecoderError ELSE Got([x \in {name} |-> r.val], r.ptr)

RECURSIVE DecodeSingle(_, _, _, _)

ChoiceThen(el, last, buf, c) ==
    IF c = DecoderError THEN DecoderError
    ELSE IF c.val[1] \notin DOMAIN el.choices THEN DecoderError
    ELSE DecodeSingle(el.choices[c.val[1]], last, buf, c.ptr)

\* DecodeSingle (lines 122-146): a choice reads its byte and decodes the
\* element it selects, in the same position.
DecodeSingle(el, last, buf, ptr) ==
    IF el.kind = "attribute" THEN Named(el.name, DecodeAttribute(el, last, buf, ptr))
    ELSE IF el.kind = "sequence" THEN DecodeSequence(el.name, buf, ptr)
    ELSE ChoiceThen(el, last, buf, GetBytes(buf, ptr, 1))

RECURSIVE DecodeFrom(_, _, _, _, _)

\* The results of the elements in one map; a later name overwrites.
DecodeNext(conf, index, buf, s, result) ==
    IF s = DecoderError THEN DecoderError
    ELSE DecodeFrom(conf, index + 1, buf, s.ptr, s.val @@ result)

\* The loop of Decode (lines 97-107); IsLastEncodingElement (111-114).
DecodeFrom(conf, index, buf, ptr, result) ==
    IF index > Len(conf) THEN [decoded |-> result]
    ELSE DecodeNext(conf, index, buf,
                    DecodeSingle(conf[index], index = Len(conf), buf, ptr), result)

\* AXdrDecoder.Decode (lines 89-110): a fresh result, the buffer, the
\* Pointer at 0.
Decode(conf, data) == DecodeFrom(conf, 1, data, 0, [x \in {} |-> PyNone])


=============================================================================
