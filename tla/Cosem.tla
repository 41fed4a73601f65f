------------------------------- MODULE Cosem -------------------------------
(***************************************************************************)
(* The COSEM value codecs of src/meterlibs/protocol/dlms/cosem: OBIS codes *)
(* (obis.go), capture objects (src/unnamed/part_006), the date-times of    *)
(* selective access (selective_access.go datetimeToBytes and              *)
(* dlmsdata.DateTimeFromBytes in src/unnamed/part_007) and the range and   *)
(* entry access descriptors with their factory (selective_access.go).     *)
(*                                                                         *)
(* An OBIS code is the sequence <<A, B, C, D, E, F>> of its Go fields.     *)
(* A string is a sequence of fields: a decimal number [n, w] (its value   *)
(* and its count of digits) or a separator, so that the regular           *)
(* expressions of FromString are matched on what they look at.  A         *)
(* time.Time is its wall-clock fields in its zone and the zone's offset   *)
(* from UTC in minutes.  Go byte offsets are written 0-based with Byte.   *)
(***************************************************************************)
EXTENDS Integers, Sequences

\* sourceBytes[i] of Go, 0-based.
Byte(d, i) == d[i + 1]

\* sourceBytes[from:to] of Go.
Slice(d, from, to) == SubSeq(d, from + 1, to)

\* The w bytes of n, most significant first (the shifts of the ToBytes
\* methods) and the number they denote (the uint16/uint32 reads).
BigEndian(n, w) == [i \in 1..w |-> (n \div (256 ^ (w - i))) % 256]

RECURSIVE BigEndianOf(_)
BigEndianOf(bs) ==
    IF bs = <<>> THEN 0
    ELSE BigEndianOf(SubSeq(bs, 1, Len(bs) - 1)) * 256 + bs[Len(bs)]

----------------------------------------------------------------------------
(* OBIS codes (obis.go).                                                   *)

ObisError == <<>>       \* the (nil, error) of NewObis and the parsers

\* A plausible slip in NewObis: a component is checked against 0..256.
NewObisOffByOne(v) == IF \A i \in 1..6 : v[i] \in 0..256 THEN v ELSE ObisError

\* NewObis with validateOBISComponent (lines 26-63): every component in
\* 0..255.
NewObis(v) == IF \A i \in 1..6 : v[i] \in 0..255 THEN v ELSE ObisError

\* FromBytes (lines 65-79): exactly six bytes.
ObisFromBytes(bs) == IF Len(bs) # 6 THEN ObisError ELSE NewObis(bs)

\* Obis.ToBytes (lines 137-146): byte(o.X) of each component.
ObisToBytes(o) == [i \in 1..6 |-> o[i] % 256]

\* fmt's %d of a component: a number field with its value and its count
\* of digits.
RECURSIVE Digits(_)
Digits(n) == IF n < 10 THEN 1 ELSE 1 + Digits(n \div 10)

Decimal(n) == [c |-> "digits", n |-> n, w |-> Digits(n)]

\* A separator field: the separator string, which has no digit in it.
Sep(str) == [c |-> str, n |-> 0, w |-> 0]

\* Obis.ToString (lines 118-129): the separator between all six parts, or
\* "A-B:C.D.E.F" when it is empty.
ObisToString(o, sep) ==
    LET seps == IF sep # "" THEN <<sep, sep, sep, sep, sep>>
                ELSE <<"-", ":", ".", ".", ".">>
    IN  [i \in 1..11 |-> IF i % 2 = 1 THEN Decimal(o[(i + 1) \div 2])
                         ELSE Sep(seps[i \div 2])]

\* sixPartRegex and fivePartRegex (lines 9-12): k groups of one to three
\* digits separated by single dots, and nothing else.
MatchesDotted(s, k) ==
    /\ Len(s) = 2 * k - 1
    /\ \A i \in 1..Len(s) :
         IF i % 2 = 1 THEN s[i].c = "digits" /\ s[i].w \in 1..3
         ELSE s[i].c = "."

\* strconv.Atoi of the k groups.
Groups(s, k) == [j \in 1..k |-> s[2 * j - 1].n]

\* FromString (lines 83-114): six parts, or five with F = 255.
ObisFromString(s) ==
    IF MatchesDotted(s, 6) THEN NewObis(Groups(s, 6))
    ELSE IF MatchesDotted(s, 5) THEN NewObis(Groups(s, 5) \o <<255>>)
    ELSE ObisError

----------------------------------------------------------------------------
(* Capture objects and date-times.                                         *)

\* CaptureObject.ToBytes (part_006 lines 26-57): a structure of four,
\* each element with a tag and a length byte: interface (0x11 0x02),
\* instance (0x09 0x06), attribute (0x0F 0x01), data index (0x12 0x02).
\* A capture object is [desc |-> [ic, obis, id], index].
CaptureObjectToBytes(c) ==
    <<2, 4, 17, 2>> \o BigEndian(c.desc.ic, 2) \o <<9, 6>> \o ObisToBytes(c.desc.obis)
        \o <<15, 1, c.desc.id, 18, 2>> \o BigEndian(c.index, 2)

\* The days from 1970-01-01 to a proleptic Gregorian date, which
\* time.Time computes for Weekday (years from 1 on).
DaysFromCivil(y, m, d) ==
    LET yy  == IF m <= 2 THEN y - 1 ELSE y
        yoe == yy % 400
        doy == (153 * ((m + 9) % 12) + 2) \div 5 + d - 1
    IN  (yy \div 400) * 146097 + yoe * 365 + yoe \div 4 - yoe \div 100 + doy - 719468

\* time.Time.Weekday: Sunday = 0 ... Saturday = 6.
Weekday(t) == (DaysFromCivil(t.year, t.month, t.day) + 4) % 7

\* datetimeToBytes (selective_access.go lines 362-382): the wall clock of
\* t in its own zone, Go's weekday, t.Nanosecond() / 10^7 as hundredths,
\* and zeros for the deviation and the clock status; the zone of t is
\* not written.
DatetimeToBytes(t) ==
    BigEndian(t.year % 65536, 2)
        \o <<t.month, t.day, Weekday(t), t.hour, t.minute, t.second,
             t.ns \div 10000000, 0, 0, 0>>

DateTimeError == [year |-> -1]      \* the (time.Time{}, nil, error) return

\* An 0xFF time field reads as 0 (lines 1085-1096).
Unspecified(b) == IF b = 255 THEN 0 ELSE b

\* int16 of a big-endian uint16.
Int16(u) == IF u >= 32768 THEN u - 65536 ELSE u

\* dlmsdata.DateTimeFromBytes (part_007 lines 1060-1130): twelve bytes; an
\* unspecified year, month or day is an error; the nanoseconds are the
\* hundredths times 10000; the zone is UTC for deviation 0x8000 and
\* otherwise a fixed zone of -deviation minutes.  The clock status is
\* returned apart and the weekday is not read.  Fields out of range for
\* time.Date (which normalises them) do not occur in the bytes checked.
DateTimeFromBytes(bs) ==
    LET dev == BigEndianOf(Slice(bs, 9, 11)) IN
    IF Len(bs) # 12 THEN DateTimeError
    ELSE IF BigEndianOf(Slice(bs, 0, 2)) = 65535 \/ Byte(bs, 2) = 255
            \/ Byte(bs, 3) = 255 THEN DateTimeError
    ELSE [year |-> BigEndianOf(Slice(bs, 0, 2)), month |-> Byte(bs, 2),
          day |-> Byte(bs, 3), hour |-> Unspecified(Byte(bs, 5)),
          minute |-> Unspecified(Byte(bs, 6)), second |-> Unspecified(Byte(bs, 7)),
          ns |-> Unspecified(Byte(bs, 8)) * 10000,
          offset |-> IF dev = 32768 THEN 0 ELSE -Int16(dev)]

\* NewClockStatus (part_007 lines 955-963) with every flag false, as
\* DataNotification.ToBytes builds it.
DefaultClockStatus ==
    [invalid |-> FALSE, doubtful |-> FALSE, differentBase |-> FALSE,
     invalidStatus |-> FALSE, daylightSavingActive |-> FALSE]

\* ClockStatus.ToBytes (lines 981-998): bits 0-3 and 7.
ClockStatusToBytes(c) ==
    << (IF c.invalid THEN 1 ELSE 0) + (IF c.doubtful THEN 2 ELSE 0)
       + (IF c.differentBase THEN 4 ELSE 0) + (IF c.invalidStatus THEN 8 ELSE 0)
       + (IF c.daylightSavingActive THEN 128 ELSE 0) >>

\* DateToBytes (lines 1133-1146): year as u16, month, day, and 0xFF for
\* an unspecified day of week.
DateToBytes(t) == BigEndian(t.year % 65536, 2) \o <<t.month, t.day, 255>>

\* TimeToBytes (lines 1149-1156): the nanoseconds over 10^7 as hundredths.
TimeToBytes(t) == <<t.hour, t.minute, t.second, t.ns \div 10000000>>

\* DateTimeToBytes (lines 1159-1190): date, time, the deviation and the
\* clock status.  A time in time.UTC is written 0x8000 (not specified);
\* any other zone as int16(-offset) minutes.  The record's offset 0 stands
\* for time.UTC: a FixedZone of offset 0, written as deviation 0, is one
\* the records do not tell apart from it.
DateTimeToBytes(t, clockStatus) ==
    DateToBytes(t) \o TimeToBytes(t)
        \o (IF t.offset = 0 THEN <<128, 0>> ELSE BigEndian((-t.offset) % 65536, 2))
        \o ClockStatusToBytes(clockStatus)

----------------------------------------------------------------------------
(* Selective access descriptors (selective_access.go).                    *)

\* A range descriptor [type |-> 1, capture, from, to, selected] and an
\* entry descriptor [type |-> 2, fromEntry, toEntry, fromSel, toSel];
\* NoAccess is a nil AccessSelection.
NoAccess == [type |-> 0]

\* What the descriptor FromBytes methods return: the descriptor and the
\* bytes consumed, an error, or a run-time panic (an index or slice out of
\* range).  A slice is taken to have no capacity beyond its length.
AccessParsed(sel, consumed) == [status |-> "ok", sel |-> sel, consumed |-> consumed]
AccessFailed   == [status |-> "error"]
AccessPanicked == [status |-> "panic"]

RangePanicked == <<-1>>  \* the bytes of a RangeDescriptor.ToBytes that panics

\* RangeDescriptor.ToBytes (lines 45-77): a structure of four, the
\* capture object, both times as 12-byte octet strings, and an empty
\* array; selected values panic.
RangeToBytes(r) ==
    IF r.selected # <<>> THEN RangePanicked
    ELSE <<1, 2, 4>> \o CaptureObjectToBytes(r.capture)
            \o <<9, 12>> \o DatetimeToBytes(r.from)
            \o <<9, 12>> \o DatetimeToBytes(r.to) \o <<1, 0>>

\* The selected_values array that ends a range descriptor at offset p
\* (lines 178-196): optional; only an empty one is accepted.
RangeTail(d, r, p) ==
    IF Len(d) <= p \/ Byte(d, p) # 1 THEN AccessParsed(r, p)
    ELSE IF Len(d) <= p + 1 \/ Byte(d, p + 1) > 0 THEN AccessFailed
    ELSE AccessParsed(r, p + 2)

\* The to_value octet string at offset o (lines 161-176); its tag check
\* formats sourceBytes[o] into the error, which panics past the end.
RangeTo(d, r, o) ==
    LET len == Byte(d, o + 1)
        to  == DateTimeFromBytes(Slice(d, o + 2, o + 2 + len))
    IN  IF Len(d) <= o THEN AccessPanicked
        ELSE IF Len(d) < o + 2 \/ Byte(d, o) # 9 THEN AccessFailed
        ELSE IF Len(d) < o + 2 + len \/ to = DateTimeError THEN AccessFailed
        ELSE RangeTail(d, [r EXCEPT !.to = to], o + 2 + len)

\* The from_value octet string at offset 24 (lines 144-159).
RangeFrom(d, r) ==
    LET len  == Byte(d, 25)
        from == DateTimeFromBytes(Slice(d, 26, 26 + len))
    IN  IF Len(d) <= 24 THEN AccessPanicked
        ELSE IF Len(d) < 26 \/ Byte(d, 24) # 9 THEN AccessFailed
        ELSE IF Len(d) < 26 + len \/ from = DateTimeError THEN AccessFailed
        ELSE RangeTo(d, [r EXCEPT !.from = from], 26 + len)

\* The restricting capture object, from offset 3 (lines 97-142).  The
\* OBIS slice (line 118), the attribute byte (line 130), the data-index
\* error message (line 135) and the data index (line 138) index past the
\* end of a short input.
RangeFromBytes(d) ==
    LET capture == [desc |-> [ic |-> BigEndianOf(Slice(d, 7, 9)),
                              obis |-> ObisFromBytes(Slice(d, 11, 17)),
                              id |-> Byte(d, 19)],
                    index |-> BigEndianOf(Slice(d, 22, 24))]
    IN  IF Len(d) < 1 \/ Byte(d, 0) # 1 THEN AccessFailed
        ELSE IF Len(d) < 3 \/ Byte(d, 1) # 2 \/ Byte(d, 2) # 4 THEN AccessFailed
        ELSE IF Len(d) < 5 \/ Byte(d, 3) # 2 \/ Byte(d, 4) # 4 THEN AccessFailed
        ELSE IF Len(d) < 9 \/ Byte(d, 5) # 17 \/ Byte(d, 6) # 2 THEN AccessFailed
        ELSE IF Len(d) < 11 \/ Byte(d, 9) # 9 \/ Byte(d, 10) # 6 THEN AccessFailed
        ELSE IF Len(d) < 17 THEN AccessPanicked
        ELSE IF Len(d) < 19 \/ Byte(d, 17) # 15 \/ Byte(d, 18) # 1 THEN AccessFailed
        ELSE IF Len(d) < 22 THEN AccessPanicked
        ELSE IF Byte(d, 20) # 18 \/ Byte(d, 21) # 2 THEN AccessFailed
        ELSE IF Len(d) < 24 THEN AccessPanicked
        ELSE RangeFrom(d, [type |-> 1, capture |-> capture, from |-> DateTimeError,
                           to |-> DateTimeError, selected |-> <<>>])

\* EntryDescriptor.ToBytes (lines 234-273): 0x06 and a u32 for each entry,
\* 0x12 and a u16 for each selected value.
EntryToBytes(e) ==
    <<2, 2, 4, 6>> \o BigEndian(e.fromEntry, 4) \o <<6>> \o BigEndian(e.toEntry, 4)
        \o <<18>> \o BigEndian(e.fromSel, 2) \o <<18>> \o BigEndian(e.toSel, 2)

\* EntryDescriptor.FromBytes (lines 276-331): 19 bytes, then the tags.
EntryFromBytes(d) ==
    IF Len(d) < 19 \/ Byte(d, 0) # 2 \/ Byte(d, 1) # 2 \/ Byte(d, 2) # 4
       \/ Byte(d, 3) # 6 \/ Byte(d, 8) # 6 \/ Byte(d, 13) # 18 \/ Byte(d, 16) # 18
    THEN AccessFailed
    ELSE AccessParsed([type |-> 2, fromEntry |-> BigEndianOf(Slice(d, 4, 8)),
                 toEntry |-> BigEndianOf(Slice(d, 9, 13)),
                 fromSel |-> BigEndianOf(Slice(d, 14, 16)),
                 toSel |-> BigEndianOf(Slice(d, 17, 19))], 19)

\* AccessDescriptorFactory.FromBytes (lines 338-353): by the first byte.
AccessFromBytes(d) ==
    IF d = <<>> THEN AccessFailed
    ELSE IF d[1] = 1 THEN RangeFromBytes(d)
    ELSE IF d[1] = 2 THEN EntryFromBytes(d)
    ELSE AccessFailed

\* The ToBytes of the descriptor's type (the type switches of the
\* GetRequestNormal, SetRequestNormal and GetRequestWithList encoders).
AccessToBytes(sel) == IF sel.type = 1 THEN RangeToBytes(sel) ELSE EntryToBytes(sel)

====
