------------------------------ MODULE HdlcFrame ------------------------------
(***************************************************************************)
(* The HDLC frames of src/unnamed/part_001 (lines 824-1378) and the frame *)
(* format and control fields of src/meterlibs/protocol/dlms/hdlc/fields.go *)
(* (lines 16-292).                                                         *)
(*                                                                         *)
(* A control field is a record [kind, ssn, rsn, final]; a format field a   *)
(* record [length, segmented]; a frame a record [kind, dest, src, payload, *)
(* ssn, rsn, final, segmented] with the addresses of HdlcAddress.  Bytes   *)
(* are sequences of 0..255, indexed from 1; Go index i is element i + 1.   *)
(*                                                                         *)
(* Every frame type embeds *BaseHdlcFrame, and Go embedding is not        *)
(* virtual: ToBytes, HCS and FCS are methods of the base, whose            *)
(* HeaderContent calls the base GetControlField, and that panics.  So     *)
(* FrameToBytes is a panic, and FrameFromBytes panics at its checksum      *)
(* comparison once the bytes have passed every check before it.          *)
(* FrameFields is the frame FromBytes builds just before that comparison. *)
(***************************************************************************)
EXTENDS Integers, Sequences, Bitwise

A == INSTANCE HdlcAddress WITH Values <- 0..127, server <- "none", client <- "none"

\* HDLCFlag and the LLC headers (part_001 lines 830-834).
HDLCFlag == 126
LLCCommandHeader == <<230, 230, 0>>
LLCResponseHeader == <<231, 231, 0>>

FieldError == [kind |-> "error"]      \* a returned error
FramePanicked == [kind |-> "panic"]    \* a Go panic

\* The bytes frameBytes[from:to] of a Go slice expression, and whether it
\* is in bounds (a slice out of bounds panics).
GoSlice(d, from, to) == SubSeq(d, from + 1, to)
InBounds(d, from, to) == 0 <= from /\ from <= to /\ to <= Len(d)

----------------------------------------------------------------------------
(* Control fields (fields.go lines 16-235).                                 *)

\* The poll/final bit ORed in by every ToBytes.
FinalBit == 16

\* The fixed bytes of the SNRM, UA and DISC control fields (lines 35-85)
\* and of the unnumbered-information field (lines 208-214).
UnnumberedBase == [SNRM |-> 131, UA |-> 99, DISC |-> 67, UI |-> 3]

\* The ToBytes of each control field: SNRM, UA, DISC and RR are always
\* final; RR adds rsn << 5 to 0b1 (lines 108-115), I adds ssn << 1 and
\* rsn << 5 to 0 (lines 166-174); the sums stay below 256 for numbers 0..7.
ControlToBytes(c) ==
    IF c.kind = "RR" THEN <<(1 + c.rsn * 32) | FinalBit>>
    ELSE IF c.kind = "I"
      THEN <<(c.ssn * 2 + c.rsn * 32) | (IF c.final THEN FinalBit ELSE 0)>>
    ELSE IF c.kind = "UI" /\ ~c.final THEN <<UnnumberedBase.UI>>
    ELSE <<UnnumberedBase[c.kind] | FinalBit>>

\* The fields a control field is compared on; the others are 0 or TRUE.
Control(kind, ssn, rsn, final) == [kind |-> kind, ssn |-> ssn, rsn |-> rsn, final |-> final]

\* ReceiveReadyControlField.FromBytes (lines 118-130): any byte with the
\* low bit set, the rsn from bits 5-7; NewReceiveReadyControlField never
\* fails on those three bits.
ReceiveReadyControlFromBytes(bs) ==
    IF Len(bs) # 1 \/ bs[1] & 1 = 0 THEN FieldError
    ELSE Control("RR", 0, shiftR(bs[1] & 224, 5), TRUE)

\* A plausible slip in InformationControlField.FromBytes: the ssn masked
\* with 0b00000111 before the shift, losing its top bit.
InformationControlFromBytesLowMask(bs) ==
    IF Len(bs) # 1 \/ bs[1] & 1 # 0 THEN FieldError
    ELSE Control("I", shiftR(bs[1] & 7, 1), shiftR(bs[1] & 224, 5),
                 bs[1] & FinalBit # 0)

\* InformationControlField.FromBytes (lines 177-190).
InformationControlFromBytes(bs) ==
    IF Len(bs) # 1 \/ bs[1] & 1 # 0 THEN FieldError
    ELSE Control("I", shiftR(bs[1] & 14, 1), shiftR(bs[1] & 224, 5),
                 bs[1] & FinalBit # 0)

\* UnnumberedInformationControlField.FromBytes (lines 217-229).
UnnumberedInformationControlFromBytes(bs) ==
    IF Len(bs) # 1 \/ bs[1] & 3 # 3 THEN FieldError
    ELSE Control("UI", 0, 0, bs[1] & FinalBit # 0)

----------------------------------------------------------------------------
(* The frame format field (fields.go lines 237-286).                        *)

MaxFrameLength == 2047     \* 0b11111111111

\* NewDlmsHdlcFrameFormatField (lines 243-252).
NewFormatField(length, segmented) ==
    IF length > MaxFrameLength THEN FieldError
    ELSE [length |-> length, segmented |-> segmented]

\* ToBytes (lines 280-286): 0xA000 | Length, bit 11 for segmented; the
\* uint16 Length is not masked, so a length above 2047 reaches bit 11.
FormatFieldToBytes(f) ==
    LET total == (40960 | f.length) | (IF f.segmented THEN 2048 ELSE 0)
    IN  <<shiftR(total, 8), total & 255>>

\* FromBytes (lines 254-265), with correctFrameFormat (267-271) and
\* getLengthFromBytes (274-277).
FormatFieldFromBytes(bs) ==
    IF Len(bs) # 2 \/ bs[1] & 240 # 160 THEN FieldError
    ELSE NewFormatField((bs[1] * 256 + bs[2]) & MaxFrameLength, bs[1] & 8 # 0)

\* ExtractFormatFieldFromBytes (part_001 lines 928-934).
ExtractFormatFieldFromBytes(fb) ==
    IF Len(fb) < 3 THEN FieldError ELSE FormatFieldFromBytes(GoSlice(fb, 1, 3))

\* FrameIsEnclosedByHdlcFlags (lines 937-944).
FrameIsEnclosedByHdlcFlags(fb) ==
    Len(fb) >= 2 /\ fb[1] = HDLCFlag /\ fb[Len(fb)] = HDLCFlag

\* FrameHasCorrectLength (lines 947-949).
FrameHasCorrectLength(length, fb) == length + 2 = Len(fb)

----------------------------------------------------------------------------
(* The addresses of a frame (fields.go lines 409-440).                      *)

\* The types the FromBytes of a frame gives its two addresses: a DISC is
\* parsed as sent by the client to the meter (part_001 lines 1353-1360),
\* the UA, RR and I frames as sent by the meter to the client.
DestinationType(kind) == IF kind = "DISC" THEN "server" ELSE "client"
SourceType(kind) == IF kind = "DISC" THEN "client" ELSE "server"

\* NewHdlcAddress on what FindAddressInFrameBytes found: an error for a
\* frame too short, or a part outside 0..127 (validateHdlcAddress).
AddressFromData(data, type, extended) ==
    IF data = A!TooShort \/ data.logical \notin 0..127
       \/ data.physical \notin (0..127) \cup {A!Nil}
      THEN FieldError
      ELSE [type |-> type, logical |-> data.logical,
            physical |-> data.physical, extended |-> extended]

\* DestinationFromBytes (lines 409-422): never extended.
DestinationFromBytes(fb, type) ==
    IF Len(fb) < 4 THEN FieldError
    ELSE AddressFromData(A!FindAddressInFrameBytes(fb)[1], type, FALSE)

\* SourceFromBytes (lines 425-440): extended when four bytes long.
SourceFromBytes(fb, type) ==
    IF Len(fb) < 4 THEN FieldError
    ELSE AddressFromData(A!FindAddressInFrameBytes(fb)[2], type,
                         A!FindAddressInFrameBytes(fb)[2].length = 4)

\* HdlcAddress.Length (lines 349-352): the length of the address as
\* ToBytes writes it again, not the length found in the frame.
AddressLength(a) == Len(A!ToBytes(a))

----------------------------------------------------------------------------
(* Frame parsing (part_001 lines 1032-1375).                                *)

\* The checks every FromBytes makes first, in this order: the flags, the
\* format field, the declared length, the destination and the source
\* (e.g. lines 1033-1056).  The result keeps the Go index of the control
\* byte, 1 + 2 + destinationAddress.Length() + sourceAddress.Length().
FrameHeaderOf(fb, ff, dest, src) ==
    IF ~FrameIsEnclosedByHdlcFlags(fb) THEN FieldError
    ELSE IF ff = FieldError THEN FieldError
    ELSE IF ~FrameHasCorrectLength(ff.length, fb) THEN FieldError
    ELSE IF dest = FieldError \/ src = FieldError THEN FieldError
    ELSE [dest |-> dest, src |-> src, segmented |-> ff.segmented,
          control |-> 3 + AddressLength(dest) + AddressLength(src)]

FrameHeader(kind, fb) ==
    FrameHeaderOf(fb, ExtractFormatFieldFromBytes(fb),
                  DestinationFromBytes(fb, DestinationType(kind)),
                  SourceFromBytes(fb, SourceType(kind)))

\* The frame the constructors build (NewUnNumberedAcknowledgmentFrame,
\* NewReceiveReadyFrame, NewInformationFrame, NewDisconnectFrame): only
\* an I-frame takes the segmentation and final bit it was sent with.
NewFrame(kind, h, payload, ssn, rsn, segmented, final) ==
    [kind |-> kind, dest |-> h.dest, src |-> h.src, payload |-> payload,
     ssn |-> ssn, rsn |-> rsn, segmented |-> segmented, final |-> final]

\* A plausible slip in the LLC removal: only the command header the
\* library itself sends is recognised.
WithoutLlcCommandOnly(info) ==
    IF Len(info) >= 3 /\ SubSeq(info, 1, 3) = LLCCommandHeader
      THEN SubSeq(info, 4, Len(info))
      ELSE info

\* The LLC header is removed if present (lines 1261-1267).
WithoutLlc(info) ==
    IF Len(info) >= 3 /\ SubSeq(info, 1, 3) \in {LLCCommandHeader, LLCResponseHeader}
      THEN SubSeq(info, 4, Len(info))
      ELSE info

\* The HCS slice [hcsPosition:hcsPosition+2], the FCS slice and the
\* information slice [hcsPosition+2:len-3]: a panic where one is out of
\* bounds, as for a UA without information, whose information slice
\* starts two bytes after it ends.
ChecksumSlicesInBounds(fb, hcsPos) ==
    /\ InBounds(fb, hcsPos, hcsPos + 2)
    /\ InBounds(fb, Len(fb) - 3, Len(fb) - 1)
    /\ InBounds(fb, hcsPos + 2, Len(fb) - 3)

\* UnNumberedAcknowledgmentFrame.FromBytes up to its HCS check (lines
\* 1057-1064).
UaFields(fb, h) ==
    IF ~ChecksumSlicesInBounds(fb, h.control + 1) THEN FramePanicked
    ELSE NewFrame("UA", h, GoSlice(fb, h.control + 3, Len(fb) - 3), 0, 0, FALSE, TRUE)

\* ReceiveReadyFrame.FromBytes up to its FCS check (lines 1150-1165),
\* given the parsed control byte.
RrFields(fb, h, control) ==
    IF ~InBounds(fb, h.control, h.control + 1) THEN FramePanicked
    ELSE IF control = FieldError THEN FieldError
    ELSE IF ~InBounds(fb, Len(fb) - 3, Len(fb) - 1) THEN FramePanicked
    ELSE NewFrame("RR", h, <<>>, 0, control.rsn, FALSE, TRUE)

\* InformationFrame.FromBytes up to its HCS check (lines 1248-1282).
IFields(fb, h, control) ==
    IF ~InBounds(fb, h.control, h.control + 1) THEN FramePanicked
    ELSE IF control = FieldError THEN FieldError
    ELSE IF ~ChecksumSlicesInBounds(fb, h.control + 1) THEN FramePanicked
    ELSE NewFrame("I", h, WithoutLlc(GoSlice(fb, h.control + 3, Len(fb) - 3)),
                  control.ssn, control.rsn, h.segmented, control.final)

\* DisconnectFrame.FromBytes up to its FCS check (lines 1362-1366).
DiscFields(fb, h) ==
    IF ~InBounds(fb, Len(fb) - 3, Len(fb) - 1) THEN FramePanicked
    ELSE NewFrame("DISC", h, <<>>, 0, 0, FALSE, TRUE)

\* The control byte of a frame at Go index i.
ControlByte(fb, i) == GoSlice(fb, i, i + 1)

FrameFieldsWith(kind, fb, h) ==
    IF h = FieldError THEN FieldError
    ELSE IF kind = "UA" THEN UaFields(fb, h)
    ELSE IF kind = "RR"
      THEN RrFields(fb, h, ReceiveReadyControlFromBytes(ControlByte(fb, h.control)))
    ELSE IF kind = "I"
      THEN IFields(fb, h, InformationControlFromBytes(ControlByte(fb, h.control)))
    ELSE DiscFields(fb, h)

\* The FromBytes of a UA, RR, I or DISC frame up to the frame it builds:
\* an error, a panic, or that frame.
FrameFields(kind, fb) == FrameFieldsWith(kind, fb, FrameHeader(kind, fb))

\* The FromBytes of a frame: the HCS or FCS of the frame it built goes
\* through BaseHdlcFrame.HeaderContent to the base GetControlField and
\* panics (lines 1064, 1165, 1282, 1366; 861-889, 923-925), so no
\* checksum is ever compared.
FrameFromBytes(kind, fb) ==
    IF FrameFields(kind, fb).kind \in {"error", "panic"} THEN FrameFields(kind, fb)
    ELSE FramePanicked

\* BaseHdlcFrame.ToBytes (lines 913-920), promoted to every frame type:
\* FrameContent and FCS reach HeaderContent, which calls the base
\* GetControlField (lines 881-889, 923-925) and panics.
FrameToBytes(f) == FramePanicked

====
