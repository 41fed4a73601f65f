-------------------------------- MODULE Crc --------------------------------
(***************************************************************************)
(* CRCCCITT of src/meterlibs/protocol/dlms/encoding/crc.go, the HCS and   *)
(* FCS of every HDLC frame (hdlc/fields.go lines 289-292).                 *)
(*                                                                         *)
(* The code computes an MSB-first CRC (polynomial 0x1021, start 0xFFFF)    *)
(* over bit-reversed bytes from a 256-entry table, then bit-reverses and   *)
(* complements each byte of the result.  It is checked against the        *)
(* HDLC frame check sequence of ISO/IEC 13239 computed bit by bit the      *)
(* other way round: LSB first with the reflected polynomial 0x8408, start *)
(* 0xFFFF, final complement, low byte first on the line.                   *)
(*                                                                         *)
(* The state is a message that grows one byte at a time, so that every    *)
(* message over Bytes up to MaxLen bytes is reached and checked.           *)
(***************************************************************************)
EXTENDS Naturals, Sequences, Bitwise, SequencesExt

CONSTANTS Bytes, MaxLen

ASSUME Bytes \subseteq 0..255 /\ MaxLen \in Nat

VARIABLE msg

U16 == 65536

AllBytes == 0..255

\* NewCRCCCITT (crc.go lines 18-26).
StartingValue == 65535      \* 0xFFFF
CrcCCITTConstant == 4129    \* 0x1021

\* The inner loop of initCRCTable (crc.go lines 38-45), j steps to go;
\* crc and cVal are uint16, so every left shift wraps.
RECURSIVE TableLoop(_, _, _)
TableLoop(crc, cVal, j) ==
    IF j = 0 THEN crc
    ELSE TableLoop(IF ((crc ^^ cVal) & 32768) # 0
                     THEN ((crc * 2) % U16) ^^ CrcCCITTConstant
                     ELSE (crc * 2) % U16,
                   (cVal * 2) % U16, j - 1)

\* initCRCTable (crc.go lines 29-50).
CrcTable == [i \in 0..255 |-> TableLoop(0, (i * 256) % U16, 8)]

\* One iteration of the loop of calculate (crc.go lines 79-83).
CalculateStep(crcValue, char) ==
    LET tmp == (shiftR(crcValue, 8) & 255) ^^ char
        crcShifted == ((crcValue * 256) % U16) & 65280
    IN  crcShifted ^^ CrcTable[tmp]

\* The loop of calculate (crc.go lines 79-83) over the bytes still to go.
\* The first test on crcValue never holds: it makes TLC compute the value
\* at each step instead of deferring a chain of steps as deep as the data.
RECURSIVE CalculateLoop(_, _)
CalculateLoop(crcValue, data) ==
    IF crcValue < 0 \/ data = <<>> THEN crcValue
    ELSE CalculateLoop(CalculateStep(crcValue, Head(data)), Tail(data))

\* calculate (crc.go lines 76-86).
Calculate(inputData) == CalculateLoop(StartingValue, inputData)

\* reverseByte (crc.go lines 89-99): bit i of the input becomes bit 7-i.
RECURSIVE ReverseBits(_, _)
ReverseBits(b, i) ==
    IF i = 8 THEN 0
    ELSE shiftR(b & (2 ^ i), i) * 2 ^ (7 - i) + ReverseBits(b, i + 1)

ReverseByte(b) == ReverseBits(b, 0)

\* reverseByteMessage (crc.go lines 102-108).
ReverseByteMessage(m) == [i \in DOMAIN m |-> ReverseByte(m[i])]

\* A plausible slip in CalculateFor: the two bytes returned the other way
\* round for lsbFirst.
CalculateForSwapped(inputData, lsbFirst) ==
    LET reversedCRC == Calculate(ReverseByteMessage(inputData))
        lsbByte == ReverseByte(reversedCRC & 255) ^^ 255
        msbByte == ReverseByte(shiftR(reversedCRC & 65280, 8)) ^^ 255
    IN  IF lsbFirst THEN <<msbByte, lsbByte>> ELSE <<lsbByte, msbByte>>

\* CalculateFor (crc.go lines 54-73).
CalculateFor(inputData, lsbFirst) ==
    LET reversedCRC == Calculate(ReverseByteMessage(inputData))
        lsbByte == ReverseByte(reversedCRC & 255) ^^ 255
        msbByte == ReverseByte(shiftR(reversedCRC & 65280, 8)) ^^ 255
    IN  IF lsbFirst THEN <<lsbByte, msbByte>> ELSE <<msbByte, lsbByte>>

----------------------------------------------------------------------------
(* The reference: the frame check sequence computed bit by bit.            *)

RECURSIVE FcsBits(_, _)
FcsBits(fcs, k) ==
    IF k = 0 THEN fcs
    ELSE FcsBits(IF fcs % 2 = 1 THEN shiftR(fcs, 1) ^^ 33800  \* 0x8408
                                ELSE shiftR(fcs, 1), k - 1)

FcsStep(fcs, byte) == FcsBits(fcs ^^ byte, 8)

Fcs(m) == FoldLeft(FcsStep, 65535, m) ^^ 65535

\* The two octets in the order they are transmitted: low octet first.
FcsOctets(m) == <<Fcs(m) % 256, Fcs(m) \div 256>>

----------------------------------------------------------------------------

\* The ASCII string "123456789" of the published check value.
CheckInput == <<49, 50, 51, 52, 53, 54, 55, 56, 57>>

\* The reference gives the published check value 0x906E.
ASSUME Fcs(CheckInput) = 36974

Init == msg = <<>>

\* The next byte of a frame.
AppendByte == \E b \in Bytes : Len(msg) < MaxLen /\ msg' = Append(msg, b)

Next == AppendByte

Spec == Init /\ [][Next]_msg

\* The HCS and FCS the frames compute (CalculateFor with lsbFirst FALSE,
\* part_001 lines 861-872) are the frame check sequence of HDLC for every
\* message, in transmission order.
CrcIsHdlcFcs == CalculateFor(msg, FALSE) = FcsOctets(msg)

=============================================================================
