---------------------------- MODULE HdlcAddress ----------------------------
(***************************************************************************)
(* HdlcAddress of src/meterlibs/protocol/dlms/hdlc/fields.go: ToBytes of   *)
(* an address (lines 355-406) and the parse of the two addresses of a      *)
(* frame (FindAddressInFrameBytes, lines 481-604, used by                   *)
(* DestinationFromBytes and SourceFromBytes, lines 409-440).               *)
(*                                                                         *)
(* A frame from the client to a meter is built the way the frames of       *)
(* part_001 build it: the opening flag and two format bytes, the server   *)
(* address as destination, the client address as source, the control     *)
(* byte.  The parse must give back both addresses.                         *)
(***************************************************************************)
EXTENDS Integers, Sequences, Bitwise, FiniteSetsExt

CONSTANTS Values          \* logical and physical address values to try

ASSUME Values \subseteq 0..127    \* validateHdlcAddress (lines 606-611)

VARIABLES server, client

Nil == -1                 \* PhysicalAddress == nil

\* splitAddress (lines 393-406): <<higher, lower>>.
SplitAddress(address) ==
    IF address > 127
      THEN <<shiftR(address & 16256, 6), ((address & 127) * 2) % 256>>
      ELSE <<0, (address * 2) % 256>>

\* ToBytes (lines 355-390): a client address is one byte; a server address
\* is its logical and, if present, physical halves, with the end bit set
\* on the last byte.  Zero bytes are left out unless ExtendedAddressing.
ToBytes(a) ==
    LET out ==
          IF a.type = "client" THEN <<((a.logical * 2) % 256) | 1>>
          ELSE LET l == SplitAddress(a.logical) IN
               IF a.physical # Nil
                 THEN LET p == SplitAddress(a.physical)
                      IN  <<l[1], l[2], p[1], p[2] | 1>>
                 ELSE <<l[1], l[2] | 1>>
    IN  SelectSeq(out, LAMBDA b : b # 0 \/ a.extended)

\* parseTwoByteAddress (lines 597-604).
ParseTwoByteAddress(upper, lower) == lower \div 2 + (upper \div 2) * 128

\* The scan of FindAddressInFrameBytes for the end of an address that
\* starts at Go index start: the first of the candidate end bytes for
\* lengths 1, 2 and 4 that lies in the frame and has its low bit set.
AddressLength(frame, start) ==
    LET cand == <<<<start, 1>>, <<start + 1, 2>>, <<start + 3, 4>>>>
        hits == {k \in 1..3 : /\ cand[k][1] < Len(frame)
                              /\ frame[cand[k][1] + 1] % 2 = 1}
    IN  IF hits = {} THEN 1 ELSE cand[Min(hits)][2]

\* The "frame too short" errors of FindAddressInFrameBytes.
TooShort == [logical |-> Nil, physical |-> Nil, length |-> 0]

\* The decoding switch of FindAddressInFrameBytes for an address of the
\* given length at Go index start; TooShort where the frame is too short.
DecodeAddress(frame, start, length) ==
    LET b(i) == frame[start + i]      \* the i-th byte of the address
    IN  IF Len(frame) < start + length THEN TooShort
        ELSE CASE length = 1 -> [logical |-> b(1) \div 2, physical |-> Nil,
                                 length |-> 1]
               [] length = 2 -> [logical |-> b(1) \div 2,
                                 physical |-> b(2) \div 2, length |-> 2]
               [] length = 4 -> [logical |-> ParseTwoByteAddress(b(1), b(2)),
                                 physical |-> ParseTwoByteAddress(b(3), b(4)),
                                 length |-> 4]

\* FindAddressInFrameBytes (lines 481-594): <<destination, source>>.
FindAddressInFrameBytes(frame) ==
    LET dLen == AddressLength(frame, 3)
        sLen == AddressLength(frame, 3 + dLen)
    IN  <<DecodeAddress(frame, 3, dLen), DecodeAddress(frame, 3 + dLen, sLen)>>

\* A SNRM frame (control 0x93) from client to server, up to the control byte.
FrameHead(dest, src) == <<126, 160, 7>> \o ToBytes(dest) \o ToBytes(src) \o <<147>>

Addresses(type) ==
    [type : {type}, logical : Values, physical : Values \cup {Nil},
     extended : BOOLEAN]

ClientAddresses ==
    {a \in Addresses("client") : a.physical = Nil}

\* Any pair of addresses NewHdlcAddress accepts (lines 325-345).
Init == server \in Addresses("server") /\ client \in ClientAddresses

Next == UNCHANGED <<server, client>>

Spec == Init /\ [][Next]_<<server, client>>

\* The addresses a frame is built with are the addresses parsed from it:
\* logical and physical address of the destination (the meter) and of
\* the source (the client).
AddressRoundTrip ==
    LET parsed == FindAddressInFrameBytes(FrameHead(server, client))
    IN  /\ parsed[1] # TooShort /\ parsed[2] # TooShort
        /\ parsed[1].logical = server.logical
        /\ parsed[1].physical = server.physical
        /\ parsed[2].logical = client.logical

=============================================================================
