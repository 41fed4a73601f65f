----------------------------- MODULE AcseCodec -----------------------------
(***************************************************************************)
(* The BER-framed association APDUs and the xDLMS initiate APDUs they      *)
(* carry:                                                                  *)
(*   BER Encode/Decode (src/meterlibs/protocol/dlms/encoding/crc.go,       *)
(*     second file);                                                       *)
(*   AppContextName, MechanismName, AuthenticationValue and               *)
(*     AuthFunctionalUnit (protocol/acse/base.go);                         *)
(*   Asn1Integer, ResultSourceDiagnostics and the AARE (src/unnamed/       *)
(*     part_003);                                                          *)
(*   RLRQ (acse/rlrq.go), RLRE and AARQ (acse/rlre.go), UserInformation    *)
(*     (acse/user_information.go);                                         *)
(*   Conformance, InitiateRequest and InitiateResponse (protocol/xdlms).   *)
(*                                                                         *)
(* An APDU object is a record with one field per Go field and a kind.  A  *)
(* nil byte slice and an empty one are both <<>>; a nil pointer to an     *)
(* enumeration is NoValue.  A Conformance is the set of the names of its  *)
(* flags that are set.  ToBytes returns the bytes, or Panicked when the Go *)
(* code panics; FromBytes returns the object, DecodeFailed on an error and *)
(* DecodePanicked when the Go code panics.                                 *)
(***************************************************************************)
EXTENDS Integers, Sequences, TLC

LOCAL INSTANCE FiniteSetsExt

NoValue == -1                       \* a nil *enum or *int

Panicked == <<-1>>                  \* ToBytes did not return: a Go panic

DecodeFailed == [kind |-> "error"]

DecodePanicked == [kind |-> "panic"]

After(d, k) == SubSeq(d, k + 1, Len(d))     \* data[k:]

\* The last element of a non-empty slice, and the slice without it.
Last(d) == d[Len(d)]
Front(d) == SubSeq(d, 1, Len(d) - 1)

----------------------------------------------------------------------------
(* BER (encoding/crc.go lines 116-183).                                    *)

\* BER.Encode (lines 123-152): empty data gives no bytes at all, and the
\* length is byte(len(data)).
BerEncode(tag, data) ==
    IF data = <<>> THEN <<>> ELSE tag \o <<Len(data) % 256>> \o data

BerError == [ok |-> FALSE, tag |-> <<>>, length |-> 0, data |-> <<>>]

\* BER.Decode (lines 156-178): the length byte must equal what follows.
BerDecode(d, tagLength) ==
    IF Len(d) < tagLength + 1 \/ Len(d) - tagLength - 1 # d[tagLength + 1]
    THEN BerError
    ELSE [ok |-> TRUE, tag |-> SubSeq(d, 1, tagLength),
          length |-> d[tagLength + 1], data |-> After(d, tagLength + 1)]

----------------------------------------------------------------------------
(* The fields of the association APDUs (acse/base.go, part_003).           *)

\* DLMSObjectIdentifier (base.go lines 23-29): the OID prefix 2.16.756.5.8.
OidPrefix == <<96, 133, 116, 5, 8>>

\* AppContextName.ContextID (base.go lines 51-62).
ContextId(ln, ciphered) ==
    CASE ln /\ ~ciphered -> 1 [] ~ln /\ ~ciphered -> 2
      [] ln /\ ciphered  -> 3 [] OTHER          -> 4

\* AppContextName.ToBytes (lines 103-107): OID tag 6, app-context 1.
AppContextNameToBytes(ln, ciphered) ==
    BerEncode(<<6>>, OidPrefix \o <<1, ContextId(ln, ciphered)>>)

\* AppContextName.FromBytes with getSettingsByContextID (lines 65-118).
AppContextNameFromBytes(d) ==
    LET b == BerDecode(d, 1) IN
    IF ~b.ok \/ b.tag # <<6>> \/ b.data = <<>> \/ Last(b.data) \notin 1..4
       \/ Front(b.data) # OidPrefix \o <<1>>
    THEN [ok |-> FALSE]
    ELSE [ok |-> TRUE, ln |-> Last(b.data) \in {1, 3},
          ciphered |-> Last(b.data) \in {3, 4}]

\* MechanismName.ToBytes and FromBytes (lines 136-156): app-context 2,
\* no OID tag.
MechanismNameToBytes(m) == OidPrefix \o <<2, m>>

MechanismNameFromBytes(d) ==
    IF d = <<>> \/ Front(d) # OidPrefix \o <<2>> THEN [ok |-> FALSE]
    ELSE [ok |-> TRUE, mechanism |-> Last(d)]

\* AuthenticationValue.ToBytes (lines 208-219), always called with "chars".
AuthenticationValueToBytes(password) == BerEncode(<<128>>, password)

\* AuthenticationValue.FromBytes (lines 185-205): 0x80 chars, 0x81 bits.
AuthenticationValueFromBytes(d) ==
    LET b == BerDecode(d, 1) IN
    IF ~b.ok \/ b.tag \notin {<<128>>, <<129>>} THEN [ok |-> FALSE]
    ELSE [ok |-> TRUE, password |-> b.data]

\* AuthFunctionalUnit.ToBytes (lines 243-249); it is only written when
\* authentication is on.
AuthFunctionalUnitToBytes == <<7, 128>>

\* AuthFunctionalUnit.FromBytes (lines 234-240).
AuthFunctionalUnitFromBytes(d) ==
    IF Len(d) # 2 THEN [ok |-> FALSE] ELSE [ok |-> TRUE, auth |-> d[2] # 0]

\* Asn1Integer.ToBytes (part_003 lines 50-57) and FromBytes (lines 24-47).
Asn1IntegerToBytes(v) == BerEncode(<<2>>, <<v>>)

Asn1IntegerFromBytes(d) ==
    LET b == BerDecode(d, 1) IN
    IF ~b.ok \/ b.tag # <<2>> \/ Len(b.data) \notin {1, 2, 4} THEN [ok |-> FALSE]
    ELSE [ok |-> TRUE,
          value |-> LET RECURSIVE BigEndianOf(_)
                        BigEndianOf(s) == IF s = <<>> THEN 0
                                          ELSE BigEndianOf(Front(s)) * 256 + Last(s)
                    IN  BigEndianOf(b.data)]

\* ResultSourceDiagnostics (part_003 lines 60-114): a one-byte value under
\* the primitive tag 0x81 (acse-service-user) or 0x82 (acse-service-provider).
DiagnosticTag == [user |-> 129, provider |-> 130]

ResultSourceDiagnosticsToBytes(rsd) ==
    BerEncode(<<DiagnosticTag[rsd.source]>>, <<rsd.value>>)

ResultSourceDiagnosticsFromBytes(d) ==
    LET b == BerDecode(d, 1)
        src == {s \in DOMAIN DiagnosticTag : Len(d) >= 2 /\ d[1] = DiagnosticTag[s]}
    IN  IF src = {} \/ ~b.ok \/ b.data = <<>> THEN [ok |-> FALSE]
        ELSE [ok |-> TRUE, source |-> CHOOSE s \in src : TRUE, value |-> b.data[1]]

----------------------------------------------------------------------------
(* Conformance and the initiate APDUs (protocol/xdlms).                    *)

\* ConformanceBitPosition (conformance.go lines 32-52).
ConformanceBitPosition ==
    [general_protection |-> 22, general_block_transfer |-> 21,
     delta_value_encoding |-> 17, attribute_0_supported_with_set |-> 15,
     priority_management_supported |-> 14, attribute_0_supported_with_get |-> 13,
     block_transfer_with_get_or_read |-> 12, block_transfer_with_set_or_write |-> 11,
     block_transfer_with_action |-> 10, multiple_references |-> 9,
     data_notification |-> 7, access |-> 6, get |-> 4, set |-> 3,
     selective_access |-> 2, event_notification |-> 1, action |-> 0]

\* A plausible slip in Conformance.FromBytes: the 24 bits read from
\* data[0:3], the unused-bits octet taken for the high byte.
ConformanceFromBytesSkipless(d) ==
    IF Len(d) < 4 THEN [ok |-> FALSE]
    ELSE LET n == d[1] * 65536 + d[2] * 256 + d[3] IN
         [ok |-> TRUE,
          flags |-> {f \in DOMAIN ConformanceBitPosition :
                       (n \div 2^ConformanceBitPosition[f]) % 2 = 1}]

\* Conformance.FromBytes (lines 85-114): the flags whose bit is set in the
\* 24-bit big-endian number data[1:4].
ConformanceFromBytes(d) ==
    IF Len(d) < 4 THEN [ok |-> FALSE]
    ELSE LET n == d[2] * 65536 + d[3] * 256 + d[4] IN
         [ok |-> TRUE,
          flags |-> {f \in DOMAIN ConformanceBitPosition :
                       (n \div 2^ConformanceBitPosition[f]) % 2 = 1}]

\* Conformance.ToBytes (lines 117-179): after OR-ing the bits together it
\* calls binary.BigEndian.PutUint32 on result[1:], a 3-byte slice, which
\* panics on every input.
ConformanceToBytes(flags) == Panicked

\* An optional element of the initiate APDUs: a presence byte 0x01 followed
\* by one value byte, or 0x00, or nothing.  A 0x01 with nothing after it is
\* consumed and leaves the default.  (initiate_request.go lines 86-108,
\* initiate_response.go lines 65-75.)
OptionalByte(r, default) ==
    CASE Len(r) > 1 /\ r[1] = 1       -> [val |-> r[2], rest |-> After(r, 2)]
      [] Len(r) > 0 /\ r[1] \in {0, 1} -> [val |-> default, rest |-> Tail(r)]
      [] OTHER                         -> [val |-> default, rest |-> r]

Int8(b) == IF b >= 128 THEN b - 256 ELSE b

\* InitiateRequest.FromBytes (initiate_request.go lines 53-150).  The
\* conformance slice ends at the byte sum 3+conformanceLength, which wraps
\* at 256 and then panics.
InitiateRequestFromBytes(d) ==
    IF d = <<>> \/ d[1] # 1 THEN DecodeFailed ELSE
    LET r0 == Tail(d)
        hasKey == Len(r0) > 0 /\ r0[1] = 1
        keyOk == ~hasKey \/ (Len(r0) > 1 /\ Len(r0) - 2 >= r0[2])
        key == IF hasKey /\ keyOk THEN SubSeq(r0, 3, 2 + r0[2]) ELSE <<>>
        r1 == CASE hasKey /\ keyOk           -> After(r0, 2 + r0[2])
                [] Len(r0) > 0 /\ r0[1] = 0 -> Tail(r0)
                [] OTHER                    -> r0
        allowed == OptionalByte(r1, 1)
        qos == OptionalByte(allowed.rest, NoValue)
        r2 == qos.rest
        r3 == After(r2, 1)
        cl == r3[3]
        confEnd == (3 + cl) % 256
    IN  CASE ~keyOk \/ r2 = <<>> \/ Len(r3) < 3   -> DecodeFailed
          [] SubSeq(r3, 1, 2) # <<95, 31>>        -> DecodeFailed
          [] Len(r3) < cl + 3                     -> DecodeFailed
          [] confEnd < 3                          -> DecodePanicked
          [] ~ConformanceFromBytes(SubSeq(r3, 4, confEnd)).ok -> DecodeFailed
          [] Len(r3) - confEnd < 2                -> DecodeFailed
          [] OTHER ->
               [kind |-> "InitiateRequest",
                conformance |-> ConformanceFromBytes(SubSeq(r3, 4, confEnd)).flags,
                maxPdu |-> r3[confEnd + 1] * 256 + r3[confEnd + 2],
                version |-> r2[1], responseAllowed |-> allowed.val # 0,
                dedicatedKey |-> key,
                qos |-> IF qos.val = NoValue THEN NoValue ELSE Int8(qos.val)]

\* InitiateRequest.ToBytes (lines 153-184): response-allowed is always
\* written as the default and the quality of service never.
InitiateRequestToBytes(v) ==
    LET conf == ConformanceToBytes(v.conformance) IN
    IF conf = Panicked THEN Panicked
    ELSE <<1>> \o (IF v.dedicatedKey # <<>>
                   THEN <<1, Len(v.dedicatedKey) % 256>> \o v.dedicatedKey
                   ELSE <<0>>)
         \o <<0, v.version, 95, 31, 4>> \o conf
         \o <<v.maxPdu \div 256, v.maxPdu % 256>>

\* InitiateResponse.FromBytes (initiate_response.go lines 46-112): the
\* vaa-name 0x0007 is checked and cut off first; data[3:7] and data[7:]
\* are taken without checking that seven bytes are there.
InitiateResponseFromBytes(d) ==
    IF Len(d) < 2 \/ SubSeq(d, Len(d) - 1, Len(d)) # <<0, 7>> THEN DecodeFailed
    ELSE IF Len(d) = 2 THEN DecodePanicked
    ELSE IF d[1] # 8 THEN DecodeFailed ELSE
    LET qos == OptionalByte(SubSeq(d, 2, Len(d) - 2), 0)
        r == After(qos.rest, 1)
    IN  CASE qos.rest = <<>> \/ Len(r) < 3       -> DecodeFailed
          [] SubSeq(r, 1, 3) # <<95, 31, 4>>     -> DecodeFailed
          [] Len(r) < 7                          -> DecodePanicked
          [] Len(r) < 9                          -> DecodeFailed
          [] OTHER ->
               [kind |-> "InitiateResponse",
                conformance |-> ConformanceFromBytes(SubSeq(r, 4, 7)).flags,
                maxPdu |-> r[8] * 256 + r[9], version |-> qos.rest[1],
                qos |-> qos.val]

\* InitiateResponse.ToBytes (lines 115-138).
InitiateResponseToBytes(v) ==
    LET conf == ConformanceToBytes(v.conformance) IN
    IF conf = Panicked THEN Panicked
    ELSE <<8, 0, v.version, 95, 31, 4>> \o conf
         \o <<v.maxPdu \div 256, v.maxPdu % 256, 0, 7>>

\* UserInformation.FromBytes (acse/user_information.go lines 25-70): an
\* octet string (tag 0x04) holding an InitiateRequest or InitiateResponse.
UserInformationFromBytes(d) ==
    LET b == BerDecode(d, 1)
        content == CASE b.data[1] = 1 -> InitiateRequestFromBytes(b.data)
                     [] b.data[1] = 8 -> InitiateResponseFromBytes(b.data)
                     [] OTHER         -> DecodeFailed
    IN  CASE ~b.ok \/ b.tag # <<4>> \/ b.data = <<>> -> DecodeFailed
          [] content.kind \in {"error", "panic"}      -> content
          [] OTHER -> [kind |-> "UserInformation", content |-> content]

\* UserInformation.ToBytes (lines 73-94).
UserInformationToBytes(u) ==
    LET c == IF u.content.kind = "InitiateRequest"
             THEN InitiateRequestToBytes(u.content)
             ELSE InitiateResponseToBytes(u.content)
    IN  IF c = Panicked THEN Panicked ELSE BerEncode(<<4>>, c)

----------------------------------------------------------------------------
(* The association and release APDUs.                                      *)

NoUserInformation == [kind |-> "none"]

\* The outcome of parsing one tag-length-value object of an APDU.
Parsed(name, value) == [status |-> "ok", name |-> name, value |-> value]
ObjectError == [status |-> "error"]
FieldObject(name, r) == IF r.ok THEN Parsed(name, r) ELSE ObjectError
UserInformationObject(d) ==
    LET u == UserInformationFromBytes(d) IN
    IF u.kind \in {"error", "panic"} THEN [status |-> u.kind]
    ELSE Parsed("user_information", u)

\* objectDict[name] with its type assertion: the default when it is absent.
Lookup(dict, name, default) == IF name \in DOMAIN dict THEN dict[name] ELSE default

\* The switch of ReleaseRequest.FromBytes (rlrq.go lines 79-108), the same
\* in ReleaseResponse.FromBytes: the reason is a BER integer inside 0x80.
ReleaseObject(tag, d) ==
    LET b == BerDecode(d, 1) IN
    CASE tag = 128 /\ d = <<>> -> Parsed("reason", NoValue)
      [] tag = 128 -> IF ~b.ok \/ b.tag # <<2>> \/ b.data = <<>> THEN ObjectError
                      ELSE Parsed("reason", b.data[1])
      [] tag = 190 -> UserInformationObject(d)
      [] OTHER     -> ObjectError

ReleaseFromDict(dict, kind) ==
    [kind |-> kind, reason |-> Lookup(dict, "reason", NoValue),
     ui |-> Lookup(dict, "user_information", NoUserInformation)]

\* The user-information element of every ACSE ToBytes: nothing when nil.
UserInformationElement(ui) ==
    IF ui = NoUserInformation THEN <<>>
    ELSE LET u == UserInformationToBytes(ui) IN
         IF u = Panicked THEN Panicked ELSE BerEncode(<<190>>, u)

\* ReleaseRequest.ToBytes (rlrq.go lines 120-145): the reason is written
\* as a bare byte under 0x80.
ReleaseRequestToBytes(v) ==
    LET ui == UserInformationElement(v.ui) IN
    IF ui = Panicked THEN Panicked
    ELSE BerEncode(<<98>>, (IF v.reason = NoValue THEN <<>>
                            ELSE BerEncode(<<128>>, <<v.reason>>)) \o ui)

\* ReleaseResponse.ToBytes (rlre.go lines 120-151): the reason is a BER
\* integer wrapped in 0x80.
ReleaseResponseToBytes(v) ==
    LET ui == UserInformationElement(v.ui) IN
    IF ui = Panicked THEN Panicked
    ELSE BerEncode(<<99>>, (IF v.reason = NoValue THEN <<>>
                            ELSE BerEncode(<<128>>, BerEncode(<<2>>, <<v.reason>>)))
                           \o ui)

\* aarqShouldSetAuthenticated (rlre.go lines 163-172).
ShouldSetAuthenticated(mechanism) == mechanism \notin {NoValue, 0}

\* The objectData[2:] of the calling/responding title and qualifier: the
\* octet-string tag and length are skipped, not checked.
SkipTagAndLength(d) == IF Len(d) >= 2 THEN After(d, 2) ELSE d

\* The authentication of a parsed AARQ or AARE (rlre.go lines 391-400): the
\* mechanism, when the requirements are present and set and the mechanism
\* name is present.
ParsedAuthentication(dict, requirements) ==
    IF requirements \in DOMAIN dict /\ "mechanism_name" \in DOMAIN dict
       /\ dict[requirements].auth
    THEN dict["mechanism_name"].mechanism ELSE NoValue

\* The octet-string fields an AARQ reads and writes as they are, by tag
\* (rlre.go lines 303-314, 331-336, 358-360).
AarqOctetFields ==
    [calledAPTitle |-> 162, calledAEQ |-> 163, calledAPInv |-> 164,
     calledAEInv |-> 165, callingAPInv |-> 168, callingAEInv |-> 169,
     impl |-> 189]

\* The switch of ApplicationAssociationRequest.FromBytes (lines 292-370).
AarqObject(tag, d) ==
    CASE tag = 128 -> Parsed("protocol_version", NoValue)
      [] tag = 161 -> FieldObject("application_context_name", AppContextNameFromBytes(d))
      [] tag = 166 -> Parsed("calling_ap_title", SkipTagAndLength(d))
      [] tag = 167 -> Parsed("calling_ae_qualifier", SkipTagAndLength(d))
      [] tag = 138 -> FieldObject("sender_acse_requirements", AuthFunctionalUnitFromBytes(d))
      [] tag = 139 -> FieldObject("mechanism_name", MechanismNameFromBytes(d))
      [] tag = 172 -> FieldObject("calling_authentication_value", AuthenticationValueFromBytes(d))
      [] tag = 190 -> UserInformationObject(d)
      [] \E f \in DOMAIN AarqOctetFields : AarqOctetFields[f] = tag ->
            Parsed(CHOOSE f \in DOMAIN AarqOctetFields : AarqOctetFields[f] = tag, d)
      [] OTHER -> ObjectError

\* ApplicationAssociationRequest.FromBytes (rlre.go lines 244-439): the
\* application context name (logical names only) and the user information
\* are required.
AarqFromDict(dict) ==
    CASE "application_context_name" \notin DOMAIN dict \/ ~dict["application_context_name"].ln
       \/ "user_information" \notin DOMAIN dict -> DecodeFailed
    [] OTHER ->
         [f \in DOMAIN AarqOctetFields |-> Lookup(dict, f, <<>>)] @@
         [kind |-> "ApplicationAssociationRequest",
          ui |-> dict["user_information"],
          systemTitle |-> Lookup(dict, "calling_ap_title", <<>>),
          publicCert |-> Lookup(dict, "calling_ae_qualifier", <<>>),
          authentication |-> ParsedAuthentication(dict, "sender_acse_requirements"),
          ciphered |-> dict["application_context_name"].ciphered,
          authValue |-> IF "calling_authentication_value" \in DOMAIN dict
                        THEN dict["calling_authentication_value"].password
                        ELSE <<>>]

\* The authentication elements of an AARQ or AARE ToBytes: the functional
\* unit and the mechanism name, only when authentication is set.
AuthenticationElements(reqTag, mechTag, mechanism) ==
    IF ShouldSetAuthenticated(mechanism)
    THEN BerEncode(<<reqTag>>, AuthFunctionalUnitToBytes)
         \o BerEncode(<<mechTag>>, MechanismNameToBytes(mechanism))
    ELSE <<>>

\* ApplicationAssociationRequest.ToBytes (rlre.go lines 442-594).
AarqToBytes(v) ==
    LET ui == UserInformationElement(v.ui)
        raw(f) == BerEncode(<<AarqOctetFields[f]>>, v[f])
    IN  IF ui = Panicked THEN Panicked
        ELSE BerEncode(<<96>>,
               BerEncode(<<161>>, AppContextNameToBytes(TRUE, v.ciphered))
               \o raw("calledAPTitle") \o raw("calledAEQ")
               \o raw("calledAPInv") \o raw("calledAEInv")
               \o BerEncode(<<166>>, BerEncode(<<4>>, v.systemTitle))
               \o BerEncode(<<167>>, BerEncode(<<4>>, v.publicCert))
               \o raw("callingAPInv") \o raw("callingAEInv")
               \o AuthenticationElements(138, 139, v.authentication)
               \o BerEncode(<<172>>, AuthenticationValueToBytes(v.authValue))
               \o raw("impl") \o ui)

\* The octet-string fields an AARE reads and writes as they are, by tag
\* (part_003 lines 275-280, 302-304).
AareOctetFields ==
    [respondingAPInv |-> 166, respondingAEInv |-> 167, impl |-> 189]

\* The switch of ApplicationAssociationResponse.FromBytes (part_003 lines
\* 234-314).
AareObject(tag, d) ==
    CASE tag = 128 -> Parsed("protocol_version", NoValue)
      [] tag = 161 -> FieldObject("application_context_name", AppContextNameFromBytes(d))
      [] tag = 162 -> FieldObject("result", Asn1IntegerFromBytes(d))
      [] tag = 163 -> FieldObject("result_source_diagnostics", ResultSourceDiagnosticsFromBytes(d))
      [] tag = 164 -> Parsed("responding_ap_title", SkipTagAndLength(d))
      [] tag = 165 -> Parsed("responding_ae_qualifier", SkipTagAndLength(d))
      [] tag = 136 -> FieldObject("responder_acse_requirements", AuthFunctionalUnitFromBytes(d))
      [] tag = 137 -> FieldObject("mechanism_name", MechanismNameFromBytes(d))
      [] tag = 170 -> FieldObject("responding_authentication_value", AuthenticationValueFromBytes(d))
      [] tag = 190 -> UserInformationObject(d)
      [] \E f \in DOMAIN AareOctetFields : AareOctetFields[f] = tag ->
            Parsed(CHOOSE f \in DOMAIN AareOctetFields : AareOctetFields[f] = tag, d)
      [] OTHER -> ObjectError

\* ApplicationAssociationResponse.FromBytes (part_003 lines 186-391): the
\* application context name (logical names only), the result and the
\* result-source-diagnostics are required, the user information is not.
AareFromDict(dict) ==
    CASE "application_context_name" \notin DOMAIN dict \/ ~dict["application_context_name"].ln
       \/ "result" \notin DOMAIN dict
       \/ "result_source_diagnostics" \notin DOMAIN dict -> DecodeFailed
    [] OTHER ->
         [f \in DOMAIN AareOctetFields |-> Lookup(dict, f, <<>>)] @@
         [kind |-> "ApplicationAssociationResponse",
          result |-> dict["result"].value,
          diagnostics |-> [source |-> dict["result_source_diagnostics"].source,
                           value |-> dict["result_source_diagnostics"].value],
          ciphered |-> dict["application_context_name"].ciphered,
          authentication |-> ParsedAuthentication(dict, "responder_acse_requirements"),
          systemTitle |-> Lookup(dict, "responding_ap_title", <<>>),
          publicCert |-> Lookup(dict, "responding_ae_qualifier", <<>>),
          authValue |-> IF "responding_authentication_value" \in DOMAIN dict
                        THEN dict["responding_authentication_value"].password
                        ELSE <<>>,
          ui |-> Lookup(dict, "user_information", NoUserInformation)]

\* The object switch of the FromBytes of the APDU with this tag.
ObjectOf(apduTag, tag, d) ==
    CASE apduTag = 96 -> AarqObject(tag, d)
      [] apduTag = 97 -> AareObject(tag, d)
      [] OTHER        -> ReleaseObject(tag, d)

\* The tag-length-value objects the loop of every ACSE FromBytes reads
\* (rlrq.go lines 59-73), in order; a truncated object ends the list with a
\* marker of tag -1.
Malformed == [tag |-> -1, data |-> <<>>]
RECURSIVE Tlvs(_)
Tlvs(d) ==
    IF d = <<>> THEN <<>>
    ELSE IF Len(d) < 2 \/ Len(d) - 2 < d[2] THEN <<Malformed>>
    ELSE <<[tag |-> d[1], data |-> SubSeq(d, 3, 2 + d[2])]>> \o Tlvs(After(d, 2 + d[2]))

\* objectDict[objectName] = parsedData (rlrq.go line 110): of the objects of
\* one name the one read last.
ObjectDict(objs) ==
    [name \in {objs[i].name : i \in DOMAIN objs} |->
        objs[Max({i \in DOMAIN objs : objs[i].name = name})].value]

\* Each object parsed as soon as it is read (rlrq.go lines 75-108).
ParsedObjects(items, apduTag) ==
    [i \in DOMAIN items |->
        IF items[i] = Malformed THEN ObjectError
        ELSE ObjectOf(apduTag, items[i].tag, items[i].data)]

\* The first truncated or failing object ends the loop with its error.
LoopOutcome(objs) ==
    LET failed == {i \in DOMAIN objs : objs[i].status # "ok"} IN
    IF failed # {} THEN objs[Min(failed)]
    ELSE [status |-> "ok", dict |-> ObjectDict(objs)]

\* The outer tag and the length byte that must equal the rest (rlrq.go
\* lines 32-53), then the loop.
ParseObjects(d, apduTag) ==
    IF d = <<>> \/ d[1] # apduTag \/ Len(d) < 2 \/ Len(d) - 2 # d[2]
    THEN ObjectError
    ELSE LoopOutcome(ParsedObjects(Tlvs(After(d, 2)), apduTag))

\* The error or panic a failed loop ends the FromBytes with.
Failure(loop) == IF loop.status = "panic" THEN DecodePanicked ELSE DecodeFailed

\* A FromBytes after its loop: the failure, or the object built from the
\* dictionary of parsed objects.
FromDict(loop, apduTag) ==
    CASE loop.status # "ok" -> Failure(loop)
      [] apduTag = 96       -> AarqFromDict(loop.dict)
      [] apduTag = 97       -> AareFromDict(loop.dict)
      [] apduTag = 98       -> ReleaseFromDict(loop.dict, "ReleaseRequest")
      [] OTHER              -> ReleaseFromDict(loop.dict, "ReleaseResponse")

\* ApplicationAssociationRequest.FromBytes (rlre.go lines 244-439).
AarqFromBytes(d) == FromDict(ParseObjects(d, 96), 96)

\* ApplicationAssociationResponse.FromBytes (part_003 lines 186-391).
AareFromBytes(d) == FromDict(ParseObjects(d, 97), 97)

\* ReleaseRequest.FromBytes (rlrq.go lines 31-117), RLRQ tag 0x62.
ReleaseRequestFromBytes(d) == FromDict(ParseObjects(d, 98), 98)

\* ReleaseResponse.FromBytes (rlre.go lines 31-117), RLRE tag 0x63.
ReleaseResponseFromBytes(d) == FromDict(ParseObjects(d, 99), 99)

\* ApplicationAssociationResponse.ToBytes (part_003 lines 394-546); the
\* result goes through Asn1Integer, which only takes 0..255.
AareToBytes(v) ==
    LET ui == UserInformationElement(v.ui)
        raw(f) == BerEncode(<<AareOctetFields[f]>>, v[f])
    IN  IF ui = Panicked THEN Panicked
        ELSE BerEncode(<<97>>,
               BerEncode(<<161>>, AppContextNameToBytes(TRUE, v.ciphered))
               \o BerEncode(<<162>>, Asn1IntegerToBytes(v.result))
               \o BerEncode(<<163>>, ResultSourceDiagnosticsToBytes(v.diagnostics))
               \o BerEncode(<<164>>, BerEncode(<<4>>, v.systemTitle))
               \o BerEncode(<<165>>, BerEncode(<<4>>, v.publicCert))
               \o raw("respondingAPInv") \o raw("respondingAEInv")
               \o AuthenticationElements(136, 137, v.authentication)
               \o BerEncode(<<170>>, AuthenticationValueToBytes(v.authValue))
               \o raw("impl") \o ui)

----------------------------------------------------------------------------
(* Reference encodings the decoders are checked against: what a meter     *)
(* sends, written from the spec and ISO/IEC 8650-1, not from the code.     *)

\* The conformance bit positions listed in the spec (section 4.1).
SpecConformanceBit ==
    [action |-> 0, event_notification |-> 1, selective_access |-> 2, set |-> 3,
     get |-> 4, access |-> 6, data_notification |-> 7, multiple_references |-> 9,
     block_transfer_with_action |-> 10, block_transfer_with_set_or_write |-> 11,
     block_transfer_with_get_or_read |-> 12, attribute_0_supported_with_get |-> 13,
     priority_management_supported |-> 14, attribute_0_supported_with_set |-> 15,
     delta_value_encoding |-> 17, general_block_transfer |-> 21,
     general_protection |-> 22]

\* The conformance block: the unused-bits octet 0 and 24 bits, big-endian.
SpecConformanceBytes(flags) ==
    LET n == MapThenSumSet(LAMBDA f : 2^SpecConformanceBit[f], flags) IN
    <<0, n \div 65536, (n \div 256) % 256, n % 256>>

\* An InitiateResponse as a meter sends it (spec section 4.7): the quality
\* of service only when it is not 0, then version, 5F 1F 04 conformance,
\* the PDU size and the vaa-name 0x0007.
SpecInitiateResponse(v) ==
    <<8>> \o (IF v.qos = 0 THEN <<0>> ELSE <<1, v.qos>>)
    \o <<v.version, 95, 31, 4>> \o SpecConformanceBytes(v.conformance)
    \o <<v.maxPdu \div 256, v.maxPdu % 256, 0, 7>>

\* An AARE in the layout of ISO/IEC 8650-1 and spec scenario S5: the
\* result-source-diagnostic is an explicitly tagged CHOICE, A1 (user) or
\* A2 (provider), around an INTEGER; the length byte counts the content.
StandardAare(v) ==
    LET body == <<161, 9, 6, 7, 96, 133, 116, 5, 8, 1, 1>>
                \o <<162, 3, 2, 1, v.result>>
                \o <<163, 5, IF v.diagnostics.source = "user" THEN 161 ELSE 162,
                     3, 2, 1, v.diagnostics.value>>
    IN  <<97, Len(body)>> \o body

----------------------------------------------------------------------------
(* The objects the checks start from.                                      *)

\* The conformance of a typical meter (00 00 50 1F), none, and every flag
\* on its own.
CheckedConformances ==
    {{}, {"priority_management_supported", "block_transfer_with_get_or_read",
          "get", "set", "selective_access", "event_notification", "action"}}
    \cup {{f} : f \in DOMAIN ConformanceBitPosition}

\* InitiateResponses a meter can send: quality of service absent or 5,
\* PDU sizes 500 and 65535.
CheckedInitiateResponses ==
    [kind : {"InitiateResponse"}, conformance : CheckedConformances,
     maxPdu : {500, 65535}, version : {6}, qos : {0, 5}]

\* The InitiateRequest the client proposes (NewInitiateRequest).
CheckedInitiateRequests ==
    [kind : {"InitiateRequest"}, conformance : CheckedConformances,
     maxPdu : {65535}, version : {6}, responseAllowed : {TRUE},
     dedicatedKey : {<<>>}, qos : {NoValue}]

\* Diagnostics: null and authentication-failed (13) of the service user,
\* no-common-acse-version (2) of the service provider.
CheckedDiagnostics ==
    {[source |-> "user", value |-> 0], [source |-> "user", value |-> 13],
     [source |-> "provider", value |-> 2]}

\* Association responses without authentication, as S5 describes them.
StandardAares ==
    [kind : {"ApplicationAssociationResponse"}, result : {0, 1, 2},
     diagnostics : CheckedDiagnostics, ciphered : {FALSE},
     authentication : {NoValue}, systemTitle : {<<>>}, publicCert : {<<>>},
     authValue : {<<>>}, ui : {NoUserInformation}, respondingAPInv : {<<>>},
     respondingAEInv : {<<>>}, impl : {<<>>}]

\* The objects of each ACSE kind: AAREs with or without LLS/HLS and a
\* system title; AARQs carrying an InitiateRequest, as the client sends
\* them; releases with a reason (normal, not-finished, user-defined).
AssociationObjects(k) ==
    CASE k = "ApplicationAssociationResponse" ->
           [kind : {k}, result : {0, 1, 2}, diagnostics : CheckedDiagnostics,
            ciphered : BOOLEAN, authentication : {NoValue, 1, 2},
            systemTitle : {<<>>, <<77, 1>>}, publicCert : {<<>>},
            authValue : {<<>>, <<49, 50>>}, ui : {NoUserInformation},
            respondingAPInv : {<<>>}, respondingAEInv : {<<>>, <<7>>},
            impl : {<<>>}]
      [] k = "ApplicationAssociationRequest" ->
           [kind : {k}, ciphered : BOOLEAN, authentication : {NoValue, 1},
            ui : {[kind |-> "UserInformation", content |-> r] :
                    r \in CheckedInitiateRequests},
            systemTitle : {<<>>, <<77, 1>>}, publicCert : {<<>>},
            authValue : {<<>>, <<49, 50>>}, calledAPTitle : {<<>>},
            calledAEQ : {<<>>}, calledAPInv : {<<>>}, calledAEInv : {<<>>},
            callingAPInv : {<<>>}, callingAEInv : {<<>>}, impl : {<<>>}]
      [] k \in {"ReleaseRequest", "ReleaseResponse"} ->
           [kind : {k}, reason : {0, 1, 30}, ui : {NoUserInformation}]
      [] k = "InitiateRequest"  -> CheckedInitiateRequests
      [] k = "InitiateResponse" -> CheckedInitiateResponses

=============================================================================
