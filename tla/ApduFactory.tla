---------------------------- MODULE ApduFactory ----------------------------
(***************************************************************************)
(* XDlmsApduFactory.APDUFromBytes and the per-service factories of         *)
(* src/unnamed/part_005 (lines 13-257): from the first bytes of an APDU to *)
(* the Go type of the object returned, or a parse error.                   *)
(*                                                                         *)
(* An APDU is abstracted to the bytes the dispatch reads:                  *)
(*   tag    byte 0;                                                        *)
(*   type   byte 1 (the request or response choice);                       *)
(*   sel    for GET type 1 the result choice byte 3 (1 = error);           *)
(*          for GET type 2 the last-block byte of GetResponseWithDataBlock;*)
(*          for ACTION responses 0 = has_data 0, 1 = has_data with choice  *)
(*          0 (data), 2 = has_data with choice 1 (error);                  *)
(*          for an AARE its association result (0 = accepted);            *)
(*   block  the block number of a block request or response.               *)
(* The body that follows is not modelled: FromBytes of a well-formed APDU  *)
(* succeeds, except where the code returns "not yet implemented".          *)
(***************************************************************************)
EXTENDS Naturals, Sequences

Apdu(tag, type, sel, block) ==
    [tag |-> tag, type |-> type, sel |-> sel, block |-> block]

\* The frames that carry no APDU (SNRM, UA, DISC, RR) use this one.
NoApdu == Apdu(0, 0, 0, 0)

ParseError == "ParseError"

\* GetRequestFromBytes (part_005 lines 80-104).
GetRequestType(a) ==
    CASE a.type = 1 -> "GetRequestNormal"
      [] a.type = 2 -> "GetRequestNext"
      [] a.type = 3 -> "GetRequestWithList"
      [] OTHER      -> ParseError

\* GetResponseFromBytes (part_005 lines 107-148): type 1 peeks at the
\* result choice; type 3 dispatches to GetResponseWithList, whose FromBytes
\* is not implemented (get.go lines 619-622).  The last-block byte of a
\* type 2 response plays no part in the dispatch.
GetResponseType(a) ==
    CASE a.type = 1 /\ a.sel = 1 -> "GetResponseNormalWithError"
      [] a.type = 1              -> "GetResponseNormal"
      [] a.type = 2              -> "GetResponseWithDataBlock"
      [] a.type = 4              -> "GetResponseLastBlock"
      [] a.type = 5              -> "GetResponseLastBlockWithError"
      [] OTHER                   -> ParseError

\* ActionResponseFromBytes (part_005 lines 214-257): only type 1; has_data
\* with choice 0 or 1 selects the data or error variant, anything else
\* falls back to ActionResponseNormal.
ActionResponseType(a) ==
    CASE a.type # 1 -> ParseError
      [] a.sel = 1  -> "ActionResponseNormalWithData"
      [] a.sel = 2  -> "ActionResponseNormalWithError"
      [] OTHER      -> "ActionResponseNormal"

\* SetRequestFromBytes, SetResponseFromBytes and ActionRequestFromBytes
\* (part_005 lines 151-211) accept type 1 only.
SetRequestType(a)    == IF a.type = 1 THEN "SetRequestNormal" ELSE ParseError
SetResponseType(a)   == IF a.type = 1 THEN "SetResponseNormal" ELSE ParseError
ActionRequestType(a) == IF a.type = 1 THEN "ActionRequestNormal" ELSE ParseError

\* APDUFromBytes (part_005 lines 13-77).  The Go type of the value is
\* returned; the factory itself hands out a pointer to it.
ApduType(a) ==
    CASE a.tag = 1   -> "InitiateRequest"
      [] a.tag = 8   -> "InitiateResponse"
      [] a.tag = 15  -> "DataNotification"
      [] a.tag = 216 -> "ExceptionResponse"
      [] a.tag = 96  -> "ApplicationAssociationRequest"
      [] a.tag = 97  -> "ApplicationAssociationResponse"
      [] a.tag = 98  -> "ReleaseRequest"
      [] a.tag = 99  -> "ReleaseResponse"
      [] a.tag = 192 -> GetRequestType(a)
      [] a.tag = 196 -> GetResponseType(a)
      [] a.tag = 193 -> SetRequestType(a)
      [] a.tag = 197 -> SetResponseType(a)
      [] a.tag = 195 -> ActionRequestType(a)
      [] a.tag = 199 -> ActionResponseType(a)
      [] OTHER       -> ParseError

\* reflect.TypeOf of the *T the factory returns.
PointerType(t) == "*" \o t

=============================================================================
