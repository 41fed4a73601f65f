---------------------------- MODULE DlmsSession ----------------------------
(***************************************************************************)
(* The DLMS session state machine, DlmsConnectionState of the dlms package *)
(* (src/unnamed/part_007, lines 1-163).                                    *)
(*                                                                         *)
(* The machine is a table from (state, Go type of the event) to the next   *)
(* state.  ProcessEvent looks the event's reflect.Type up in the row of    *)
(* the current state; a missing entry returns LocalDlmsProtocolError and   *)
(* leaves the state alone.  An event is represented here by the name of    *)
(* its Go type; a pointer type is the name prefixed with "*", which is     *)
(* what reflect.TypeOf returns for the *T values that every constructor    *)
(* and the APDU factory hand out.                                          *)
(*                                                                         *)
(* The module is written over a VARIABLE so that a composing module can    *)
(* INSTANCE it WITH currentState <- its own variable.                      *)
(***************************************************************************)
EXTENDS TLC

VARIABLE currentState

\* The sentinel states of the dlms package (part_007 lines 23-37).
DlmsStates ==
    { "NoAssociation", "AwaitingAssociationResponse", "Ready",
      "AwaitingReleaseResponse", "AwaitingActionResponse",
      "AwaitingGetResponse", "AwaitingGetBlockResponse",
      "ShouldAckLastGetBlock", "AwaitingSetResponse",
      "ShouldSendHlsServerChallengeResult",
      "AwaitingHlsClientChallengeResult", "HlsDone", "NeedData" }

\* The flow-control events of the package (part_007 lines 40-48).
FlowEvents == {"HlsStart", "HlsSuccess", "HlsFailed",
               "RejectAssociation", "EndAssociation"}

\* The rows of dlmsStateTransitions (part_007 lines 101-163).  The keys
\* are value types: the table is built with reflect.TypeOf((*T)(nil)).Elem().
NoAssociationRow ==
    "ApplicationAssociationRequest" :> "AwaitingAssociationResponse"

AwaitingAssociationResponseRow ==
       "ApplicationAssociationResponse" :> "Ready"
    @@ "ExceptionResponse"              :> "NoAssociation"

ReadyRow ==
       "ReleaseRequest"      :> "AwaitingReleaseResponse"
    @@ "GetRequestNormal"    :> "AwaitingGetResponse"
    @@ "SetRequestNormal"    :> "AwaitingSetResponse"
    @@ "HlsStart"            :> "ShouldSendHlsServerChallengeResult"
    @@ "RejectAssociation"   :> "NoAssociation"
    @@ "ActionRequestNormal" :> "AwaitingActionResponse"
    @@ "DataNotification"    :> "Ready"
    @@ "EndAssociation"      :> "NoAssociation"

ShouldSendHlsServerChallengeResultRow ==
    "ActionRequestNormal" :> "AwaitingHlsClientChallengeResult"

AwaitingHlsClientChallengeResultRow ==
       "ActionResponseNormalWithData"  :> "HlsDone"
    @@ "ActionResponseNormal"          :> "NoAssociation"
    @@ "ActionResponseNormalWithError" :> "NoAssociation"

\* A plausible slip in this row: a failed HLS leads to the declared but
\* unused NeedData state.
HlsDoneRowNeedData ==
    "HlsSuccess" :> "Ready" @@ "HlsFailed" :> "NeedData"

HlsDoneRow ==
    "HlsSuccess" :> "Ready" @@ "HlsFailed" :> "NoAssociation"

\* A plausible slip in this row: ExceptionResponse left out, as it is
\* in the row of AwaitingSetResponse.
AwaitingGetResponseRowNoException ==
       "GetResponseNormal"          :> "Ready"
    @@ "GetResponseWithDataBlock"   :> "ShouldAckLastGetBlock"
    @@ "GetResponseNormalWithError" :> "Ready"

AwaitingGetResponseRow ==
       "GetResponseNormal"          :> "Ready"
    @@ "GetResponseWithDataBlock"   :> "ShouldAckLastGetBlock"
    @@ "GetResponseNormalWithError" :> "Ready"
    @@ "ExceptionResponse"          :> "Ready"

AwaitingGetBlockResponseRow ==
       "GetResponseWithDataBlock"   :> "ShouldAckLastGetBlock"
    @@ "GetResponseNormalWithError" :> "Ready"
    @@ "ExceptionResponse"          :> "Ready"

AwaitingSetResponseRow == "SetResponseNormal" :> "Ready"

AwaitingActionResponseRow ==
       "ActionResponseNormal"          :> "Ready"
    @@ "ActionResponseNormalWithData"  :> "Ready"
    @@ "ActionResponseNormalWithError" :> "Ready"

ShouldAckLastGetBlockRow == "GetRequestNext" :> "AwaitingGetBlockResponse"

\* A plausible slip in this row: ExceptionResponse left out.
AwaitingReleaseResponseRowNoException ==
    "ReleaseResponse" :> "NoAssociation"

AwaitingReleaseResponseRow ==
       "ReleaseResponse"   :> "NoAssociation"
    @@ "ExceptionResponse" :> "Ready"

\* dlmsStateTransitions (part_007 lines 101-163): state to row.
DlmsTransitions ==
       "NoAssociation"                      :> NoAssociationRow
    @@ "AwaitingAssociationResponse"        :> AwaitingAssociationResponseRow
    @@ "Ready"                              :> ReadyRow
    @@ "ShouldSendHlsServerChallengeResult" :> ShouldSendHlsServerChallengeResultRow
    @@ "AwaitingHlsClientChallengeResult"   :> AwaitingHlsClientChallengeResultRow
    @@ "HlsDone"                            :> HlsDoneRow
    @@ "AwaitingGetResponse"                :> AwaitingGetResponseRow
    @@ "AwaitingGetBlockResponse"           :> AwaitingGetBlockResponseRow
    @@ "AwaitingSetResponse"                :> AwaitingSetResponseRow
    @@ "AwaitingActionResponse"             :> AwaitingActionResponseRow
    @@ "ShouldAckLastGetBlock"              :> ShouldAckLastGetBlockRow
    @@ "AwaitingReleaseResponse"            :> AwaitingReleaseResponseRow

\* transitionState (part_007 lines 81-99): both lookups must succeed.  A
\* state without a row (NeedData) fails the first lookup, an event type
\* without an entry the second; either way the state is not changed.
Accepts(eventType) ==
    /\ currentState \in DOMAIN DlmsTransitions
    /\ eventType \in DOMAIN DlmsTransitions[currentState]

\* ProcessEvent (part_007 lines 74-99): reflect.TypeOf(event), then the
\* table.  The action is only enabled when the event is accepted; a caller
\* that receives the error has changed nothing.
ProcessEvent(eventType) ==
    /\ Accepts(eventType)
    /\ currentState' = DlmsTransitions[currentState][eventType]

\* NewDlmsConnectionState (part_007 lines 55-60).
InitialState == "NoAssociation"

=============================================================================
