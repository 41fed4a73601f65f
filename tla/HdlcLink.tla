----------------------------- MODULE HdlcLink -----------------------------
(***************************************************************************)
(* The HDLC link state machine, HdlcConnectionState of                    *)
(* src/meterlibs/protocol/dlms/hdlc/state.go.                              *)
(*                                                                         *)
(* ProcessFrame looks the frame's type up in the row of the current state  *)
(* and moves to the state it names.  The same table is used for frames the *)
(* client sends and frames it receives: nothing in the call says which.    *)
(* A frame of a type the row lacks returns LocalProtocolError and leaves   *)
(* the state alone.  A frame is represented by its FrameType.              *)
(***************************************************************************)
EXTENDS TLC

VARIABLE currentState

\* The HdlcState constants (state.go lines 10-22); Closed and NeedData are
\* declared but appear in no row of the table.
HdlcStates ==
    { "NotConnected", "Idle", "AwaitingResponse", "AwaitingConnection",
      "AwaitingDisconnect", "Closed", "NeedData" }

\* The FrameType constants (state.go lines 75-83).
FrameTypes == {"SNRM", "UA", "I", "RR", "DISC"}

\* The rows of hdlcStateTransitions (state.go lines 104-123).
NotConnectedRow == "SNRM" :> "AwaitingConnection"

AwaitingConnectionRow == "UA" :> "Idle"

\* A plausible slip in this row: an outgoing RR leaves the link Idle.
IdleRowRrStaysIdle ==
    "I" :> "AwaitingResponse" @@ "DISC" :> "AwaitingDisconnect" @@ "RR" :> "Idle"

IdleRow ==
       "I"    :> "AwaitingResponse"
    @@ "DISC" :> "AwaitingDisconnect"
    @@ "RR"   :> "AwaitingResponse"

AwaitingResponseRow == "I" :> "Idle" @@ "RR" :> "Idle"

\* Plausible slips in this row: the UA that confirms a DISC leads to the
\* declared but unused Closed state, or back to Idle.
AwaitingDisconnectRowClosed == "UA" :> "Closed"

AwaitingDisconnectRow == "UA" :> "NotConnected"

\* hdlcStateTransitions (state.go lines 104-123): state to row.
HdlcTransitions ==
       "NotConnected"       :> NotConnectedRow
    @@ "AwaitingConnection" :> AwaitingConnectionRow
    @@ "Idle"               :> IdleRow
    @@ "AwaitingResponse"   :> AwaitingResponseRow
    @@ "AwaitingDisconnect" :> AwaitingDisconnectRow

\* The lookup of ProcessFrame (state.go lines 62-72): a state without a row
\* yields a nil inner map, so both lookups must succeed.
Accepts(frameType) ==
    /\ currentState \in DOMAIN HdlcTransitions
    /\ frameType \in DOMAIN HdlcTransitions[currentState]

\* ProcessFrame (state.go lines 62-72), enabled only when it succeeds.
ProcessFrame(frameType) ==
    /\ Accepts(frameType)
    /\ currentState' = HdlcTransitions[currentState][frameType]

\* IsSendState and IsReceiveState (state.go lines 126-135).
IsSendState == currentState \in {"NotConnected", "Idle"}

IsReceiveState ==
    currentState \in {"AwaitingConnection", "AwaitingResponse",
                      "AwaitingDisconnect"}

\* NewHdlcConnectionState (state.go lines 55-59).
InitialState == "NotConnected"

=============================================================================
