--------------------------- MODULE DlmsConnection ---------------------------
(***************************************************************************)
(* A DLMS client connection: the session state machine (DlmsSession) and  *)
(* the HDLC link state machine (HdlcLink) driven by a caller that follows *)
(* the data flow of the library (spec section 2), talking over a possibly *)
(* lossy half-duplex line to a meter.                                      *)
(*                                                                         *)
(* The caller is single-threaded.  To send an APDU it first passes the    *)
(* request to ProcessEvent of the session, then the I-frame carrying it   *)
(* to ProcessFrame of the link, and writes the frame only if the link     *)
(* accepted it.  On receiving a frame it passes it to ProcessFrame of the *)
(* link and, for an I-frame, parses the APDU with the factory and passes  *)
(* the result to ProcessEvent of the session.  The library has no timer;  *)
(* a caller that sees no answer re-sends its last frame through the link  *)
(* state machine (Retransmit), at most MaxRetries times in all.           *)
(*                                                                         *)
(* The meter answers every frame at once, the way a DLMS server does.     *)
(***************************************************************************)
EXTENDS Naturals, Sequences, ApduFactory

CONSTANTS
    NBlocks,                \* blocks in a long GET answered with blocks
    MaxLoss,                \* frames the line may lose in a behaviour
    MaxRetries,             \* frames the caller may re-send in a behaviour
    CarefulCaller,          \* TRUE: send only when the link is Idle;
                            \* FALSE: when IsSendState holds
    DerefEvents,            \* TRUE: the caller passes the value *apdu to
                            \* ProcessEvent, FALSE: the pointer apdu
    AareResults,            \* association results the meter may give
    FinalBlockTypes,        \* GET response types the meter ends blocks with
    ExceptionServices,      \* requests the meter may refuse with an
                            \* ExceptionResponse
    NoTransferReply         \* answer to GetRequestNext with no transfer

ASSUME
    /\ NBlocks \in Nat \ {0}
    /\ MaxLoss \in Nat /\ MaxRetries \in Nat
    /\ CarefulCaller \in BOOLEAN /\ DerefEvents \in BOOLEAN
    /\ AareResults \subseteq {0, 1} /\ AareResults # {}
    /\ FinalBlockTypes \subseteq {2, 4} /\ FinalBlockTypes # {}
    /\ ExceptionServices \subseteq
         {"ReleaseRequest", "GetRequestNormal", "SetRequestNormal",
          "ActionRequestNormal"}
    /\ NoTransferReply \in {"ExceptionResponse", "LastBlockWithError"}

VARIABLES
    session,    \* DlmsConnectionState.CurrentState
    link,       \* HdlcConnectionState.CurrentState
    toMeter,    \* frames written by the caller, in order
    toClient,   \* frames written by the meter, in order
    meter,      \* [mode: {"NDM", "NRM"}, xfer: BOOLEAN] of the meter
    awaiting,   \* the last frame the caller sent and has no answer to
    rxBlock,    \* block number of the last data block the caller received
    losses,     \* frames lost so far
    retries     \* frames re-sent so far

vars == <<session, link, toMeter, toClient, meter, awaiting, rxBlock,
          losses, retries>>

Session == INSTANCE DlmsSession WITH currentState <- session
Link    == INSTANCE HdlcLink    WITH currentState <- link

Frame(type, apdu) == [type |-> type, apdu |-> apdu]

NoFrame == Frame("none", NoApdu)

\* What the caller hands to ProcessEvent for an APDU object.
EventType(t) == IF DerefEvents THEN t ELSE PointerType(t)

\* The requests a caller builds.  GetRequestNext acknowledges the last
\* block received (spec section 8.10).
AARQ    == Apdu(96, 0, 0, 0)
RLRQ    == Apdu(98, 0, 0, 0)
GetNorm == Apdu(192, 1, 0, 0)
GetNext == Apdu(192, 2, 0, rxBlock)
SetNorm == Apdu(193, 1, 0, 0)
ActNorm == Apdu(195, 1, 0, 0)

Requests == {AARQ, RLRQ, GetNorm, GetNext, SetNorm, ActNorm}

CallerMaySend == IF CarefulCaller THEN link = "Idle" ELSE Link!IsSendState

----------------------------------------------------------------------------
(* The caller.                                                             *)

\* Open the link: SNRM through the link machine, then onto the line.
Connect ==
    /\ Link!ProcessFrame("SNRM")
    /\ toMeter' = Append(toMeter, Frame("SNRM", NoApdu))
    /\ awaiting' = Frame("SNRM", NoApdu)
    /\ UNCHANGED <<session, toClient, meter, rxBlock, losses, retries>>

\* Close the link: DISC through the link machine, then onto the line.
Disconnect ==
    /\ Link!ProcessFrame("DISC")
    /\ toMeter' = Append(toMeter, Frame("DISC", NoApdu))
    /\ awaiting' = Frame("DISC", NoApdu)
    /\ UNCHANGED <<session, toClient, meter, rxBlock, losses, retries>>

\* Send an APDU: the session machine first; if it accepts, the I-frame
\* through the link machine, and the frame is written only if that too
\* succeeds.  A refused I-frame leaves the session where it moved to.
Request(a) ==
    /\ CallerMaySend
    /\ Session!ProcessEvent(EventType(ApduType(a)))
    /\ IF Link!Accepts("I")
         THEN /\ Link!ProcessFrame("I")
              /\ toMeter' = Append(toMeter, Frame("I", a))
              /\ awaiting' = Frame("I", a)
         ELSE UNCHANGED <<link, toMeter, awaiting>>
    /\ rxBlock' = IF a = GetNorm THEN 0 ELSE rxBlock
    /\ UNCHANGED <<toClient, meter, losses, retries>>

\* Poll the meter: a ReceiveReady frame through the link machine.
Poll ==
    /\ CallerMaySend
    /\ Link!ProcessFrame("RR")
    /\ toMeter' = Append(toMeter, Frame("RR", NoApdu))
    /\ awaiting' = Frame("RR", NoApdu)
    /\ UNCHANGED <<session, toClient, meter, rxBlock, losses, retries>>

\* A flow-control event of the session (HLS outcome, end of association).
Signal(e) ==
    /\ Session!ProcessEvent(e)
    /\ UNCHANGED <<link, toMeter, toClient, meter, awaiting, rxBlock,
                   losses, retries>>

\* Take the next frame off the line.  The link machine sees every frame;
\* a refused frame is dropped.  An accepted I-frame is parsed and the
\* parsed APDU handed to the session machine, which may refuse it too.
Receive ==
    /\ toClient # <<>>
    /\ LET f  == Head(toClient)
           ev == ApduType(f.apdu)
       IN  /\ toClient' = Tail(toClient)
           /\ IF Link!Accepts(f.type)
                THEN /\ Link!ProcessFrame(f.type)
                     /\ awaiting' = NoFrame
                     /\ IF f.type = "I" /\ Session!Accepts(EventType(ev))
                          THEN Session!ProcessEvent(EventType(ev))
                          ELSE UNCHANGED session
                     /\ rxBlock' = IF f.type = "I" /\ ev = "GetResponseWithDataBlock"
                                     THEN f.apdu.block ELSE rxBlock
                ELSE UNCHANGED <<link, session, awaiting, rxBlock>>
    /\ UNCHANGED <<toMeter, meter, losses, retries>>

\* No answer came (the frame or its answer was lost): send the last frame
\* again, through the link machine like any frame the caller writes.
Retransmit ==
    /\ awaiting # NoFrame
    /\ retries < MaxRetries
    /\ toMeter = <<>> /\ toClient = <<>>
    /\ Link!ProcessFrame(awaiting.type)
    /\ toMeter' = Append(toMeter, awaiting)
    /\ retries' = retries + 1
    /\ UNCHANGED <<session, toClient, meter, awaiting, rxBlock, losses>>

----------------------------------------------------------------------------
(* The meter and the line (the environment of the library).               *)

ExceptionApdu == Apdu(216, 0, 0, 0)

\* Data block k of a long GET; the last one carries the last-block flag
\* in a type 2 response, or is a type 4 response.
BlockReplies(k) ==
    IF k < NBlocks THEN {Apdu(196, 2, 0, k)}
    ELSE {IF t = 2 THEN Apdu(196, 2, 1, k) ELSE Apdu(196, 4, 0, k)
            : t \in FinalBlockTypes}

NoTransferApdu ==
    IF NoTransferReply = "ExceptionResponse" THEN ExceptionApdu
    ELSE Apdu(196, 5, 0, 0)

Refusals(a) ==
    IF ApduType(a) \in ExceptionServices THEN {ExceptionApdu} ELSE {}

\* The answers of an associated meter in normal response mode to APDU a,
\* each with the meter's next state.
Answers(a) ==
    LET m == meter IN
    CASE a.tag = 96 ->
           {[apdu |-> Apdu(97, 0, r, 0), next |-> m] : r \in AareResults}
      [] a.tag = 98 ->
           {[apdu |-> r, next |-> m] : r \in {Apdu(99, 0, 0, 0)} \cup Refusals(a)}
      [] a = GetNorm ->
           {[apdu |-> r, next |-> [m EXCEPT !.xfer = FALSE]]
              : r \in {Apdu(196, 1, 0, 0), Apdu(196, 1, 1, 0)} \cup Refusals(a)}
           \cup {[apdu |-> r, next |-> [m EXCEPT !.xfer = TRUE]]
                   : r \in BlockReplies(1)}
      [] a.tag = 192 /\ a.type = 2 ->
           IF m.xfer /\ a.block < NBlocks
             THEN {[apdu |-> r, next |-> m] : r \in BlockReplies(a.block + 1)}
             ELSE {[apdu |-> NoTransferApdu, next |-> [m EXCEPT !.xfer = FALSE]]}
      [] a.tag = 193 ->
           {[apdu |-> r, next |-> m] : r \in {Apdu(197, 1, 0, 0)} \cup Refusals(a)}
      [] a.tag = 195 ->
           {[apdu |-> r, next |-> m]
              : r \in {Apdu(199, 1, s, 0) : s \in 0..2} \cup Refusals(a)}

\* The meter takes the next frame off the line and answers it: UA to SNRM
\* and DISC, RR to RR and an I-frame to an I-frame.  In disconnected mode
\* a meter would answer DM to anything but SNRM; no such frame reaches it,
\* since the link machine lets only SNRM out of NotConnected and the
\* meter leaves normal response mode only on a DISC.
MeterReceive ==
    /\ toMeter # <<>>
    /\ LET f == Head(toMeter) IN
       /\ toMeter' = Tail(toMeter)
       /\ \/ /\ f.type = "SNRM"
             /\ meter' = [mode |-> "NRM", xfer |-> FALSE]
             /\ toClient' = Append(toClient, Frame("UA", NoApdu))
          \/ /\ f.type = "DISC" /\ meter.mode = "NRM"
             /\ meter' = [mode |-> "NDM", xfer |-> FALSE]
             /\ toClient' = Append(toClient, Frame("UA", NoApdu))
          \/ /\ f.type = "RR" /\ meter.mode = "NRM"
             /\ toClient' = Append(toClient, Frame("RR", NoApdu))
             /\ UNCHANGED meter
          \/ /\ f.type = "I" /\ meter.mode = "NRM"
             /\ \E r \in Answers(f.apdu) :
                  /\ meter' = r.next
                  /\ toClient' = Append(toClient, Frame("I", r.apdu))
    /\ UNCHANGED <<session, link, awaiting, rxBlock, losses, retries>>

\* The line loses the frame at the head of either direction.
LoseFrame ==
    /\ losses < MaxLoss
    /\ \/ toMeter # <<>> /\ toMeter' = Tail(toMeter) /\ UNCHANGED toClient
       \/ toClient # <<>> /\ toClient' = Tail(toClient) /\ UNCHANGED toMeter
    /\ losses' = losses + 1
    /\ UNCHANGED <<session, link, meter, awaiting, rxBlock, retries>>

----------------------------------------------------------------------------

Init ==
    /\ session = Session!InitialState
    /\ link = Link!InitialState
    /\ toMeter = <<>> /\ toClient = <<>>
    /\ meter = [mode |-> "NDM", xfer |-> FALSE]
    /\ awaiting = NoFrame
    /\ rxBlock = 0
    /\ losses = 0 /\ retries = 0

Next ==
    \/ Connect
    \/ Disconnect
    \/ \E a \in Requests : Request(a)
    \/ Poll
    \/ \E e \in Session!FlowEvents : Signal(e)
    \/ Receive
    \/ Retransmit
    \/ MeterReceive
    \/ LoseFrame

\* The meter answers and the caller reads whatever is on the line: both
\* are blocked on the line and do nothing else while a frame is waiting.
Fairness == WF_vars(MeterReceive) /\ WF_vars(Receive)

Spec == Init /\ [][Next]_vars /\ Fairness

\* A caller that never gives up: it re-sends and disconnects whenever the
\* link machine lets it.
RetryingSpec == Spec /\ SF_vars(Retransmit) /\ SF_vars(Disconnect)

----------------------------------------------------------------------------
(* Properties.                                                             *)

ApduSet == [tag : 0..255, type : 0..5, sel : 0..2, block : 0..NBlocks]

FrameSet == [type : Link!FrameTypes \cup {"none"},
             apdu : ApduSet]

\* Both machines stay in states that have a row in their tables: a state
\* without one (NeedData, Closed) accepts nothing and can never be left.
TypeOK ==
    /\ session \in DOMAIN Session!DlmsTransitions
    /\ link \in DOMAIN Link!HdlcTransitions
    /\ toMeter \in Seq(FrameSet) /\ toClient \in Seq(FrameSet)
    /\ meter \in [mode : {"NDM", "NRM"}, xfer : BOOLEAN]
    /\ awaiting \in FrameSet
    /\ rxBlock \in 0..NBlocks
    /\ losses \in 0..MaxLoss /\ retries \in 0..MaxRetries

\* Session states in which the caller waits for an answer from the meter.
AwaitingStates ==
    { "AwaitingAssociationResponse", "AwaitingReleaseResponse",
      "AwaitingActionResponse", "AwaitingGetResponse",
      "AwaitingGetBlockResponse", "AwaitingSetResponse",
      "AwaitingHlsClientChallengeResult" }

InFlight == toMeter # <<>> \/ toClient # <<>>

\* Whenever the session machine waits for a response, the request it
\* waits on was written and is still unanswered, and its answer can still
\* come: a frame is on the line or the caller may re-send.  Broken if
\* ProcessEvent advances the session for a frame the link never sends, or
\* if the session refuses the answer the meter gives.
SessionWaitsOnlyOnLiveRequest ==
    session \in AwaitingStates =>
        /\ awaiting.type = "I"
        /\ InFlight \/ retries < MaxRetries

\* The link machine is in AwaitingResponse exactly while the caller has an
\* I or RR frame out and its answer has not been read: the one table that
\* serves sent and received frames keeps the two ends in step.
LinkPhaseMatchesExchange ==
    (link = "AwaitingResponse") <=> (awaiting.type \in {"I", "RR"})

RequestEventuallyAnswered ==
    session \in AwaitingStates ~> session \notin AwaitingStates

\* An AARE moves the session to Ready only when the meter accepted the
\* association (spec scenario S5: a rejected AARE must not).
ReadyOnlyAfterAcceptedAare ==
    [][session = "AwaitingAssociationResponse" /\ session' = "Ready"
         => Head(toClient).apdu.sel = 0]_vars

IsLastBlock(a) ==
    a.tag = 196 /\ ((a.type = 2 /\ a.sel = 1) \/ a.type = 4)

\* Reading the last block of a long GET returns the session to Ready
\* (spec scenario S4).
LastBlockReturnsToReady ==
    [][Receive /\ IsLastBlock(Head(toClient).apdu)
         /\ session \in {"AwaitingGetResponse", "AwaitingGetBlockResponse"}
         => session' = "Ready"]_vars

\* In NoAssociation over an open link, the session accepts the AARQ the
\* library builds (the NoAssociation row of the spec's table, section 4.9),
\* whatever value the caller passes for it.
AarqAccepted ==
    session = "NoAssociation" /\ link = "Idle" => ENABLED Request(AARQ)

\* A connection attempt is eventually settled, even when frames are lost,
\* for a caller that re-sends and disconnects when it can (spec section 7:
\* higher layers recover from a lost frame).
ConnectionAttemptResolves ==
    link = "AwaitingConnection" ~> link # "AwaitingConnection"

=============================================================================
