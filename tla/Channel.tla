------------------------------ MODULE Channel ------------------------------
(***************************************************************************)
(* rmqamqp::Channel: the part of an AMQP channel's life that producers     *)
(* (SendChannel) and consumers (ReceiveChannel) share, together with what  *)
(* it stands between: the connection below it and the broker's end of the  *)
(* channel.  All of this code runs on the one event loop thread, so every  *)
(* handler is one atomic step.                                             *)
(*                                                                         *)
(* The operators of this module are conjuncts on the channel variables:    *)
(* the modules that extend it build their actions from them, the way the   *)
(* C++ subclasses complete the virtual functions of Channel.               *)
(***************************************************************************)
EXTENDS Naturals, SequencesExt

CONSTANTS
    Msgs,         \* the messages of the channel, by guid
    NoMsg,        \* what a frame without content carries
    HasTopology,  \* whether the channel's rmqt::Topology declares anything
    MaxFaults     \* bound: how many times the environment misbehaves

ASSUME ChannelAssumption ==
    /\ NoMsg \notin Msgs
    /\ HasTopology \in BOOLEAN
    /\ MaxFaults \in Nat

VARIABLES
    conn,                \* the connection, as a channel can see it
    d_state,             \* Channel::d_state
    permanentlyClosing,  \* Channel::d_permanentlyClosing
    removed,             \* ChannelMap::removeChannel has dropped the channel
    transformer,         \* d_topologyTransformer.first is not null
    retryArmed,          \* the channel's RetryHandler timer is running
    hungArmed,           \* d_hungProgressTimer is running
    writeCbs,            \* completions of writeMessage(_, State) still to run
    toBroker,            \* frames of this channel on their way to the broker
    toClient,            \* frames of this channel on their way to the client
    bState,              \* the broker's end of the channel
    faults               \* faults of the environment so far

channelVars == <<conn, d_state, permanentlyClosing, removed, transformer,
                 retryArmed, hungArmed, writeCbs, toBroker, toClient, bState,
                 faults>>

ChannelStates == {"CHANNEL_OPEN_SENT", "DECLARING_TOPOLOGY", "AWAITING_REPLY",
                  "READY", "CHANNEL_CLOSE_SENT", "CLOSED"}

(* DOWN: no socket.  HANDSHAKE: a socket, but Connection.OpenOk has not    *)
(* arrived.  UP: CONNECTED.  CLOSING: one side has given the connection up *)
(* and the client has not noticed the end of the socket yet.               *)
ConnStates == {"DOWN", "HANDSHAKE", "UP", "CLOSING"}

(* confirm: open and in confirm mode.  closing: the broker has sent        *)
(* Channel.Close and waits for CloseOk.                                    *)
BrokerChannelStates == {"closed", "open", "confirm", "closing"}

ChannelInit ==
    /\ conn = "DOWN"
    /\ d_state = "CLOSED"
    /\ permanentlyClosing = FALSE
    /\ removed = FALSE
    /\ transformer = FALSE
    /\ retryArmed = FALSE
    /\ hungArmed = FALSE
    /\ writeCbs = 0
    /\ toBroker = <<>>
    /\ toClient = <<>>
    /\ bState = "closed"
    /\ faults = 0

(* The part of the type invariant that does not depend on the subclass.    *)
ChannelTypeOK ==
    /\ conn \in ConnStates
    /\ d_state \in ChannelStates
    /\ permanentlyClosing \in BOOLEAN
    /\ removed \in BOOLEAN
    /\ transformer \in BOOLEAN
    /\ retryArmed \in BOOLEAN
    /\ hungArmed \in BOOLEAN
    /\ writeCbs \in Nat
    /\ bState \in BrokerChannelStates
    /\ faults \in 0..MaxFaults

-----------------------------------------------------------------------------
(* Writing.  A frame has a kind; publishes, confirms, deliveries and acks  *)
(* also carry a message, a delivery tag and the `multiple' bit.            *)

Frame(kind, msg, tag, multiple) ==
    [kind |-> kind, msg |-> msg, tag |-> tag, multiple |-> multiple]

Control(kind) == Frame(kind, NoMsg, 0, FALSE)

(* Connection::handleAsyncChannelSend: without a socket a write is         *)
(* dropped, and its completion is never run.                               *)
Sent(frames) ==
    IF conn \in {"HANDSHAKE", "UP"} THEN toBroker \o frames ELSE toBroker

Completions(n) == IF conn = "DOWN" THEN writeCbs ELSE writeCbs + n

(* Channel::writeMessage(message, newState), once per frame.               *)
WriteAndMove(frames, newState) ==
    /\ d_state' = newState
    /\ toBroker' = Sent(frames)
    /\ writeCbs' = Completions(Len(frames))

(* Channel::writeMessage(message, callback) with noopWriteHandler.         *)
WriteOnly(frames) ==
    /\ toBroker' = Sent(frames)
    /\ UNCHANGED <<d_state, writeCbs>>

WriteNothing == UNCHANGED <<d_state, toBroker, writeCbs>>

(* Channel::close                                                          *)
Close == WriteAndMove(<<Control("close")>>, "CHANNEL_CLOSE_SENT")

CloseTwice ==
    WriteAndMove(<<Control("close"), Control("close")>>, "CHANNEL_CLOSE_SENT")

(* Channel::open                                                           *)
Open ==
    IF permanentlyClosing
    THEN WriteNothing /\ UNCHANGED hungArmed
    ELSE /\ WriteAndMove(<<Control("open")>>, "CHANNEL_OPEN_SENT")
         /\ hungArmed' = TRUE

-----------------------------------------------------------------------------
(* Receiving: Connection::processNextFrame hands a frame to the channel,   *)
(* which drops everything while it is CLOSED.                              *)

Arrives ==
    /\ ~removed
    /\ conn # "DOWN"
    /\ toClient # <<>>
    /\ toClient' = Tail(toClient)

Receive(kind) ==
    /\ Arrives
    /\ d_state # "CLOSED"
    /\ Head(toClient).kind = kind
    /\ UNCHANGED <<conn, bState, faults>>

(* Channel::processReceived in state CLOSED                                *)
DropFrame ==
    /\ Arrives
    /\ d_state = "CLOSED"
    /\ UNCHANGED <<conn, d_state, permanentlyClosing, removed, transformer,
                   retryArmed, hungArmed, writeCbs, toBroker, bState, faults>>

(* ChannelOpenOk, up to the point where the topology has to be declared or *)
(* is already: then the hung timer stops and the subclass's onOpen writes  *)
(* its first method, having started the timer again if rearm holds.        *)
ReceiveOpenOk(firstMethod, rearm) ==
    /\ Receive("openOk")
    /\ IF d_state # "CHANNEL_OPEN_SENT"
       THEN Close /\ hungArmed' = TRUE /\ UNCHANGED transformer
       ELSE IF HasTopology
       THEN /\ WriteAndMove(<<Control("declare")>>, "DECLARING_TOPOLOGY")
            /\ hungArmed' = TRUE
            /\ transformer' = TRUE
       ELSE /\ WriteAndMove(<<firstMethod>>, "AWAITING_REPLY")
            /\ hungArmed' = rearm
            /\ UNCHANGED transformer
    /\ UNCHANGED <<permanentlyClosing, removed, retryArmed>>

(* Channel::processTopologyMethod for the reply to the last declaration    *)
(* (the queue of topology updates is empty here, see Topology).  Without a *)
(* transformer the channel is closed, and closed again by the callback of  *)
(* the declaration, topologyDeclared.                                      *)
ReceiveDeclareOk(firstMethod, rearm) ==
    /\ Receive("declareOk")
    /\ IF d_state \in {"CHANNEL_OPEN_SENT", "CHANNEL_CLOSE_SENT"}
       THEN WriteNothing /\ UNCHANGED <<hungArmed, transformer>>
       ELSE IF ~transformer
       THEN CloseTwice /\ UNCHANGED <<hungArmed, transformer>>
       ELSE IF d_state = "DECLARING_TOPOLOGY"
       THEN /\ WriteAndMove(<<firstMethod>>, "AWAITING_REPLY")
            /\ hungArmed' = rearm
            /\ transformer' = FALSE
       ELSE WriteNothing /\ UNCHANGED <<hungArmed, transformer>>
    /\ UNCHANGED <<permanentlyClosing, removed, retryArmed>>

(* ChannelClose: CLOSED at once, reset when the CloseOk has been written.  *)
ReceiveClose ==
    /\ Receive("close")
    /\ WriteAndMove(<<Control("closeOk")>>, "CLOSED")
    /\ UNCHANGED <<permanentlyClosing, removed, transformer, retryArmed,
                   hungArmed>>

=============================================================================
