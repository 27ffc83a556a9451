--------------------------- MODULE ReceiveChannel ---------------------------
(***************************************************************************)
(* rmqamqp::ReceiveChannel: the consumer's channel, with the part of       *)
(* rmqa::ConsumerImpl through which the application acknowledges what it   *)
(* was given.  The channel keeps a consumer running, paused or cancelled   *)
(* at the broker, as it was last asked to, through every reset; it passes  *)
(* deliveries to the application and acknowledgements back, and makes sure *)
(* that no acknowledgement reaches a channel other than the one its        *)
(* message came from.                                                      *)
(***************************************************************************)
EXTENDS Channel, MultipleAckHandler, FiniteSets

CONSTANTS
    GivenTypes,   \* the kinds of acknowledgement the application gives
    MaxRequests,  \* bound: pauses, resumes, cancels and drains
    MaxTag,       \* bound: deliveries on one channel
    MayGoAway     \* whether the application ever destroys its consumer

ASSUME ReceiveChannelAssumption ==
    /\ GivenTypes \subseteq AckTypes
    /\ MaxRequests \in Nat
    /\ MaxTag \in Nat
    /\ MayGoAway \in BOOLEAN

VARIABLES
    consumer,      \* Consumer::d_state of d_consumer, NONE without one
    consumed,      \* consume() has been called
    pausedOnOpen,  \* d_channelPausedOnOpen
    resumeFuture,  \* d_consumeFuturePair, and what it last resolved to
    cancelFuture,  \* d_cancelFuturePair, and what it last resolved to
    wanted,        \* history: the last request that was not refused
    requests,      \* requests so far
    nextMessage,   \* the tag in d_nextMessage, 0 without one
    store,         \* d_messageStore
    lifetimeId,    \* d_messageStore.lifetimeId()
    ackQueue,      \* d_ackQueue: the batches not yet taken
    ackEvents,     \* consumeAckBatchFromQueue calls posted to the event loop
    ackHandler,    \* d_multipleAckHandler
    ackCbs,        \* completions of sendAckOrNack still to run
    drains,        \* the results of the futures drain() has returned
    drainFuture,   \* which of them d_drainFuture resolves, 0 for none
    inApp,         \* the envelopes the application has not acknowledged
    given,         \* history: what the application said of a message's last delivery
    bConsumer,     \* the broker has the consumer
    bTag,          \* the broker's count of deliveries on this channel
    bReady,        \* the messages in the broker's queue
    bUnacked,      \* the deliveries it waits for
    settled        \* what became of each message at the broker

ackVars == <<ackQueue, ackEvents, ackHandler, ackCbs>>
drainVars == <<drains, drainFuture>>
appVars == <<inApp, given>>
controlVars == <<consumer, consumed, pausedOnOpen, resumeFuture, cancelFuture,
                 wanted, requests>>
deliveryVars == <<nextMessage, store, lifetimeId, ackVars, drainVars, appVars>>
brokerVars == <<bConsumer, bTag, bReady, bUnacked, settled>>
vars == <<channelVars, controlVars, deliveryVars, brokerVars>>

(* d_channelPausedOnOpen starts as the health of the host had it.          *)
Init ==
    /\ ChannelInit
    /\ consumer = "NONE"
    /\ consumed = FALSE
    /\ pausedOnOpen \in BOOLEAN
    /\ resumeFuture = "none"
    /\ cancelFuture = "none"
    /\ wanted = IF pausedOnOpen THEN "paused" ELSE "consuming"
    /\ requests = 0
    /\ nextMessage = 0
    /\ store = {}
    /\ lifetimeId = 0
    /\ ackQueue = <<>>
    /\ ackEvents = 0
    /\ ackHandler = Fresh
    /\ ackCbs = <<>>
    /\ drains = <<>>
    /\ drainFuture = 0
    /\ inApp = {}
    /\ given = [m \in Msgs |-> "none"]
    /\ bConsumer = FALSE
    /\ bTag = 0
    /\ bReady = Msgs
    /\ bUnacked = {}
    /\ settled = [m \in Msgs |-> "none"]

Resolved(future, result) == IF future = "pending" THEN result ELSE future

Drained(result) ==
    IF drainFuture = 0 THEN drains ELSE [drains EXCEPT ![drainFuture] = result]

-----------------------------------------------------------------------------
(* Reset                                                                   *)

(* onReset, as far as the consumer is concerned: what a future resolves    *)
(* to, and whether the channel reopens paused.  The variant forgets a      *)
(* pause that was in flight.                                               *)
Failed(future) == Resolved(future, "error")

StaysPaused == consumer = "PAUSED"

ReopensPaused == consumer = "PAUSED" \/ pausedOnOpen

ResetConsumer ==
    /\ consumer' = CASE consumer \in {"NONE", "PAUSED"} -> consumer
                     [] consumer = "CANCELLING" -> "NONE"
                     [] OTHER -> "NOT_CONSUMING"
    /\ pausedOnOpen' = ReopensPaused
    /\ resumeFuture' = Failed(resumeFuture)
    /\ cancelFuture' = Failed(cancelFuture)
    /\ UNCHANGED <<consumed, wanted, requests>>

(* processFailures and the rest of onReset: MessageStore::swap starts a    *)
(* new lifetime, so what was delivered is stale from now on.               *)
SameLifetime == lifetimeId

NextLifetime == lifetimeId + 1

ResetDeliveries ==
    /\ nextMessage' = 0
    /\ store' = {}
    /\ lifetimeId' = NextLifetime
    /\ ackQueue' = <<>>
    /\ ackHandler' = Fresh
    /\ drains' = Drained("error")
    /\ drainFuture' = 0
    /\ UNCHANGED <<ackEvents, inApp, given>>

(* Channel::reset(startRetry)                                              *)
Reset(startRetry) ==
    /\ d_state' = "CLOSED"
    /\ ResetConsumer
    /\ ResetDeliveries
    /\ retryArmed' = (startRetry \/ retryArmed)

BrokerForgets ==
    /\ bConsumer' = FALSE
    /\ bTag' = 0
    /\ bReady' = bReady \cup {e.msg : e \in bUnacked}
    /\ bUnacked' = {}
    /\ UNCHANGED settled

(* Connection::socketShutdown: ChannelMap::resetAll, and the socket goes   *)
(* with everything that was on it.                                         *)
SocketShutdown ==
    /\ Reset(FALSE)
    /\ removed' = permanentlyClosing
    /\ conn' = "DOWN"
    /\ writeCbs' = 0
    /\ ackCbs' = <<>>
    /\ toBroker' = <<>>
    /\ toClient' = <<>>
    /\ bState' = "closed"
    /\ BrokerForgets
    /\ UNCHANGED <<permanentlyClosing, transformer>>

-----------------------------------------------------------------------------
(* The connection below (see SendChannel)                                  *)

SocketFails ==
    /\ ~removed
    /\ conn \in {"HANDSHAKE", "UP"}
    /\ faults < MaxFaults
    /\ faults' = faults + 1
    /\ SocketShutdown
    /\ UNCHANGED hungArmed

SocketCloses ==
    /\ ~removed
    /\ conn = "CLOSING"
    /\ SocketShutdown
    /\ UNCHANGED <<hungArmed, faults>>

SocketConnects ==
    /\ ~removed
    /\ conn = "DOWN"
    /\ conn' = "HANDSHAKE"
    /\ UNCHANGED <<d_state, permanentlyClosing, removed, transformer,
                   retryArmed, hungArmed, writeCbs, toBroker, toClient, bState,
                   faults, controlVars, deliveryVars, brokerVars>>

ConnectionOpenOk ==
    /\ ~removed
    /\ conn = "HANDSHAKE"
    /\ conn' = "UP"
    /\ Open
    /\ UNCHANGED <<permanentlyClosing, removed, transformer, retryArmed,
                   toClient, bState, faults, controlVars, deliveryVars,
                   brokerVars>>

RetryFires ==
    /\ ~removed
    /\ retryArmed
    /\ retryArmed' = FALSE
    /\ Open
    /\ UNCHANGED <<conn, permanentlyClosing, removed, transformer, toClient,
                   bState, faults, controlVars, deliveryVars, brokerVars>>

HungFires ==
    /\ ~removed
    /\ hungArmed
    /\ faults < MaxFaults
    /\ faults' = faults + 1
    /\ hungArmed' = FALSE
    /\ IF conn = "DOWN"
       THEN SocketShutdown
       ELSE /\ conn' = "CLOSING"
            /\ UNCHANGED <<d_state, permanentlyClosing, removed, transformer,
                           retryArmed, writeCbs, toBroker, toClient, bState,
                           controlVars, deliveryVars, brokerVars>>

(* Writes complete in the order they were made: an entry of ackCbs says    *)
(* how many of writeCbs are before it.                                     *)
CanComplete ==
    /\ writeCbs > 0
    /\ ackCbs # <<>> => Head(ackCbs).behind > 0

WriteComplete ==
    /\ ~removed
    /\ CanComplete
    /\ writeCbs' = writeCbs - 1
    /\ ackCbs' = [i \in 1..Len(ackCbs) |-> [ackCbs[i] EXCEPT !.behind = @ - 1]]
    /\ IF d_state = "CLOSED"
       THEN Reset(~permanentlyClosing)
       ELSE UNCHANGED <<d_state, retryArmed, controlVars, nextMessage, store,
                        lifetimeId, ackQueue, ackEvents, ackHandler, drainVars,
                        appVars>>
    /\ UNCHANGED <<conn, permanentlyClosing, removed, transformer, hungArmed,
                   toBroker, toClient, bState, faults, brokerVars>>

(* Channel::gracefulClose, posted by ~ConsumerImpl                         *)
GracefulClose ==
    /\ MayGoAway
    /\ ~removed
    /\ ~permanentlyClosing
    /\ permanentlyClosing' = TRUE
    /\ IF d_state \in {"CLOSED", "CHANNEL_CLOSE_SENT"}
       THEN WriteNothing
       ELSE Close
    /\ UNCHANGED <<conn, removed, transformer, retryArmed, hungArmed, toClient,
                   bState, faults, controlVars, deliveryVars, brokerVars>>

-----------------------------------------------------------------------------
(* Requests of the application and of the HostHealthMonitor, posted to the *)
(* event loop.  A request that is refused, or that returns the future of   *)
(* one in flight, changes nothing and is no step.                          *)

Requested ==
    /\ ~removed
    /\ ~permanentlyClosing
    /\ requests < MaxRequests
    /\ requests' = requests + 1
    /\ UNCHANGED <<conn, permanentlyClosing, removed, transformer, retryArmed,
                   toClient, bState, faults, consumed, deliveryVars, brokerVars>>

(* state() == READY || state() == AWAITING_REPLY                           *)
CanConsume == d_state \in {"READY", "AWAITING_REPLY"}

(* restartConsumers                                                        *)
RestartConsumers ==
    /\ consumer' = "STARTING"
    /\ WriteAndMove(<<Control("consume")>>, "AWAITING_REPLY")
    /\ hungArmed' = TRUE

(* ReceiveChannel::consume, called once by ConsumerImpl::start             *)
Consume ==
    /\ ~removed
    /\ ~permanentlyClosing
    /\ ~consumed
    /\ consumed' = TRUE
    /\ IF pausedOnOpen \/ ~CanConsume
       THEN /\ consumer' = IF pausedOnOpen THEN "PAUSED" ELSE "NOT_CONSUMING"
            /\ WriteNothing
            /\ UNCHANGED hungArmed
       ELSE RestartConsumers
    /\ UNCHANGED <<conn, permanentlyClosing, removed, transformer, retryArmed,
                   toClient, bState, faults, pausedOnOpen, resumeFuture,
                   cancelFuture, wanted, requests, deliveryVars, brokerVars>>

(* Cancelling is final.                                                    *)
Want(what) == wanted' = IF wanted = "cancelled" THEN wanted ELSE what

(* ReceiveChannel::resume                                                  *)
Resume ==
    /\ Requested
    /\ consumer \in {"NONE", "NOT_CONSUMING", "PAUSING", "PAUSED"}
    /\ resumeFuture # "pending"
    /\ Want("consuming")
    /\ pausedOnOpen' = FALSE
    /\ resumeFuture' = IF consumer = "NONE" THEN resumeFuture ELSE "pending"
    /\ IF consumer \in {"NONE", "PAUSING"}
       THEN WriteNothing /\ UNCHANGED <<consumer, hungArmed>>
       ELSE IF CanConsume
       THEN RestartConsumers
       ELSE /\ consumer' = "NOT_CONSUMING"
            /\ WriteNothing
            /\ UNCHANGED hungArmed
    /\ UNCHANGED cancelFuture

(* failPendingResume                                                       *)
FailPendingResume == resumeFuture' = Failed(resumeFuture)

(* ReceiveChannel::pause, with Consumer::cancel(true)                      *)
Pause ==
    LET stops == cancelFuture # "pending" /\ consumer \in {"STARTING", "CONSUMING"}
    IN
    /\ Requested
    /\ consumer # "CANCELLING"
    /\ Want("paused")
    /\ pausedOnOpen' = TRUE
    /\ FailPendingResume
    /\ consumer' = CASE stops -> "PAUSING"
                     [] consumer = "NOT_CONSUMING" -> "PAUSED"
                     [] OTHER -> consumer
    /\ cancelFuture' = IF stops THEN "pending" ELSE cancelFuture
    /\ IF stops /\ consumer = "CONSUMING"
       THEN WriteAndMove(<<Control("cancel")>>, "AWAITING_REPLY")
       ELSE WriteNothing
    /\ UNCHANGED hungArmed

(* ReceiveChannel::cancel, with handleCancelAfterPause and                 *)
(* Consumer::cancel(false)                                                 *)
Cancel ==
    LET inFlight == cancelFuture = "pending"
        idle == consumer \in {"NOT_CONSUMING", "PAUSED"}
    IN
    /\ Requested
    /\ consumer # "NONE"
    /\ ~(inFlight /\ consumer = "CANCELLING")
    /\ wanted' = "cancelled"
    /\ FailPendingResume
    /\ consumer' = IF idle THEN "NONE" ELSE "CANCELLING"
    /\ cancelFuture' = IF idle THEN cancelFuture ELSE "pending"
    /\ IF ~inFlight /\ consumer = "CONSUMING"
       THEN WriteAndMove(<<Control("cancel")>>, "AWAITING_REPLY")
       ELSE WriteNothing
    /\ UNCHANGED <<pausedOnOpen, hungArmed>>

(* ReceiveChannel::drain: whether there is something to wait for; the      *)
(* variant never waits.                                                    *)
NeverWaits == FALSE

DrainWaits == consumer = "NONE" /\ store # {}

Drain ==
    /\ ~removed
    /\ ~permanentlyClosing
    /\ requests < MaxRequests
    /\ requests' = requests + 1
    /\ IF DrainWaits
       THEN /\ drains' = Append(drains, "pending")
            /\ drainFuture' = Len(drains) + 1
       ELSE /\ drains' = Append(drains, IF consumer = "NONE" THEN "ok" ELSE "error")
            /\ UNCHANGED drainFuture
    /\ UNCHANGED <<channelVars, consumer, consumed, pausedOnOpen, resumeFuture,
                   cancelFuture, wanted, nextMessage, store, lifetimeId,
                   ackVars, appVars, brokerVars>>

-----------------------------------------------------------------------------
(* The life of the channel                                                 *)

(* onOpen: Basic.Qos, under the hung timer                                 *)
RecvOpenOk ==
    /\ ReceiveOpenOk(Control("qos"), TRUE)
    /\ UNCHANGED <<controlVars, deliveryVars, brokerVars>>

RecvDeclareOk ==
    /\ ReceiveDeclareOk(Control("qos"), TRUE)
    /\ UNCHANGED <<controlVars, deliveryVars, brokerVars>>

RecvClose ==
    /\ ReceiveClose
    /\ UNCHANGED <<controlVars, deliveryVars, brokerVars>>

RecvWhenClosed ==
    /\ DropFrame
    /\ UNCHANGED <<controlVars, deliveryVars, brokerVars>>

(* ChannelCloseOk.  A channel that is dropped from the ChannelMap is       *)
(* destroyed: ~ReceiveChannel resolves its futures.                        *)
RecvCloseOk ==
    /\ Receive("closeOk")
    /\ IF permanentlyClosing
       THEN /\ removed' = TRUE
            /\ resumeFuture' = Failed(resumeFuture)
            /\ cancelFuture' = Failed(cancelFuture)
            /\ drains' = Drained("error")
            /\ drainFuture' = 0
            /\ UNCHANGED <<d_state, retryArmed, consumer, consumed,
                           pausedOnOpen, wanted, requests, nextMessage, store,
                           lifetimeId, ackQueue, ackEvents, ackHandler,
                           appVars>>
       ELSE Reset(TRUE) /\ UNCHANGED removed
    /\ UNCHANGED <<permanentlyClosing, transformer, hungArmed, writeCbs,
                   ackCbs, toBroker, brokerVars>>

-----------------------------------------------------------------------------
(* processBasicMethod                                                      *)

ReceiveBasic(kind) ==
    /\ Receive(kind)
    /\ UNCHANGED <<permanentlyClosing, removed, transformer, retryArmed,
                   consumed, wanted, requests, brokerVars>>

(* Channel::ready                                                          *)
Ready ==
    /\ d_state' = "READY"
    /\ hungArmed' = FALSE
    /\ UNCHANGED <<toBroker, writeCbs>>

(* BasicConsumeOk: a pause or a cancel that came after the Basic.Consume   *)
(* has waited for it.                                                      *)
RecvConsumeOk ==
    /\ ReceiveBasic("consumeOk")
    /\ CASE consumer = "NONE" ->
              Close /\ UNCHANGED <<hungArmed, consumer, resumeFuture>>
         [] consumer \in {"STARTING", "CONSUMING"} ->
              /\ consumer' = "CONSUMING"
              /\ resumeFuture' = Resolved(resumeFuture, "ok")
              /\ Ready
         [] consumer \in {"PAUSING", "CANCELLING"} ->
              /\ WriteAndMove(<<Control("cancel")>>, "AWAITING_REPLY")
              /\ hungArmed' = FALSE
              /\ UNCHANGED <<consumer, resumeFuture>>
         [] OTHER ->
              WriteNothing /\ hungArmed' = FALSE
                /\ UNCHANGED <<consumer, resumeFuture>>
    /\ UNCHANGED <<pausedOnOpen, cancelFuture, deliveryVars>>

(* BasicQoSOk: whether the consumer has to be started.  The variants start *)
(* one that is starting already, and none at all.                          *)
QosOkStartsAgain == consumer \in {"NOT_CONSUMING", "STARTING"} /\ ~pausedOnOpen

QosOkStartsNone == FALSE

QosOkStarts == consumer = "NOT_CONSUMING" /\ ~pausedOnOpen

RecvQosOk ==
    /\ ReceiveBasic("qosOk")
    /\ CASE consumer = "NONE" -> Ready /\ UNCHANGED consumer
         [] consumer = "PAUSED" \/ (consumer = "NOT_CONSUMING" /\ pausedOnOpen) ->
              Ready /\ consumer' = "PAUSED"
         [] QosOkStarts -> RestartConsumers
         [] OTHER -> WriteNothing /\ UNCHANGED <<consumer, hungArmed>>
    /\ UNCHANGED <<pausedOnOpen, resumeFuture, cancelFuture, deliveryVars>>

(* BasicCancelOk: the pause or the cancel is complete, unless a resume was *)
(* requested meanwhile, which is then carried out.  The variants let the   *)
(* overtaken pause succeed, and forget it.                                 *)
OvertakenSucceeds == Resolved(cancelFuture, "ok")

OvertakenForgotten == cancelFuture

Overtaken == Failed(cancelFuture)

RecvCancelOk ==
    LET paused == consumer \in {"PAUSING", "PAUSED"}
        resumeRequested == paused /\ ~pausedOnOpen
    IN
    /\ ReceiveBasic("cancelOk")
    /\ IF consumer = "NONE"
       THEN Close /\ UNCHANGED <<hungArmed, consumer, resumeFuture, cancelFuture>>
       ELSE IF resumeRequested
       THEN /\ cancelFuture' = Overtaken
            /\ RestartConsumers
            /\ UNCHANGED resumeFuture
       ELSE /\ consumer' = IF paused THEN "PAUSED" ELSE "NONE"
            /\ FailPendingResume
            /\ cancelFuture' = Resolved(cancelFuture, "ok")
            /\ Ready
    /\ UNCHANGED <<pausedOnOpen, deliveryVars>>

(* BasicCancel: the broker has cancelled the consumer.                     *)
RecvCancel ==
    /\ ReceiveBasic("cancel")
    /\ Close
    /\ UNCHANGED <<hungArmed, consumer, pausedOnOpen, resumeFuture,
                   cancelFuture, deliveryVars>>

-----------------------------------------------------------------------------
(* Deliveries                                                              *)

Entry(tag, msg) == [tag |-> tag, msg |-> msg]
Tags(entries) == {e.tag : e \in entries}

(* BasicDeliver: its content is expected next.                             *)
RecvDeliver ==
    /\ ReceiveBasic("deliver")
    /\ IF nextMessage # 0
       THEN Close /\ UNCHANGED nextMessage
       ELSE nextMessage' = Head(toClient).tag /\ WriteNothing
    /\ UNCHANGED <<hungArmed, consumer, pausedOnOpen, resumeFuture,
                   cancelFuture, store, lifetimeId, ackVars, drainVars,
                   appVars>>

(* processMessage, MessageStore::insert and ConsumerImpl::handleMessage:   *)
(* the application gets the message with the lifetime of the channel.      *)
RecvContent ==
    LET msg == Head(toClient).msg
        fits == nextMessage # 0 /\ nextMessage \notin Tags(store)
    IN
    /\ ReceiveBasic("content")
    /\ store' = IF fits THEN store \cup {Entry(nextMessage, msg)} ELSE store
    /\ IF fits /\ consumer # "NONE"
       THEN /\ inApp' = inApp \cup {[tag |-> nextMessage, msg |-> msg,
                                     life |-> lifetimeId]}
            /\ given' = [given EXCEPT ![msg] = "none"]
            /\ nextMessage' = 0
            /\ WriteNothing
       ELSE Close /\ UNCHANGED <<inApp, given, nextMessage>>
    /\ UNCHANGED <<hungArmed, consumer, pausedOnOpen, resumeFuture,
                   cancelFuture, lifetimeId, ackVars, drainVars>>

-----------------------------------------------------------------------------
(* Acknowledgements                                                        *)

(* ConsumerImpl::ackMessage, on a thread of the application: the ack joins *)
(* the youngest batch if that has not been taken, which locks it; else it  *)
(* starts a batch and posts a call that takes one.  The variant forgets to *)
(* post it.                                                                *)
NotPosted == ackEvents

Posted == ackEvents + 1

AckMessage(e, type) ==
    LET ack == [tag |-> e.tag, msg |-> e.msg, life |-> e.life, type |-> type]
    IN
    /\ ~removed
    /\ ~permanentlyClosing
    /\ inApp' = inApp \ {e}
    /\ given' = IF e.life = lifetimeId THEN [given EXCEPT ![e.msg] = type] ELSE given
    /\ IF ackQueue # <<>>
       THEN /\ ackQueue' = [ackQueue EXCEPT ![Len(ackQueue)] = @ \cup {ack}]
            /\ UNCHANGED ackEvents
       ELSE /\ ackQueue' = <<{ack}>>
            /\ ackEvents' = Posted
    /\ UNCHANGED <<channelVars, controlVars, nextMessage, store, lifetimeId,
                   ackHandler, ackCbs, drainVars, brokerVars>>

(* The acks of a batch that belong to this life of the channel             *)
Valid(batch) == {a \in batch : a.life = lifetimeId}

(* consumeAckBatchFromQueue, with sendAckOrNack for each frame             *)
ConsumeAckBatch ==
    LET result == Process(ackHandler, Valid(Head(ackQueue)))
        acks == result.frames
    IN
    /\ ~removed
    /\ ackEvents > 0
    /\ ackEvents' = ackEvents - 1
    /\ ackQueue' = IF ackQueue = <<>> THEN ackQueue ELSE Tail(ackQueue)
    /\ IF ackQueue = <<>> \/ d_state \in {"CHANNEL_CLOSE_SENT", "CLOSED"}
       THEN UNCHANGED <<toBroker, ackHandler, ackCbs>>
       ELSE /\ ackHandler' = result.handler
            /\ toBroker' = Sent([i \in 1..Len(acks) |->
                 Frame(acks[i].type, NoMsg, acks[i].tag, acks[i].multiple)])
            /\ ackCbs' = IF conn = "DOWN" THEN ackCbs
                         ELSE ackCbs \o [i \in 1..Len(acks) |->
                                [tag |-> acks[i].tag,
                                 multiple |-> acks[i].multiple,
                                 behind |-> writeCbs]]
    /\ UNCHANGED <<conn, d_state, permanentlyClosing, removed, transformer,
                   retryArmed, hungArmed, writeCbs, toClient, bState, faults,
                   controlVars, nextMessage, store, lifetimeId, drainVars,
                   appVars, brokerVars>>

(* removeMessagesFromStore, when an ack has been written                   *)
AckWritten ==
    LET done == Head(ackCbs)
        kept == {e \in store : IF done.multiple THEN e.tag > done.tag
                                                ELSE e.tag # done.tag}
    IN
    /\ ~removed
    /\ ackCbs # <<>>
    /\ Head(ackCbs).behind = 0
    /\ ackCbs' = Tail(ackCbs)
    /\ store' = kept
    /\ drains' = IF kept = {} THEN Drained("ok") ELSE drains
    /\ UNCHANGED <<channelVars, controlVars, nextMessage, lifetimeId, ackQueue,
                   ackEvents, ackHandler, drainFuture, appVars, brokerVars>>

-----------------------------------------------------------------------------
(* The broker's end of the channel (external)                              *)

clientVars == <<d_state, permanentlyClosing, removed, transformer, retryArmed,
                hungArmed, writeCbs, controlVars, deliveryVars>>

BrokerTakes(kind) ==
    /\ ~removed
    /\ conn = "UP"
    /\ toBroker # <<>>
    /\ Head(toBroker).kind = kind
    /\ toBroker' = Tail(toBroker)
    /\ UNCHANGED <<conn, faults, clientVars>>

BrokerSends(frames) == toClient' = toClient \o frames

BrokerOpen ==
    /\ BrokerTakes("open")
    /\ bState = "closed"
    /\ bState' = "open"
    /\ BrokerSends(<<Control("openOk")>>)
    /\ UNCHANGED brokerVars

(* Declarations and Basic.Qos                                              *)
BrokerReplies ==
    /\ bState = "open"
    /\ \E r \in {<<"declare", "declareOk">>, <<"qos", "qosOk">>} :
          BrokerTakes(r[1]) /\ BrokerSends(<<Control(r[2])>>)
    /\ UNCHANGED <<bState, brokerVars>>

BrokerConsume ==
    /\ BrokerTakes("consume")
    /\ bState = "open"
    /\ ~bConsumer
    /\ bConsumer' = TRUE
    /\ BrokerSends(<<Control("consumeOk")>>)
    /\ UNCHANGED <<bState, bTag, bReady, bUnacked, settled>>

(* Basic.Cancel is answered even if the consumer is gone already.          *)
BrokerCancelled ==
    /\ BrokerTakes("cancel")
    /\ bState = "open"
    /\ bConsumer' = FALSE
    /\ BrokerSends(<<Control("cancelOk")>>)
    /\ UNCHANGED <<bState, bTag, bReady, bUnacked, settled>>

(* Basic.Ack and Basic.Nack, for one delivery or for all up to it          *)
BrokerSettles(type) ==
    LET frame == Head(toBroker)
        those == {e \in bUnacked : IF frame.multiple THEN e.tag <= frame.tag
                                                     ELSE e.tag = frame.tag}
        msgs == {e.msg : e \in those}
    IN
    /\ BrokerTakes(type)
    /\ bState = "open"
    /\ those # {}
    /\ bUnacked' = bUnacked \ those
    /\ IF type = "REQUEUE"
       THEN bReady' = bReady \cup msgs /\ UNCHANGED settled
       ELSE /\ settled' = [m \in Msgs |-> IF m \in msgs THEN type ELSE settled[m]]
            /\ UNCHANGED bReady
    /\ UNCHANGED <<toClient, bState, bConsumer, bTag>>

BrokerDelivers(m) ==
    /\ ~removed
    /\ conn = "UP"
    /\ bState = "open"
    /\ bConsumer
    /\ bTag < MaxTag
    /\ bTag' = bTag + 1
    /\ bReady' = bReady \ {m}
    /\ bUnacked' = bUnacked \cup {Entry(bTag + 1, m)}
    /\ BrokerSends(<<Frame("deliver", NoMsg, bTag + 1, FALSE),
                     Frame("content", m, 0, FALSE)>>)
    /\ UNCHANGED <<conn, toBroker, bState, faults, bConsumer, settled, clientVars>>

(* The queue is deleted or moves: the broker cancels the consumer.         *)
BrokerCancels ==
    /\ ~removed
    /\ conn = "UP"
    /\ bState = "open"
    /\ bConsumer
    /\ faults < MaxFaults
    /\ faults' = faults + 1
    /\ bConsumer' = FALSE
    /\ BrokerSends(<<Control("cancel")>>)
    /\ UNCHANGED <<conn, toBroker, bState, bTag, bReady, bUnacked, settled,
                   clientVars>>

BrokerClosesChannel ==
    /\ ~removed
    /\ conn = "UP"
    /\ bState = "open"
    /\ faults < MaxFaults
    /\ faults' = faults + 1
    /\ bState' = "closing"
    /\ BrokerForgets
    /\ BrokerSends(<<Control("close")>>)
    /\ UNCHANGED <<conn, toBroker, clientVars>>

BrokerClosedByClient ==
    /\ BrokerTakes("close")
    /\ bState # "closed"
    /\ bState' = IF bState = "closing" THEN "closing" ELSE "closed"
    /\ BrokerForgets
    /\ BrokerSends(<<Control("closeOk")>>)

BrokerCloseOk ==
    /\ BrokerTakes("closeOk")
    /\ bState = "closing"
    /\ bState' = "closed"
    /\ UNCHANGED <<toClient, brokerVars>>

(* A closing channel discards what is neither Close nor CloseOk.           *)
BrokerDiscards ==
    /\ bState = "closing"
    /\ \E kind \in {"open", "declare", "qos", "consume", "cancel"} \cup AckTypes :
          BrokerTakes(kind)
    /\ UNCHANGED <<toClient, bState, brokerVars>>

(* A frame for a channel that is not open: a connection exception          *)
BrokerException ==
    /\ ~removed
    /\ conn \in {"HANDSHAKE", "UP"}
    /\ toBroker # <<>>
    /\ \/ conn = "HANDSHAKE"
       \/ Head(toBroker).kind = "open" /\ bState = "open"
       \/ Head(toBroker).kind # "open" /\ bState = "closed"
       \/ Head(toBroker).kind = "closeOk" /\ bState # "closing"
    /\ conn' = "CLOSING"
    /\ toBroker' = <<>>
    /\ UNCHANGED <<toClient, bState, faults, clientVars, brokerVars>>

-----------------------------------------------------------------------------
RequestNext == Consume \/ Resume \/ Pause \/ Cancel \/ Drain \/ GracefulClose

(* The completion of a write is run before anything is read that the       *)
(* broker sent after it took the frame.                                    *)
WritesReported == writeCbs + Len(ackCbs) <= Len(toBroker)

Receives ==
    /\ WritesReported
    /\ \/ RecvOpenOk \/ RecvDeclareOk \/ RecvClose \/ RecvCloseOk
       \/ RecvWhenClosed \/ RecvQosOk \/ RecvConsumeOk \/ RecvCancelOk
       \/ RecvCancel \/ RecvDeliver \/ RecvContent

AppAcks == \E e \in inApp, type \in GivenTypes : AckMessage(e, type)

ClientNext ==
    \/ Receives \/ AppAcks \/ ConsumeAckBatch \/ AckWritten
    \/ WriteComplete \/ RetryFires \/ HungFires

ConnectionNext ==
    SocketFails \/ SocketCloses \/ SocketConnects \/ ConnectionOpenOk

BrokerAnswers ==
    \/ BrokerOpen \/ BrokerReplies \/ BrokerConsume \/ BrokerCancelled
    \/ \E type \in AckTypes : BrokerSettles(type)
    \/ BrokerClosedByClient \/ BrokerCloseOk \/ BrokerDiscards \/ BrokerException

BrokerNext ==
    \/ BrokerAnswers \/ BrokerCancels \/ BrokerClosesChannel
    \/ \E m \in bReady : BrokerDelivers(m)

Next == RequestNext \/ ClientNext \/ ConnectionNext \/ BrokerNext

Spec == Init /\ [][Next]_vars

(* Fairness.  The event loop runs every handler it is given, armed timers  *)
(* expire, the connection is retried for ever and the broker answers and   *)
(* delivers.  ConsumerImpl::start always calls consume, and an application *)
(* acknowledges what it is given.  Faults and requests are free.           *)
Fairness ==
    /\ WF_vars(Receives)
    /\ WF_vars(WriteComplete \/ AckWritten)
    /\ WF_vars(RetryFires)
    /\ WF_vars(ConsumeAckBatch)
    /\ WF_vars(AppAcks)
    /\ WF_vars(Consume)
    /\ WF_vars(SocketCloses \/ SocketConnects \/ ConnectionOpenOk)
    /\ WF_vars(BrokerAnswers)
    /\ WF_vars(\E m \in bReady : BrokerDelivers(m))

FairSpec == Spec /\ Fairness

-----------------------------------------------------------------------------
(* Properties                                                              *)

(* The latest request wins, through every reset: a consumer is never       *)
(* started against a pause or a cancel and never paused against a resume.  *)
LatestRequestWins ==
    /\ consumer \in {"STARTING", "CONSUMING"} => wanted = "consuming"
    /\ consumer = "PAUSED" => wanted = "paused"
    /\ consumer \in {"NOT_CONSUMING", "PAUSING"} =>
         wanted = IF pausedOnOpen THEN "paused" ELSE "consuming"
    /\ consumer = "CANCELLING" => wanted = "cancelled"

(* Basic.Consume is never sent for a consumer tag that is still in use on  *)
(* the channel, which the broker answers by closing the connection.        *)
NoDoubleConsume ==
    conn = "UP" /\ bState = "open" /\ toBroker # <<>> =>
      ~(Head(toBroker).kind = "consume" /\ bConsumer)

Kinds(frames) == {frames[i].kind : i \in 1..Len(frames)}

(* When the future of a pause or a cancel resolves successfully, the       *)
(* broker has no consumer, none is being started, and no delivery is on    *)
(* its way: the server will not send any more messages.                    *)
StoppedMeansStopped ==
    [][cancelFuture = "pending" /\ cancelFuture' = "ok" =>
         /\ ~bConsumer'
         /\ "consume" \notin Kinds(toBroker')
         /\ "deliver" \notin Kinds(toClient')]_vars

(* The broker discards or rejects a message only because the application   *)
(* said so of the very delivery it answers: no ack of an earlier channel,  *)
(* and no `multiple' bit, ever covers a message still being processed.     *)
AckTruthful == \A m \in Msgs : settled[m] # "none" => given[m] = settled[m]

Covered(done) ==
    {t \in 1..MaxTag : IF done.multiple THEN t <= done.tag ELSE t = done.tag}

(* What the application still has of this life of the channel, what is in  *)
(* a batch, and what is in an ack whose write is not complete, is in       *)
(* d_messageStore; none of it is in two of these.  While the channel is    *)
(* open at both ends nothing else is in d_messageStore, so drain() neither *)
(* succeeds early nor waits for a message that nobody has.                 *)
StoreAccounted ==
    LET waiting == Tags({e \in inApp : e.life = lifetimeId})
        queued == UNION {{a.tag : a \in {b \in ackQueue[i] : b.life = lifetimeId}}
                           : i \in 1..Len(ackQueue)}
        written == Tags(store)
                     \cap UNION {Covered(ackCbs[i]) : i \in 1..Len(ackCbs)}
    IN
    /\ waiting \cup queued \subseteq Tags(store)
    /\ waiting \cap queued = {}
    /\ (waiting \cup queued) \cap written = {}
    /\ ~permanentlyClosing /\ conn = "UP" /\ bState = "open"
         /\ {"close", "closeOk"} \cap (Kinds(toBroker) \cup Kinds(toClient)) = {}
       => Tags(store) = waiting \cup queued \cup written

(* A drain() that succeeds means that the application has acknowledged all *)
(* that this channel gave it, and that the acks have been written.         *)
DrainTruthful ==
    [][\A i \in 1..Len(drains') :
         drains'[i] = "ok" /\ (i > Len(drains) \/ drains[i] # "ok") =>
           /\ \A e \in inApp' : e.life # lifetimeId'
           /\ \A a \in UNION Range(ackQueue') : a.life # lifetimeId']_vars

(* Every pause, resume and cancel is answered, unless the consumer is      *)
(* destroyed: a channel that is closed then never opens again, and its     *)
(* futures wait for the connection to go.                                  *)
FuturesResolve ==
    /\ (resumeFuture = "pending") ~> (resumeFuture # "pending" \/ permanentlyClosing)
    /\ (cancelFuture = "pending") ~> (cancelFuture # "pending" \/ permanentlyClosing)

(* The channel ends up in the state it was last asked for.                 *)
DesiredStateReached ==
    /\ (wanted = "consuming") ~>
         \/ consumer = "CONSUMING" /\ bConsumer
         \/ wanted # "consuming" \/ permanentlyClosing
    /\ (wanted = "paused") ~>
         \/ consumer = "PAUSED" /\ d_state = "READY"
         \/ wanted # "paused" \/ permanentlyClosing
    /\ (wanted = "cancelled") ~> (consumer = "NONE" \/ permanentlyClosing)

(* A consumer that is not paused gets every message settled, whatever      *)
(* faults happen on the way.                                               *)
EveryMessageSettled ==
    (wanted = "consuming") ~>
      \/ wanted # "consuming" \/ permanentlyClosing
      \/ \A m \in Msgs : settled[m] # "none"

=============================================================================
