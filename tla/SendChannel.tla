---------------------------- MODULE SendChannel ----------------------------
(***************************************************************************)
(* rmqamqp::SendChannel: the producer's channel.  It keeps every message   *)
(* it was given until the broker has confirmed it, and publishes again     *)
(* what was unconfirmed when the channel or the connection was lost.       *)
(*                                                                         *)
(* d_messageStore maps delivery tags to messages and is ordered by tag; it *)
(* is a sequence of entries here.  StoreOrdered states that an entry is    *)
(* always inserted at the end, which is what justifies the sequence.       *)
(***************************************************************************)
EXTENDS Channel

CONSTANT BrokerUsesFlow  \* whether the broker ever sends Channel.Flow

ASSUME SendChannelAssumption == BrokerUsesFlow \in BOOLEAN

VARIABLES
    flow,             \* Channel::d_flow
    pending,          \* d_pendingMessages
    store,            \* d_messageStore
    deliveryCounter,  \* d_deliveryCounter
    basicReturn,      \* d_basicReturn is set
    returned,         \* the delivery tags in d_returnedTagResponse
    response,         \* what d_confirmCallback was last called with
    bTag,             \* the broker's count of publishes on this channel
    bUnconfirmed,     \* the broker's publishes it has not confirmed yet
    bReturned,        \* the tags among them it has sent Basic.Return for
    bFlow,            \* the broker lets the client publish on this channel
    verdicts          \* history: every verdict the broker has ever sent

sendVars == <<flow, pending, store, deliveryCounter, basicReturn, returned,
              response>>
brokerVars == <<bTag, bUnconfirmed, bReturned, bFlow, verdicts>>
vars == <<channelVars, sendVars, brokerVars>>

(* unsent: not passed to publishMessage yet; waiting: no callback yet.     *)
Verdicts == {"ACK", "REJECT", "RETURN"}
Responses == {"unsent", "waiting"} \cup Verdicts

Init ==
    /\ ChannelInit
    /\ flow = TRUE
    /\ pending = <<>>
    /\ store = <<>>
    /\ deliveryCounter = 1
    /\ basicReturn = FALSE
    /\ returned = {}
    /\ response = [m \in Msgs |-> "unsent"]
    /\ bTag = 0
    /\ bUnconfirmed = {}
    /\ bReturned = {}
    /\ bFlow = TRUE
    /\ verdicts = {}

Entry(tag, msg) == [tag |-> tag, msg |-> msg]

-----------------------------------------------------------------------------
(* Publishing                                                              *)

(* readyToPublishMsg for each of ms in turn: what d_messageStore gains and *)
(* what is written.  The tag of a publish frame is not on the wire: it     *)
(* records the tag the client counts for it.                               *)
Stored(ms) ==
    store \o [i \in 1..Len(ms) |-> Entry(deliveryCounter + i - 1, ms[i])]

Publishes(ms) ==
    [i \in 1..Len(ms) |-> Frame("publish", ms[i], deliveryCounter + i - 1, FALSE)]

ReadyToPublish(ms) ==
    /\ store' = Stored(ms)
    /\ deliveryCounter' = deliveryCounter + Len(ms)

(* SendChannel::publishMessage, posted by the application through the      *)
(* producer; none is posted after the producer's destructor.               *)
PublishMessage(m) ==
    /\ ~permanentlyClosing
    /\ ~removed
    /\ response[m] = "unsent"
    /\ response' = [response EXCEPT ![m] = "waiting"]
    /\ IF d_state # "READY" \/ ~flow
       THEN /\ pending' = Append(pending, m)
            /\ WriteNothing
            /\ UNCHANGED <<store, deliveryCounter>>
       ELSE /\ ReadyToPublish(<<m>>)
            /\ WriteOnly(Publishes(<<m>>))
            /\ UNCHANGED pending
    /\ UNCHANGED <<conn, permanentlyClosing, removed, transformer, retryArmed,
                   hungArmed, toClient, bState, faults, flow, basicReturn,
                   returned, brokerVars>>

-----------------------------------------------------------------------------
(* Reset                                                                   *)

(* The messages of d_messageStore, oldest tag first.                       *)
StoredMsgs == [i \in 1..Len(store) |-> store[i].msg]

(* processFailures, then onReset; and two variants: one forgets what was   *)
(* not confirmed, the other goes on counting.                              *)
ResetMessagesForgetting ==
    /\ store' = <<>>
    /\ returned' = {}
    /\ deliveryCounter' = 1
    /\ basicReturn' = FALSE
    /\ UNCHANGED <<pending, flow, response>>

ResetMessagesCountingOn ==
    /\ pending' = pending \o StoredMsgs
    /\ store' = <<>>
    /\ returned' = {}
    /\ basicReturn' = FALSE
    /\ UNCHANGED <<flow, response, deliveryCounter>>

ResetMessages ==
    /\ pending' = pending \o StoredMsgs
    /\ store' = <<>>
    /\ returned' = {}
    /\ deliveryCounter' = 1
    /\ basicReturn' = FALSE
    /\ UNCHANGED <<flow, response>>

(* Channel::reset(startRetry)                                              *)
Reset(startRetry) ==
    /\ d_state' = "CLOSED"
    /\ ResetMessages
    /\ retryArmed' = (startRetry \/ retryArmed)

(* Connection::socketShutdown: ChannelMap::resetAll, and the socket goes   *)
(* with everything that was on it.                                         *)
SocketShutdown ==
    /\ Reset(FALSE)
    /\ removed' = permanentlyClosing
    /\ conn' = "DOWN"
    /\ writeCbs' = 0
    /\ toBroker' = <<>>
    /\ toClient' = <<>>
    /\ bState' = "closed"
    /\ bUnconfirmed' = {}
    /\ bReturned' = {}
    /\ bTag' = 0
    /\ bFlow' = TRUE
    /\ UNCHANGED <<permanentlyClosing, transformer, verdicts>>

(* The socket fails under the connection: a fault.                         *)
SocketFails ==
    /\ ~removed
    /\ conn \in {"HANDSHAKE", "UP"}
    /\ faults < MaxFaults
    /\ faults' = faults + 1
    /\ SocketShutdown
    /\ UNCHANGED hungArmed

(* A connection that was given up loses its socket.                        *)
SocketCloses ==
    /\ ~removed
    /\ conn = "CLOSING"
    /\ SocketShutdown
    /\ UNCHANGED <<hungArmed, faults>>

(* Connection::retry: the resolver has a new socket, the handshake begins. *)
SocketConnects ==
    /\ ~removed
    /\ conn = "DOWN"
    /\ conn' = "HANDSHAKE"
    /\ UNCHANGED <<d_state, permanentlyClosing, removed, transformer,
                   retryArmed, hungArmed, writeCbs, toBroker, toClient, bState,
                   faults, sendVars, brokerVars>>

(* Connection.OpenOk: ChannelMap::openAll                                  *)
ConnectionOpenOk ==
    /\ ~removed
    /\ conn = "HANDSHAKE"
    /\ conn' = "UP"
    /\ Open
    /\ UNCHANGED <<permanentlyClosing, removed, transformer, retryArmed,
                   toClient, bState, faults, sendVars, brokerVars>>

(* The channel's RetryHandler: Channel::retry                              *)
RetryFires ==
    /\ ~removed
    /\ retryArmed
    /\ retryArmed' = FALSE
    /\ Open
    /\ UNCHANGED <<conn, permanentlyClosing, removed, transformer, toClient,
                   bState, faults, sendVars, brokerVars>>

(* Channel::channelHung, then Connection::closeSocket: a fault, since it   *)
(* means that the broker has not answered for a minute.                    *)
HungFires ==
    /\ ~removed
    /\ hungArmed
    /\ faults < MaxFaults
    /\ faults' = faults + 1
    /\ hungArmed' = FALSE
    /\ IF conn = "DOWN"
       THEN SocketShutdown
       ELSE /\ conn' = "CLOSING"
            /\ UNCHANGED <<d_state, permanentlyClosing, removed, transformer,
                           retryArmed, writeCbs, toBroker, toClient, bState,
                           sendVars, brokerVars>>

(* Channel::onWriteComplete                                                *)
WriteComplete ==
    /\ ~removed
    /\ writeCbs > 0
    /\ writeCbs' = writeCbs - 1
    /\ IF d_state = "CLOSED"
       THEN Reset(~permanentlyClosing)
       ELSE UNCHANGED <<d_state, retryArmed, sendVars>>
    /\ UNCHANGED <<conn, permanentlyClosing, removed, transformer, hungArmed,
                   toBroker, toClient, bState, faults, brokerVars>>

(* Channel::gracefulClose, posted by ~ProducerImpl                         *)
GracefulClose ==
    /\ ~removed
    /\ ~permanentlyClosing
    /\ permanentlyClosing' = TRUE
    /\ IF d_state \in {"CLOSED", "CHANNEL_CLOSE_SENT"}
       THEN WriteNothing
       ELSE Close
    /\ UNCHANGED <<conn, removed, transformer, retryArmed, hungArmed, toClient,
                   bState, faults, sendVars, brokerVars>>

-----------------------------------------------------------------------------
(* Frames from the broker                                                  *)

RecvOpenOk ==
    /\ ReceiveOpenOk(Control("confirmSelect"), FALSE)
    /\ UNCHANGED <<sendVars, brokerVars>>

RecvDeclareOk ==
    /\ ReceiveDeclareOk(Control("confirmSelect"), FALSE)
    /\ UNCHANGED <<sendVars, brokerVars>>

RecvClose ==
    /\ ReceiveClose
    /\ UNCHANGED <<sendVars, brokerVars>>

RecvWhenClosed ==
    /\ DropFrame
    /\ UNCHANGED <<sendVars, brokerVars>>

(* ChannelCloseOk, expected or not                                         *)
RecvCloseOk ==
    /\ Receive("closeOk")
    /\ IF permanentlyClosing
       THEN removed' = TRUE /\ UNCHANGED <<d_state, retryArmed, sendVars>>
       ELSE Reset(TRUE) /\ UNCHANGED removed
    /\ UNCHANGED <<permanentlyClosing, transformer, hungArmed, writeCbs,
                   toBroker, brokerVars>>

(* ConfirmSelectOk, in whatever state: ready, then publishPendingMessages  *)
RecvConfirmSelectOk ==
    /\ Receive("confirmSelectOk")
    /\ d_state' = "READY"
    /\ hungArmed' = FALSE
    /\ ReadyToPublish(pending)
    /\ pending' = <<>>
    /\ toBroker' = Sent(Publishes(pending))
    /\ UNCHANGED <<permanentlyClosing, removed, transformer, retryArmed,
                   writeCbs, flow, basicReturn, returned, response, brokerVars>>

(* ChannelFlow(true) and ChannelFlow(false)                                *)
RecvFlowOn ==
    /\ Receive("flowOn")
    /\ flow' = TRUE
    /\ IF d_state = "READY"
       THEN /\ ReadyToPublish(pending)
            /\ pending' = <<>>
            /\ WriteOnly(Append(Publishes(pending), Control("flowOk")))
       ELSE /\ WriteOnly(<<Control("flowOk")>>)
            /\ UNCHANGED <<store, deliveryCounter, pending>>
    /\ UNCHANGED <<permanentlyClosing, removed, transformer, retryArmed,
                   hungArmed, basicReturn, returned, response, brokerVars>>

RecvFlowOff ==
    /\ Receive("flowOff")
    /\ flow' = FALSE
    /\ WriteOnly(<<Control("flowOk")>>)
    /\ UNCHANGED <<permanentlyClosing, removed, transformer, retryArmed,
                   hungArmed, pending, store, deliveryCounter, basicReturn,
                   returned, response, brokerVars>>

(* callbackMessages for the entries es: a returned tag overrides the       *)
(* verdict and is forgotten.  The variant forgets every returned tag.      *)
CallbackForgettingReturns(es, verdict) ==
    /\ response' = [m \in Msgs |->
                      IF \E e \in es : e.msg = m
                      THEN IF \E e \in es : e.msg = m /\ e.tag \in returned
                           THEN "RETURN" ELSE verdict
                      ELSE response[m]]
    /\ returned' = {}

Callback(es, verdict) ==
    /\ response' = [m \in Msgs |->
                      IF \E e \in es : e.msg = m
                      THEN IF \E e \in es : e.msg = m /\ e.tag \in returned
                           THEN "RETURN" ELSE verdict
                      ELSE response[m]]
    /\ returned' = returned \ {e.tag : e \in es}

(* processAckNack: MessageStore::removeUntil when multiple, else           *)
(* MessageStore::remove; a tag that is not in the store is ignored.        *)
ProcessAckNack(multiple, tag, verdict) ==
    \/ /\ \A i \in 1..Len(store) : store[i].tag # tag
       /\ UNCHANGED <<store, response, returned>>
    \/ \E i \in 1..Len(store) :
          /\ store[i].tag = tag
          /\ store' = (IF multiple THEN <<>> ELSE SubSeq(store, 1, i - 1))
                        \o SubSeq(store, i + 1, Len(store))
          /\ Callback({store[j] : j \in (IF multiple THEN 1 ELSE i)..i}, verdict)

RecvConfirm(kind, verdict) ==
    /\ Receive(kind)
    /\ ProcessAckNack(Head(toClient).multiple, Head(toClient).tag, verdict)
    /\ WriteNothing
    /\ UNCHANGED <<permanentlyClosing, removed, transformer, retryArmed,
                   hungArmed, flow, pending, deliveryCounter, basicReturn,
                   brokerVars>>

RecvAck == RecvConfirm("ack", "ACK")

RecvNackAsAck == RecvConfirm("nack", "ACK")

RecvNack == RecvConfirm("nack", "REJECT")

(* BasicReturn: its content is expected next.                              *)
RecvReturn ==
    /\ Receive("return")
    /\ basicReturn' = TRUE
    /\ IF basicReturn THEN Close ELSE WriteNothing
    /\ UNCHANGED <<permanentlyClosing, removed, transformer, retryArmed,
                   hungArmed, flow, pending, store, deliveryCounter, returned,
                   response, brokerVars>>

(* processMessage: the content of a BasicReturn, found by its guid         *)
RecvContent ==
    LET tags == {store[i].tag : i \in
                   {j \in 1..Len(store) : store[j].msg = Head(toClient).msg}}
    IN
    /\ Receive("content")
    /\ IF basicReturn /\ tags # {}
       THEN /\ returned' = returned \cup tags
            /\ basicReturn' = FALSE
            /\ WriteNothing
       ELSE Close /\ UNCHANGED <<returned, basicReturn>>
    /\ UNCHANGED <<permanentlyClosing, removed, transformer, retryArmed,
                   hungArmed, flow, pending, store, deliveryCounter, response,
                   brokerVars>>

-----------------------------------------------------------------------------
(* The broker's end of the channel (external).  A frame it cannot accept   *)
(* makes it close the connection; a channel it is closing only looks for   *)
(* Close and CloseOk.                                                      *)

clientVars == <<d_state, permanentlyClosing, removed, transformer, retryArmed,
                hungArmed, writeCbs, sendVars>>

BrokerTakes(kind) ==
    /\ ~removed
    /\ conn = "UP"
    /\ toBroker # <<>>
    /\ Head(toBroker).kind = kind
    /\ toBroker' = Tail(toBroker)
    /\ UNCHANGED <<conn, faults, clientVars>>

BrokerSends(frames) == toClient' = toClient \o frames

BrokerOpen ==
    /\ BrokerTakes("open")
    /\ bState = "closed"
    /\ bState' = "open"
    /\ bTag' = 0
    /\ bFlow' = TRUE
    /\ BrokerSends(<<Control("openOk")>>)
    /\ UNCHANGED <<bUnconfirmed, bReturned, verdicts>>

BrokerDeclare ==
    /\ BrokerTakes("declare")
    /\ bState \in {"open", "confirm"}
    /\ BrokerSends(<<Control("declareOk")>>)
    /\ UNCHANGED <<bState, brokerVars>>

BrokerConfirmSelect ==
    /\ BrokerTakes("confirmSelect")
    /\ bState \in {"open", "confirm"}
    /\ bState' = "confirm"
    /\ BrokerSends(<<Control("confirmSelectOk")>>)
    /\ UNCHANGED brokerVars

BrokerPublish ==
    /\ BrokerTakes("publish")
    /\ bState \in {"open", "confirm"}
    /\ IF bState = "confirm"
       THEN /\ bTag' = bTag + 1
            /\ bUnconfirmed' = bUnconfirmed
                                 \cup {Entry(bTag + 1, Head(toBroker).msg)}
       ELSE UNCHANGED <<bTag, bUnconfirmed>>
    /\ UNCHANGED <<bState, bReturned, bFlow, verdicts, toClient>>

BrokerClosedByClient ==
    /\ BrokerTakes("close")
    /\ bState # "closed"
    /\ bState' = IF bState = "closing" THEN "closing" ELSE "closed"
    /\ bUnconfirmed' = {}
    /\ bReturned' = {}
    /\ BrokerSends(<<Control("closeOk")>>)
    /\ UNCHANGED <<bTag, bFlow, verdicts>>

BrokerCloseOk ==
    /\ BrokerTakes("closeOk")
    /\ bState = "closing"
    /\ bState' = "closed"
    /\ UNCHANGED <<toClient, brokerVars>>

BrokerFlowOk ==
    /\ BrokerTakes("flowOk")
    /\ bState \in {"open", "confirm"}
    /\ UNCHANGED <<toClient, bState, brokerVars>>

(* A closing channel discards what is neither Close nor CloseOk.           *)
BrokerDiscards ==
    /\ bState = "closing"
    /\ \E kind \in {"open", "declare", "confirmSelect", "publish", "flowOk"} :
          BrokerTakes(kind)
    /\ UNCHANGED <<toClient, bState, brokerVars>>

(* A frame before the end of the handshake, a second Open, or a frame for  *)
(* a channel that is not open: a connection exception.                     *)
BrokerException ==
    /\ ~removed
    /\ conn \in {"HANDSHAKE", "UP"}
    /\ toBroker # <<>>
    /\ \/ conn = "HANDSHAKE"
       \/ Head(toBroker).kind = "open" /\ bState \in {"open", "confirm"}
       \/ Head(toBroker).kind # "open" /\ bState = "closed"
       \/ Head(toBroker).kind = "closeOk" /\ bState # "closing"
    /\ conn' = "CLOSING"
    /\ toBroker' = <<>>
    /\ UNCHANGED <<toClient, bState, faults, clientVars, brokerVars>>

(* Basic.Ack or Basic.Nack for one publish, or for all up to it.           *)
BrokerConfirms(kind, multiple, last) ==
    LET confirmed == {e \in bUnconfirmed :
                        IF multiple THEN e.tag <= last.tag ELSE e = last}
    IN
    /\ ~removed
    /\ conn = "UP"
    /\ bState = "confirm"
    /\ last \in bUnconfirmed
    /\ bUnconfirmed' = bUnconfirmed \ confirmed
    /\ bReturned' = bReturned \ {e.tag : e \in confirmed}
    /\ verdicts' = verdicts
         \cup {<<e.msg, IF kind = "ack" THEN "ACK" ELSE "REJECT">> : e \in confirmed}
    /\ BrokerSends(<<Frame(kind, last.msg, last.tag, multiple)>>)
    /\ UNCHANGED <<conn, toBroker, bState, faults, bTag, bFlow, clientVars>>

(* Basic.Return and its content, before the publish is acknowledged        *)
BrokerReturns(e) ==
    /\ ~removed
    /\ conn = "UP"
    /\ bState = "confirm"
    /\ e \in bUnconfirmed
    /\ e.tag \notin bReturned
    /\ bReturned' = bReturned \cup {e.tag}
    /\ verdicts' = verdicts \cup {<<e.msg, "RETURN">>}
    /\ BrokerSends(<<Control("return"), Frame("content", e.msg, e.tag, FALSE)>>)
    /\ UNCHANGED <<conn, toBroker, bState, faults, bTag, bUnconfirmed, bFlow,
                   clientVars>>

(* Channel.Flow(false), a fault in that it holds the channel up, and       *)
(* Channel.Flow(true).  A channel starts with flow on.                     *)
BrokerFlowOff ==
    /\ BrokerUsesFlow
    /\ ~removed
    /\ conn = "UP"
    /\ bState = "confirm"
    /\ bFlow
    /\ bFlow' = FALSE
    /\ faults < MaxFaults
    /\ faults' = faults + 1
    /\ BrokerSends(<<Control("flowOff")>>)
    /\ UNCHANGED <<conn, toBroker, bState, bTag, bUnconfirmed, bReturned,
                   verdicts, clientVars>>

BrokerFlowOn ==
    /\ ~removed
    /\ conn = "UP"
    /\ bState = "confirm"
    /\ ~bFlow
    /\ bFlow' = TRUE
    /\ BrokerSends(<<Control("flowOn")>>)
    /\ UNCHANGED <<conn, toBroker, bState, faults, bTag, bUnconfirmed,
                   bReturned, verdicts, clientVars>>

(* Channel.Close from the broker (say, a failed declaration): a fault      *)
BrokerClosesChannel ==
    /\ ~removed
    /\ conn = "UP"
    /\ bState \in {"open", "confirm"}
    /\ faults < MaxFaults
    /\ faults' = faults + 1
    /\ bState' = "closing"
    /\ bUnconfirmed' = {}
    /\ bReturned' = {}
    /\ BrokerSends(<<Control("close")>>)
    /\ UNCHANGED <<conn, toBroker, bTag, bFlow, verdicts, clientVars>>

-----------------------------------------------------------------------------
ClientNext ==
    \/ \E m \in Msgs : PublishMessage(m)
    \/ GracefulClose \/ WriteComplete \/ RetryFires \/ HungFires
    \/ RecvOpenOk \/ RecvDeclareOk \/ RecvConfirmSelectOk
    \/ RecvClose \/ RecvCloseOk \/ RecvWhenClosed
    \/ RecvFlowOn \/ RecvFlowOff
    \/ RecvAck \/ RecvNack \/ RecvReturn \/ RecvContent

ConnectionNext ==
    SocketFails \/ SocketCloses \/ SocketConnects \/ ConnectionOpenOk

BrokerNext ==
    \/ BrokerOpen \/ BrokerDeclare \/ BrokerConfirmSelect \/ BrokerPublish
    \/ BrokerClosedByClient \/ BrokerCloseOk \/ BrokerFlowOk
    \/ BrokerDiscards \/ BrokerException \/ BrokerClosesChannel
    \/ \E kind \in {"ack", "nack"}, multiple \in BOOLEAN, e \in bUnconfirmed :
          BrokerConfirms(kind, multiple, e)
    \/ \E e \in bUnconfirmed : BrokerReturns(e)
    \/ BrokerFlowOff \/ BrokerFlowOn

Next == ClientNext \/ ConnectionNext \/ BrokerNext

Spec == Init /\ [][Next]_vars

(* Fairness.  The event loop runs every handler it is given, armed timers  *)
(* expire, and the connection is retried for ever.  The broker answers,    *)
(* confirms, and ends a suspension of flow.  Faults, returns and the       *)
(* application's calls are under no obligation.                            *)
Fairness ==
    /\ WF_vars(WriteComplete)
    /\ WF_vars(RetryFires)
    /\ WF_vars(RecvOpenOk \/ RecvDeclareOk \/ RecvConfirmSelectOk
                 \/ RecvClose \/ RecvCloseOk \/ RecvWhenClosed \/ RecvFlowOn
                 \/ RecvFlowOff \/ RecvAck \/ RecvNack \/ RecvReturn
                 \/ RecvContent)
    /\ WF_vars(SocketCloses \/ SocketConnects \/ ConnectionOpenOk)
    /\ WF_vars(BrokerOpen \/ BrokerDeclare \/ BrokerConfirmSelect
                 \/ BrokerPublish \/ BrokerClosedByClient \/ BrokerCloseOk
                 \/ BrokerFlowOk \/ BrokerDiscards \/ BrokerException)
    /\ WF_vars(BrokerFlowOn)
    /\ WF_vars(\E kind \in {"ack", "nack"}, multiple \in BOOLEAN,
                  e \in bUnconfirmed : BrokerConfirms(kind, multiple, e))

FairSpec == Spec /\ Fairness

-----------------------------------------------------------------------------
(* Properties                                                              *)

ClientControls == {"open", "declare", "confirmSelect", "close", "closeOk", "flowOk"}
BrokerControls == {"openOk", "declareOk", "confirmSelectOk", "return", "flowOn",
                   "flowOff", "close", "closeOk"}
FramesOf(kinds, msgs) ==
    [kind : kinds, msg : msgs, tag : Nat, multiple : BOOLEAN]
ClientFrames == FramesOf(ClientControls, {NoMsg}) \cup FramesOf({"publish"}, Msgs)
BrokerFrames == FramesOf(BrokerControls, {NoMsg})
                  \cup FramesOf({"ack", "nack", "content"}, Msgs)
Entries == [tag : Nat, msg : Msgs]

(* Every variable of the channel, the wires and the broker has its type.   *)
TypeOK ==
    /\ ChannelTypeOK
    /\ toBroker \in Seq(ClientFrames)
    /\ toClient \in Seq(BrokerFrames)
    /\ flow \in BOOLEAN
    /\ pending \in Seq(Msgs)
    /\ store \in Seq(Entries)
    /\ deliveryCounter \in Nat \ {0}
    /\ basicReturn \in BOOLEAN
    /\ returned \in SUBSET Nat
    /\ response \in [Msgs -> Responses]
    /\ bTag \in Nat
    /\ bUnconfirmed \in SUBSET Entries
    /\ bReturned \in SUBSET Nat
    /\ bFlow \in BOOLEAN
    /\ verdicts \in SUBSET (Msgs \X Verdicts)

(* A message handed to publishMessage is, until its callback, in exactly   *)
(* one place of d_pendingMessages or d_messageStore, and in none before or *)
(* after: resets, reopenings and reconnections neither lose nor duplicate  *)
(* it.                                                                     *)
NoSilentDrop ==
    /\ \A m \in Msgs : response[m] = "waiting"
          <=> Contains(pending, m) \/ Contains(StoredMsgs, m)
    /\ \A m \in Msgs : ~(Contains(pending, m) /\ Contains(StoredMsgs, m))
    /\ IsInjective(pending)
    /\ IsInjective(StoredMsgs)

(* The tags of d_messageStore increase, and d_deliveryCounter is beyond    *)
(* all of them: MessageStore::insert never meets a tag it already holds,   *)
(* so readyToPublishMsg never writes a message it does not keep.           *)
StoreOrdered ==
    /\ \A i, j \in 1..Len(store) : i < j => store[i].tag < store[j].tag
    /\ \A i \in 1..Len(store) : store[i].tag < deliveryCounter

(* A tag means the same message at both ends, however many times the       *)
(* channel has been reset: the broker's count for a publish, and the tag   *)
(* of any confirm on its way, never hits another message in the store.     *)
TagsAgree ==
    LET confirms == {e \in ToSet(toClient) : e.kind \in {"ack", "nack"}} IN
    \A e \in bUnconfirmed \cup confirms :
       \A i \in 1..Len(store) : store[i].tag = e.tag => store[i].msg = e.msg

(* A message the broker returned as unroutable on this channel, and whose  *)
(* return has been handled, is never reported as safely confirmed.         *)
ReturnNotLost ==
    \A i \in 1..Len(store) :
       (store[i].tag \in bReturned /\ toClient = <<>> /\ bState = "confirm")
          => store[i].tag \in returned

(* The confirm callback is called at most once per message, and its        *)
(* verdict is never taken back.                                            *)
ResponseFinal ==
    [][\A m \in Msgs : response[m] \in Verdicts
          => response'[m] = response[m]]_vars

(* Once gracefulClose has been called on a CLOSED channel, neither a late  *)
(* retry timer, nor a reconnection, nor a stray frame opens it again.      *)
NeverReopens ==
    [][permanentlyClosing /\ d_state = "CLOSED" => d_state' = "CLOSED"]_vars

(* Every accepted message is eventually confirmed, unless the producer is  *)
(* destroyed first or the channel takes its flow to be off for ever:       *)
(* unconfirmed messages survive every loss of the channel or of the        *)
(* connection and are sent again.                                          *)
EventuallyConfirmed ==
    \A m \in Msgs :
       response[m] = "waiting" ~>
          (response[m] # "waiting" \/ permanentlyClosing \/ []~flow)

Promise == INSTANCE Publisher

(* SendChannel, with its channel, its connection and its retries, does     *)
(* what Publisher promises: messages are published again only while their  *)
(* callback is outstanding, and callbacks repeat verdicts of the broker.   *)
ImplementsPublisher == Promise!Spec

=============================================================================
