------------------------- MODULE SendChannelProofs -------------------------
(***************************************************************************)
(* Safety of SendChannel for any set of messages and any number of faults. *)
(***************************************************************************)
EXTENDS SendChannel, SeqFacts

(* The initial states have the types.                                      *)
LEMMA InitTypeOK == Init => TypeOK
<1> SUFFICES ASSUME Init PROVE TypeOK
  OBVIOUS
<1>1. faults \in 0..MaxFaults /\ writeCbs \in Nat
  BY ChannelAssumption DEF Init, ChannelInit
<1>2. ChannelTypeOK
  BY <1>1, Zenon DEF Init, ChannelInit, ChannelTypeOK, ConnStates, ChannelStates,
                     BrokerChannelStates
<1>3. /\ toBroker \in Seq(ClientFrames)
      /\ toClient \in Seq(BrokerFrames)
      /\ pending \in Seq(Msgs)
      /\ store \in Seq(Entries)
      /\ deliveryCounter \in Nat \ {0}
      /\ bTag \in Nat
  BY DEF Init, ChannelInit
<1>4. response \in [Msgs -> Responses]
  BY DEF Init, Responses
<1> QED
  BY <1>2, <1>3, <1>4, Zenon DEF Init, TypeOK

(* What a control frame is.                                                *)
LEMMA ControlType ==
    /\ \A k \in ClientControls : Control(k) \in ClientFrames
    /\ \A k \in BrokerControls : Control(k) \in BrokerFrames
  BY DEF Control, Frame, FramesOf, ClientFrames, BrokerFrames

(* What Connection::handleAsyncChannelSend leaves on the wire, and the     *)
(* completions it owes, have their types.                                  *)
LEMMA SentType ==
    ASSUME TypeOK, NEW fs \in Seq(ClientFrames)
    PROVE  /\ Sent(fs) \in Seq(ClientFrames)
           /\ Completions(Len(fs)) \in Nat
  BY DEF Sent, Completions, TypeOK, ChannelTypeOK

(* readyToPublishMsg stores entries, writes publish frames and counts up.  *)
LEMMA PublishTypes ==
    ASSUME TypeOK, NEW ms \in Seq(Msgs)
    PROVE  /\ Stored(ms) \in Seq(Entries)
           /\ Publishes(ms) \in Seq(ClientFrames)
           /\ deliveryCounter + Len(ms) \in Nat \ {0}
  BY DEF Stored, Publishes, Entry, Entries, Frame, FramesOf, ClientFrames, TypeOK

(* Channel::writeMessage of one method keeps the types of what it assigns. *)
LEMMA WriteAndMoveType ==
    ASSUME TypeOK, NEW k \in ClientControls, NEW s \in ChannelStates,
           WriteAndMove(<<Control(k)>>, s)
    PROVE  /\ d_state' \in ChannelStates
           /\ toBroker' \in Seq(ClientFrames)
           /\ writeCbs' \in Nat
<1> DEFINE fs == <<Control(k)>>
<1>1. fs \in Seq(ClientFrames)
  BY ControlType
<1>2. WriteAndMove(fs, s)
  OBVIOUS
<1> HIDE DEF fs
<1> QED
  BY <1>1, <1>2, SentType DEF WriteAndMove

(* Channel::open keeps the types of what it assigns.                       *)
LEMMA OpenType ==
    ASSUME TypeOK, Open
    PROVE  /\ d_state' \in ChannelStates
           /\ toBroker' \in Seq(ClientFrames)
           /\ writeCbs' \in Nat
           /\ hungArmed' \in BOOLEAN
<1>1. CASE permanentlyClosing
  BY <1>1, Zenon DEF Open, WriteNothing, TypeOK, ChannelTypeOK
<1>2. CASE ~permanentlyClosing
  <2>1. WriteAndMove(<<Control("open")>>, "CHANNEL_OPEN_SENT") /\ hungArmed' = TRUE
    BY <1>2, Zenon DEF Open
  <2>2. "open" \in ClientControls /\ "CHANNEL_OPEN_SENT" \in ChannelStates
    BY Zenon DEF ClientControls, ChannelStates
  <2> QED
    BY <2>1, <2>2, WriteAndMoveType, Zenon
<1> QED
  BY <1>1, <1>2

(* Channel::close keeps the types of what it assigns.                      *)
LEMMA CloseType ==
    ASSUME TypeOK, Close
    PROVE  /\ d_state' \in ChannelStates
           /\ toBroker' \in Seq(ClientFrames)
           /\ writeCbs' \in Nat
<1>1. "close" \in ClientControls /\ "CHANNEL_CLOSE_SENT" \in ChannelStates
  BY Zenon DEF ClientControls, ChannelStates
<1> QED
  BY <1>1, WriteAndMoveType, Zenon DEF Close

(* Two calls of Channel::close in one handler keep the types as well.      *)
LEMMA CloseTwiceType ==
    ASSUME TypeOK, CloseTwice
    PROVE  /\ d_state' \in ChannelStates
           /\ toBroker' \in Seq(ClientFrames)
           /\ writeCbs' \in Nat
<1> DEFINE fs == <<Control("close"), Control("close")>>
<1>1. "close" \in ClientControls /\ "CHANNEL_CLOSE_SENT" \in ChannelStates
  BY Zenon DEF ClientControls, ChannelStates
<1>2. fs \in Seq(ClientFrames) /\ Len(fs) \in Nat
  BY <1>1, ControlType, PairIsSeq
<1>3. WriteAndMove(fs, "CHANNEL_CLOSE_SENT")
  BY DEF CloseTwice
<1> HIDE DEF fs
<1>4. toBroker' \in Seq(ClientFrames)
  BY <1>2, <1>3, SentType, Zenon DEF WriteAndMove
<1>5. d_state' = "CHANNEL_CLOSE_SENT" /\ writeCbs' = Completions(Len(fs)) /\ writeCbs \in Nat
  BY <1>3, Zenon DEF WriteAndMove, TypeOK, ChannelTypeOK
<1>6. writeCbs' \in Nat
  BY <1>2, <1>5 DEF Completions
<1> QED
  BY <1>1, <1>4, <1>5, <1>6, Zenon

(* An entry of d_messageStore has a tag and a message.                     *)
LEMMA StoreType ==
    ASSUME TypeOK
    PROVE  /\ Len(store) \in Nat
           /\ \A i \in 1..Len(store) : store[i].msg \in Msgs /\ store[i].tag \in Nat
<1>1. \A i \in 1..Len(store) : store[i] \in Entries
  BY DEF TypeOK
<1> QED
  BY <1>1 DEF TypeOK, Entries

(* The messages of d_messageStore form a sequence as long as the store.    *)
LEMMA StoredMsgsType ==
    ASSUME TypeOK
    PROVE  StoredMsgs \in Seq(Msgs) /\ Len(StoredMsgs) = Len(store)
  BY StoreType, IsASeq DEF StoredMsgs

(* Channel::reset, with SendChannel::processFailures, keeps the types.     *)
LEMMA ResetType ==
    ASSUME TypeOK, NEW b \in BOOLEAN, Reset(b)
    PROVE  /\ d_state' \in ChannelStates
           /\ retryArmed' \in BOOLEAN
           /\ flow' \in BOOLEAN
           /\ pending' \in Seq(Msgs)
           /\ store' \in Seq(Entries)
           /\ deliveryCounter' \in Nat \ {0}
           /\ basicReturn' \in BOOLEAN
           /\ returned' \in SUBSET Nat
           /\ response' \in [Msgs -> Responses]
<1>1. pending \in Seq(Msgs) /\ StoredMsgs \in Seq(Msgs)
  BY StoredMsgsType DEF TypeOK
<1>2. pending' \in Seq(Msgs)
  BY <1>1, ConcatProperties, Zenon DEF Reset, ResetMessages
<1>3. store' \in Seq(Entries) /\ deliveryCounter' \in Nat \ {0}
  BY DEF Reset, ResetMessages
<1> QED
  BY <1>2, <1>3, Zenon DEF TypeOK, Reset, ResetMessages, ChannelStates, ChannelTypeOK

(* Connection::socketShutdown keeps the types, seen from a channel.        *)
LEMMA SocketShutdownType ==
    ASSUME TypeOK, SocketShutdown, hungArmed' \in BOOLEAN, faults' \in 0..MaxFaults
    PROVE  TypeOK'
<1>1. Reset(FALSE)
  BY DEF SocketShutdown
<1>2. /\ toBroker' \in Seq(ClientFrames)
      /\ toClient' \in Seq(BrokerFrames)
      /\ writeCbs' \in Nat
      /\ bTag' \in Nat
  BY DEF SocketShutdown
<1>3. ChannelTypeOK'
  BY <1>1, <1>2, ResetType, Zenon
     DEF SocketShutdown, TypeOK, ChannelTypeOK, ConnStates, BrokerChannelStates
<1> QED
  BY <1>1, <1>2, <1>3, ResetType, Zenon DEF SocketShutdown, TypeOK

(* Counting a fault of the environment stays within MaxFaults.             *)
LEMMA FaultType ==
    ASSUME TypeOK, faults < MaxFaults, faults' = faults + 1
    PROVE  faults' \in 0..MaxFaults
<1>1. faults \in 0..MaxFaults
  BY DEF TypeOK, ChannelTypeOK
<1> QED
  BY <1>1, ChannelAssumption

(* A frame handed to Channel::processReceived is one a broker sends.       *)
LEMMA ArrivesType ==
    ASSUME TypeOK, Arrives
    PROVE  /\ toClient' \in Seq(BrokerFrames)
           /\ Head(toClient) \in BrokerFrames
<1>1. toClient \in Seq(BrokerFrames)
  BY DEF TypeOK
<1>2. toClient # <<>> /\ toClient' = Tail(toClient)
  BY DEF Arrives
<1> QED
  BY <1>1, <1>2, HeadTailProperties

(* publishPendingMessages keeps the types of the queue, the store and the  *)
(* counter.                                                                *)
LEMMA PublishPendingType ==
    ASSUME TypeOK, ReadyToPublish(pending), pending' = <<>>
    PROVE  /\ store' \in Seq(Entries)
           /\ deliveryCounter' \in Nat \ {0}
           /\ pending' \in Seq(Msgs)
           /\ Publishes(pending) \in Seq(ClientFrames)
<1>1. pending \in Seq(Msgs)
  BY DEF TypeOK
<1>2. pending' \in Seq(Msgs)
  OBVIOUS
<1> QED
  BY <1>1, <1>2, PublishTypes, Zenon DEF ReadyToPublish

(* callbackMessages gives each message a response and keeps a set of       *)
(* returned tags.                                                          *)
LEMMA CallbackType ==
    ASSUME TypeOK, NEW es, NEW v \in Verdicts, Callback(es, v)
    PROVE  /\ response' \in [Msgs -> Responses]
           /\ returned' \in SUBSET Nat
<1>1. \A m \in Msgs : response[m] \in Responses
  BY DEF TypeOK
<1>2. v \in Responses /\ "RETURN" \in Responses
  BY DEF Responses, Verdicts
<1>3. response' \in [Msgs -> Responses]
  BY <1>1, <1>2, Zenon DEF Callback
<1>4. returned' \in SUBSET Nat
  BY Zenon DEF Callback, TypeOK
<1> QED
  BY <1>3, <1>4

(* processAckNack keeps the types of the store and of the responses.       *)
LEMMA AckNackType ==
    ASSUME TypeOK, NEW multiple \in BOOLEAN, NEW tag, NEW v \in Verdicts,
           ProcessAckNack(multiple, tag, v)
    PROVE  /\ store' \in Seq(Entries)
           /\ response' \in [Msgs -> Responses]
           /\ returned' \in SUBSET Nat
<1>1. CASE UNCHANGED <<store, response, returned>>
  BY <1>1, Zenon DEF TypeOK
<1>2. ASSUME NEW i \in 1..Len(store),
             store' = (IF multiple THEN <<>> ELSE SubSeq(store, 1, i - 1))
                        \o SubSeq(store, i + 1, Len(store)),
             Callback({store[j] : j \in (IF multiple THEN 1 ELSE i)..i}, v)
      PROVE  /\ store' \in Seq(Entries)
             /\ response' \in [Msgs -> Responses]
             /\ returned' \in SUBSET Nat
  <2>1. store \in Seq(Entries) /\ Len(store) \in Nat
    BY DEF TypeOK
  <2>2. SubSeq(store, 1, i - 1) \in Seq(Entries)
    BY <2>1, SubSeqProperties
  <2>3. SubSeq(store, i + 1, Len(store)) \in Seq(Entries)
    BY <2>1, SubSeqProperties
  <2>4. (IF multiple THEN <<>> ELSE SubSeq(store, 1, i - 1)) \in Seq(Entries)
    BY <2>2
  <2>5. store' \in Seq(Entries)
    BY <1>2, <2>3, <2>4, ConcatProperties
  <2> QED
    BY <1>2, <2>5, CallbackType, Zenon
<1> QED
  BY <1>1, <1>2, Zenon DEF ProcessAckNack

(* The broker takes a frame a client wrote.                                *)
LEMMA BrokerTakesType ==
    ASSUME TypeOK, NEW k, BrokerTakes(k), bState' \in BrokerChannelStates
    PROVE  /\ toBroker' \in Seq(ClientFrames)
           /\ Head(toBroker) \in ClientFrames
           /\ Head(toBroker).kind = k
           /\ ChannelTypeOK'
<1>1. toBroker \in Seq(ClientFrames)
  BY DEF TypeOK
<1>2. toBroker # <<>> /\ toBroker' = Tail(toBroker) /\ Head(toBroker).kind = k
  BY Zenon DEF BrokerTakes
<1>3. ChannelTypeOK'
  BY Zenon DEF BrokerTakes, clientVars, TypeOK, ChannelTypeOK
<1> QED
  BY <1>1, <1>2, <1>3, HeadTailProperties

(* Frames the broker sends join the frames on their way to the client.     *)
LEMMA BrokerSendsType ==
    ASSUME TypeOK, NEW fs \in Seq(BrokerFrames), BrokerSends(fs)
    PROVE  toClient' \in Seq(BrokerFrames)
<1>1. toClient \in Seq(BrokerFrames)
  BY DEF TypeOK
<1> QED
  BY <1>1, ConcatProperties, Zenon DEF BrokerSends

(* So does a single method frame without content.                          *)
LEMMA BrokerControlType ==
    ASSUME TypeOK, NEW k \in BrokerControls, BrokerSends(<<Control(k)>>)
    PROVE  toClient' \in Seq(BrokerFrames)
<1>1. Control(k) \in BrokerFrames
  BY ControlType
<1>2. <<Control(k)>> \in Seq(BrokerFrames)
  BY <1>1
<1> QED
  BY <1>2, BrokerSendsType, Zenon

(* The broker's steps keep the types; clientVars are not its business.     *)
LEMMA BrokerTypeOK == TypeOK /\ BrokerNext => TypeOK'
<1> SUFFICES ASSUME TypeOK, BrokerNext PROVE TypeOK'
  OBVIOUS
<1>kinds. /\ "openOk" \in BrokerControls /\ "declareOk" \in BrokerControls
          /\ "confirmSelectOk" \in BrokerControls /\ "closeOk" \in BrokerControls
          /\ "close" \in BrokerControls /\ "flowOn" \in BrokerControls
          /\ "flowOff" \in BrokerControls /\ "return" \in BrokerControls
  BY Zenon DEF BrokerControls
<1>open. CASE BrokerOpen
  <2>1. bState' \in BrokerChannelStates /\ bTag' \in Nat
    BY <1>open DEF BrokerOpen, BrokerChannelStates
  <2> QED
    BY <1>open, <1>kinds, <2>1, BrokerTakesType, BrokerControlType, Zenon
       DEF BrokerOpen, BrokerTakes, clientVars, sendVars, TypeOK
<1>declare. CASE BrokerDeclare
  BY <1>declare, <1>kinds, BrokerTakesType, BrokerControlType, Zenon
     DEF BrokerDeclare, BrokerTakes, clientVars, sendVars, brokerVars, TypeOK, ChannelTypeOK
<1>select. CASE BrokerConfirmSelect
  <2>1. bState' \in BrokerChannelStates
    BY <1>select DEF BrokerConfirmSelect, BrokerChannelStates
  <2> QED
    BY <1>select, <1>kinds, <2>1, BrokerTakesType, BrokerControlType, Zenon
       DEF BrokerConfirmSelect, BrokerTakes, clientVars, sendVars, brokerVars, TypeOK
<1>publish. CASE BrokerPublish
  <2>1. bState' \in BrokerChannelStates
    BY <1>publish, Zenon DEF BrokerPublish, TypeOK, ChannelTypeOK
  <2>2. bTag + 1 \in Nat /\ bTag \in Nat
    BY DEF TypeOK
  <2>3. CASE bState = "confirm"
    <3>1. Head(toBroker).msg \in Msgs
      <4>1. Head(toBroker) \in ClientFrames /\ Head(toBroker).kind = "publish"
        BY <1>publish, <2>1, BrokerTakesType, Zenon DEF BrokerPublish
      <4> QED
        BY <4>1 DEF ClientFrames, ClientControls, FramesOf
    <3>2. Entry(bTag + 1, Head(toBroker).msg) \in Entries
      BY <2>2, <3>1 DEF Entry, Entries
    <3> QED
      BY <1>publish, <2>1, <2>2, <2>3, <3>2, BrokerTakesType, Zenon
         DEF BrokerPublish, BrokerTakes, clientVars, sendVars, TypeOK
  <2>4. CASE bState # "confirm"
    BY <1>publish, <2>1, <2>4, BrokerTakesType, Zenon
       DEF BrokerPublish, BrokerTakes, clientVars, sendVars, TypeOK
  <2> QED
    BY <2>3, <2>4
<1>close. CASE BrokerClosedByClient
  <2>1. bState' \in BrokerChannelStates
    BY <1>close DEF BrokerClosedByClient, BrokerChannelStates
  <2> QED
    BY <1>close, <1>kinds, <2>1, BrokerTakesType, BrokerControlType, Zenon
       DEF BrokerClosedByClient, BrokerTakes, clientVars, sendVars, TypeOK
<1>closeOk. CASE BrokerCloseOk
  <2>1. bState' \in BrokerChannelStates
    BY <1>closeOk DEF BrokerCloseOk, BrokerChannelStates
  <2> QED
    BY <1>closeOk, <2>1, BrokerTakesType, Zenon
       DEF BrokerCloseOk, BrokerTakes, clientVars, sendVars, brokerVars, TypeOK
<1>flowOk. CASE BrokerFlowOk
  BY <1>flowOk, BrokerTakesType, Zenon
     DEF BrokerFlowOk, BrokerTakes, clientVars, sendVars, brokerVars, TypeOK, ChannelTypeOK
<1>discards. CASE BrokerDiscards
  <2>1. PICK k : BrokerTakes(k)
    BY <1>discards, Zenon DEF BrokerDiscards
  <2> QED
    BY <1>discards, <2>1, BrokerTakesType, Zenon
       DEF BrokerDiscards, BrokerTakes, clientVars, sendVars, brokerVars, TypeOK,
           ChannelTypeOK
<1>exception. CASE BrokerException
  <2>1. toBroker' \in Seq(ClientFrames)
    BY <1>exception DEF BrokerException
  <2> QED
    BY <1>exception, <2>1, Zenon
       DEF BrokerException, ConnStates, clientVars, sendVars, brokerVars, TypeOK, ChannelTypeOK
<1>closes. CASE BrokerClosesChannel
  <2>1. bState' \in BrokerChannelStates /\ faults' \in 0..MaxFaults
    BY <1>closes, FaultType DEF BrokerClosesChannel, BrokerChannelStates
  <2> QED
    BY <1>closes, <1>kinds, <2>1, BrokerControlType, Zenon
       DEF BrokerClosesChannel, clientVars, sendVars, TypeOK, ChannelTypeOK
<1>flowOff. CASE BrokerFlowOff
  <2>1. faults' \in 0..MaxFaults
    BY <1>flowOff, FaultType DEF BrokerFlowOff
  <2> QED
    BY <1>flowOff, <1>kinds, <2>1, BrokerControlType, Zenon
       DEF BrokerFlowOff, clientVars, sendVars, TypeOK, ChannelTypeOK
<1>flowOn. CASE BrokerFlowOn
  BY <1>flowOn, <1>kinds, BrokerControlType, Zenon
     DEF BrokerFlowOn, clientVars, sendVars, TypeOK, ChannelTypeOK
<1>confirms. ASSUME NEW k \in {"ack", "nack"}, NEW b \in BOOLEAN, NEW e \in bUnconfirmed,
                    BrokerConfirms(k, b, e)
             PROVE  TypeOK'
  <2>1. bUnconfirmed \subseteq Entries
    BY Zenon DEF TypeOK
  <2>2. e.tag \in Nat /\ e.msg \in Msgs
    BY <2>1 DEF Entries
  <2>3. <<Frame(k, e.msg, e.tag, b)>> \in Seq(BrokerFrames)
    BY <2>2 DEF Frame, FramesOf, BrokerFrames
  <2>4. toClient' \in Seq(BrokerFrames)
    BY <1>confirms, <2>3, BrokerSendsType, Zenon DEF BrokerConfirms
  <2>5. \A x \in bUnconfirmed : x.msg \in Msgs
    BY <2>1 DEF Entries
  <2>6. verdicts' \in SUBSET (Msgs \X Verdicts)
    BY <1>confirms, <2>5 DEF BrokerConfirms, TypeOK, Verdicts
  <2>7. bUnconfirmed' \in SUBSET Entries /\ bReturned' \in SUBSET Nat
    BY <1>confirms, <2>1, Zenon DEF BrokerConfirms, TypeOK
  <2> QED
    BY <1>confirms, <2>4, <2>6, <2>7, Zenon
       DEF BrokerConfirms, clientVars, sendVars, TypeOK, ChannelTypeOK
<1>returns. ASSUME NEW e \in bUnconfirmed, BrokerReturns(e) PROVE TypeOK'
  <2>1. e.tag \in Nat /\ e.msg \in Msgs
    <3>1. e \in Entries
      BY Zenon DEF TypeOK
    <3> QED
      BY <3>1 DEF Entries
  <2>2. Frame("content", e.msg, e.tag, FALSE) \in BrokerFrames
    BY <2>1 DEF Frame, FramesOf, BrokerFrames
  <2>3. Control("return") \in BrokerFrames
    BY <1>kinds, ControlType
  <2>4. <<Control("return"), Frame("content", e.msg, e.tag, FALSE)>>
           \in Seq(BrokerFrames)
    BY <2>2, <2>3, PairIsSeq, Zenon
  <2>5. toClient' \in Seq(BrokerFrames)
    BY <1>returns, <2>4, BrokerSendsType, Zenon DEF BrokerReturns
  <2>6. verdicts' \in SUBSET (Msgs \X Verdicts)
    BY <1>returns, <2>1 DEF BrokerReturns, TypeOK, Verdicts
  <2>7. bReturned' \in SUBSET Nat
    BY <1>returns, <2>1 DEF BrokerReturns, TypeOK
  <2> QED
    BY <1>returns, <2>5, <2>6, <2>7, Zenon
       DEF BrokerReturns, clientVars, sendVars, TypeOK, ChannelTypeOK
<1> QED
  BY <1>open, <1>declare, <1>select, <1>publish, <1>close, <1>closeOk, <1>flowOk,
     <1>discards, <1>exception, <1>closes, <1>flowOff, <1>flowOn, <1>confirms,
     <1>returns, Zenon DEF BrokerNext

(* Every step keeps the types: one step of the proof per action.           *)
LEMMA NextTypeOK == TypeOK /\ [Next]_vars => TypeOK'
<1> SUFFICES ASSUME TypeOK, [Next]_vars PROVE TypeOK'
  OBVIOUS
<1>publish. ASSUME NEW m \in Msgs, PublishMessage(m) PROVE TypeOK'
  <2>1. response' \in [Msgs -> Responses]
    BY <1>publish DEF PublishMessage, TypeOK, Responses
  <2>2. CASE d_state # "READY" \/ ~flow
    <3>1. pending' \in Seq(Msgs)
      <4>1. pending' = Append(pending, m)
        BY <1>publish, <2>2, Zenon DEF PublishMessage
      <4>2. pending \in Seq(Msgs)
        BY DEF TypeOK
      <4> QED
        BY <4>1, <4>2, AppendProperties
    <3> QED
      BY <1>publish, <2>1, <2>2, <3>1, Zenon
         DEF PublishMessage, WriteNothing, TypeOK, ChannelTypeOK, brokerVars
  <2>3. CASE ~(d_state # "READY" \/ ~flow)
    <3>1. <<m>> \in Seq(Msgs)
      OBVIOUS
    <3>2. ReadyToPublish(<<m>>) /\ WriteOnly(Publishes(<<m>>))
      BY <1>publish, <2>3, Zenon DEF PublishMessage
    <3>3. /\ store' \in Seq(Entries)
          /\ deliveryCounter' \in Nat \ {0}
          /\ toBroker' \in Seq(ClientFrames)
      BY <3>1, <3>2, PublishTypes, SentType, Zenon DEF ReadyToPublish, WriteOnly
    <3> QED
      BY <1>publish, <2>1, <2>3, <3>2, <3>3, Zenon
         DEF PublishMessage, WriteOnly, TypeOK, ChannelTypeOK, brokerVars
  <2> QED
    BY <2>2, <2>3
<1>close. CASE GracefulClose
  BY <1>close, CloseType, Zenon
     DEF GracefulClose, WriteNothing, TypeOK, ChannelTypeOK, sendVars, brokerVars
<1>written. CASE WriteComplete
  <2>1. writeCbs' \in Nat
    BY <1>written DEF WriteComplete, TypeOK, ChannelTypeOK
  <2>2. CASE d_state = "CLOSED"
    BY <1>written, <2>1, <2>2, ResetType, Zenon
       DEF WriteComplete, TypeOK, ChannelTypeOK, brokerVars
  <2>3. CASE d_state # "CLOSED"
    BY <1>written, <2>1, <2>3, Zenon
       DEF WriteComplete, TypeOK, ChannelTypeOK, sendVars, brokerVars
  <2> QED
    BY <2>2, <2>3
<1>retry. CASE RetryFires
  BY <1>retry, OpenType, Zenon
     DEF RetryFires, TypeOK, ChannelTypeOK, sendVars, brokerVars
<1>hung. CASE HungFires
  <2>1. faults' \in 0..MaxFaults
    BY <1>hung, FaultType DEF HungFires
  <2>2. CASE conn = "DOWN"
    BY <1>hung, <2>1, <2>2, SocketShutdownType, Zenon DEF HungFires
  <2>3. CASE conn # "DOWN"
    BY <1>hung, <2>1, <2>3, Zenon
       DEF HungFires, TypeOK, ChannelTypeOK, ConnStates, sendVars, brokerVars
  <2> QED
    BY <2>2, <2>3
<1>fails. CASE SocketFails
  <2>1. faults' \in 0..MaxFaults
    BY <1>fails, FaultType DEF SocketFails
  <2> QED
    BY <1>fails, <2>1, SocketShutdownType, Zenon DEF SocketFails, TypeOK, ChannelTypeOK
<1>closes. CASE SocketCloses
  BY <1>closes, SocketShutdownType, Zenon DEF SocketCloses, TypeOK, ChannelTypeOK
<1>connects. CASE SocketConnects
  BY <1>connects, Zenon
     DEF SocketConnects, TypeOK, ChannelTypeOK, ConnStates, sendVars, brokerVars
<1>connOpen. CASE ConnectionOpenOk
  BY <1>connOpen, OpenType, Zenon
     DEF ConnectionOpenOk, TypeOK, ChannelTypeOK, ConnStates, sendVars, brokerVars
<1>openOk. CASE RecvOpenOk
  <2>1. Receive("openOk") /\ toClient' \in Seq(BrokerFrames)
    BY <1>openOk, ArrivesType, Zenon DEF RecvOpenOk, ReceiveOpenOk, Receive
  <2>2. /\ "declare" \in ClientControls /\ "confirmSelect" \in ClientControls
        /\ "DECLARING_TOPOLOGY" \in ChannelStates /\ "AWAITING_REPLY" \in ChannelStates
    BY Zenon DEF ClientControls, ChannelStates
  <2>3. /\ d_state' \in ChannelStates
        /\ toBroker' \in Seq(ClientFrames)
        /\ writeCbs' \in Nat
        /\ hungArmed' \in BOOLEAN
        /\ transformer' \in BOOLEAN
    BY <1>openOk, <2>2, CloseType, WriteAndMoveType, Zenon
       DEF RecvOpenOk, ReceiveOpenOk, TypeOK, ChannelTypeOK
  <2> QED
    BY <1>openOk, <2>1, <2>3, Zenon
       DEF RecvOpenOk, ReceiveOpenOk, Receive, TypeOK, ChannelTypeOK, sendVars, brokerVars
<1>declareOk. CASE RecvDeclareOk
  <2>1. Receive("declareOk") /\ toClient' \in Seq(BrokerFrames)
    BY <1>declareOk, ArrivesType, Zenon DEF RecvDeclareOk, ReceiveDeclareOk, Receive
  <2>2. "confirmSelect" \in ClientControls /\ "AWAITING_REPLY" \in ChannelStates
    BY Zenon DEF ClientControls, ChannelStates
  <2>3. /\ d_state' \in ChannelStates
        /\ toBroker' \in Seq(ClientFrames)
        /\ writeCbs' \in Nat
        /\ hungArmed' \in BOOLEAN
        /\ transformer' \in BOOLEAN
    BY <1>declareOk, <2>2, CloseTwiceType, WriteAndMoveType, Zenon
       DEF RecvDeclareOk, ReceiveDeclareOk, WriteNothing, TypeOK, ChannelTypeOK
  <2> QED
    BY <1>declareOk, <2>1, <2>3, Zenon
       DEF RecvDeclareOk, ReceiveDeclareOk, Receive, TypeOK, ChannelTypeOK, sendVars,
           brokerVars
<1>recvClose. CASE RecvClose
  <2>1. Receive("close") /\ toClient' \in Seq(BrokerFrames)
    BY <1>recvClose, ArrivesType, Zenon DEF RecvClose, ReceiveClose, Receive
  <2>2. "closeOk" \in ClientControls /\ "CLOSED" \in ChannelStates
    BY Zenon DEF ClientControls, ChannelStates
  <2>3. /\ d_state' \in ChannelStates
        /\ toBroker' \in Seq(ClientFrames)
        /\ writeCbs' \in Nat
    BY <1>recvClose, <2>2, WriteAndMoveType, Zenon DEF RecvClose, ReceiveClose
  <2> QED
    BY <1>recvClose, <2>1, <2>3, Zenon
       DEF RecvClose, ReceiveClose, Receive, TypeOK, ChannelTypeOK, sendVars, brokerVars
<1>dropped. CASE RecvWhenClosed
  BY <1>dropped, ArrivesType, Zenon
     DEF RecvWhenClosed, DropFrame, TypeOK, ChannelTypeOK, sendVars, brokerVars
<1>closeOk. CASE RecvCloseOk
  <2>1. Receive("closeOk") /\ toClient' \in Seq(BrokerFrames)
    BY <1>closeOk, ArrivesType, Zenon DEF RecvCloseOk, Receive
  <2>2. CASE permanentlyClosing
    BY <1>closeOk, <2>1, <2>2, Zenon
       DEF RecvCloseOk, Receive, TypeOK, ChannelTypeOK, sendVars, brokerVars
  <2>3. CASE ~permanentlyClosing
    BY <1>closeOk, <2>1, <2>3, ResetType, Zenon
       DEF RecvCloseOk, Receive, TypeOK, ChannelTypeOK, brokerVars
  <2> QED
    BY <2>2, <2>3
<1>selectOk. CASE RecvConfirmSelectOk
  <2>1. Receive("confirmSelectOk") /\ toClient' \in Seq(BrokerFrames)
    BY <1>selectOk, ArrivesType, Zenon DEF RecvConfirmSelectOk, Receive
  <2>2. /\ store' \in Seq(Entries)
        /\ deliveryCounter' \in Nat \ {0}
        /\ pending' \in Seq(Msgs)
        /\ toBroker' \in Seq(ClientFrames)
    BY <1>selectOk, PublishPendingType, SentType, Zenon DEF RecvConfirmSelectOk
  <2> QED
    BY <1>selectOk, <2>1, <2>2, Zenon
       DEF RecvConfirmSelectOk, Receive, TypeOK, ChannelTypeOK, ChannelStates, brokerVars
<1>flowOn. CASE RecvFlowOn
  <2>1. Receive("flowOn") /\ toClient' \in Seq(BrokerFrames)
    BY <1>flowOn, ArrivesType, Zenon DEF RecvFlowOn, Receive
  <2>2. Control("flowOk") \in ClientFrames
    BY ControlType DEF ClientControls
  <2>3. CASE d_state = "READY"
    <3>1. ReadyToPublish(pending) /\ pending' = <<>>
      BY <1>flowOn, <2>3, Zenon DEF RecvFlowOn
    <3>2. Append(Publishes(pending), Control("flowOk")) \in Seq(ClientFrames)
      BY <2>2, <3>1, PublishPendingType, AppendProperties, Zenon
    <3>3. toBroker' \in Seq(ClientFrames)
      BY <1>flowOn, <2>3, <3>2, SentType, Zenon DEF RecvFlowOn, WriteOnly
    <3> QED
      BY <1>flowOn, <2>1, <2>3, <3>1, <3>3, PublishPendingType, Zenon
         DEF RecvFlowOn, WriteOnly, Receive, TypeOK, ChannelTypeOK, brokerVars
  <2>4. CASE d_state # "READY"
    <3>1. <<Control("flowOk")>> \in Seq(ClientFrames)
      BY <2>2
    <3>2. toBroker' \in Seq(ClientFrames)
      BY <1>flowOn, <2>4, <3>1, SentType, Zenon DEF RecvFlowOn, WriteOnly
    <3> QED
      BY <1>flowOn, <2>1, <2>4, <3>2, Zenon
         DEF RecvFlowOn, WriteOnly, Receive, TypeOK, ChannelTypeOK, brokerVars
  <2> QED
    BY <2>3, <2>4
<1>flowOff. CASE RecvFlowOff
  <2>1. Receive("flowOff") /\ toClient' \in Seq(BrokerFrames)
    BY <1>flowOff, ArrivesType, Zenon DEF RecvFlowOff, Receive
  <2>2. Control("flowOk") \in ClientFrames
    BY ControlType DEF ClientControls
  <2>3. <<Control("flowOk")>> \in Seq(ClientFrames)
    BY <2>2
  <2>4. toBroker' \in Seq(ClientFrames)
    BY <1>flowOff, <2>3, SentType, Zenon DEF RecvFlowOff, WriteOnly
  <2> QED
    BY <1>flowOff, <2>1, <2>4, Zenon
       DEF RecvFlowOff, WriteOnly, Receive, TypeOK, ChannelTypeOK, brokerVars
<1>confirm. ASSUME NEW k, NEW v \in Verdicts, RecvConfirm(k, v) PROVE TypeOK'
  <2>1. Receive(k) /\ toClient' \in Seq(BrokerFrames)
    BY <1>confirm, ArrivesType, Zenon DEF RecvConfirm, Receive
  <2>2. Head(toClient).multiple \in BOOLEAN
    BY <2>1, ArrivesType DEF Receive, FramesOf, BrokerFrames
  <2>3. /\ store' \in Seq(Entries)
        /\ response' \in [Msgs -> Responses]
        /\ returned' \in SUBSET Nat
    BY <1>confirm, <2>2, AckNackType, Zenon DEF RecvConfirm
  <2> QED
    BY <1>confirm, <2>1, <2>3, Zenon
       DEF RecvConfirm, WriteNothing, Receive, TypeOK, ChannelTypeOK, brokerVars
<1>return. CASE RecvReturn
  <2>1. Receive("return") /\ toClient' \in Seq(BrokerFrames)
    BY <1>return, ArrivesType, Zenon DEF RecvReturn, Receive
  <2> QED
    BY <1>return, <2>1, CloseType, Zenon
       DEF RecvReturn, WriteNothing, Receive, TypeOK, ChannelTypeOK, brokerVars
<1>content. CASE RecvContent
  <2> DEFINE tags == {store[i].tag : i \in
                        {j \in 1..Len(store) : store[j].msg = Head(toClient).msg}}
  <2>1. Receive("content") /\ toClient' \in Seq(BrokerFrames)
    BY <1>content, ArrivesType, Zenon DEF RecvContent, Receive
  <2>2. tags \in SUBSET Nat
    BY StoreType
  <2>3. CASE basicReturn /\ tags # {}
    BY <1>content, <2>1, <2>2, <2>3, Zenon
       DEF RecvContent, WriteNothing, Receive, TypeOK, ChannelTypeOK, brokerVars
  <2>4. CASE ~(basicReturn /\ tags # {})
    BY <1>content, <2>1, <2>4, CloseType, Zenon
       DEF RecvContent, Receive, TypeOK, ChannelTypeOK, brokerVars
  <2> QED
    BY <2>3, <2>4
<1>client. CASE ClientNext
  BY <1>client, <1>publish, <1>close, <1>written, <1>retry, <1>hung, <1>openOk,
     <1>declareOk, <1>recvClose, <1>dropped, <1>closeOk, <1>selectOk, <1>flowOn,
     <1>flowOff, <1>confirm, <1>return, <1>content, Zenon
     DEF ClientNext, RecvAck, RecvNack, Verdicts
<1>connection. CASE ConnectionNext
  BY <1>connection, <1>fails, <1>closes, <1>connects, <1>connOpen, Zenon
     DEF ConnectionNext
<1>broker. CASE BrokerNext
  BY <1>broker, BrokerTypeOK
<1>stutter. CASE UNCHANGED vars
  BY <1>stutter, Zenon
     DEF vars, channelVars, sendVars, brokerVars, TypeOK, ChannelTypeOK
<1> QED
  BY <1>client, <1>connection, <1>broker, <1>stutter DEF Next

(* Every variable keeps its type in every behaviour.                       *)
THEOREM TypeCorrect == Spec => []TypeOK
  BY InitTypeOK, NextTypeOK, PTL DEF Spec

-----------------------------------------------------------------------------
(* NoSilentDrop is inductive given the types.  Only five things move a     *)
(* message: publishMessage to either place, a reset, publishing what is    *)
(* pending, and a confirm.                                                 *)

(* A one-message sequence contains that message and has no duplicates.     *)
LEMMA ContainsSingle ==
    ASSUME NEW m, NEW x
    PROVE  (Contains(<<m>>, x) <=> x = m) /\ IsInjective(<<m>>)
<1> Len(<<m>>) = 1 /\ DOMAIN <<m>> = 1..1 /\ <<m>>[1] = m
  OBVIOUS
<1> QED
  BY DEF Contains, IsInjective

(* readyToPublishMsg for all of ms appends ms to the stored messages.      *)
LEMMA PublishAppends ==
    ASSUME TypeOK, NEW ms \in Seq(Msgs), store' = Stored(ms)
    PROVE  StoredMsgs' = StoredMsgs \o ms
<1> DEFINE new == [k \in 1..Len(ms) |-> Entry(deliveryCounter + k - 1, ms[k])]
<1>1. new \in Seq(Entries) /\ Len(new) = Len(ms)
  BY IsASeq DEF Entry, Entries, TypeOK
<1>2. \A k \in 1..Len(ms) : new[k].msg = ms[k]
  BY DEF Entry
<1>3. store \in Seq(Entries) /\ store' = store \o new
  BY Zenon DEF TypeOK, Stored
<1> HIDE DEF new
<1>4. Projects(StoredMsgs, store, Msgs)
  BY StoredMsgsType DEF StoredMsgs, Projects
<1>5. Projects(ms, new, Msgs)
  BY <1>1, <1>2 DEF Projects
<1>6. Projects(StoredMsgs', store', Msgs)
  <2>1. store' \in Seq(Entries)
    BY <1>1, <1>3, ConcatProperties, Zenon
  <2>2. \A k \in 1..Len(store') : store'[k] \in Entries
    BY <2>1
  <2>3. \A k \in 1..Len(store') : store'[k].msg \in Msgs
    BY <2>2 DEF Entries
  <2> QED
    BY <2>1, <2>3, IsASeq DEF StoredMsgs, Projects
<1>7. IsConcat(store', store, new)
  BY <1>3, Zenon DEF IsConcat
<1>8. IsConcat(StoredMsgs', StoredMsgs, ms)
  BY <1>1, <1>3, <1>4, <1>5, <1>6, <1>7, ProjectConcat
<1> QED
  BY <1>8, Zenon DEF IsConcat

(* publishMessage puts the accepted message in exactly one place.          *)
LEMMA AcceptKeepsMessages ==
    ASSUME TypeOK, NoSilentDrop, NEW m \in Msgs, PublishMessage(m)
    PROVE  NoSilentDrop'
<1>1. /\ pending \in Seq(Msgs) /\ StoredMsgs \in Seq(Msgs)
      /\ response \in [Msgs -> Responses] /\ <<m>> \in Seq(Msgs)
  BY StoredMsgsType DEF TypeOK
<1>2. /\ response[m] = "unsent"
      /\ response' = [response EXCEPT ![m] = "waiting"]
  BY Zenon DEF PublishMessage
<1>3. ~Contains(pending, m) /\ ~Contains(StoredMsgs, m)
  BY <1>2 DEF NoSilentDrop
<1>4. \A n \in Msgs : response'[n] = "waiting" <=> response[n] = "waiting" \/ n = m
  BY <1>1, <1>2
<1>5. CASE pending' = Append(pending, m) /\ store' = store
  <2>1. pending' = pending \o <<m>>
    BY <1>1, <1>5, AppendIsConcat
  <2>2. StoredMsgs' = StoredMsgs
    BY <1>5 DEF StoredMsgs
  <2>3. \A n \in Msgs : Contains(pending', n) <=> Contains(pending, n) \/ n = m
    BY <1>1, <2>1, ConcatContains, ContainsSingle, Zenon
  <2>4. IsInjective(pending')
    <3>1. \A x \in Msgs : ~(Contains(pending, x) /\ Contains(<<m>>, x))
      BY <1>3, ContainsSingle, Zenon
    <3> QED
      BY <1>1, <2>1, <3>1, ConcatInjective, ContainsSingle, Zenon DEF NoSilentDrop
  <2> QED
    BY <1>3, <1>4, <2>2, <2>3, <2>4, Zenon DEF NoSilentDrop
<1>6. CASE pending' = pending /\ store' = Stored(<<m>>)
  <2>1. StoredMsgs' = StoredMsgs \o <<m>>
    BY <1>1, <1>6, PublishAppends, Zenon
  <2>2. \A n \in Msgs : Contains(StoredMsgs', n) <=> Contains(StoredMsgs, n) \/ n = m
    BY <1>1, <2>1, ConcatContains, ContainsSingle, Zenon
  <2>3. IsInjective(StoredMsgs')
    <3>1. \A x \in Msgs : ~(Contains(StoredMsgs, x) /\ Contains(<<m>>, x))
      BY <1>3, ContainsSingle, Zenon
    <3> QED
      BY <1>1, <2>1, <3>1, ConcatInjective, ContainsSingle, Zenon DEF NoSilentDrop
  <2> QED
    BY <1>3, <1>4, <1>6, <2>2, <2>3, Zenon DEF NoSilentDrop
<1> QED
  BY <1>5, <1>6, Zenon DEF PublishMessage, ReadyToPublish

(* processFailures moves every stored message to d_pendingMessages and     *)
(* loses none.                                                             *)
LEMMA ResetKeepsMessages ==
    ASSUME TypeOK, NoSilentDrop, ResetMessages
    PROVE  NoSilentDrop'
<1>1. pending \in Seq(Msgs) /\ StoredMsgs \in Seq(Msgs)
  BY StoredMsgsType DEF TypeOK
<1>2. pending' = pending \o StoredMsgs /\ store' = <<>> /\ response' = response
  BY Zenon DEF ResetMessages
<1>3. StoredMsgs' = <<>>
  BY <1>2 DEF StoredMsgs
<1>4. (\A n \in Msgs : ~Contains(StoredMsgs', n)) /\ IsInjective(StoredMsgs')
  BY <1>3 DEF Contains, IsInjective
<1>5. \A n \in Msgs : Contains(pending', n)
                        <=> Contains(pending, n) \/ Contains(StoredMsgs, n)
  BY <1>1, <1>2, ConcatContains, Zenon
<1>6. IsInjective(pending')
  BY <1>1, <1>2, ConcatInjective, Zenon DEF NoSilentDrop
<1> QED
  BY <1>2, <1>4, <1>5, <1>6, Zenon DEF NoSilentDrop

(* publishPendingMessages moves every pending message to d_messageStore    *)
(* and loses none.                                                         *)
LEMMA PublishPendingKeepsMessages ==
    ASSUME TypeOK, NoSilentDrop, ReadyToPublish(pending), pending' = <<>>,
           response' = response
    PROVE  NoSilentDrop'
<1>1. pending \in Seq(Msgs) /\ StoredMsgs \in Seq(Msgs)
  BY StoredMsgsType DEF TypeOK
<1>2. StoredMsgs' = StoredMsgs \o pending
  BY <1>1, PublishAppends, Zenon DEF ReadyToPublish
<1>3. (\A n \in Msgs : ~Contains(pending', n)) /\ IsInjective(pending')
  BY DEF Contains, IsInjective
<1>4. \A n \in Msgs : Contains(StoredMsgs', n)
                        <=> Contains(pending, n) \/ Contains(StoredMsgs, n)
  BY <1>1, <1>2, ConcatContains, Zenon
<1>5. IsInjective(StoredMsgs')
  BY <1>1, <1>2, ConcatInjective, Zenon DEF NoSilentDrop
<1> QED
  BY <1>3, <1>4, <1>5, Zenon DEF NoSilentDrop

(* processAckNack takes entries lo to i out of the store.                  *)
LEMMA AckNackDrops ==
    ASSUME TypeOK, NEW multiple \in BOOLEAN, NEW i \in 1..Len(store),
           store' = (IF multiple THEN <<>> ELSE SubSeq(store, 1, i - 1))
                      \o SubSeq(store, i + 1, Len(store))
    PROVE  LET lo == IF multiple THEN 1 ELSE i IN
           /\ store' \in Seq(Entries)
           /\ lo \in 1..i
           /\ Drops(store', store, lo, i)
<1> DEFINE one == SubSeq(store, 1, i - 1) \o SubSeq(store, i + 1, Len(store))
           upTo == SubSeq(store, i + 1, Len(store))
<1>1. store \in Seq(Entries) /\ 1 \in 1..i /\ i \in 1..i
  BY DEF TypeOK
<1>2. one \in Seq(Entries) /\ upTo \in Seq(Entries) /\ <<>> \o upTo = upTo
  BY <1>1, RemoveOne, RemoveUpTo
<1>3. Drops(one, store, i, i) /\ Drops(upTo, store, 1, i)
  BY <1>1, RemoveDrops
<1>4. store' = IF multiple THEN <<>> \o upTo ELSE one
  BY Zenon
<1> HIDE DEF one, upTo
<1> QED
  BY <1>1, <1>2, <1>3, <1>4, Zenon

(* A confirm takes a message out of the store exactly when its callback    *)
(* runs.                                                                   *)
LEMMA AckNackKeepsMessages ==
    ASSUME TypeOK, NoSilentDrop, NEW multiple \in BOOLEAN, NEW tag,
           NEW verdict \in Verdicts, ProcessAckNack(multiple, tag, verdict),
           pending' = pending
    PROVE  NoSilentDrop'
<1>1. CASE UNCHANGED <<store, response, returned>>
  BY <1>1, Zenon DEF NoSilentDrop, StoredMsgs
<1>2. ASSUME NEW i \in 1..Len(store),
             store' = (IF multiple THEN <<>> ELSE SubSeq(store, 1, i - 1))
                        \o SubSeq(store, i + 1, Len(store)),
             Callback({store[j] : j \in (IF multiple THEN 1 ELSE i)..i}, verdict)
      PROVE  NoSilentDrop'
  <2> DEFINE lo == IF multiple THEN 1 ELSE i
             es == {store[j] : j \in lo..i}
  <2>1. /\ store' \in Seq(Entries) /\ lo \in 1..i /\ Drops(store', store, lo, i)
    BY <1>2, AckNackDrops
  <2>2. Callback(es, verdict)
    BY <1>2
  <2> HIDE DEF lo
  <2>3. /\ store \in Seq(Entries) /\ response \in [Msgs -> Responses]
    BY DEF TypeOK
  <2>4. Projects(StoredMsgs, store, Msgs)
    BY StoredMsgsType DEF StoredMsgs, Projects
  <2>5. Projects(StoredMsgs', store', Msgs)
    <3>1. \A k \in 1..Len(store') : store'[k] \in Entries
      BY <2>1
    <3>2. \A k \in 1..Len(store') : store'[k].msg \in Msgs
      BY <3>1 DEF Entries
    <3> QED
      BY <2>1, <3>2, IsASeq DEF StoredMsgs, Projects
  <2>6. Drops(StoredMsgs', StoredMsgs, lo, i)
    BY <2>1, <2>3, <2>4, <2>5, DropsProject
  <2>7. /\ StoredMsgs \in Seq(Msgs) /\ StoredMsgs' \in Seq(Msgs)
        /\ Len(StoredMsgs) = Len(store)
        /\ \A k \in 1..Len(store) : StoredMsgs[k] = store[k].msg
    BY <2>4, <2>5 DEF Projects
  <2>8. /\ IsInjective(StoredMsgs')
        /\ \A x : Contains(StoredMsgs', x)
                    <=> Contains(StoredMsgs, x) /\ \A k \in lo..i : StoredMsgs[k] # x
    BY <2>1, <2>6, <2>7, DropsContains DEF NoSilentDrop
  <2>9. \A m \in Msgs : (\E e \in es : e.msg = m)
                          <=> ~ \A k \in lo..i : StoredMsgs[k] # m
    <3>1. \A k \in lo..i : k \in 1..Len(store)
      BY <2>1, <2>3
    <3> QED
      BY <2>7, <3>1
  <2> HIDE DEF es
  <2>10. \A m \in Msgs : /\ (\E e \in es : e.msg = m) => response'[m] \in Verdicts
                         /\ ~(\E e \in es : e.msg = m) => response'[m] = response[m]
    BY <2>2 DEF Callback, Verdicts
  <2>11. \A m \in Msgs : response'[m] = "waiting"
                           <=> response[m] = "waiting" /\ ~(\E e \in es : e.msg = m)
    BY <2>10 DEF Verdicts
  <2>12. \A m \in Msgs : Contains(StoredMsgs', m)
                           <=> Contains(StoredMsgs, m) /\ ~(\E e \in es : e.msg = m)
    BY <2>8, <2>9, Zenon
  <2>13. \A m \in Msgs : (\E e \in es : e.msg = m) => Contains(StoredMsgs, m)
    <3>1. \A k \in lo..i : k \in 1..Len(StoredMsgs)
      BY <2>1, <2>3, <2>7
    <3> QED
      BY <2>9, <3>1, Zenon DEF Contains
  <2>14. \A m \in Msgs : ~(Contains(pending, m) /\ \E e \in es : e.msg = m)
    BY <2>13, Zenon DEF NoSilentDrop
  <2>15. \A m \in Msgs : response'[m] = "waiting"
                           <=> Contains(pending, m) \/ Contains(StoredMsgs', m)
    BY <2>11, <2>12, <2>14, Zenon DEF NoSilentDrop
  <2>16. \A m \in Msgs : ~(Contains(pending, m) /\ Contains(StoredMsgs', m))
    BY <2>12, Zenon DEF NoSilentDrop
  <2> QED
    BY <2>8, <2>15, <2>16, Zenon DEF NoSilentDrop
<1> QED
  BY <1>1, <1>2, Zenon DEF ProcessAckNack

(* The actions that move no message.                                       *)
LEMMA IdleActions ==
    ASSUME \/ BrokerNext \/ SocketConnects \/ ConnectionOpenOk \/ RetryFires
           \/ GracefulClose \/ RecvOpenOk \/ RecvDeclareOk \/ RecvClose
           \/ RecvWhenClosed \/ RecvFlowOff \/ RecvReturn \/ RecvContent
           \/ UNCHANGED vars
    PROVE  UNCHANGED <<pending, store, deliveryCounter, response>>
<1>1. CASE BrokerNext
  BY <1>1, Zenon
     DEF BrokerNext, BrokerOpen, BrokerDeclare, BrokerConfirmSelect, BrokerPublish,
         BrokerClosedByClient, BrokerCloseOk, BrokerFlowOk, BrokerDiscards,
         BrokerException, BrokerClosesChannel, BrokerConfirms, BrokerReturns,
         BrokerFlowOff, BrokerFlowOn, BrokerTakes, clientVars, sendVars
<1>2. CASE \/ SocketConnects \/ ConnectionOpenOk \/ RetryFires \/ GracefulClose
           \/ RecvOpenOk \/ RecvDeclareOk \/ RecvClose \/ RecvWhenClosed
           \/ UNCHANGED vars
  BY <1>2, Zenon
     DEF SocketConnects, ConnectionOpenOk, RetryFires, GracefulClose, RecvOpenOk,
         RecvDeclareOk, RecvClose, RecvWhenClosed, vars, sendVars
<1>3. CASE RecvFlowOff \/ RecvReturn \/ RecvContent
  BY <1>3, Zenon DEF RecvFlowOff, RecvReturn, RecvContent
<1> QED
  BY <1>1, <1>2, <1>3

(* What a step can do to the messages: nothing, accept one, a reset,       *)
(* publish what is pending, or handle a confirm.                           *)
LEMMA MessageSteps ==
    ASSUME TypeOK, [Next]_vars
    PROVE  \/ UNCHANGED <<pending, store, deliveryCounter, response>>
           \/ \E m \in Msgs : PublishMessage(m)
           \/ ResetMessages
           \/ ReadyToPublish(pending) /\ pending' = <<>> /\ response' = response
           \/ \E multiple \in BOOLEAN, tag \in Nat, v \in Verdicts :
                 ProcessAckNack(multiple, tag, v)
                   /\ UNCHANGED <<pending, deliveryCounter>>
<1>hung. CASE HungFires
  BY <1>hung, Zenon DEF HungFires, SocketShutdown, Reset, sendVars
<1>written. CASE WriteComplete
  BY <1>written, Zenon DEF WriteComplete, Reset, sendVars
<1>closeOk. CASE RecvCloseOk
  BY <1>closeOk, Zenon DEF RecvCloseOk, Reset, sendVars
<1>socket. CASE SocketFails \/ SocketCloses
  BY <1>socket, Zenon DEF SocketFails, SocketCloses, SocketShutdown, Reset
<1>select. CASE RecvConfirmSelectOk
  BY <1>select, Zenon DEF RecvConfirmSelectOk
<1>flowOn. CASE RecvFlowOn
  BY <1>flowOn, Zenon DEF RecvFlowOn
<1>confirm. ASSUME NEW kind, NEW v \in Verdicts, RecvConfirm(kind, v)
            PROVE  \E multiple \in BOOLEAN, tag \in Nat, w \in Verdicts :
                      ProcessAckNack(multiple, tag, w)
                        /\ UNCHANGED <<pending, deliveryCounter>>
  <2>1. Head(toClient) \in BrokerFrames
    BY <1>confirm, ArrivesType, Zenon DEF RecvConfirm, Receive
  <2>2. Head(toClient).multiple \in BOOLEAN /\ Head(toClient).tag \in Nat
    BY <2>1 DEF BrokerFrames, FramesOf
  <2> QED
    BY <1>confirm, <2>2, Zenon DEF RecvConfirm
<1>ack. CASE RecvAck \/ RecvNack
  BY <1>ack, <1>confirm, Zenon DEF RecvAck, RecvNack, Verdicts
<1> QED
  BY <1>hung, <1>written, <1>closeOk, <1>socket, <1>select, <1>flowOn, <1>ack,
     IdleActions, Zenon DEF Next, ClientNext, ConnectionNext

(* NoSilentDrop is preserved by every step.                                *)
LEMMA NextNoSilentDrop ==
    ASSUME TypeOK, NoSilentDrop, [Next]_vars
    PROVE  NoSilentDrop'
<1>1. CASE UNCHANGED <<pending, store, deliveryCounter, response>>
  BY <1>1, Zenon DEF NoSilentDrop, StoredMsgs
<1> QED
  BY <1>1, MessageSteps, AcceptKeepsMessages, ResetKeepsMessages,
     PublishPendingKeepsMessages, AckNackKeepsMessages, Zenon

(* In every behaviour a message waits in exactly one place until its       *)
(* callback: SendChannel neither loses nor duplicates one, whatever the    *)
(* number of messages, faults and reconnections.                           *)
THEOREM NeverDropsSilently == Spec => []NoSilentDrop
<1>1. Init => NoSilentDrop
  <2>1. ASSUME Init PROVE pending = <<>> /\ StoredMsgs = <<>>
    BY <2>1 DEF Init, StoredMsgs
  <2>2. IsInjective(<<>>) /\ \A x : ~Contains(<<>>, x)
    BY DEF IsInjective, Contains
  <2>3. ASSUME Init, NEW m \in Msgs PROVE response[m] # "waiting"
    BY <2>3 DEF Init
  <2> QED
    BY <2>1, <2>2, <2>3, Zenon DEF NoSilentDrop
<1> QED
  BY <1>1, TypeCorrect, NextNoSilentDrop, PTL DEF Spec

-----------------------------------------------------------------------------
(* A verdict is final: callbackMessages only ever runs for messages of the *)
(* store, and by NoSilentDrop these are still waiting.                     *)
LEMMA NextResponseFinal ==
    ASSUME TypeOK, NoSilentDrop, [Next]_vars,
           NEW m \in Msgs, response[m] \in Verdicts
    PROVE  response'[m] = response[m]
<1>0. response \in [Msgs -> Responses] /\ response[m] # "unsent" /\ response[m] # "waiting"
  BY DEF TypeOK, Verdicts
<1>1. CASE response' = response
  BY <1>1
<1>2. ASSUME NEW n \in Msgs, PublishMessage(n) PROVE response'[m] = response[m]
  <2>1. response[n] = "unsent" /\ response' = [response EXCEPT ![n] = "waiting"]
    BY <1>2, Zenon DEF PublishMessage
  <2> QED
    BY <1>0, <2>1
<1>3. CASE ResetMessages
  BY <1>1, <1>3, Zenon DEF ResetMessages
<1>4. ASSUME NEW multiple \in BOOLEAN, NEW tag \in Nat, NEW v \in Verdicts,
             NEW i \in 1..Len(store),
             Callback({store[j] : j \in (IF multiple THEN 1 ELSE i)..i}, v)
      PROVE  response'[m] = response[m]
  <2> DEFINE lo == IF multiple THEN 1 ELSE i
             es == {store[j] : j \in lo..i}
  <2>1. Len(store) \in Nat /\ lo \in 1..i
    BY DEF TypeOK
  <2>2. Callback(es, v)
    BY <1>4
  <2> HIDE DEF lo
  <2>3. \A k \in lo..i : k \in 1..Len(store)
    BY <2>1
  <2>4. \A k \in 1..Len(store) : store[k].msg # m
    <3>1. ~Contains(StoredMsgs, m)
      BY <1>0, Zenon DEF NoSilentDrop
    <3>2. Len(StoredMsgs) = Len(store)
      BY StoredMsgsType
    <3> QED
      BY <3>1, <3>2 DEF Contains, StoredMsgs
  <2>5. ~ \E e \in es : e.msg = m
    BY <2>3, <2>4
  <2> HIDE DEF es
  <2> QED
    BY <2>2, <2>5 DEF Callback
<1>5. ASSUME NEW multiple \in BOOLEAN, NEW tag \in Nat, NEW v \in Verdicts,
             ProcessAckNack(multiple, tag, v)
      PROVE  response'[m] = response[m]
  BY <1>1, <1>4, <1>5, Zenon DEF ProcessAckNack
<1> QED
  BY <1>1, <1>2, <1>3, <1>5, MessageSteps, Zenon

(* The callback of a message runs at most once, in every behaviour.        *)
THEOREM VerdictIsFinal == Spec => ResponseFinal
<1>1. ASSUME TypeOK, NoSilentDrop, [Next]_vars
      PROVE  [\A m \in Msgs : response[m] \in Verdicts => response'[m] = response[m]]_vars
  BY <1>1, NextResponseFinal, Zenon
<1> QED
  BY <1>1, TypeCorrect, NeverDropsSilently, PTL DEF Spec, ResponseFinal

-----------------------------------------------------------------------------
(* A channel that is closed for good stays so: Channel::open returns early *)
(* and processReceived drops every frame.                                  *)
LEMMA NextNeverReopens ==
    ASSUME [Next]_vars, permanentlyClosing, d_state = "CLOSED"
    PROVE  d_state' = "CLOSED"
<1>1. CASE BrokerNext
  BY <1>1, Zenon
     DEF BrokerNext, BrokerOpen, BrokerDeclare, BrokerConfirmSelect, BrokerPublish,
         BrokerClosedByClient, BrokerCloseOk, BrokerFlowOk, BrokerDiscards,
         BrokerException, BrokerClosesChannel, BrokerConfirms, BrokerReturns,
         BrokerFlowOff, BrokerFlowOn, BrokerTakes, clientVars
<1>2. CASE ConnectionNext
  BY <1>2, Zenon
     DEF ConnectionNext, SocketFails, SocketCloses, SocketConnects,
         ConnectionOpenOk, SocketShutdown, Reset, Open, WriteNothing
<1>3. CASE \/ RecvOpenOk \/ RecvDeclareOk \/ RecvConfirmSelectOk \/ RecvClose
           \/ RecvCloseOk \/ RecvFlowOn \/ RecvFlowOff \/ RecvAck \/ RecvNack
           \/ RecvReturn \/ RecvContent
  BY <1>3, Zenon
     DEF RecvOpenOk, RecvDeclareOk, RecvConfirmSelectOk, RecvClose, RecvCloseOk,
         RecvFlowOn, RecvFlowOff, RecvAck, RecvNack, RecvConfirm, RecvReturn,
         RecvContent, ReceiveOpenOk, ReceiveDeclareOk, ReceiveClose, Receive
<1>4. CASE \/ \E m \in Msgs : PublishMessage(m)
           \/ GracefulClose \/ WriteComplete \/ RetryFires \/ HungFires
           \/ RecvWhenClosed
  BY <1>4, Zenon
     DEF PublishMessage, GracefulClose, WriteComplete, RetryFires, HungFires,
         RecvWhenClosed, DropFrame, Open, WriteNothing, Reset, SocketShutdown
<1>5. CASE UNCHANGED vars
  BY <1>5, Zenon DEF vars, channelVars
<1> QED
  BY <1>1, <1>2, <1>3, <1>4, <1>5, Zenon DEF Next, ClientNext

(* Once a closed channel has been closed gracefully nothing opens it.      *)
THEOREM ClosedForGood == Spec => NeverReopens
<1>1. ASSUME [Next]_vars
      PROVE  [permanentlyClosing /\ d_state = "CLOSED" => d_state' = "CLOSED"]_vars
  BY <1>1, NextNeverReopens, Zenon
<1> QED
  BY <1>1, PTL DEF Spec, NeverReopens

-----------------------------------------------------------------------------
(* readyToPublishMsg inserts at the end of d_messageStore.                 *)
LEMMA PublishKeepsOrder ==
    ASSUME TypeOK, StoreOrdered, NEW ms \in Seq(Msgs), ReadyToPublish(ms)
    PROVE  StoreOrdered'
<1> DEFINE new == [k \in 1..Len(ms) |-> Entry(deliveryCounter + k - 1, ms[k])]
<1>1. new \in Seq(Entries) /\ Len(new) = Len(ms)
  BY IsASeq DEF Entry, Entries, TypeOK
<1>2. \A k \in 1..Len(new) : new[k].tag = deliveryCounter + k - 1
  BY <1>1 DEF Entry
<1>3. /\ store \in Seq(Entries) /\ store' = store \o new
      /\ deliveryCounter' = deliveryCounter + Len(ms)
  BY Zenon DEF TypeOK, ReadyToPublish, Stored
<1> HIDE DEF new
<1>4. IsConcat(store', store, new)
  BY <1>3, Zenon DEF IsConcat
<1>5. deliveryCounter \in Nat /\ \A k \in 1..Len(store) : store[k].tag \in Nat
  BY StoreType DEF TypeOK
<1>6. TagsBelow(store, deliveryCounter)
  BY Zenon DEF TagsBelow, StoreOrdered
<1>7. TagsBelow(store', deliveryCounter + Len(new))
  BY <1>1, <1>2, <1>3, <1>4, <1>5, <1>6, ConcatOrder
<1>8. TagsBelow(store', deliveryCounter')
  BY <1>1, <1>3, <1>7, Zenon
<1> QED
  BY <1>8, Zenon DEF TagsBelow, StoreOrdered

(* StoreOrdered is preserved by every step.                                *)
LEMMA NextStoreOrdered ==
    ASSUME TypeOK, StoreOrdered, [Next]_vars
    PROVE  StoreOrdered'
<1>1. CASE UNCHANGED <<store, deliveryCounter>>
  BY <1>1, Zenon DEF StoreOrdered
<1>2. ASSUME NEW m \in Msgs, PublishMessage(m) PROVE StoreOrdered'
  <2>1. <<m>> \in Seq(Msgs)
    OBVIOUS
  <2> QED
    BY <1>1, <1>2, <2>1, PublishKeepsOrder, Zenon DEF PublishMessage
<1>3. CASE ResetMessages
  BY <1>3 DEF ResetMessages, StoreOrdered
<1>4. CASE ReadyToPublish(pending)
  BY <1>4, PublishKeepsOrder, Zenon DEF TypeOK
<1>5. ASSUME NEW multiple \in BOOLEAN, NEW i \in 1..Len(store),
             store' = (IF multiple THEN <<>> ELSE SubSeq(store, 1, i - 1))
                        \o SubSeq(store, i + 1, Len(store)),
             deliveryCounter' = deliveryCounter
      PROVE  StoreOrdered'
  <2> DEFINE lo == IF multiple THEN 1 ELSE i
  <2>1. /\ store' \in Seq(Entries) /\ lo \in 1..i /\ Drops(store', store, lo, i)
    BY <1>5, AckNackDrops
  <2> HIDE DEF lo
  <2>2. store \in Seq(Entries) /\ TagsBelow(store, deliveryCounter)
    BY Zenon DEF TypeOK, TagsBelow, StoreOrdered
  <2>3. TagsBelow(store', deliveryCounter)
    BY <2>1, <2>2, DropsOrder
  <2> QED
    BY <1>5, <2>3, Zenon DEF TagsBelow, StoreOrdered
<1>6. ASSUME NEW multiple \in BOOLEAN, NEW tag \in Nat, NEW v \in Verdicts,
             ProcessAckNack(multiple, tag, v), deliveryCounter' = deliveryCounter
      PROVE  StoreOrdered'
  BY <1>1, <1>5, <1>6, Zenon DEF ProcessAckNack
<1> QED
  BY <1>1, <1>2, <1>3, <1>4, <1>6, MessageSteps, Zenon

(* d_messageStore is ordered by delivery tag and never meets a tag twice.  *)
THEOREM StoreStaysOrdered == Spec => []StoreOrdered
<1>1. Init => StoreOrdered
  BY DEF Init, StoreOrdered
<1> QED
  BY <1>1, TypeCorrect, NextStoreOrdered, PTL DEF Spec

=============================================================================
