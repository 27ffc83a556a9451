----------------------------- MODULE Connection -----------------------------
(***************************************************************************)
(* rmqamqp::Connection with the rmqio::AsioConnection it owns: connecting, *)
(* the AMQP handshake, the ways in which either side gives the connection  *)
(* up, retrying, and closing for good.  Everything here runs on the event  *)
(* loop thread.  The channels of the connection are seen only as far as    *)
(* ChannelMap::openAll and resetAll reach them.                            *)
(*                                                                         *)
(* One read of a socket can bring several frames, and AsioConnection hands *)
(* them all over even if an earlier one made the Connection let go of the  *)
(* socket: `reading' holds the rest of the read, during which the event    *)
(* loop does nothing else.                                                 *)
(***************************************************************************)
EXTENDS Naturals, SequencesExt

CONSTANTS
    MaxAhead,   \* how many handlers can be queued ahead of that of a timer
    MaxFaults   \* bound: how many times the environment misbehaves

ASSUME ConnectionAssumption ==
    /\ MaxAhead \in Nat
    /\ MaxFaults \in Nat

VARIABLES
    d_state,         \* Connection::d_state
    socket,          \* AsioConnection::d_state of d_socketConnection
    shutdownType,    \* the DisconnectType bound into AsioConnection::d_shutdown
    writes,          \* AsioConnection::d_writeQueue
    inRead,          \* AsioConnection::doRead is handing over frames
    reading,         \* the frames it has still to hand over
    orphan,          \* shutdownType of a socket let go of during its own read
    stale,           \* attempts that were given up and have not answered yet
    hungArmed,       \* d_hungTimer is running
    hungDue,         \* it has expired, and its handler is queued
    retryArmed,      \* the timer of d_retryHandler is running
    retryDue,        \* it has expired, and its handler is queued
    ahead,           \* handlers that may still run before those that are due
    heartbeat,       \* HeartbeatManager::d_active
    channels,        \* open: openAll has run; reset: resetAll has run since
    firstConnectCb,  \* d_firstConnectCb
    closeRequested,  \* d_closeRequested
    closeCb,         \* d_closeCb
    destroyed,       \* ~Connection has run
    toBroker,        \* methods on their way to the broker
    toClient,        \* methods on their way to the client
    bState,          \* the broker's end of the connection
    faults           \* faults of the environment so far

readVars == <<inRead, reading, orphan>>
dueVars == <<hungDue, retryDue>>
wireVars == <<toBroker, toClient, bState>>
vars == <<d_state, socket, shutdownType, writes, readVars, stale, hungArmed,
          retryArmed, dueVars, ahead, heartbeat, channels, firstConnectCb,
          closeRequested, closeCb, destroyed, wireVars, faults>>

Handshake == {"PROTOCOL_HEADER_SENT", "CONNECTION_START_RECEIVED",
              "CONNECTION_STARTOK_SENT", "CONNECTION_TUNE_RECEIVED",
              "CONNECTION_TUNEOK_SENT", "CONNECTION_OPEN_SENT"}
States == Handshake \cup
          {"DISCONNECTED", "CONNECTED", "CONNECTION_CLOSE_SENT_EXIT",
           "CONNECTION_CLOSE_SENT_RECONNECT", "CONNECTION_CLOSE_RECEIVED",
           "CONNECTION_CLOSEOK_SENT", "CONNECTION_CLOSED"}
DisconnectTypes == {"FATAL", "WILL_RETRY"}

(* What is written, and the state that onWriteComplete then sets           *)
SentState ==
    [header |-> "PROTOCOL_HEADER_SENT",
     startOk |-> "CONNECTION_STARTOK_SENT",
     tuneOk |-> "CONNECTION_TUNEOK_SENT",
     open |-> "CONNECTION_OPEN_SENT",
     closeOk |-> "CONNECTION_CLOSEOK_SENT",
     closeExit |-> "CONNECTION_CLOSE_SENT_EXIT",
     closeReconnect |-> "CONNECTION_CLOSE_SENT_RECONNECT"]

Init ==
    /\ d_state = "DISCONNECTED"
    /\ socket = "none"
    /\ shutdownType = "none"
    /\ writes = <<>>
    /\ inRead = FALSE
    /\ reading = <<>>
    /\ orphan = "none"
    /\ stale = 0
    /\ hungArmed = FALSE
    /\ hungDue = FALSE
    /\ retryArmed = FALSE
    /\ retryDue = FALSE
    /\ ahead = 0
    /\ heartbeat = FALSE
    /\ channels = "reset"
    /\ firstConnectCb = "none"
    /\ closeRequested = FALSE
    /\ closeCb = "none"
    /\ destroyed = FALSE
    /\ toBroker = <<>>
    /\ toClient = <<>>
    /\ bState = "none"
    /\ faults = 0

(* The event loop can take up a handler ...                                *)
Idle == ~inRead /\ ~destroyed

(* ... other than that of a timer, before which only what was queued ahead *)
(* of it can run.                                                          *)
Free ==
    /\ Idle
    /\ IF hungDue \/ retryDue
       THEN ahead > 0 /\ ahead' = ahead - 1
       ELSE UNCHANGED ahead

Started == firstConnectCb # "none"

Fault == faults < MaxFaults /\ faults' = faults + 1

-----------------------------------------------------------------------------
(* Giving the socket up                                                    *)

(* Nothing of what was under way on a socket outlives it.                  *)
ForgetSocket ==
    /\ shutdownType' = "none"
    /\ writes' = <<>>
    /\ toBroker' = <<>>
    /\ toClient' = <<>>
    /\ bState' = "none"

(* ChannelMap::resetAll                                                    *)
ResetAll == channels' = "reset"

(* willRetry in socketShutdown; a variant that retries only a connection   *)
(* which got somewhere, and one that takes FATAL alone for the end         *)
RetryIfBegun(dcType) ==
    dcType = "WILL_RETRY" /\ ~closeRequested /\ d_state # "DISCONNECTED"

RetryUnlessFatal(dcType) == dcType = "WILL_RETRY"

WillRetry(dcType) == dcType = "WILL_RETRY" /\ ~closeRequested

(* Connection::socketShutdown, called with each of the dcTypes in turn     *)
SocketShutdown(dcTypes) ==
    LET final == \E t \in dcTypes : ~WillRetry(t)
    IN
    /\ ResetAll
    /\ hungArmed' = FALSE
    /\ heartbeat' = FALSE
    /\ socket' = "none"
    /\ ForgetSocket
    /\ d_state' = "DISCONNECTED"
    /\ retryArmed' = (retryArmed \/ \E t \in dcTypes : WillRetry(t))
    /\ firstConnectCb' = IF final /\ firstConnectCb = "waiting"
                         THEN "false" ELSE firstConnectCb
    /\ closeCb' = IF final THEN "called" ELSE closeCb

(* socketShutdown called while d_socketConnection is still in use: an      *)
(* attempt to connect answers later.  Letting go of an AsioConnection that *)
(* is CLOSING runs its d_shutdown from the destructor, which is another    *)
(* socketShutdown, nested in this one; or, when the AsioConnection is in   *)
(* its own doRead, after that.                                             *)
Disconnect(dcType) ==
    /\ SocketShutdown({dcType} \cup
           (IF socket = "CLOSING" /\ ~inRead THEN {shutdownType} ELSE {}))
    /\ stale' = IF socket = "CONNECTING" THEN stale + 1 ELSE stale
    /\ orphan' = IF socket = "CLOSING" /\ inRead THEN shutdownType ELSE orphan

(* closeSocket does not touch the retry timer.                             *)
RetryLater == UNCHANGED retryArmed

(* Connection::closeSocket with AsioConnection::close, which ends at once  *)
(* when the socket cannot be shut down.                                    *)
CloseSocket(dcType, unwritten) ==
    \/ /\ socket = "CONNECTED"
       /\ socket' = "CLOSING"
       /\ shutdownType' = dcType
       /\ d_state' = "CONNECTION_CLOSED"
       /\ writes' = unwritten
       /\ RetryLater
       /\ UNCHANGED <<orphan, stale, hungArmed, heartbeat, channels,
                      firstConnectCb, closeCb, wireVars>>
    \/ Disconnect(dcType)

(* Connection::asyncWriteSingleFrame                                       *)
Write(methods) == writes' = IF socket = "none" THEN writes ELSE writes \o methods

(* What a handler leaves alone that keeps the socket                       *)
KeepSocket ==
    UNCHANGED <<socket, shutdownType, orphan, stale, retryArmed, closeCb>>

(* Connection::connectionException                                         *)
ConnectionException ==
    \/ /\ d_state = "CONNECTION_CLOSE_SENT_EXIT"
       /\ CloseSocket("FATAL", writes)
    \/ /\ d_state \in Handshake \cup {"CONNECTED"}
       /\ Write(<<"closeReconnect">>)
       /\ KeepSocket
       /\ UNCHANGED <<d_state, hungArmed, heartbeat, channels, firstConnectCb,
                      wireVars>>
    \/ /\ d_state \notin Handshake \cup {"CONNECTED", "CONNECTION_CLOSE_SENT_EXIT"}
       /\ CloseSocket("WILL_RETRY", writes)

-----------------------------------------------------------------------------
(* Connecting                                                              *)

(* d_hungTimer->start                                                      *)
StartHungTimer == hungArmed' = TRUE

(* Connection::initiateConnect with Resolver::asyncConnect.  The new       *)
(* AsioConnection takes the place of the one d_socketConnection held, if   *)
(* any.                                                                    *)
InitiateConnect ==
    /\ socket # "CLOSING"
    /\ socket' = "CONNECTING"
    /\ ForgetSocket
    /\ stale' = IF socket = "CONNECTING" THEN stale + 1 ELSE stale
    /\ StartHungTimer
    /\ UNCHANGED <<d_state, orphan, heartbeat, channels, closeCb, retryArmed>>

(* If that one is CLOSING, its d_shutdown runs and takes the new one with  *)
(* it.                                                                     *)
InitiateInVain ==
    /\ socket = "CLOSING"
    /\ SocketShutdown({shutdownType})
    /\ stale' = stale + 1
    /\ UNCHANGED orphan

(* Connection::startFirstConnection                                        *)
StartFirstConnection ==
    /\ ~Started
    /\ firstConnectCb' = "waiting"
    /\ InitiateConnect
    /\ UNCHANGED <<inRead, reading, dueVars, ahead, closeRequested, destroyed,
                   faults>>

(* Resolver::handleConnect: AsioConnection::markConnected, then            *)
(* Connection::connect.  The resolver answers in order, and an attempt     *)
(* whose socket is closed under it answers before the next one can.        *)
AttemptConnects ==
    /\ Free
    /\ socket = "CONNECTING"
    /\ stale = 0
    /\ writes = <<>>
    /\ socket' = "CONNECTED"
    /\ bState' = "header"
    /\ writes' = <<"header">>
    /\ UNCHANGED <<d_state, shutdownType, readVars, stale, hungArmed, retryArmed,
                   dueVars, heartbeat, channels, firstConnectCb, closeRequested,
                   closeCb, destroyed, toBroker, toClient, faults>>

(* What a handler outside doRead leaves alone                              *)
Outside == UNCHANGED <<inRead, reading, closeRequested, destroyed>>

(* Connection::connectError for the attempt under way ...                  *)
AttemptFails ==
    /\ Free
    /\ socket = "CONNECTING"
    /\ stale = 0
    /\ Fault
    /\ SocketShutdown({"WILL_RETRY"})
    /\ UNCHANGED <<stale, orphan, dueVars>>
    /\ Outside

(* ... and for one that was given up, if it failed.  It is not told apart  *)
(* from the attempt under way, which is given up too.                      *)
StaleAttemptFails ==
    /\ Free
    /\ stale > 0
    /\ Fault
    /\ SocketShutdown({"WILL_RETRY"} \cup
           (IF socket = "CLOSING" THEN {shutdownType} ELSE {}))
    /\ stale' = IF socket = "CONNECTING" THEN stale ELSE stale - 1
    /\ UNCHANGED <<orphan, dueVars>>
    /\ Outside

(* Resolver::startConnect and handleConnect find its socket gone.          *)
StaleAttemptDropped ==
    /\ Free
    /\ stale > 0
    /\ stale' = stale - 1
    /\ UNCHANGED <<d_state, socket, shutdownType, writes, readVars, hungArmed,
                   retryArmed, dueVars, heartbeat, channels, firstConnectCb,
                   closeRequested, closeCb, destroyed, wireVars, faults>>

(* A write on a socket that is not connected yet fails, and so does the    *)
(* attempt, in Connection::socketError.  This may be a Close ...           *)
EarlyCloseFails ==
    /\ Free
    /\ socket = "CONNECTING"
    /\ writes # <<>>
    /\ Disconnect("WILL_RETRY")
    /\ UNCHANGED <<dueVars, faults>>
    /\ Outside

(* ... or a write of a channel whose own retry timer has outlived the      *)
(* last socket.                                                            *)
EarlyWriteFails ==
    /\ Free
    /\ socket = "CONNECTING"
    /\ firstConnectCb = "true"
    /\ Fault
    /\ Disconnect("WILL_RETRY")
    /\ UNCHANGED dueVars
    /\ Outside

-----------------------------------------------------------------------------
(* Timers.  When a timer expires its handler is queued, and cancelling the *)
(* timer or starting it again does not take the handler out of the queue.  *)

(* A timer expires: its handler is queued behind what is queued already.   *)
Queued == ahead' = IF hungDue \/ retryDue THEN ahead ELSE MaxAhead

HungExpires ==
    /\ Idle
    /\ hungArmed /\ ~hungDue
    /\ Fault
    /\ Queued
    /\ hungArmed' = FALSE
    /\ hungDue' = TRUE
    /\ UNCHANGED <<d_state, socket, shutdownType, writes, readVars, stale,
                   retryArmed, retryDue, heartbeat, channels, firstConnectCb,
                   closeRequested, closeCb, destroyed, wireVars>>

(* Connection::connectionHung                                              *)
ConnectionHung ==
    /\ Idle
    /\ hungDue
    /\ hungDue' = FALSE
    /\ ahead' = 0
    /\ CloseSocket("WILL_RETRY", writes)
    /\ UNCHANGED <<retryDue, faults>>
    /\ Outside

RetryExpires ==
    /\ Idle
    /\ retryArmed /\ ~retryDue
    /\ Queued
    /\ retryArmed' = FALSE
    /\ retryDue' = TRUE
    /\ UNCHANGED <<d_state, socket, shutdownType, writes, readVars, stale,
                   hungArmed, hungDue, heartbeat, channels, firstConnectCb,
                   closeRequested, closeCb, destroyed, wireVars, faults>>

(* What Connection::retry asks first; and a variant that does not          *)
MayAlwaysConnect == TRUE

MayConnect == ~closeRequested

(* Connection::retry                                                       *)
Retry ==
    /\ Idle
    /\ retryDue
    /\ retryDue' = FALSE
    /\ ahead' = 0
    /\ \/ /\ MayConnect
          /\ InitiateConnect
          /\ UNCHANGED firstConnectCb
       \/ /\ MayConnect
          /\ InitiateInVain
       \/ /\ ~MayConnect
          /\ KeepSocket
          /\ UNCHANGED <<d_state, writes, hungArmed, heartbeat, channels,
                         firstConnectCb, wireVars>>
    /\ UNCHANGED <<hungDue, faults>>
    /\ Outside

(* Connection::killConnection, when the HeartbeatManager misses the        *)
(* broker; and Connection::channelHung, when a channel does not progress,  *)
(* whose timer may still be running when the connection is gone.           *)
GivenUpFromAbove ==
    /\ Free
    /\ heartbeat \/ firstConnectCb = "true"
    /\ Fault
    /\ CloseSocket("WILL_RETRY", writes)
    /\ UNCHANGED dueVars
    /\ Outside

-----------------------------------------------------------------------------
(* Writing and reading.  A socket is written to and read from while it is  *)
(* CLOSING too, as far as its buffers go.                                  *)

Usable == socket \in {"CONNECTED", "CLOSING"}

(* AsioConnection::handleWrite and Connection::onWriteComplete.  A method  *)
(* reaches the broker no later than its completion runs, and no reply can  *)
(* be read before that; after a CloseOk none matters.                      *)
WriteCompletes ==
    /\ Free
    /\ Usable
    /\ writes # <<>>
    /\ \/ /\ Head(writes) # "closeOk"
          /\ d_state' = SentState[Head(writes)]
          /\ writes' = Tail(writes)
          /\ toBroker' = Append(toBroker, Head(writes))
          /\ KeepSocket
          /\ UNCHANGED <<hungArmed, heartbeat, channels, firstConnectCb,
                         toClient, bState>>
       \/ /\ Head(writes) = "closeOk"
          /\ CloseSocket("WILL_RETRY", Tail(writes))
    /\ UNCHANGED <<dueVars, faults>>
    /\ Outside

(* AsioConnection::handleError for a write: doClose(DISCONNECTED_ERROR)    *)
(* forgets d_shutdown, then Connection::socketError.                       *)
SocketFails ==
    /\ Free
    /\ Usable
    /\ socket = "CLOSING" => writes # <<>>
    /\ Fault
    /\ SocketShutdown({"WILL_RETRY"})
    /\ UNCHANGED <<stale, orphan, dueVars>>
    /\ Outside

(* AsioConnection::handleReadError: the broker has closed the socket, or   *)
(* this side has shut it down.                                             *)
EndOfStream ==
    /\ Free
    /\ \/ socket = "CONNECTED" /\ bState = "closed" /\ toClient = <<>>
       \/ socket = "CLOSING"
    /\ SocketShutdown({IF socket = "CLOSING" THEN shutdownType ELSE "WILL_RETRY"})
    /\ UNCHANGED <<stale, orphan, dueVars, faults>>
    /\ Outside

(* AsioConnection::handleRead, up to the frames it hands over              *)
ReadFrames ==
    /\ Free
    /\ Usable
    /\ \E n \in 1..Len(toClient) :
          /\ reading' = SubSeq(toClient, 1, n)
          /\ toClient' = SubSeq(toClient, n + 1, Len(toClient))
    /\ inRead' = TRUE
    /\ UNCHANGED <<d_state, socket, shutdownType, writes, orphan, stale,
                   hungArmed, retryArmed, dueVars, heartbeat, channels,
                   firstConnectCb, closeRequested, closeCb, destroyed, toBroker,
                   bState, faults>>

(* The end of handleRead, where an AsioConnection that the Connection has  *)
(* let go of during the read is destroyed.                                 *)
ReadEnds ==
    /\ inRead
    /\ reading = <<>>
    /\ inRead' = FALSE
    /\ orphan' = "none"
    /\ \/ /\ orphan # "none"
          /\ SocketShutdown({orphan})
       \/ /\ orphan = "none"
          /\ UNCHANGED <<d_state, socket, shutdownType, writes, hungArmed,
                         retryArmed, heartbeat, channels, firstConnectCb,
                         closeCb, wireVars>>
    /\ UNCHANGED <<reading, stale, dueVars, ahead, closeRequested, destroyed,
                   faults>>

(* The bytes after the last frame are not a frame: doClose(FRAME_ERROR).   *)
ReadEndsBadly ==
    /\ inRead
    /\ reading = <<>>
    /\ Fault
    /\ inRead' = FALSE
    /\ orphan' = "none"
    /\ SocketShutdown({"WILL_RETRY"})
    /\ UNCHANGED <<reading, stale, dueVars, ahead, closeRequested, destroyed>>

-----------------------------------------------------------------------------
(* Connection::processNextFrame for a method of the connection             *)

Process(method) ==
    /\ inRead
    /\ reading # <<>>
    /\ Head(reading) = method
    /\ reading' = Tail(reading)
    /\ UNCHANGED <<inRead, dueVars, ahead, closeRequested, destroyed, faults>>

(* ConnectionMethodProcessor::expectedState                                *)
Expected(state, step) == IF d_state = state THEN step ELSE ConnectionException

Start ==
    /\ Process("start")
    /\ Expected("PROTOCOL_HEADER_SENT",
          /\ d_state' = "CONNECTION_START_RECEIVED"
          /\ Write(<<"startOk">>)
          /\ KeepSocket
          /\ UNCHANGED <<hungArmed, heartbeat, channels, firstConnectCb,
                         wireVars>>)

(* sendConnectionTuneOk starts the HeartbeatManager; it refuses the tune   *)
(* if the broker's frames are too small.                                   *)
Tune ==
    /\ Process("tune")
    /\ Expected("CONNECTION_STARTOK_SENT",
          /\ d_state' = "CONNECTION_TUNE_RECEIVED"
          /\ Write(<<"tuneOk", "open">>)
          /\ heartbeat' = TRUE
          /\ KeepSocket
          /\ UNCHANGED <<hungArmed, channels, firstConnectCb, wireVars>>)

TuneTooSmall ==
    /\ Process("tuneTooSmall")
    /\ Expected("CONNECTION_STARTOK_SENT",
          /\ d_state' = "CONNECTION_TUNE_RECEIVED"
          /\ Write(<<"closeReconnect">>)
          /\ KeepSocket
          /\ UNCHANGED <<hungArmed, heartbeat, channels, firstConnectCb,
                         wireVars>>)

(* OpenOk; the variant forgets to update the state.                        *)
OpenOkUnnoticed ==
    /\ Process("openOk")
    /\ Expected("CONNECTION_OPEN_SENT",
          /\ hungArmed' = FALSE
          /\ channels' = "open"
          /\ firstConnectCb' = "true"
          /\ KeepSocket
          /\ UNCHANGED <<d_state, writes, heartbeat, wireVars>>)

OpenOk ==
    /\ Process("openOk")
    /\ Expected("CONNECTION_OPEN_SENT",
          /\ d_state' = "CONNECTED"
          /\ hungArmed' = FALSE
          /\ channels' = "open"
          /\ firstConnectCb' = "true"
          /\ KeepSocket
          /\ UNCHANGED <<writes, heartbeat, wireVars>>)

ReceiveClose ==
    /\ Process("close")
    /\ d_state' = "CONNECTION_CLOSE_RECEIVED"
    /\ Write(<<"closeOk">>)
    /\ KeepSocket
    /\ UNCHANGED <<hungArmed, heartbeat, channels, firstConnectCb, wireVars>>

(* What a CloseOk ends                                                     *)
CloseOkEnds ==
    IF d_state = "CONNECTION_CLOSE_SENT_EXIT" THEN "FATAL" ELSE "WILL_RETRY"

ReceiveCloseOk ==
    /\ Process("closeOk")
    /\ CloseSocket(CloseOkEnds, writes)

(* Any other method, a frame that cannot be decoded, an unknown channel    *)
Unwelcome ==
    /\ Process("unwelcome")
    /\ ConnectionException

-----------------------------------------------------------------------------
(* Closing for good                                                        *)

(* The callback of close() is kept for later; and a variant that calls it  *)
CallBackAtOnce == closeCb' = "called"

KeepCloseCb == closeCb' = "waiting"

(* Connection::close                                                       *)
Close ==
    /\ Free
    /\ Started
    /\ ~closeRequested
    /\ closeRequested' = TRUE
    /\ \/ /\ d_state = "DISCONNECTED"
          /\ Disconnect("FATAL")
       \/ /\ d_state \in Handshake \cup {"CONNECTED"}
          /\ KeepCloseCb
          /\ Write(<<"closeExit">>)
          /\ UNCHANGED <<d_state, socket, shutdownType, orphan, stale, hungArmed,
                         retryArmed, heartbeat, channels, firstConnectCb,
                         wireVars>>
       \/ /\ d_state \notin Handshake \cup {"CONNECTED", "DISCONNECTED"}
          /\ KeepCloseCb
          /\ UNCHANGED <<d_state, socket, shutdownType, writes, orphan, stale,
                         hungArmed, retryArmed, heartbeat, channels,
                         firstConnectCb, wireVars>>
    /\ UNCHANGED <<inRead, reading, dueVars, destroyed, faults>>

(* A CLOSING socket, and a Close or CloseOk that is being written, keep    *)
(* the Connection alive.                                                   *)
Held ==
    \/ socket = "CLOSING"
    \/ \E m \in {"closeOk", "closeExit", "closeReconnect"} : Contains(writes, m)

(* ~Connection: rmqa::ConnectionImpl drops its reference when closeCb has  *)
(* run, or when its graceful close timer has expired.                      *)
Destroy ==
    /\ Free
    /\ closeRequested
    /\ ~Held
    /\ Disconnect("FATAL")
    /\ destroyed' = TRUE
    /\ UNCHANGED <<inRead, reading, dueVars, closeRequested, faults>>

(* After that nothing happens.                                             *)
Gone == destroyed /\ UNCHANGED vars

-----------------------------------------------------------------------------
(* The broker (external)                                                   *)

BrokerReply ==
    [header |-> [in |-> "header", out |-> <<"start">>, next |-> "start"],
     startOk |-> [in |-> "start", out |-> <<"tune">>, next |-> "tune"],
     tuneOk |-> [in |-> "tune", out |-> <<>>, next |-> "tuned"],
     open |-> [in |-> "tuned", out |-> <<"openOk">>, next |-> "open"]]

brokerUnchanged ==
    UNCHANGED <<d_state, socket, shutdownType, writes, readVars, stale,
                hungArmed, retryArmed, dueVars, ahead, heartbeat, channels,
                firstConnectCb, closeRequested, closeCb, destroyed>>

(* The broker answers each method in its turn; once it has sent Close it   *)
(* only waits for the end.                                                 *)
BrokerReceives ==
    /\ toBroker # <<>>
    /\ toBroker' = Tail(toBroker)
    /\ LET m == Head(toBroker)
       IN  \/ /\ m \in DOMAIN BrokerReply
              /\ bState = BrokerReply[m].in
              /\ toClient' = toClient \o BrokerReply[m].out
              /\ bState' = BrokerReply[m].next
           \/ /\ m \in DOMAIN BrokerReply
              /\ bState # BrokerReply[m].in
              /\ UNCHANGED <<toClient, bState>>
           \/ /\ m \notin DOMAIN BrokerReply
              /\ bState # "closed"
              /\ toClient' = Append(toClient, "closeOk")
              /\ bState' = "closed"
           \/ /\ m \notin DOMAIN BrokerReply
              /\ bState = "closed"
              /\ UNCHANGED <<toClient, bState>>
    /\ UNCHANGED faults
    /\ brokerUnchanged

(* The broker closes the connection, or sends what the client refuses.     *)
BrokerObjects ==
    /\ bState \in {"start", "tune", "tuned", "open"}
    /\ Fault
    /\ \/ toClient' = Append(toClient, "close") /\ bState' = "closing"
       \/ toClient' = Append(toClient, "unwelcome") /\ UNCHANGED bState
       \/ /\ toClient = <<"tune">>
          /\ toClient' = <<"tuneTooSmall">>
          /\ UNCHANGED bState
    /\ UNCHANGED toBroker
    /\ brokerUnchanged

-----------------------------------------------------------------------------
Handle == Start \/ Tune \/ TuneTooSmall \/ OpenOk \/ ReceiveClose
          \/ ReceiveCloseOk \/ Unwelcome

Next ==
    \/ StartFirstConnection \/ AttemptConnects \/ AttemptFails
    \/ StaleAttemptFails \/ StaleAttemptDropped \/ EarlyCloseFails \/ EarlyWriteFails
    \/ HungExpires \/ ConnectionHung \/ RetryExpires \/ Retry
    \/ GivenUpFromAbove
    \/ WriteCompletes \/ SocketFails \/ EndOfStream
    \/ ReadFrames \/ ReadEnds \/ ReadEndsBadly \/ Handle
    \/ Close \/ Destroy \/ Gone
    \/ BrokerReceives \/ BrokerObjects

Spec == Init /\ [][Next]_vars

(* The event loop runs every handler that is queued and every timer that   *)
(* is due; a socket that is written to, read or shut down gets on; the     *)
(* resolver and the broker answer.                                         *)
Fairness ==
    /\ WF_vars(AttemptConnects) /\ WF_vars(StaleAttemptDropped)
    /\ WF_vars(EarlyCloseFails)
    /\ WF_vars(RetryExpires) /\ WF_vars(Retry) /\ WF_vars(ConnectionHung)
    /\ WF_vars(WriteCompletes) /\ WF_vars(EndOfStream)
    /\ WF_vars(ReadFrames) /\ WF_vars(ReadEnds) /\ WF_vars(Handle)
    /\ WF_vars(BrokerReceives)

FairSpec == Spec /\ Fairness

-----------------------------------------------------------------------------
(* Properties                                                              *)

(* Every variable has its type.                                            *)
TypeOK ==
    /\ d_state \in States
    /\ socket \in {"none", "CONNECTING", "CONNECTED", "CLOSING"}
    /\ shutdownType \in IF socket = "CLOSING" THEN DisconnectTypes ELSE {"none"}
    /\ writes \in Seq(DOMAIN SentState)
    /\ inRead \in BOOLEAN
    /\ orphan \in DisconnectTypes \cup {"none"}
    /\ stale \in Nat
    /\ hungArmed \in BOOLEAN /\ hungDue \in BOOLEAN
    /\ retryArmed \in BOOLEAN /\ retryDue \in BOOLEAN
    /\ heartbeat \in BOOLEAN
    /\ closeRequested \in BOOLEAN
    /\ destroyed \in BOOLEAN
    /\ channels \in {"open", "reset"}
    /\ firstConnectCb \in {"none", "waiting", "true", "false"}
    /\ closeCb \in {"none", "waiting", "called"}
    /\ ahead \in 0..MaxAhead
    /\ faults \in 0..MaxFaults

(* A FATAL disconnect is always that of close().  The state follows the    *)
(* socket as far as the frames of a read allow it, and no attempt begins   *)
(* during a read; the heartbeats run when the connection can be opened.    *)
Consistent ==
    /\ socket = "none" => d_state \in {"DISCONNECTED", "CONNECTION_CLOSE_RECEIVED"}
    /\ inRead => socket # "CONNECTING"
    /\ \/ "FATAL" \in {shutdownType, orphan}
       \/ d_state = "CONNECTION_CLOSE_SENT_EXIT"
       \/ Contains(writes, "closeExit")
       \/ closeCb # "none"
       => closeRequested
    /\ d_state = "CONNECTION_OPEN_SENT" \/ Contains(writes, "open") => heartbeat
    /\ closeRequested => Started

(* A connection that nobody has asked to close is never left for dead:     *)
(* whenever it has no socket, another attempt is scheduled.                *)
NeverDead ==
    Started /\ ~closeRequested /\ socket = "none" => retryArmed \/ retryDue

(* Somebody watches over a socket at all times: the establishment timeout  *)
(* until OpenOk, the HeartbeatManager from then on.                        *)
Watched ==
    /\ socket = "CONNECTING" => hungArmed \/ hungDue
    /\ socket = "CONNECTED" => hungArmed \/ hungDue \/ heartbeat

(* When the closeCb of close() has run the socket is gone, the channels    *)
(* have been reset, and whoever waits for the first connect has an         *)
(* answer.                                                                 *)
CloseFinished ==
    closeCb = "called" =>
        socket = "none" /\ channels = "reset" /\ firstConnectCb # "waiting"

(* An attempt is scheduled only while there is no socket, so none replaces *)
(* a connection that is alive.                                             *)
RetryOnlyWhenDown == retryArmed \/ retryDue => socket = "none"

(* After close() no attempt to connect is started, whatever timers and     *)
(* errors were under way.                                                  *)
NoReconnectAfterClose ==
    [][closeRequested /\ socket' = "CONNECTING" => socket = "CONNECTING"]_vars

(* The channels see a Link.                                                *)
Seen ==
    IF socket = "none" THEN "DOWN"
    ELSE IF socket = "CLOSING" THEN "CLOSING"
    ELSE IF socket = "CONNECTED" /\ channels = "open" THEN "UP"
    ELSE "HANDSHAKE"

L == INSTANCE Link WITH link <- Seen

ImplementsLink == L!Spec

(* Whatever goes wrong, the connection comes back unless it is closed.     *)
Reconnects == Started ~> (d_state = "CONNECTED" \/ closeRequested)

(* close() always comes to its end, at any time, if only one thing goes    *)
(* wrong.  It takes two to make it fail: when a frame has made the client  *)
(* let the socket go, a Connection.Close of the same read still sets       *)
(* CONNECTION_CLOSE_RECEIVED over DISCONNECTED, and a close() that finds   *)
(* this state does nothing.                                                *)
CloseAnswered == closeRequested ~> (closeCb = "called" \/ faults > 1)

=============================================================================
