-------------------------- MODULE ConnectionProofs --------------------------
(***************************************************************************)
(* Proofs about Connection, for every number of faults and of handlers     *)
(* queued ahead of a timer.                                                *)
(***************************************************************************)
EXTENDS Connection, SeqFacts

(* The inductive invariant                                                 *)
IInv == TypeOK /\ Consistent /\ NeverDead /\ Watched /\ CloseFinished

(* The variables that giving the socket up does not touch have their types *)
Rest ==
    /\ stale \in Nat
    /\ inRead \in BOOLEAN
    /\ hungDue \in BOOLEAN
    /\ retryDue \in BOOLEAN
    /\ closeRequested \in BOOLEAN
    /\ destroyed \in BOOLEAN
    /\ ahead \in 0..MaxAhead
    /\ faults \in 0..MaxFaults
    /\ orphan \in DisconnectTypes \cup {"none"}
    /\ orphan = "FATAL" => closeRequested

(* What is left of a sequence, and what is added to it                     *)
LEMMA TailFacts ==
    ASSUME NEW S, NEW s \in Seq(S), s # <<>>
    PROVE  /\ Head(s) \in S
           /\ Contains(s, Head(s))
           /\ Tail(s) \in Seq(S)
           /\ \A x : Contains(Tail(s), x) => Contains(s, x)
<1>1. /\ Len(s) \in Nat /\ Len(s) >= 1 /\ Head(s) = s[1]
      /\ Len(Tail(s)) = Len(s) - 1
      /\ \A i \in 1..Len(Tail(s)) : Tail(s)[i] = s[i + 1] /\ i + 1 \in 1..Len(s)
  OBVIOUS
<1>2. Head(s) \in S /\ Tail(s) \in Seq(S)
  OBVIOUS
<1>3. 1 \in 1..Len(s)
  BY <1>1
<1>4. Contains(s, Head(s))
  BY <1>1, <1>3 DEF Contains
<1>5. ASSUME NEW x, Contains(Tail(s), x) PROVE Contains(s, x)
  BY <1>1, <1>5 DEF Contains
<1> QED
  BY <1>2, <1>4, <1>5

(* The sequences that are written                                          *)
LEMMA Written ==
    /\ <<>> \in Seq(DOMAIN SentState) /\ \A x : ~Contains(<<>>, x)
    /\ \A m \in DOMAIN SentState :
          <<m>> \in Seq(DOMAIN SentState) /\ \A x : Contains(<<m>>, x) <=> x = m
    /\ \A m, n \in DOMAIN SentState :
          /\ <<m, n>> \in Seq(DOMAIN SentState)
          /\ \A x : Contains(<<m, n>>, x) <=> x \in {m, n}
<1>1. <<>> \in Seq(DOMAIN SentState) /\ \A x : ~Contains(<<>>, x)
  BY DEF Contains
<1>2. ASSUME NEW m \in DOMAIN SentState
      PROVE  <<m>> \in Seq(DOMAIN SentState) /\ \A x : Contains(<<m>>, x) <=> x = m
  BY DEF Contains
<1>3. ASSUME NEW m \in DOMAIN SentState, NEW n \in DOMAIN SentState
      PROVE  /\ <<m, n>> \in Seq(DOMAIN SentState)
             /\ \A x : Contains(<<m, n>>, x) <=> x \in {m, n}
  <2>1. <<m, n>> \in Seq(DOMAIN SentState)
    BY PairIsSeq
  <2>2. Len(<<m, n>>) = 2 /\ <<m, n>>[1] = m /\ <<m, n>>[2] = n
    OBVIOUS
  <2> QED
    BY <2>1, <2>2 DEF Contains
<1> QED
  BY <1>1, <1>2, <1>3

(* The methods                                                             *)
LEMMA Methods ==
    /\ DOMAIN SentState = {"header", "startOk", "tuneOk", "open", "closeOk",
                           "closeExit", "closeReconnect"}
    /\ \A m \in DOMAIN SentState :
          /\ SentState[m] \in States \ {"DISCONNECTED"}
          /\ SentState[m] = "CONNECTION_CLOSE_SENT_EXIT" => m = "closeExit"
          /\ SentState[m] = "CONNECTION_OPEN_SENT" => m = "open"
  BY DEF SentState, States, Handshake

(* Connection::socketShutdown leaves the connection down and either        *)
(* retrying or closed.                                                     *)
LEMMA SocketShutdownStep ==
    ASSUME IInv, Rest', Started,
           NEW dcTypes \in SUBSET DisconnectTypes, dcTypes # {},
           SocketShutdown(dcTypes),
           closeRequested => closeRequested',
           "FATAL" \in dcTypes => closeRequested'
    PROVE  IInv'
<1> USE DEF IInv, Rest, SocketShutdown, ForgetSocket, ResetAll, WillRetry, DisconnectTypes
<1>1. writes' \in Seq(DOMAIN SentState) /\ ~Contains(writes', "closeExit")
      /\ ~Contains(writes', "open")
  BY Written
<1>2. closeRequested \in BOOLEAN
  BY DEF TypeOK
<1>3. TypeOK'
  BY <1>1 DEF TypeOK, States
<1>4. Started' /\ firstConnectCb' # "none"
  BY DEF Started
<1>5. (\E t \in dcTypes : ~WillRetry(t)) => closeRequested'
  BY <1>2
<1>6. ~closeRequested' => retryArmed'
  BY <1>2, <1>5
<1>7. Consistent'
  BY <1>1, <1>4, <1>5 DEF Consistent
<1>8. NeverDead'
  BY <1>6 DEF NeverDead
<1>9. Watched'
  BY DEF Watched
<1>10. CloseFinished'
  <2>1. CASE \E t \in dcTypes : ~WillRetry(t)
    BY <2>1 DEF CloseFinished
  <2>2. CASE ~(\E t \in dcTypes : ~WillRetry(t))
    BY <2>2 DEF CloseFinished
  <2> QED
    BY <2>1, <2>2
<1> QED
  BY <1>3, <1>7, <1>8, <1>9, <1>10

(* Letting go of the socket, whatever its state                            *)
LEMMA DisconnectStep ==
    ASSUME IInv, Rest', Started, NEW dcType \in DisconnectTypes, Disconnect(dcType),
           closeRequested => closeRequested',
           dcType = "FATAL" => closeRequested'
    PROVE  IInv'
<1> DEFINE dcTypes == {dcType} \cup
                      (IF socket = "CLOSING" /\ ~inRead THEN {shutdownType} ELSE {})
<1>1. socket = "CLOSING" => shutdownType \in DisconnectTypes
  BY DEF IInv, TypeOK
<1>2. dcTypes \in SUBSET DisconnectTypes /\ dcTypes # {}
  BY <1>1
<1>3. shutdownType = "FATAL" => closeRequested
  BY DEF IInv, Consistent
<1>4. "FATAL" \in dcTypes => closeRequested'
  BY <1>3
<1>5. SocketShutdown(dcTypes)
  BY DEF Disconnect
<1> HIDE DEF dcTypes
<1> QED
  BY <1>2, <1>4, <1>5, SocketShutdownStep

(* The types of the variables that Disconnect changes and Rest is about    *)
LEMMA DisconnectTypesKept ==
    ASSUME IInv, NEW dcType, Disconnect(dcType)
    PROVE  /\ stale' \in Nat
           /\ orphan' \in DisconnectTypes \cup {"none"}
           /\ orphan' = "FATAL" => closeRequested
  BY DEF IInv, TypeOK, Consistent, Disconnect

(* Connection::closeSocket shuts the socket down or lets go of it.         *)
LEMMA CloseSocketStep ==
    ASSUME IInv, Started, NEW dcType \in DisconnectTypes, NEW rest,
           CloseSocket(dcType, rest),
           rest \in Seq(DOMAIN SentState),
           \A x : Contains(rest, x) => Contains(writes, x),
           dcType = "FATAL" => closeRequested,
           inRead' \in BOOLEAN, hungDue' \in BOOLEAN, ahead' \in 0..MaxAhead,
           faults' \in 0..MaxFaults,
           UNCHANGED <<retryDue, closeRequested, destroyed>>
    PROVE  IInv'
<1>1. CASE Disconnect(dcType)
  <2>1. Rest'
    BY <1>1, DisconnectTypesKept DEF Rest, IInv, TypeOK
  <2> QED
    BY <1>1, <2>1, DisconnectStep
<1>2. CASE /\ socket = "CONNECTED"
           /\ socket' = "CLOSING"
           /\ shutdownType' = dcType
           /\ d_state' = "CONNECTION_CLOSED"
           /\ writes' = rest
           /\ RetryLater
           /\ UNCHANGED <<orphan, stale, hungArmed, heartbeat, channels,
                          firstConnectCb, closeCb, wireVars>>
  <2> USE <1>2 DEF IInv, RetryLater
  <2>1. TypeOK'
    BY DEF TypeOK, States
  <2>2. Consistent'
    BY DEF Consistent, Started
  <2>3. NeverDead' /\ Watched'
    BY DEF NeverDead, Watched
  <2>4. CloseFinished'
    BY DEF CloseFinished
  <2> QED
    BY <2>1, <2>2, <2>3, <2>4
<1> QED
  BY <1>1, <1>2 DEF CloseSocket

(* Connection::asyncWriteSingleFrame adds to what is to be written.        *)
LEMMA WriteStep ==
    ASSUME IInv, NEW methods \in Seq(DOMAIN SentState), Write(methods)
    PROVE  /\ writes' \in Seq(DOMAIN SentState)
           /\ \A x : Contains(writes', x) => Contains(writes, x) \/ Contains(methods, x)
<1>1. writes \in Seq(DOMAIN SentState)
  BY DEF IInv, TypeOK
<1>2. writes \o methods \in Seq(DOMAIN SentState)
  BY <1>1
<1>3. \A x : Contains(writes \o methods, x) <=>
                Contains(writes, x) \/ Contains(methods, x)
  BY <1>1, ConcatContains
<1> QED
  BY <1>1, <1>2, <1>3 DEF Write

(* Connection::connectionException                                         *)
LEMMA ConnectionExceptionStep ==
    ASSUME IInv, Started, ConnectionException,
           UNCHANGED <<inRead, dueVars, ahead, closeRequested, destroyed, faults>>
    PROVE  IInv'
<1> USE DEF dueVars
<1>1. writes \in Seq(DOMAIN SentState) /\ inRead \in BOOLEAN /\ hungDue \in BOOLEAN
      /\ ahead \in 0..MaxAhead /\ faults \in 0..MaxFaults
  BY DEF IInv, TypeOK
<1>2. CASE d_state = "CONNECTION_CLOSE_SENT_EXIT"
  <2>1. CloseSocket("FATAL", writes) /\ closeRequested
    BY <1>2 DEF ConnectionException, Handshake, IInv, Consistent
  <2> QED
    BY <1>1, <2>1, CloseSocketStep DEF DisconnectTypes
<1>3. CASE d_state \in Handshake \cup {"CONNECTED"}
  <2>1. /\ Write(<<"closeReconnect">>)
        /\ KeepSocket
        /\ UNCHANGED <<d_state, hungArmed, heartbeat, channels, firstConnectCb,
                       wireVars>>
    BY <1>3 DEF ConnectionException, Handshake
  <2>2. /\ writes' \in Seq(DOMAIN SentState)
        /\ \A x : Contains(writes', x) => Contains(writes, x) \/ x = "closeReconnect"
    <3>1. "closeReconnect" \in DOMAIN SentState
      BY Methods
    <3>2. /\ <<"closeReconnect">> \in Seq(DOMAIN SentState)
          /\ \A x : Contains(<<"closeReconnect">>, x) <=> x = "closeReconnect"
      BY <3>1, Written
    <3> QED
      BY <2>1, <3>2, WriteStep
  <2> USE <2>1, <2>2 DEF IInv, KeepSocket
  <2>3. TypeOK'
    BY DEF TypeOK
  <2>4. Consistent'
    BY DEF Consistent, Started
  <2>5. NeverDead' /\ Watched' /\ CloseFinished'
    BY DEF NeverDead, Watched, CloseFinished, Started
  <2> QED
    BY <2>3, <2>4, <2>5
<1>4. CASE d_state \notin Handshake \cup {"CONNECTED", "CONNECTION_CLOSE_SENT_EXIT"}
  <2>1. CloseSocket("WILL_RETRY", writes)
    BY <1>4 DEF ConnectionException
  <2> QED
    BY <1>1, <2>1, CloseSocketStep DEF DisconnectTypes
<1> QED
  BY <1>2, <1>3, <1>4

-----------------------------------------------------------------------------
(* Before startFirstConnection nothing is under way.                       *)
Fresh ==
    \/ Started
    \/ /\ socket = "none" /\ stale = 0 /\ ~inRead /\ reading = <<>>
       /\ ~hungArmed /\ ~hungDue /\ ~retryArmed /\ ~retryDue
       /\ ~heartbeat /\ ~closeRequested /\ toBroker = <<>> /\ bState = "none"

(* A connection that was started stays so.                                 *)
LEMMA StaysStarted ==
    ASSUME Started, Next
    PROVE  Started'
<1>1. ASSUME NEW dcTypes, SocketShutdown(dcTypes) PROVE Started'
  BY <1>1 DEF SocketShutdown, Started
<1>2. ASSUME NEW dcType, Disconnect(dcType) PROVE Started'
  BY <1>1, <1>2 DEF Disconnect
<1>3. ASSUME NEW dcType, NEW rest, CloseSocket(dcType, rest) PROVE Started'
  BY <1>2, <1>3 DEF CloseSocket, Started
<1>4. ASSUME ConnectionException PROVE Started'
  BY <1>3, <1>4 DEF ConnectionException, Started
<1>5. CASE StartFirstConnection \/ AttemptConnects \/ StaleAttemptDropped \/ HungExpires
           \/ RetryExpires \/ ReadFrames
  BY <1>5 DEF StartFirstConnection, AttemptConnects, StaleAttemptDropped, HungExpires,
     RetryExpires, ReadFrames, Started
<1>6. CASE AttemptFails \/ StaleAttemptFails \/ SocketFails \/ EndOfStream
           \/ ReadEndsBadly
  BY <1>1, <1>6 DEF AttemptFails, StaleAttemptFails, SocketFails, EndOfStream,
     ReadEndsBadly
<1>7. CASE EarlyCloseFails \/ EarlyWriteFails \/ Destroy
  BY <1>2, <1>7 DEF EarlyCloseFails, EarlyWriteFails, Destroy
<1>8. CASE ConnectionHung \/ GivenUpFromAbove
  BY <1>3, <1>8 DEF ConnectionHung, GivenUpFromAbove
<1>9. CASE Retry
  BY <1>1, <1>9 DEF Retry, InitiateInVain, Started
<1>10. CASE WriteCompletes
  BY <1>3, <1>10 DEF WriteCompletes, Started
<1>11. CASE ReadEnds
  BY <1>1, <1>11 DEF ReadEnds, Started
<1>12. CASE Handle
  BY <1>3, <1>4, <1>12 DEF Handle, Start, Tune, TuneTooSmall, OpenOk, ReceiveClose,
     ReceiveCloseOk, Unwelcome, Expected, Started
<1>13. CASE Close
  BY <1>2, <1>13 DEF Close, Started
<1>14. CASE Gone
  BY <1>14 DEF Gone, vars, Started
<1>15. CASE BrokerReceives \/ BrokerObjects
  BY <1>15 DEF BrokerReceives, BrokerObjects, brokerUnchanged, Started
<1> QED
  BY <1>5, <1>6, <1>7, <1>8, <1>9, <1>10, <1>11, <1>12, <1>13, <1>14, <1>15 DEF Next

(* Only startFirstConnection can happen to a fresh connection.             *)
LEMMA OnlyStart ==
    ASSUME Fresh, ~Started, Next
    PROVE  StartFirstConnection \/ UNCHANGED vars
<1> USE DEF Fresh, Started
<1>1. CASE AttemptConnects \/ AttemptFails \/ StaleAttemptFails
           \/ StaleAttemptDropped \/ EarlyCloseFails \/ EarlyWriteFails
  BY <1>1 DEF AttemptConnects, AttemptFails, StaleAttemptFails, StaleAttemptDropped,
     EarlyCloseFails, EarlyWriteFails
<1>2. CASE HungExpires \/ ConnectionHung \/ RetryExpires \/ Retry \/ GivenUpFromAbove
  BY <1>2 DEF HungExpires, ConnectionHung, RetryExpires, Retry, GivenUpFromAbove
<1>3. CASE WriteCompletes \/ SocketFails \/ EndOfStream \/ ReadFrames
           \/ ReadEnds \/ ReadEndsBadly
  BY <1>3 DEF WriteCompletes, SocketFails, EndOfStream, ReadFrames, ReadEnds,
     ReadEndsBadly, Usable
<1>4. CASE Handle
  BY <1>4 DEF Handle, Start, Tune, TuneTooSmall, OpenOk, ReceiveClose,
     ReceiveCloseOk, Unwelcome, Process
<1>5. CASE Close \/ Destroy \/ BrokerReceives \/ BrokerObjects
  BY <1>5 DEF Close, Destroy, BrokerReceives, BrokerObjects
<1>6. CASE Gone
  BY <1>6 DEF Gone
<1> QED
  BY <1>1, <1>2, <1>3, <1>4, <1>5, <1>6 DEF Next

(* So freshness ends with the start and not before.                        *)
LEMMA FreshStep ==
    ASSUME Fresh, Next
    PROVE  Fresh'
<1>1. CASE Started
  BY <1>1, StaysStarted DEF Fresh
<1>2. CASE StartFirstConnection
  BY <1>2 DEF StartFirstConnection, Fresh, Started
<1>3. CASE UNCHANGED vars
  BY <1>3 DEF Fresh, Started, vars, readVars, dueVars, wireVars
<1> QED
  BY <1>1, <1>2, <1>3, OnlyStart

-----------------------------------------------------------------------------
(* One lemma per kind of step: each keeps the invariant.                   *)

(* The bounded counters                                                    *)
LEMMA Bounds ==
    ASSUME IInv
    PROVE  /\ Free \/ Queued \/ ahead' = 0 => ahead' \in 0..MaxAhead
           /\ Fault => faults' \in 0..MaxFaults
  BY ConnectionAssumption DEF IInv, TypeOK, Free, Queued, Fault

(* The handlers that find the socket gone: connectError, socketError, the  *)
(* end of the stream and bytes that are not a frame.                       *)
LEMMA ShutdownSteps ==
    ASSUME IInv, Started,
           AttemptFails \/ StaleAttemptFails \/ SocketFails \/ EndOfStream
           \/ ReadEndsBadly
    PROVE  IInv'
<1> DEFINE type == IF socket = "CLOSING" THEN shutdownType ELSE "WILL_RETRY"
<1>1. /\ type \in DisconnectTypes
      /\ "FATAL" \in {type, shutdownType} => closeRequested
      /\ socket = "CLOSING" => shutdownType = type
  BY DEF IInv, TypeOK, Consistent, DisconnectTypes
<1>2. stale' \in Nat
  BY DEF IInv, TypeOK, AttemptFails, StaleAttemptFails, SocketFails, EndOfStream,
     ReadEndsBadly
<1>3. /\ ahead' \in 0..MaxAhead /\ faults' \in 0..MaxFaults
      /\ inRead' \in BOOLEAN /\ orphan' \in DisconnectTypes \cup {"none"}
      /\ orphan' = "FATAL" => closeRequested
      /\ hungDue' \in BOOLEAN /\ retryDue' \in BOOLEAN
      /\ destroyed' \in BOOLEAN /\ closeRequested' \in BOOLEAN
      /\ closeRequested' = closeRequested
  <2>1. /\ Free \/ ahead' = ahead
        /\ Fault \/ faults' = faults
        /\ inRead' \in {inRead, FALSE} /\ orphan' \in {orphan, "none"}
        /\ UNCHANGED <<hungDue, retryDue, destroyed, closeRequested>>
    BY Zenon DEF AttemptFails, StaleAttemptFails, SocketFails, EndOfStream, ReadEndsBadly,
       Outside, dueVars
  <2> QED
    BY <2>1, Bounds DEF IInv, TypeOK, Consistent
<1>4. Rest'
  BY <1>2, <1>3 DEF Rest
<1>5. \/ SocketShutdown({"WILL_RETRY"}) \/ SocketShutdown({type})
      \/ SocketShutdown({"WILL_RETRY"} \cup
             (IF socket = "CLOSING" THEN {shutdownType} ELSE {}))
  BY Zenon DEF AttemptFails, StaleAttemptFails, SocketFails, EndOfStream, ReadEndsBadly
<1> HIDE DEF type
<1>6. CASE SocketShutdown({"WILL_RETRY"})
  BY <1>3, <1>4, <1>6, SocketShutdownStep DEF DisconnectTypes
<1>7. CASE SocketShutdown({type})
  BY <1>1, <1>3, <1>4, <1>7, SocketShutdownStep DEF DisconnectTypes
<1>8. CASE SocketShutdown({"WILL_RETRY"} \cup
              (IF socket = "CLOSING" THEN {shutdownType} ELSE {}))
  <2> DEFINE both == {"WILL_RETRY"} \cup
                     (IF socket = "CLOSING" THEN {shutdownType} ELSE {})
  <2>1. both \in SUBSET DisconnectTypes /\ both # {}
    BY <1>1 DEF DisconnectTypes
  <2>2. "FATAL" \in both => closeRequested'
    BY <1>1, <1>3
  <2>3. SocketShutdown(both)
    BY <1>8
  <2> HIDE DEF both
  <2> QED
    BY <1>3, <1>4, <2>1, <2>2, <2>3, SocketShutdownStep
<1> QED
  BY <1>5, <1>6, <1>7, <1>8

(* The handlers that let go of a socket in use: a write on a socket that   *)
(* is not connected yet, and the destructor                                *)
LEMMA DisconnectSteps ==
    ASSUME IInv, Started, EarlyCloseFails \/ EarlyWriteFails \/ Destroy
    PROVE  IInv'
<1>1. PICK dcType \in DisconnectTypes :
         Disconnect(dcType) /\ (dcType = "FATAL" => closeRequested)
  BY Zenon DEF EarlyCloseFails, EarlyWriteFails, Destroy, DisconnectTypes
<1>2. /\ Free
      /\ Fault \/ faults' = faults
      /\ UNCHANGED <<inRead, hungDue, retryDue, closeRequested>>
      /\ destroyed' \in {destroyed, TRUE}
  BY Zenon DEF EarlyCloseFails, EarlyWriteFails, Destroy, Outside, dueVars
<1>3. Rest'
  BY <1>1, <1>2, Bounds, DisconnectTypesKept DEF Rest, IInv, TypeOK
<1> QED
  BY <1>1, <1>2, <1>3, DisconnectStep

(* The handlers that close the socket: the establishment timeout, a missed *)
(* heartbeat, a hung channel, and CloseOk                                  *)
LEMMA CloseSocketSteps ==
    ASSUME IInv, Started, ConnectionHung \/ GivenUpFromAbove \/ ReceiveCloseOk
    PROVE  IInv'
<1>1. PICK dcType \in DisconnectTypes :
         CloseSocket(dcType, writes) /\ (dcType = "FATAL" => closeRequested)
  <2>1. CloseOkEnds \in DisconnectTypes /\ (CloseOkEnds = "FATAL" => closeRequested)
    BY DEF CloseOkEnds, DisconnectTypes, IInv, Consistent
  <2> QED
    BY <2>1, Zenon DEF ConnectionHung, GivenUpFromAbove, ReceiveCloseOk, DisconnectTypes
<1>2. /\ Free \/ ahead' = 0 \/ ahead' = ahead
      /\ Fault \/ faults' = faults
      /\ UNCHANGED <<inRead, retryDue, closeRequested, destroyed>>
      /\ hungDue' \in {hungDue, FALSE}
  BY Zenon DEF ConnectionHung, GivenUpFromAbove, ReceiveCloseOk, Process, Outside,
     dueVars
<1>3. /\ writes \in Seq(DOMAIN SentState)
      /\ inRead' \in BOOLEAN /\ hungDue' \in BOOLEAN /\ ahead' \in 0..MaxAhead
      /\ faults' \in 0..MaxFaults
  BY <1>2, Bounds DEF IInv, TypeOK
<1> QED
  BY <1>1, <1>2, <1>3, CloseSocketStep

(* Connection::startFirstConnection                                        *)
LEMMA StartFirstConnectionStep ==
    ASSUME IInv, Fresh, StartFirstConnection
    PROVE  IInv'
<1> USE DEF StartFirstConnection, InitiateConnect, ForgetSocket, StartHungTimer, dueVars
<1>1. writes' \in Seq(DOMAIN SentState) /\ \A x : ~Contains(writes', x)
  BY Written
<1>2. socket = "none" /\ ~closeRequested /\ ~inRead
  BY DEF Fresh
<1>3. TypeOK'
  BY <1>1, <1>2 DEF IInv, TypeOK
<1>4. Consistent'
  BY <1>1, <1>2 DEF IInv, Consistent
<1>5. NeverDead' /\ Watched'
  BY DEF NeverDead, Watched
<1>6. CloseFinished'
  BY <1>2 DEF IInv, Consistent, CloseFinished, TypeOK
<1> QED
  BY <1>3, <1>4, <1>5, <1>6 DEF IInv

(* Connection::connect                                                     *)
LEMMA AttemptConnectsStep ==
    ASSUME IInv, Started, AttemptConnects
    PROVE  IInv'
<1> USE DEF AttemptConnects, readVars, dueVars
<1>1. /\ writes' \in Seq(DOMAIN SentState)
      /\ \A x : Contains(writes', x) <=> x = "header"
  BY Methods, Written
<1>2. Started' /\ ahead' \in 0..MaxAhead /\ ~inRead
  BY Bounds DEF Started, Free, Idle
<1>3. TypeOK'
  BY <1>1, <1>2 DEF IInv, TypeOK
<1>4. Consistent'
  BY <1>1, <1>2 DEF IInv, Consistent
<1>5. NeverDead' /\ Watched'
  BY DEF IInv, NeverDead, Watched
<1>6. CloseFinished'
  BY DEF IInv, CloseFinished
<1> QED
  BY <1>3, <1>4, <1>5, <1>6 DEF IInv

(* A timer expires, an attempt that was given up is dropped, or frames are *)
(* read: nothing that the invariant relates changes but who is due.        *)
LEMMA QuietSteps ==
    ASSUME IInv, Started, StaleAttemptDropped \/ HungExpires \/ RetryExpires \/ ReadFrames
    PROVE  IInv'
<1>1. /\ UNCHANGED <<d_state, socket, shutdownType, writes, orphan, heartbeat, channels,
                     firstConnectCb, closeRequested, closeCb, destroyed>>
      /\ Free \/ Queued
      /\ Fault \/ faults' = faults
  BY Zenon DEF StaleAttemptDropped, HungExpires, RetryExpires, ReadFrames, readVars
<1>2. /\ hungArmed \/ hungDue => hungArmed' \/ hungDue'
      /\ retryArmed \/ retryDue => retryArmed' \/ retryDue'
      /\ hungArmed' \in {hungArmed, FALSE} /\ hungDue' \in {hungDue, TRUE}
      /\ retryArmed' \in {retryArmed, FALSE} /\ retryDue' \in {retryDue, TRUE}
  <2>1. CASE StaleAttemptDropped \/ ReadFrames
    <3>1. UNCHANGED <<hungArmed, hungDue, retryArmed, retryDue>>
      BY <2>1, Zenon DEF StaleAttemptDropped, ReadFrames, dueVars
    <3> QED
      BY <3>1, Zenon
  <2>2. CASE HungExpires
    BY <2>2, Zenon DEF HungExpires
  <2>3. CASE RetryExpires
    BY <2>3, Zenon DEF RetryExpires
  <2> QED
    BY <2>1, <2>2, <2>3
<1>3. stale' \in Nat
  BY DEF StaleAttemptDropped, HungExpires, RetryExpires, ReadFrames, IInv, TypeOK
<1>4. inRead' = inRead \/ (inRead' = TRUE /\ Usable)
  BY Zenon DEF StaleAttemptDropped, HungExpires, RetryExpires, ReadFrames, readVars
<1>5. hungArmed' \in BOOLEAN /\ hungDue' \in BOOLEAN /\ retryArmed' \in BOOLEAN
      /\ retryDue' \in BOOLEAN /\ inRead' \in BOOLEAN
  BY <1>2, <1>4, Zenon DEF IInv, TypeOK
<1>6. TypeOK'
  BY <1>1, <1>3, <1>5, Bounds DEF IInv, TypeOK
<1>7. Consistent'
  BY <1>1, <1>4 DEF IInv, Consistent, Started, Usable
<1>8. NeverDead' /\ Watched' /\ CloseFinished'
  BY <1>1, <1>2 DEF IInv, NeverDead, Watched, CloseFinished, Started
<1> QED
  BY <1>6, <1>7, <1>8 DEF IInv

(* Connection::retry                                                       *)
LEMMA RetryStep ==
    ASSUME IInv, Started, Retry
    PROVE  IInv'
<1>1. /\ ahead' \in 0..MaxAhead /\ retryDue' \in BOOLEAN /\ ~inRead
      /\ UNCHANGED <<inRead, closeRequested, destroyed, hungDue, faults>>
  BY Bounds DEF Retry, Outside, Idle
<1>2. CASE MayConnect /\ InitiateConnect /\ UNCHANGED firstConnectCb
  <2> USE <1>1, <1>2 DEF InitiateConnect, ForgetSocket, StartHungTimer, MayConnect
  <2>1. writes' \in Seq(DOMAIN SentState) /\ \A x : ~Contains(writes', x)
    BY Written
  <2>2. TypeOK'
    BY <2>1 DEF IInv, TypeOK
  <2>3. Consistent'
    BY <2>1 DEF IInv, Consistent
  <2>4. NeverDead' /\ Watched'
    BY DEF NeverDead, Watched
  <2>5. CloseFinished'
    BY DEF IInv, Consistent, CloseFinished
  <2> QED
    BY <2>2, <2>3, <2>4, <2>5 DEF IInv
<1>3. CASE MayConnect /\ InitiateInVain
  <2>1. SocketShutdown({shutdownType}) /\ shutdownType \in DisconnectTypes
    BY <1>3 DEF InitiateInVain, IInv, TypeOK
  <2>2. shutdownType = "FATAL" => closeRequested
    BY DEF IInv, Consistent
  <2>3. Rest'
    BY <1>1, <1>3 DEF Rest, InitiateInVain, IInv, TypeOK, Consistent
  <2> QED
    BY <1>1, <2>1, <2>2, <2>3, SocketShutdownStep
<1>4. CASE ~MayConnect
  <2>1. /\ KeepSocket
        /\ UNCHANGED <<d_state, writes, hungArmed, heartbeat, channels, firstConnectCb>>
        /\ closeRequested
    BY <1>4 DEF Retry, MayConnect
  <2> USE <1>1, <2>1 DEF KeepSocket
  <2>2. TypeOK'
    BY DEF IInv, TypeOK
  <2>3. Consistent'
    BY DEF IInv, Consistent, Started
  <2>4. NeverDead' /\ Watched' /\ CloseFinished'
    BY DEF IInv, NeverDead, Watched, CloseFinished
  <2> QED
    BY <2>2, <2>3, <2>4 DEF IInv
<1> QED
  BY <1>2, <1>3, <1>4 DEF Retry

(* Connection::onWriteComplete                                             *)
LEMMA WriteCompletesStep ==
    ASSUME IInv, Started, WriteCompletes
    PROVE  IInv'
<1>1. /\ writes \in Seq(DOMAIN SentState)
      /\ Head(writes) \in DOMAIN SentState
      /\ Contains(writes, Head(writes))
      /\ Tail(writes) \in Seq(DOMAIN SentState)
      /\ \A x : Contains(Tail(writes), x) => Contains(writes, x)
  <2>1. writes \in Seq(DOMAIN SentState) /\ writes # <<>>
    BY DEF IInv, TypeOK, WriteCompletes
  <2> QED
    BY <2>1, TailFacts
<1>2. /\ ahead' \in 0..MaxAhead
      /\ UNCHANGED <<inRead, closeRequested, destroyed, hungDue, retryDue, faults>>
  BY Bounds DEF WriteCompletes, Outside, dueVars
<1>3. inRead' \in BOOLEAN /\ hungDue' \in BOOLEAN /\ faults' \in 0..MaxFaults
  BY <1>2 DEF IInv, TypeOK
<1>4. CASE Head(writes) = "closeOk"
  <2>1. CloseSocket("WILL_RETRY", Tail(writes))
    BY <1>4 DEF WriteCompletes
  <2> QED
    BY <1>1, <1>2, <1>3, <2>1, CloseSocketStep DEF DisconnectTypes
<1>5. CASE Head(writes) # "closeOk"
  <2>1. /\ d_state' = SentState[Head(writes)]
        /\ writes' = Tail(writes)
        /\ KeepSocket
        /\ UNCHANGED <<hungArmed, heartbeat, channels, firstConnectCb>>
        /\ socket # "none"
    BY <1>5 DEF WriteCompletes, Usable
  <2>2. /\ d_state' \in States
        /\ d_state' = "CONNECTION_CLOSE_SENT_EXIT" => Contains(writes, "closeExit")
        /\ d_state' = "CONNECTION_OPEN_SENT" => Contains(writes, "open")
    BY <1>1, <2>1, Methods
  <2> USE <1>1, <1>2, <2>1, <2>2 DEF KeepSocket
  <2>3. TypeOK'
    BY DEF IInv, TypeOK
  <2>4. Consistent'
    BY DEF IInv, Consistent, Started
  <2>5. NeverDead' /\ Watched' /\ CloseFinished'
    BY DEF IInv, NeverDead, Watched, CloseFinished, Started
  <2> QED
    BY <2>3, <2>4, <2>5 DEF IInv
<1> QED
  BY <1>4, <1>5

(* The end of a read                                                       *)
LEMMA ReadEndsStep ==
    ASSUME IInv, Started, ReadEnds
    PROVE  IInv'
<1>1. /\ inRead' \in BOOLEAN /\ ~inRead' /\ orphan' = "none"
      /\ UNCHANGED <<stale, hungDue, retryDue, ahead, closeRequested, destroyed, faults>>
  BY DEF ReadEnds, dueVars
<1>2. CASE orphan # "none"
  <2>1. SocketShutdown({orphan}) /\ orphan \in DisconnectTypes
    BY <1>2 DEF ReadEnds, IInv, TypeOK
  <2>2. orphan = "FATAL" => closeRequested
    BY DEF IInv, Consistent
  <2>3. Rest'
    BY <1>1 DEF Rest, IInv, TypeOK
  <2> QED
    BY <1>1, <2>1, <2>2, <2>3, SocketShutdownStep
<1>3. CASE orphan = "none"
  <2>1. UNCHANGED <<d_state, socket, shutdownType, writes, hungArmed, retryArmed,
                    heartbeat, channels, firstConnectCb, closeCb>>
    BY <1>3 DEF ReadEnds
  <2> USE <1>1, <2>1
  <2>2. TypeOK'
    BY DEF IInv, TypeOK
  <2>3. Consistent'
    BY DEF IInv, Consistent, Started
  <2>4. NeverDead' /\ Watched' /\ CloseFinished'
    BY DEF IInv, NeverDead, Watched, CloseFinished, Started
  <2> QED
    BY <2>2, <2>3, <2>4 DEF IInv
<1> QED
  BY <1>2, <1>3

(* A frame that is answered by a write, or not at all                      *)
LEMMA AnswerStep ==
    ASSUME IInv, Started, NEW methods \in Seq(DOMAIN SentState), Write(methods),
           ~Contains(methods, "closeExit"),
           Contains(methods, "open") => heartbeat',
           KeepSocket,
           UNCHANGED <<inRead, dueVars, ahead, closeRequested, destroyed, faults>>,
           d_state' \in States, d_state' # "CONNECTION_CLOSE_SENT_EXIT",
           d_state' # "CONNECTION_OPEN_SENT",
           socket = "none" => d_state' = "CONNECTION_CLOSE_RECEIVED",
           heartbeat' \in BOOLEAN, heartbeat => heartbeat',
           UNCHANGED <<hungArmed, channels, firstConnectCb>>
    PROVE  IInv'
<1>1. /\ writes' \in Seq(DOMAIN SentState)
      /\ \A x : Contains(writes', x) => Contains(writes, x) \/ Contains(methods, x)
  BY WriteStep
<1> USE <1>1 DEF KeepSocket, dueVars
<1>2. TypeOK'
  BY DEF IInv, TypeOK
<1>3. Consistent'
  BY DEF IInv, Consistent, Started
<1>4. NeverDead' /\ CloseFinished'
  BY DEF IInv, NeverDead, CloseFinished, Started
<1>5. Watched'
  BY DEF IInv, Watched
<1> QED
  BY <1>2, <1>3, <1>4, <1>5 DEF IInv

(* ConnectionMethodProcessor                                               *)
LEMMA HandleStep ==
    ASSUME IInv, Started, Handle
    PROVE  IInv'
<1>1. CASE ReceiveCloseOk
  BY <1>1, CloseSocketSteps
<1>2. ASSUME ~ReceiveCloseOk
      PROVE  UNCHANGED <<inRead, dueVars, ahead, closeRequested, destroyed, faults>>
  BY <1>2, Zenon DEF Handle, Start, Tune, TuneTooSmall, OpenOk, ReceiveClose, Unwelcome,
     Process
<1>3. CASE ~ReceiveCloseOk /\ ConnectionException
  BY <1>2, <1>3, ConnectionExceptionStep
<1>types. d_state \in States /\ heartbeat \in BOOLEAN
          /\ (socket = "none" => d_state \notin Handshake)
  BY DEF IInv, TypeOK, Consistent, Handshake
<1>4. CASE ~ReceiveCloseOk /\ Start /\ ~ConnectionException
  <2>1. /\ d_state = "PROTOCOL_HEADER_SENT"
        /\ d_state' = "CONNECTION_START_RECEIVED"
        /\ Write(<<"startOk">>)
        /\ KeepSocket
        /\ UNCHANGED <<hungArmed, heartbeat, channels, firstConnectCb>>
    BY <1>4 DEF Start, Expected
  <2>2. /\ <<"startOk">> \in Seq(DOMAIN SentState)
        /\ ~Contains(<<"startOk">>, "closeExit") /\ ~Contains(<<"startOk">>, "open")
    BY Methods, Written
  <2>3. socket # "none" /\ d_state' \in States
    BY <1>types, <2>1 DEF Handshake, States
  <2> QED
    BY <1>2, <1>4, <1>types, <2>1, <2>2, <2>3, AnswerStep
<1>5. CASE ~ReceiveCloseOk /\ Tune /\ ~ConnectionException
  <2>1. /\ d_state = "CONNECTION_STARTOK_SENT"
        /\ d_state' = "CONNECTION_TUNE_RECEIVED"
        /\ Write(<<"tuneOk", "open">>)
        /\ heartbeat' = TRUE
        /\ KeepSocket
        /\ UNCHANGED <<hungArmed, channels, firstConnectCb>>
    BY <1>5 DEF Tune, Expected
  <2>2. /\ <<"tuneOk", "open">> \in Seq(DOMAIN SentState)
        /\ ~Contains(<<"tuneOk", "open">>, "closeExit")
    BY Methods, Written
  <2>3. socket # "none" /\ d_state' \in States /\ heartbeat' \in BOOLEAN /\ heartbeat'
    BY <1>types, <2>1 DEF Handshake, States
  <2> QED
    BY <1>2, <1>5, <2>1, <2>2, <2>3, AnswerStep
<1>6. CASE ~ReceiveCloseOk /\ TuneTooSmall /\ ~ConnectionException
  <2>1. /\ d_state = "CONNECTION_STARTOK_SENT"
        /\ d_state' = "CONNECTION_TUNE_RECEIVED"
        /\ Write(<<"closeReconnect">>)
        /\ KeepSocket
        /\ UNCHANGED <<hungArmed, heartbeat, channels, firstConnectCb>>
    BY <1>6 DEF TuneTooSmall, Expected
  <2>2. /\ <<"closeReconnect">> \in Seq(DOMAIN SentState)
        /\ ~Contains(<<"closeReconnect">>, "closeExit")
        /\ ~Contains(<<"closeReconnect">>, "open")
    BY Methods, Written
  <2>3. socket # "none" /\ d_state' \in States
    BY <1>types, <2>1 DEF Handshake, States
  <2> QED
    BY <1>2, <1>6, <1>types, <2>1, <2>2, <2>3, AnswerStep
<1>7. CASE ~ReceiveCloseOk /\ ReceiveClose
  <2>1. /\ d_state' = "CONNECTION_CLOSE_RECEIVED"
        /\ Write(<<"closeOk">>)
        /\ KeepSocket
        /\ UNCHANGED <<hungArmed, heartbeat, channels, firstConnectCb>>
    BY <1>7 DEF ReceiveClose
  <2>2. /\ <<"closeOk">> \in Seq(DOMAIN SentState)
        /\ ~Contains(<<"closeOk">>, "closeExit") /\ ~Contains(<<"closeOk">>, "open")
    BY Methods, Written
  <2>3. d_state' \in States
    BY <2>1 DEF States
  <2> QED
    BY <1>2, <1>7, <1>types, <2>1, <2>2, <2>3, AnswerStep
<1>8. CASE ~ReceiveCloseOk /\ OpenOk /\ ~ConnectionException
  <2>1. /\ d_state = "CONNECTION_OPEN_SENT"
        /\ d_state' = "CONNECTED"
        /\ hungArmed' = FALSE
        /\ channels' = "open"
        /\ firstConnectCb' = "true"
        /\ KeepSocket
        /\ UNCHANGED <<writes, heartbeat>>
        /\ inRead
    BY <1>8 DEF OpenOk, Expected, Process
  <2>2. /\ socket \notin {"none", "CONNECTING"} /\ heartbeat /\ closeCb # "called"
        /\ Started'
    BY <2>1 DEF IInv, Consistent, CloseFinished, Started
  <2>3. hungArmed' \in BOOLEAN /\ ~hungArmed' /\ d_state' \in States
    BY <2>1 DEF States
  <2> USE <1>2, <1>8, <2>1, <2>2, <2>3 DEF KeepSocket, dueVars
  <2>4. TypeOK'
    BY DEF IInv, TypeOK
  <2>5. Consistent'
    BY DEF IInv, Consistent
  <2>6. NeverDead' /\ Watched' /\ CloseFinished'
    BY DEF NeverDead, Watched, CloseFinished
  <2> QED
    BY <2>4, <2>5, <2>6 DEF IInv
<1> QED
  BY <1>1, <1>3, <1>4, <1>5, <1>6, <1>7, <1>8
     DEF Handle, Unwelcome

(* Connection::close                                                       *)
LEMMA CloseStep ==
    ASSUME IInv, Close
    PROVE  IInv'
<1>1. /\ Started /\ closeRequested' = TRUE /\ closeRequested' /\ ahead' \in 0..MaxAhead
      /\ ~closeRequested
      /\ UNCHANGED <<inRead, hungDue, retryDue, destroyed, faults>>
  BY Bounds DEF Close, dueVars
<1>2. closeRequested' \in BOOLEAN
  BY <1>1
<1>3. CASE Disconnect("FATAL")
  <2>1. Rest'
    BY <1>1, <1>2, <1>3, DisconnectTypesKept DEF Rest, IInv, TypeOK
  <2> QED
    BY <1>1, <1>3, <2>1, DisconnectStep DEF DisconnectTypes
<1>4. CASE ~Disconnect("FATAL")
  <2>1. /\ closeCb' = "waiting"
        /\ UNCHANGED <<d_state, socket, shutdownType, orphan, stale, hungArmed,
                       retryArmed, heartbeat, channels, firstConnectCb>>
        /\ Write(<<"closeExit">>) \/ writes' = writes
    BY <1>4, Zenon DEF Close, KeepCloseCb
  <2>2. /\ writes' \in Seq(DOMAIN SentState)
        /\ \A x : Contains(writes', x) => Contains(writes, x) \/ x = "closeExit"
    <3>1. /\ <<"closeExit">> \in Seq(DOMAIN SentState)
          /\ \A x : Contains(<<"closeExit">>, x) <=> x = "closeExit"
      BY Methods, Written
    <3>2. CASE writes' = writes
      BY <3>2 DEF IInv, TypeOK
    <3>3. CASE Write(<<"closeExit">>)
      BY <3>1, <3>3, WriteStep
    <3> QED
      BY <2>1, <3>2, <3>3
  <2> USE <1>1, <1>2, <2>1, <2>2
  <2>3. TypeOK'
    BY DEF IInv, TypeOK
  <2>4. Consistent'
    BY DEF IInv, Consistent, Started
  <2>5. NeverDead' /\ Watched' /\ CloseFinished'
    BY DEF IInv, NeverDead, Watched, CloseFinished
  <2> QED
    BY <2>3, <2>4, <2>5 DEF IInv
<1> QED
  BY <1>3, <1>4

(* The broker acts                                                         *)
LEMMA BrokerStep ==
    ASSUME IInv, BrokerReceives \/ BrokerObjects
    PROVE  IInv'
<1>1. /\ brokerUnchanged
      /\ Fault \/ faults' = faults
  BY Zenon DEF BrokerReceives, BrokerObjects
<1>2. faults' \in 0..MaxFaults
  BY <1>1, Bounds DEF IInv, TypeOK
<1> USE <1>1, <1>2 DEF brokerUnchanged, readVars, dueVars
<1>3. TypeOK'
  BY DEF IInv, TypeOK
<1>4. Consistent' /\ NeverDead' /\ Watched' /\ CloseFinished'
  BY DEF IInv, Consistent, NeverDead, Watched, CloseFinished, Started
<1> QED
  BY <1>3, <1>4 DEF IInv

(* Nothing the invariant is about changes.                                 *)
LEMMA StutterStep ==
    ASSUME IInv, UNCHANGED vars
    PROVE  IInv'
<1> USE DEF vars, readVars, dueVars, wireVars
<1>1. TypeOK'
  BY DEF IInv, TypeOK
<1>2. Consistent' /\ NeverDead' /\ Watched' /\ CloseFinished'
  BY DEF IInv, Consistent, NeverDead, Watched, CloseFinished, Started
<1> QED
  BY <1>1, <1>2 DEF IInv

-----------------------------------------------------------------------------
(* The invariant holds at the start ...                                    *)
LEMMA InitInv == Init => IInv /\ Fresh
<1> SUFFICES ASSUME Init PROVE IInv /\ Fresh
  OBVIOUS
<1> USE DEF Init
<1>1. writes \in Seq(DOMAIN SentState) /\ \A x : ~Contains(writes, x)
  BY Written
<1>2. TypeOK
  <2>1. /\ inRead \in BOOLEAN /\ hungArmed \in BOOLEAN /\ hungDue \in BOOLEAN
        /\ retryArmed \in BOOLEAN /\ retryDue \in BOOLEAN /\ heartbeat \in BOOLEAN
        /\ closeRequested \in BOOLEAN /\ destroyed \in BOOLEAN
    OBVIOUS
  <2>2. stale \in Nat /\ ahead \in 0..MaxAhead /\ faults \in 0..MaxFaults
    BY ConnectionAssumption
  <2>3. /\ d_state \in States
        /\ socket \in {"none", "CONNECTING", "CONNECTED", "CLOSING"}
        /\ shutdownType \in IF socket = "CLOSING" THEN DisconnectTypes ELSE {"none"}
        /\ orphan \in DisconnectTypes \cup {"none"} /\ channels \in {"open", "reset"}
        /\ firstConnectCb \in {"none", "waiting", "true", "false"}
        /\ closeCb \in {"none", "waiting", "called"}
    BY DEF States
  <2> QED
    BY <1>1, <2>1, <2>2, <2>3, Zenon DEF TypeOK
<1>3. Consistent
  <2>1. ~inRead /\ ~closeRequested /\ ~heartbeat
    OBVIOUS
  <2>2. /\ "FATAL" \notin {shutdownType, orphan} /\ closeCb = "none"
        /\ d_state \in {"DISCONNECTED", "CONNECTION_CLOSE_RECEIVED"}
        /\ d_state \notin {"CONNECTION_CLOSE_SENT_EXIT", "CONNECTION_OPEN_SENT"}
    OBVIOUS
  <2> QED
    BY <1>1, <2>1, <2>2, Zenon DEF Consistent
<1>4. NeverDead /\ Watched /\ CloseFinished
  BY DEF NeverDead, Watched, CloseFinished, Started
<1>5. Fresh
  BY DEF Fresh
<1> QED
  BY <1>2, <1>3, <1>4, <1>5 DEF IInv

(* ... and every step keeps it.                                            *)
LEMMA NextInv == IInv /\ Fresh /\ [Next]_vars => IInv' /\ Fresh'
<1> SUFFICES ASSUME IInv, Fresh, [Next]_vars PROVE IInv' /\ Fresh'
  OBVIOUS
<1>1. CASE UNCHANGED vars
  <2>1. Fresh'
    BY <1>1 DEF Fresh, Started, vars, readVars, dueVars, wireVars
  <2> QED
    BY <1>1, <2>1, StutterStep
<1>2. CASE Next /\ ~Started
  <2>1. StartFirstConnection \/ UNCHANGED vars
    BY <1>2, OnlyStart
  <2> QED
    BY <1>1, <1>2, <2>1, StartFirstConnectionStep, FreshStep
<1>3. CASE Next /\ Started
  <2> USE <1>3
  <2>1. Fresh'
    BY FreshStep
  <2> SUFFICES IInv'
    BY <2>1
  <2>2. CASE StartFirstConnection
    BY <2>2, StartFirstConnectionStep
  <2>3. CASE AttemptConnects
    BY <2>3, AttemptConnectsStep
  <2>4. CASE AttemptFails \/ StaleAttemptFails \/ SocketFails \/ EndOfStream
             \/ ReadEndsBadly
    BY <2>4, ShutdownSteps
  <2>5. CASE StaleAttemptDropped \/ HungExpires \/ RetryExpires \/ ReadFrames
    BY <2>5, QuietSteps
  <2>6. CASE EarlyCloseFails \/ EarlyWriteFails \/ Destroy
    BY <2>6, DisconnectSteps
  <2>7. CASE ConnectionHung \/ GivenUpFromAbove
    BY <2>7, CloseSocketSteps
  <2>8. CASE Retry
    BY <2>8, RetryStep
  <2>9. CASE WriteCompletes
    BY <2>9, WriteCompletesStep
  <2>10. CASE ReadEnds
    BY <2>10, ReadEndsStep
  <2>11. CASE Handle
    BY <2>11, HandleStep
  <2>12. CASE Close
    BY <2>12, CloseStep
  <2>13. CASE Gone
    BY <2>13, StutterStep DEF Gone
  <2>14. CASE BrokerReceives \/ BrokerObjects
    BY <2>14, BrokerStep
  <2> QED
    BY <2>2, <2>3, <2>4, <2>5, <2>6, <2>7, <2>8, <2>9, <2>10, <2>11, <2>12, <2>13,
       <2>14 DEF Next
<1> QED
  BY <1>1, <1>2, <1>3

(* Every variable of the connection keeps its type, whatever fails.        *)
THEOREM TypeCorrect == Spec => []TypeOK
<1>1. IInv => TypeOK
  BY DEF IInv
<1> QED
  BY <1>1, InitInv, NextInv, PTL DEF Spec

(* Only close() makes a disconnect FATAL, and nothing else makes the       *)
(* connection call closeCb or write the Close that is followed by no       *)
(* other attempt.                                                          *)
THEOREM FatalOnlyByClose == Spec => []Consistent
<1>1. IInv => Consistent
  BY DEF IInv
<1> QED
  BY <1>1, InitInv, NextInv, PTL DEF Spec

(* Whatever order errors, timeouts, frames and nested socketShutdowns come *)
(* in, a connection that was not closed never stops trying.                *)
THEOREM NeverLeftForDead == Spec => []NeverDead
<1>1. IInv => NeverDead
  BY DEF IInv
<1> QED
  BY <1>1, InitInv, NextInv, PTL DEF Spec

(* The establishment timeout or the HeartbeatManager watches every socket. *)
THEOREM AlwaysWatched == Spec => []Watched
<1>1. IInv => Watched
  BY DEF IInv
<1> QED
  BY <1>1, InitInv, NextInv, PTL DEF Spec

(* closeCb runs only when everything has been let go of.                   *)
THEOREM CloseIsComplete == Spec => []CloseFinished
<1>1. IInv => CloseFinished
  BY DEF IInv
<1> QED
  BY <1>1, InitInv, NextInv, PTL DEF Spec

-----------------------------------------------------------------------------
(* When a new attempt can begin                                            *)

(* A socket that is let go of is followed by none in the same step.        *)
LEMMA NoneConnects ==
    ASSUME Next, socket' = "CONNECTING"
    PROVE  \/ socket = "CONNECTING"
           \/ StartFirstConnection
           \/ Retry /\ ~closeRequested
<1>1. ASSUME NEW dcTypes, SocketShutdown(dcTypes) PROVE FALSE
  BY <1>1 DEF SocketShutdown
<1>2. ASSUME NEW dcType, Disconnect(dcType) PROVE FALSE
  BY <1>1, <1>2 DEF Disconnect
<1>3. ASSUME NEW dcType, NEW rest, CloseSocket(dcType, rest) PROVE FALSE
  BY <1>2, <1>3 DEF CloseSocket
<1>4. ASSUME ConnectionException PROVE socket = "CONNECTING"
  BY <1>3, <1>4 DEF ConnectionException, KeepSocket
<1>5. CASE AttemptConnects \/ StaleAttemptDropped \/ HungExpires \/ RetryExpires
           \/ ReadFrames
  BY <1>5 DEF AttemptConnects, StaleAttemptDropped, HungExpires, RetryExpires, ReadFrames
<1>6. CASE AttemptFails \/ StaleAttemptFails \/ SocketFails \/ EndOfStream
           \/ ReadEndsBadly
  BY <1>1, <1>6 DEF AttemptFails, StaleAttemptFails, SocketFails, EndOfStream,
     ReadEndsBadly
<1>7. CASE EarlyCloseFails \/ EarlyWriteFails \/ Destroy
  BY <1>2, <1>7 DEF EarlyCloseFails, EarlyWriteFails, Destroy
<1>8. CASE ConnectionHung \/ GivenUpFromAbove
  BY <1>3, <1>8 DEF ConnectionHung, GivenUpFromAbove
<1>9. CASE Retry
  BY <1>1, <1>9 DEF Retry, InitiateInVain, MayConnect, KeepSocket
<1>10. CASE WriteCompletes
  BY <1>3, <1>10 DEF WriteCompletes, KeepSocket
<1>11. CASE ReadEnds
  BY <1>1, <1>11 DEF ReadEnds
<1>12. CASE Handle
  BY <1>3, <1>4, <1>12 DEF Handle, Start, Tune, TuneTooSmall, OpenOk, ReceiveClose,
     ReceiveCloseOk, Unwelcome, Expected, KeepSocket
<1>13. CASE Close
  BY <1>2, <1>13 DEF Close
<1>14. CASE Gone
  BY <1>14 DEF Gone, vars
<1>15. CASE BrokerReceives \/ BrokerObjects
  BY <1>15 DEF BrokerReceives, BrokerObjects, brokerUnchanged
<1> QED
  BY <1>5, <1>6, <1>7, <1>8, <1>9, <1>10, <1>11, <1>12, <1>13, <1>14, <1>15 DEF Next

(* close() is final: whatever timers and errors are under way, no attempt  *)
(* to connect is started after it.                                         *)
THEOREM CloseIsFinal == Spec => NoReconnectAfterClose
<1>1. /\ IInv /\ [Next]_vars
      => [closeRequested /\ socket' = "CONNECTING" => socket = "CONNECTING"]_vars
  <2> SUFFICES ASSUME IInv, Next, closeRequested, socket' = "CONNECTING"
               PROVE  socket = "CONNECTING"
    OBVIOUS
  <2>1. CASE StartFirstConnection
    BY <2>1 DEF StartFirstConnection, IInv, Consistent
  <2> QED
    BY <2>1, NoneConnects
<1> QED
  BY <1>1, InitInv, NextInv, PTL DEF Spec, NoReconnectAfterClose

=============================================================================
