----------------------------- MODULE LinkProofs -----------------------------
(***************************************************************************)
(* Proof that a Connection is a Link to its channels, and that it retries  *)
(* only while it has no socket, when the handler of a timer runs as soon   *)
(* as the timer is due.                                                    *)
(***************************************************************************)
EXTENDS ConnectionProofs

(* No timer is due together with anything else: there is a retry only      *)
(* without a socket, and an establishment timeout only with one.           *)
Prompt ==
    /\ retryArmed \/ retryDue => socket = "none"
    /\ ~(retryArmed /\ retryDue)
    /\ hungArmed \/ hungDue => socket # "none"
    /\ hungDue \/ retryDue => ~inRead

(* The steps that change none of the variables of Prompt, or arm a timer   *)
(* less                                                                    *)
LEMMA PromptKept ==
    ASSUME Prompt,
           socket' = "none" <=> socket = "none",
           retryArmed' => retryArmed, retryDue' => retryDue,
           hungArmed' => hungArmed, hungDue' => hungDue,
           (hungDue \/ retryDue) => (inRead' => inRead)
    PROVE  Prompt'
  BY DEF Prompt

(* Losing the socket while no timer is due                                 *)
LEMMA PromptShutdown ==
    ASSUME NEW dcTypes, SocketShutdown(dcTypes), ~retryDue', ~hungDue'
    PROVE  Prompt'
  BY DEF SocketShutdown, Prompt

(* Letting go of the socket                                                *)
LEMMA PromptDisconnect ==
    ASSUME NEW dcType, Disconnect(dcType), ~retryDue', ~hungDue'
    PROVE  Prompt'
  BY PromptShutdown DEF Disconnect

(* Connection::closeSocket                                                 *)
LEMMA PromptCloseSocket ==
    ASSUME Prompt, NEW dcType, NEW rest, CloseSocket(dcType, rest), ~retryDue', ~hungDue'
    PROVE  Prompt'
<1>1. CASE Disconnect(dcType)
  BY <1>1, PromptDisconnect
<1>2. CASE ~Disconnect(dcType)
  <2>1. /\ socket = "CONNECTED" /\ socket' = "CLOSING"
        /\ UNCHANGED <<retryArmed, hungArmed>>
    BY <1>2 DEF CloseSocket, RetryLater
  <2> QED
    BY <2>1 DEF Prompt
<1> QED
  BY <1>1, <1>2

(* An unexpected frame                                                     *)
LEMMA PromptException ==
    ASSUME Prompt, ConnectionException, ~retryDue', ~hungDue'
    PROVE  Prompt'
<1>1. CASE \E dcType, rest : CloseSocket(dcType, rest)
  BY <1>1, PromptCloseSocket
<1>2. CASE ~(\E dcType, rest : CloseSocket(dcType, rest))
  <2>1. KeepSocket /\ UNCHANGED hungArmed
    BY <1>2 DEF ConnectionException
  <2> QED
    BY <2>1 DEF KeepSocket, Prompt
<1> QED
  BY <1>1, <1>2

(* When timers are prompt nothing else runs while one is due.              *)
LEMMA NothingDue ==
    ASSUME MaxAhead = 0, IInv, Free
    PROVE  ~hungDue /\ ~retryDue /\ ~inRead
  BY DEF IInv, TypeOK, Free, Idle

(* Every step keeps Prompt.                                                *)
LEMMA PromptStep ==
    ASSUME MaxAhead = 0, IInv, Fresh, Prompt, Next
    PROVE  Prompt'
<1>1. CASE StartFirstConnection
  <2>1. /\ socket' = "CONNECTING"
        /\ UNCHANGED <<inRead, hungDue, retryDue, retryArmed>>
        /\ ~Started
    BY <1>1 DEF StartFirstConnection, InitiateConnect, dueVars
  <2>2. ~retryArmed /\ ~retryDue /\ ~hungDue
    BY <2>1 DEF Fresh
  <2> QED
    BY <2>1, <2>2 DEF Prompt
<1>2. CASE AttemptConnects \/ StaleAttemptDropped \/ ReadFrames
  <2>1. /\ Free
        /\ socket' = "none" <=> socket = "none"
        /\ UNCHANGED <<retryArmed, hungArmed, hungDue, retryDue>>
    BY <1>2 DEF AttemptConnects, StaleAttemptDropped, ReadFrames, dueVars
  <2>2. ~hungDue /\ ~retryDue
    BY <2>1, NothingDue
  <2> QED
    BY <2>1, <2>2, PromptKept
<1>3. CASE AttemptFails \/ StaleAttemptFails \/ SocketFails \/ EndOfStream
           \/ ReadEndsBadly
  <2>1. (\E dcTypes : SocketShutdown(dcTypes)) /\ UNCHANGED <<hungDue, retryDue>>
        /\ (Free \/ inRead)
    BY <1>3, Zenon DEF AttemptFails, StaleAttemptFails, SocketFails, EndOfStream,
       ReadEndsBadly, dueVars
  <2>2. ~hungDue /\ ~retryDue
    BY <2>1, NothingDue DEF Prompt
  <2> QED
    BY <2>1, <2>2, PromptShutdown
<1>4. CASE EarlyCloseFails \/ EarlyWriteFails \/ Destroy
  <2>1. (\E dcType : Disconnect(dcType)) /\ UNCHANGED <<hungDue, retryDue>> /\ Free
    BY <1>4, Zenon DEF EarlyCloseFails, EarlyWriteFails, Destroy, dueVars
  <2> QED
    BY <2>1, NothingDue, PromptDisconnect
<1>5. CASE HungExpires
  BY <1>5 DEF HungExpires, Prompt, Idle, readVars
<1>6. CASE RetryExpires
  BY <1>6 DEF RetryExpires, Prompt, Idle, readVars
<1>7. CASE ConnectionHung
  <2>1. /\ hungDue /\ ~hungDue' /\ retryDue' = retryDue
        /\ CloseSocket("WILL_RETRY", writes)
    BY <1>7 DEF ConnectionHung
  <2>2. ~retryDue
    BY <2>1 DEF Prompt
  <2> QED
    BY <2>1, <2>2, PromptCloseSocket
<1>8. CASE Retry
  <2>1. /\ retryDue /\ ~retryDue' /\ hungDue' = hungDue
        /\ socket = "none" /\ ~retryArmed /\ ~hungDue /\ ~hungArmed
    BY <1>8 DEF Retry, Prompt
  <2>2. CASE InitiateConnect
    BY <2>1, <2>2 DEF InitiateConnect, Prompt
  <2>3. CASE KeepSocket /\ UNCHANGED hungArmed
    BY <2>1, <2>3 DEF KeepSocket, Prompt
  <2>4. ~InitiateInVain
    BY <2>1 DEF InitiateInVain
  <2> QED
    BY <1>8, <2>2, <2>3, <2>4, Zenon DEF Retry
<1>9. CASE GivenUpFromAbove
  <2>1. CloseSocket("WILL_RETRY", writes) /\ UNCHANGED <<hungDue, retryDue>> /\ Free
    BY <1>9 DEF GivenUpFromAbove, dueVars
  <2> QED
    BY <2>1, NothingDue, PromptCloseSocket
<1>10. CASE WriteCompletes
  <2>1. UNCHANGED <<hungDue, retryDue>> /\ Free
    BY <1>10 DEF WriteCompletes, dueVars
  <2>2. ~hungDue' /\ ~retryDue'
    BY <2>1, NothingDue
  <2>3. CASE CloseSocket("WILL_RETRY", Tail(writes))
    BY <2>2, <2>3, PromptCloseSocket
  <2>4. CASE KeepSocket /\ UNCHANGED hungArmed
    BY <2>2, <2>4 DEF KeepSocket, Prompt
  <2> QED
    BY <1>10, <2>3, <2>4, Zenon DEF WriteCompletes
<1>11. CASE ReadEnds
  <2>1. UNCHANGED <<hungDue, retryDue>> /\ ~hungDue /\ ~retryDue
    BY <1>11 DEF ReadEnds, dueVars, Prompt
  <2>2. CASE SocketShutdown({orphan})
    BY <2>1, <2>2, PromptShutdown
  <2>3. CASE UNCHANGED <<socket, hungArmed, retryArmed>>
    BY <2>1, <2>3 DEF Prompt
  <2> QED
    BY <1>11, <2>2, <2>3, Zenon DEF ReadEnds
<1>12. CASE Handle
  <2>1. inRead /\ UNCHANGED <<hungDue, retryDue>>
    BY <1>12, Zenon DEF Handle, Start, Tune, TuneTooSmall, OpenOk, ReceiveClose,
       ReceiveCloseOk, Unwelcome, Process, dueVars
  <2>2. ~hungDue' /\ ~retryDue'
    BY <2>1 DEF Prompt
  <2>3. CASE CloseSocket(CloseOkEnds, writes)
    BY <2>2, <2>3, PromptCloseSocket
  <2>4. CASE ConnectionException
    BY <2>2, <2>4, PromptException
  <2>5. CASE KeepSocket /\ (hungArmed' = hungArmed \/ ~hungArmed')
    BY <2>2, <2>5 DEF KeepSocket, Prompt
  <2> QED
    BY <1>12, <2>3, <2>4, <2>5, Zenon DEF Handle, Start, Tune, TuneTooSmall, OpenOk,
       ReceiveClose, ReceiveCloseOk, Unwelcome, Expected
<1>13. CASE Close
  <2>1. UNCHANGED <<hungDue, retryDue>> /\ Free
    BY <1>13 DEF Close, dueVars
  <2>2. ~hungDue' /\ ~retryDue'
    BY <2>1, NothingDue
  <2>3. CASE Disconnect("FATAL")
    BY <2>2, <2>3, PromptDisconnect
  <2>4. CASE UNCHANGED <<socket, hungArmed, retryArmed>>
    BY <2>2, <2>4 DEF Prompt
  <2> QED
    BY <1>13, <2>3, <2>4, Zenon DEF Close
<1>14. CASE Gone
  BY <1>14 DEF Gone, vars, readVars, dueVars, Prompt
<1>15. CASE BrokerReceives \/ BrokerObjects
  BY <1>15 DEF BrokerReceives, BrokerObjects, brokerUnchanged, readVars, dueVars, Prompt
<1> QED
  BY <1>1, <1>2, <1>3, <1>4, <1>5, <1>6, <1>7, <1>8, <1>9, <1>10, <1>11, <1>12, <1>13,
     <1>14, <1>15 DEF Next

(* When the handlers of timers are prompt, an attempt to connect is        *)
(* scheduled only while there is no socket, so none replaces a live one.   *)
THEOREM RetriesOnlyWhenDown == MaxAhead = 0 => (Spec => []RetryOnlyWhenDown)
<1> SUFFICES ASSUME MaxAhead = 0 PROVE Spec => []RetryOnlyWhenDown
  OBVIOUS
<1>1. Init => Prompt
  BY DEF Init, Prompt
<1>2. IInv /\ Fresh /\ Prompt /\ [Next]_vars => Prompt'
  <2>1. CASE UNCHANGED vars
    BY <2>1 DEF vars, readVars, dueVars, Prompt
  <2> QED
    BY <2>1, PromptStep
<1>3. Prompt => RetryOnlyWhenDown
  BY DEF Prompt, RetryOnlyWhenDown
<1> QED
  BY <1>1, <1>2, <1>3, InitInv, NextInv, PTL DEF Spec

-----------------------------------------------------------------------------
(* The channels are opened once per socket                                 *)

HandshakeMethods == {"header", "startOk", "tuneOk", "open"}

(* The states in which the client waits for the broker                     *)
Answered == {"PROTOCOL_HEADER_SENT", "CONNECTION_STARTOK_SENT", "CONNECTION_OPEN_SENT"}

(* Of two methods of the handshake that wait to be written, the first is   *)
(* TuneOk and the second Open.                                             *)
Ordered(s) ==
    \A i, j \in 1..Len(s) :
        i < j /\ s[i] \in HandshakeMethods /\ s[j] \in HandshakeMethods
        => s[i] = "tuneOk" /\ s[j] = "open"

NoHandshake(s) == \A m \in HandshakeMethods : ~Contains(s, m)

(* A handshake that is under way has not opened the channels yet, and when *)
(* the client waits for the broker it has nothing of the handshake left to *)
(* write.                                                                  *)
OnceOpen ==
    /\ d_state \in Handshake => channels = "reset"
    /\ socket \in {"none", "CONNECTING"} =>
          channels = "reset" /\ d_state \in {"DISCONNECTED", "CONNECTION_CLOSE_RECEIVED"}
    /\ ~NoHandshake(writes) => channels = "reset" /\ d_state \notin Answered
    /\ Ordered(writes)

(* What is left when the first method has been written                     *)
LEMMA OrderedTail ==
    ASSUME NEW S, NEW s \in Seq(S), s # <<>>, Ordered(s)
    PROVE  /\ Ordered(Tail(s))
           /\ Head(s) \in HandshakeMethods \ {"tuneOk"} => NoHandshake(Tail(s))
           /\ NoHandshake(s) => NoHandshake(Tail(s))
<1>1. /\ Len(s) \in Nat /\ Len(s) >= 1 /\ Head(s) = s[1]
      /\ Len(Tail(s)) = Len(s) - 1
      /\ \A i \in 1..Len(Tail(s)) : Tail(s)[i] = s[i + 1] /\ i + 1 \in 1..Len(s)
  OBVIOUS
<1>2. Ordered(Tail(s))
  BY <1>1 DEF Ordered
<1>3. Head(s) \in HandshakeMethods \ {"tuneOk"} => NoHandshake(Tail(s))
  <2> SUFFICES ASSUME s[1] \in HandshakeMethods \ {"tuneOk"},
                      NEW m \in HandshakeMethods, Contains(Tail(s), m)
               PROVE  FALSE
    BY <1>1 DEF NoHandshake
  <2>1. PICK k \in 1..Len(Tail(s)) : Tail(s)[k] = m
    BY DEF Contains
  <2>2. k + 1 \in 1..Len(s) /\ 1 \in 1..Len(s) /\ 1 < k + 1 /\ s[k + 1] = m
    BY <1>1, <2>1
  <2> QED
    BY <2>2 DEF Ordered
<1>4. NoHandshake(s) => NoHandshake(Tail(s))
  BY TailFacts DEF NoHandshake
<1> QED
  BY <1>2, <1>3, <1>4

(* What is to be written when methods are added                            *)
LEMMA OrderedConcat ==
    ASSUME NEW S, NEW s \in Seq(S), NEW t \in Seq(S), Ordered(s), Ordered(t),
           NoHandshake(s) \/ NoHandshake(t)
    PROVE  /\ Ordered(s \o t)
           /\ NoHandshake(s) /\ NoHandshake(t) => NoHandshake(s \o t)
<1>1. NoHandshake(s) /\ NoHandshake(t) => NoHandshake(s \o t)
  BY ConcatContains DEF NoHandshake
<1> DEFINE st == s \o t
<1>2. /\ Len(s) \in Nat /\ Len(t) \in Nat /\ Len(st) = Len(s) + Len(t)
      /\ \A k \in 1..Len(st) :
            \/ k \in 1..Len(s) /\ st[k] = s[k]
            \/ k - Len(s) \in 1..Len(t) /\ st[k] = t[k - Len(s)]
  BY ConcatIndex
<1>3. Ordered(st)
  <2> HIDE DEF st
  <2> SUFFICES ASSUME NEW i \in 1..Len(st), NEW j \in 1..Len(st), i < j,
                      st[i] \in HandshakeMethods, st[j] \in HandshakeMethods
               PROVE  st[i] = "tuneOk" /\ st[j] = "open"
    BY DEF Ordered
  <2>1. CASE NoHandshake(s)
    <3>1. ~(i \in 1..Len(s) /\ st[i] = s[i]) /\ ~(j \in 1..Len(s) /\ st[j] = s[j])
      BY <2>1 DEF NoHandshake, Contains
    <3>2. /\ i - Len(s) \in 1..Len(t) /\ st[i] = t[i - Len(s)]
          /\ j - Len(s) \in 1..Len(t) /\ st[j] = t[j - Len(s)]
      BY <1>2, <3>1
    <3>3. i - Len(s) < j - Len(s)
      BY <1>2
    <3> QED
      BY <3>2, <3>3 DEF Ordered
  <2>2. CASE NoHandshake(t)
    <3>1. /\ ~(i - Len(s) \in 1..Len(t) /\ st[i] = t[i - Len(s)])
          /\ ~(j - Len(s) \in 1..Len(t) /\ st[j] = t[j - Len(s)])
      BY <2>2 DEF NoHandshake, Contains
    <3>2. /\ i \in 1..Len(s) /\ st[i] = s[i]
          /\ j \in 1..Len(s) /\ st[j] = s[j]
      BY <1>2, <3>1
    <3> QED
      BY <3>2 DEF Ordered
  <2> QED
    BY <2>1, <2>2
<1> QED
  BY <1>1, <1>3

(* The sequences that are written                                          *)
LEMMA OrderedWritten ==
    /\ Ordered(<<>>) /\ NoHandshake(<<>>)
    /\ \A m : Ordered(<<m>>)
    /\ \A m : m \notin HandshakeMethods => NoHandshake(<<m>>)
    /\ Ordered(<<"tuneOk", "open">>)
<1>1. Ordered(<<>>) /\ NoHandshake(<<>>)
  BY DEF Ordered, NoHandshake, Contains
<1>2. ASSUME NEW m PROVE Ordered(<<m>>)
  <2>1. Len(<<m>>) = 1
    OBVIOUS
  <2> QED
    BY <2>1 DEF Ordered
<1>3. ASSUME NEW m, m \notin HandshakeMethods PROVE NoHandshake(<<m>>)
  <2>1. Len(<<m>>) = 1 /\ <<m>>[1] = m
    OBVIOUS
  <2> QED
    BY <1>3, <2>1 DEF NoHandshake, Contains
<1>4. Ordered(<<"tuneOk", "open">>)
  <2>1. /\ Len(<<"tuneOk", "open">>) = 2
        /\ <<"tuneOk", "open">>[1] = "tuneOk" /\ <<"tuneOk", "open">>[2] = "open"
    OBVIOUS
  <2>2. \A i, j \in 1..2 : i < j => i = 1 /\ j = 2
    OBVIOUS
  <2> QED
    BY <2>1, <2>2 DEF Ordered
<1> QED
  BY <1>1, <1>2, <1>3, <1>4

-----------------------------------------------------------------------------
(* A step keeps OnceOpen and is a step of Link or changes nothing there.   *)
Simulates == OnceOpen' /\ [L!Next]_<<Seen, channels>>

(* Losing the socket is Link's Drop.                                       *)
LEMMA SimulatesDrop ==
    ASSUME NEW dcTypes, SocketShutdown(dcTypes)
    PROVE  Simulates
<1> USE DEF SocketShutdown, ForgetSocket, ResetAll
<1>1. OnceOpen'
  BY OrderedWritten DEF OnceOpen, Handshake
<1>2. L!Drop
  BY DEF L!Drop, Seen
<1> QED
  BY <1>1, <1>2 DEF Simulates, L!Next

(* Shutting the socket down is Link's GiveUp, unless it ends at once.      *)
LEMMA SimulatesGiveUp ==
    ASSUME OnceOpen, NEW dcType, NEW rest, CloseSocket(dcType, rest),
           Ordered(rest), NoHandshake(writes) => NoHandshake(rest)
    PROVE  Simulates
<1>1. CASE Disconnect(dcType)
  BY <1>1, SimulatesDrop DEF Disconnect
<1>2. CASE ~Disconnect(dcType)
  <2>1. /\ socket = "CONNECTED" /\ socket' = "CLOSING"
        /\ d_state' = "CONNECTION_CLOSED" /\ writes' = rest /\ UNCHANGED channels
    BY <1>2 DEF CloseSocket
  <2>2. OnceOpen'
    BY <2>1 DEF OnceOpen, Handshake, Answered
  <2>3. L!GiveUp
    BY <2>1 DEF L!GiveUp, Seen
  <2> QED
    BY <2>2, <2>3 DEF Simulates, L!Next
<1> QED
  BY <1>1, <1>2

(* What is written changes nothing for the channels.                       *)
LEMMA SimulatesWrite ==
    ASSUME IInv, OnceOpen, UNCHANGED <<socket, channels>>,
           NEW methods \in Seq(DOMAIN SentState), Write(methods),
           \/ NoHandshake(methods) /\ d_state' = d_state
           \/ NoHandshake(methods) /\ d_state' = "CONNECTION_CLOSE_RECEIVED"
           \/ /\ d_state \in Answered /\ Ordered(methods)
              /\ d_state' \in Handshake \ Answered,
           Ordered(methods)
    PROVE  Simulates
<1>1. UNCHANGED <<Seen, channels>>
  BY DEF Seen
<1>2. writes \in Seq(DOMAIN SentState)
  BY DEF IInv, TypeOK
<1>3. CASE NoHandshake(methods) /\ d_state' \in {d_state, "CONNECTION_CLOSE_RECEIVED"}
  <2>1. Ordered(writes') /\ (NoHandshake(writes) => NoHandshake(writes'))
    <3>1. CASE writes' = writes
      BY <3>1 DEF OnceOpen
    <3>2. CASE writes' = writes \o methods
      BY <1>2, <1>3, <3>2, OrderedConcat DEF OnceOpen
    <3> QED
      BY <3>1, <3>2 DEF Write
  <2>2. OnceOpen'
    BY <1>3, <2>1 DEF OnceOpen, Handshake, Answered
  <2> QED
    BY <1>1, <2>2 DEF Simulates
<1>4. CASE d_state \in Answered /\ d_state' \in Handshake \ Answered
  <2>1. /\ socket \notin {"none", "CONNECTING"} /\ NoHandshake(writes)
        /\ channels = "reset"
    BY <1>4 DEF OnceOpen, Answered, Handshake
  <2>2. Ordered(writes')
    BY <1>2, <2>1, OrderedConcat DEF Write, OnceOpen
  <2>3. OnceOpen'
    BY <1>4, <2>1, <2>2 DEF OnceOpen
  <2> QED
    BY <1>1, <2>3 DEF Simulates
<1> QED
  BY <1>3, <1>4

(* An unexpected frame                                                     *)
LEMMA SimulatesException ==
    ASSUME IInv, OnceOpen, ConnectionException
    PROVE  Simulates
<1>1. CASE \E dcType : CloseSocket(dcType, writes)
  BY <1>1, SimulatesGiveUp DEF OnceOpen
<1>2. CASE ~\E dcType : CloseSocket(dcType, writes)
  <2>1. Write(<<"closeReconnect">>) /\ UNCHANGED <<socket, channels, d_state>>
    BY <1>2 DEF ConnectionException, KeepSocket
  <2>2. /\ <<"closeReconnect">> \in Seq(DOMAIN SentState)
        /\ Ordered(<<"closeReconnect">>) /\ NoHandshake(<<"closeReconnect">>)
    BY Methods, Written, OrderedWritten DEF HandshakeMethods
  <2> QED
    BY <2>1, <2>2, SimulatesWrite
<1> QED
  BY <1>1, <1>2

(* The handlers of frames                                                  *)
LEMMA SimulatesHandle ==
    ASSUME IInv, OnceOpen, Handle
    PROVE  Simulates
<1>1. CASE ConnectionException
  BY <1>1, SimulatesException
<1>2. CASE Start /\ ~ConnectionException
  <2>1. /\ d_state = "PROTOCOL_HEADER_SENT" /\ d_state' = "CONNECTION_START_RECEIVED"
        /\ Write(<<"startOk">>) /\ UNCHANGED <<socket, channels>>
    BY <1>2 DEF Start, Expected, KeepSocket
  <2>2. <<"startOk">> \in Seq(DOMAIN SentState) /\ Ordered(<<"startOk">>)
    BY Methods, Written, OrderedWritten
  <2>3. d_state \in Answered /\ d_state' \in Handshake \ Answered
    BY <2>1 DEF Answered, Handshake
  <2> QED
    BY <2>1, <2>2, <2>3, SimulatesWrite
<1>3. CASE Tune /\ ~ConnectionException
  <2>1. /\ d_state = "CONNECTION_STARTOK_SENT" /\ d_state' = "CONNECTION_TUNE_RECEIVED"
        /\ Write(<<"tuneOk", "open">>) /\ UNCHANGED <<socket, channels>>
    BY <1>3 DEF Tune, Expected, KeepSocket
  <2>2. <<"tuneOk", "open">> \in Seq(DOMAIN SentState) /\ Ordered(<<"tuneOk", "open">>)
    BY Methods, Written, OrderedWritten
  <2>3. d_state \in Answered /\ d_state' \in Handshake \ Answered
    BY <2>1 DEF Answered, Handshake
  <2> QED
    BY <2>1, <2>2, <2>3, SimulatesWrite
<1>4. CASE TuneTooSmall /\ ~ConnectionException
  <2>1. /\ d_state = "CONNECTION_STARTOK_SENT" /\ d_state' = "CONNECTION_TUNE_RECEIVED"
        /\ Write(<<"closeReconnect">>) /\ UNCHANGED <<socket, channels>>
    BY <1>4 DEF TuneTooSmall, Expected, KeepSocket
  <2>2. <<"closeReconnect">> \in Seq(DOMAIN SentState) /\ Ordered(<<"closeReconnect">>)
    BY Methods, Written, OrderedWritten
  <2>3. d_state \in Answered /\ d_state' \in Handshake \ Answered
    BY <2>1 DEF Answered, Handshake
  <2> QED
    BY <2>1, <2>2, <2>3, SimulatesWrite
<1>5. CASE ReceiveClose
  <2>1. /\ d_state' = "CONNECTION_CLOSE_RECEIVED" /\ Write(<<"closeOk">>)
        /\ UNCHANGED <<socket, channels>>
    BY <1>5 DEF ReceiveClose, KeepSocket
  <2>2. /\ <<"closeOk">> \in Seq(DOMAIN SentState)
        /\ Ordered(<<"closeOk">>) /\ NoHandshake(<<"closeOk">>)
    BY Methods, Written, OrderedWritten DEF HandshakeMethods
  <2> QED
    BY <2>1, <2>2, SimulatesWrite
<1>6. CASE ReceiveCloseOk
  BY <1>6, SimulatesGiveUp DEF ReceiveCloseOk, OnceOpen
<1>7. CASE OpenOk /\ ~ConnectionException
  <2>1. /\ d_state = "CONNECTION_OPEN_SENT" /\ d_state' = "CONNECTED"
        /\ channels' = "open" /\ UNCHANGED <<socket, writes>>
    BY <1>7 DEF OpenOk, Expected, KeepSocket
  <2>2. /\ channels = "reset" /\ NoHandshake(writes)
        /\ socket \in {"CONNECTED", "CLOSING"}
    BY <2>1 DEF OnceOpen, Handshake, Answered, IInv, TypeOK
  <2>3. OnceOpen'
    BY <2>1, <2>2 DEF OnceOpen, Handshake
  <2>4. L!Establish
    BY <2>1, <2>2 DEF L!Establish, Seen
  <2> QED
    BY <2>3, <2>4 DEF Simulates, L!Next
<1> QED
  BY <1>1, <1>2, <1>3, <1>4, <1>5, <1>6, <1>7 DEF Handle, Unwelcome

(* A method has been written.                                              *)
LEMMA SimulatesWriteCompletes ==
    ASSUME IInv, OnceOpen, WriteCompletes
    PROVE  Simulates
<1>1. writes \in Seq(DOMAIN SentState) /\ writes # <<>>
  BY DEF IInv, TypeOK, WriteCompletes
<1>2. /\ Ordered(Tail(writes))
      /\ Head(writes) \in HandshakeMethods \ {"tuneOk"} => NoHandshake(Tail(writes))
      /\ NoHandshake(writes) => NoHandshake(Tail(writes))
  BY <1>1, OrderedTail DEF OnceOpen
<1>3. CASE Head(writes) = "closeOk"
  BY <1>2, <1>3, SimulatesGiveUp DEF WriteCompletes
<1>4. CASE Head(writes) # "closeOk"
  <2>1. /\ d_state' = SentState[Head(writes)] /\ writes' = Tail(writes)
        /\ UNCHANGED <<socket, channels>> /\ socket \notin {"none", "CONNECTING"}
    BY <1>4 DEF WriteCompletes, KeepSocket, Usable
  <2>2. Head(writes) \in DOMAIN SentState /\ Contains(writes, Head(writes))
    BY <1>1, TailFacts
  <2>3. /\ d_state' \in Handshake => Head(writes) \in HandshakeMethods
        /\ d_state' \in Answered => Head(writes) \in HandshakeMethods \ {"tuneOk"}
    BY <2>1, <2>2, Methods DEF SentState, Handshake, Answered, HandshakeMethods
  <2>4. d_state' \in Handshake => channels = "reset"
    BY <2>2, <2>3 DEF OnceOpen, NoHandshake
  <2>5. OnceOpen'
    BY <1>2, <2>1, <2>3, <2>4 DEF OnceOpen
  <2>6. UNCHANGED <<Seen, channels>>
    BY <2>1 DEF Seen
  <2> QED
    BY <2>5, <2>6 DEF Simulates
<1> QED
  BY <1>3, <1>4

(* Starting an attempt without a socket is Link's Connect.                 *)
LEMMA SimulatesConnect ==
    ASSUME OnceOpen, InitiateConnect, socket = "none"
    PROVE  Simulates
<1>1. /\ socket' = "CONNECTING" /\ writes' = <<>> /\ UNCHANGED <<d_state, channels>>
  BY DEF InitiateConnect, ForgetSocket
<1>2. OnceOpen'
  BY <1>1, OrderedWritten DEF OnceOpen
<1>3. L!Connect
  BY <1>1 DEF L!Connect, Seen
<1> QED
  BY <1>2, <1>3 DEF Simulates, L!Next

(* The steps that concern neither the socket nor the channels              *)
LEMMA SimulatesQuiet ==
    ASSUME OnceOpen, UNCHANGED <<socket, channels, d_state, writes>>
    PROVE  Simulates
<1>1. OnceOpen'
  BY DEF OnceOpen
<1>2. UNCHANGED <<Seen, channels>>
  BY DEF Seen
<1> QED
  BY <1>1, <1>2 DEF Simulates

(* Every step of a Connection is a step of Link or none.                   *)
LEMMA SimulatesStep ==
    ASSUME IInv, Fresh, Prompt, OnceOpen, Next
    PROVE  Simulates
<1>1. CASE StartFirstConnection
  <2>1. InitiateConnect /\ ~Started
    BY <1>1 DEF StartFirstConnection
  <2>2. socket = "none"
    BY <2>1 DEF Fresh
  <2> QED
    BY <2>1, <2>2, SimulatesConnect
<1>2. CASE AttemptConnects
  <2>1. /\ socket = "CONNECTING" /\ socket' = "CONNECTED" /\ writes' = <<"header">>
        /\ UNCHANGED <<d_state, channels>>
    BY <1>2 DEF AttemptConnects
  <2>2. channels = "reset" /\ d_state \notin Answered
    BY <2>1 DEF OnceOpen, Answered
  <2>3. OnceOpen'
    BY <2>1, <2>2, OrderedWritten DEF OnceOpen
  <2>4. UNCHANGED <<Seen, channels>>
    BY <2>1, <2>2 DEF Seen
  <2> QED
    BY <2>3, <2>4 DEF Simulates
<1>3. CASE AttemptFails \/ StaleAttemptFails \/ SocketFails \/ EndOfStream
           \/ ReadEndsBadly
  <2>1. \E dcTypes : SocketShutdown(dcTypes)
    BY <1>3, Zenon DEF AttemptFails, StaleAttemptFails, SocketFails, EndOfStream,
       ReadEndsBadly
  <2> QED
    BY <2>1, SimulatesDrop
<1>4. CASE EarlyCloseFails \/ EarlyWriteFails \/ Destroy
  <2>1. \E dcTypes : SocketShutdown(dcTypes)
    BY <1>4, Zenon DEF EarlyCloseFails, EarlyWriteFails, Destroy, Disconnect
  <2> QED
    BY <2>1, SimulatesDrop
<1>5. CASE StaleAttemptDropped \/ HungExpires \/ RetryExpires \/ ReadFrames
  BY <1>5, SimulatesQuiet DEF StaleAttemptDropped, HungExpires, RetryExpires, ReadFrames
<1>6. CASE ConnectionHung \/ GivenUpFromAbove
  BY <1>6, SimulatesGiveUp DEF ConnectionHung, GivenUpFromAbove, OnceOpen
<1>7. CASE Retry
  <2>1. socket = "none"
    BY <1>7 DEF Retry, Prompt
  <2>2. CASE InitiateConnect
    BY <2>1, <2>2, SimulatesConnect
  <2>3. CASE UNCHANGED <<socket, channels, d_state, writes>>
    BY <2>3, SimulatesQuiet
  <2> QED
    BY <1>7, <2>1, <2>2, <2>3 DEF Retry, InitiateInVain, KeepSocket
<1>8. CASE WriteCompletes
  BY <1>8, SimulatesWriteCompletes
<1>9. CASE ReadEnds
  <2>1. CASE SocketShutdown({orphan})
    BY <2>1, SimulatesDrop
  <2>2. CASE UNCHANGED <<socket, channels, d_state, writes>>
    BY <2>2, SimulatesQuiet
  <2> QED
    BY <1>9, <2>1, <2>2 DEF ReadEnds
<1>10. CASE Handle
  BY <1>10, SimulatesHandle
<1>11. CASE Close
  <2>1. CASE Disconnect("FATAL")
    BY <2>1, SimulatesDrop DEF Disconnect
  <2>2. CASE Write(<<"closeExit">>) /\ UNCHANGED <<socket, channels, d_state>>
    <3>1. /\ <<"closeExit">> \in Seq(DOMAIN SentState)
          /\ Ordered(<<"closeExit">>) /\ NoHandshake(<<"closeExit">>)
      BY Methods, Written, OrderedWritten DEF HandshakeMethods
    <3> QED
      BY <2>2, <3>1, SimulatesWrite
  <2>3. CASE UNCHANGED <<socket, channels, d_state, writes>>
    BY <2>3, SimulatesQuiet
  <2> QED
    BY <1>11, <2>1, <2>2, <2>3 DEF Close
<1>12. CASE Gone \/ BrokerReceives \/ BrokerObjects
  BY <1>12, SimulatesQuiet DEF Gone, vars, BrokerReceives, BrokerObjects, brokerUnchanged
<1> QED
  BY <1>1, <1>2, <1>3, <1>4, <1>5, <1>6, <1>7, <1>8, <1>9, <1>10, <1>11, <1>12 DEF Next

(* When the handlers of timers are prompt, a Connection with its           *)
(* AsioConnection implements Link: the channels are opened once per        *)
(* socket, after the whole handshake, and reset before the next one.       *)
THEOREM ConnectionIsLink == MaxAhead = 0 => (Spec => ImplementsLink)
<1> SUFFICES ASSUME MaxAhead = 0 PROVE Spec => ImplementsLink
  OBVIOUS
<1>1. Init => Prompt /\ OnceOpen /\ L!Init
  BY OrderedWritten DEF Init, Prompt, OnceOpen, L!Init, Seen, Handshake
<1>2. /\ IInv /\ Fresh /\ Prompt /\ OnceOpen /\ [Next]_vars
      => Prompt' /\ OnceOpen' /\ [L!Next]_<<Seen, channels>>
  <2> SUFFICES ASSUME IInv, Fresh, Prompt, OnceOpen, [Next]_vars
               PROVE  Prompt' /\ Simulates
    BY DEF Simulates
  <2>1. CASE UNCHANGED vars
    <3>1. Prompt'
      BY <2>1 DEF vars, readVars, dueVars, Prompt
    <3> QED
      BY <2>1, <3>1, SimulatesQuiet DEF vars
  <2> QED
    BY <2>1, PromptStep, SimulatesStep
<1> QED
  BY <1>1, <1>2, InitInv, NextInv, PTL DEF Spec, ImplementsLink, L!Spec

=============================================================================
