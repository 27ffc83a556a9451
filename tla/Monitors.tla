------------------------------ MODULE Monitors ------------------------------
(***************************************************************************)
(* What an event loop does by the clock: the heartbeats of a connection,   *)
(* the retries of a lost one, and the health checks of the host.  Timers   *)
(* that are due run before the next second begins, in any order.  The      *)
(* health checker is the application's and may take its time: meanwhile    *)
(* the clock goes on, and every other timer is late.                       *)
(*                                                                         *)
(* The connection is seen as its timers see it:                            *)
(*   CONNECTING  until Connection.Tune has been received                   *)
(*   TUNED       the heartbeats have started, OpenOk is still to come      *)
(*   UP          CONNECTED                                                 *)
(*   CLOSING     the socket is being shut down                             *)
(*   DOWN        no socket, and the retry timer is running                 *)
(***************************************************************************)
EXTENDS HeartbeatManager, RetryHandler, HostHealth

CONSTANTS
    Linked,            \* the connection whose heartbeats and retries these are
    ServerHeartbeats,  \* what the broker may propose, in seconds
    MaxCheck,          \* bound: the seconds a health check takes
    Off                \* the value of a timer that is not running

ASSUME MonitorsAssumption ==
    /\ Linked \in Conns
    /\ ServerHeartbeats \subseteq Nat
    /\ MaxCheck \in Nat
    /\ Off \in Nat
    /\ Off > MaxWait /\ Off > PollInterval

VARIABLES
    link,        \* the connection
    everUp,      \* it has been CONNECTED, and the application has been told
    hb,          \* HeartbeatManagerImpl
    tickTimer,   \* seconds until its d_tickTimer fires
    retry,       \* ConnectionRetryHandler
    retryTimer,  \* seconds until its d_sleepTimer fires
    quietIn,     \* seconds since anything came from the broker
    quietOut,    \* seconds since anything was sent to it
    downFor,     \* seconds since the connection was last UP, up to a bound
    quickFails   \* attempts that failed within MinWait, in a row, up to a bound

hbVars == <<hb, tickTimer, quietIn, quietOut>>
retryVars == <<retry, retryTimer, downFor, quickFails>>
linkVars == <<link, everUp, hbVars, retryVars>>
vars == <<linkVars, healthVars>>

Init ==
    /\ link = "NONE"
    /\ everUp = FALSE
    /\ hb = HeartbeatManagerImpl
    /\ tickTimer = Off
    /\ retry = ConnectionRetryHandler
    /\ retryTimer = Off
    /\ quietIn = 0
    /\ quietOut = 0
    /\ downFor = 0
    /\ quickFails = 0
    /\ HealthInit

HasSocket == link \in {"TUNED", "UP", "CLOSING"}

-----------------------------------------------------------------------------
(* The clock                                                               *)

Countdown(timer, seconds) ==
    IF timer = Off THEN Off ELSE IF timer < seconds THEN 0 ELSE timer - seconds

Elapse(seconds) ==
    /\ tickTimer' = Countdown(tickTimer, seconds)
    /\ retryTimer' = Countdown(retryTimer, seconds)
    /\ retry' = RetryClock(retry, seconds)
    /\ quietIn' = IF HasSocket THEN quietIn + seconds ELSE 0
    /\ quietOut' = IF link \in {"TUNED", "UP"} THEN quietOut + seconds ELSE 0
    /\ downFor' = IF link \in {"NONE", "UP"} THEN 0
                  ELSE Smaller(downFor + seconds, ErrorThreshold + 1)
    /\ UNCHANGED <<link, everUp, hb, quickFails>>

(* A second passes while nothing is due.                                   *)
Second ==
    /\ 0 \notin {tickTimer, retryTimer, pollTimer}
    /\ Elapse(1)
    /\ pollTimer' = pollTimer - 1
    /\ UNCHANGED <<latest, tries, registered, channelVars, checkerVars>>

(* HostHealthMonitor::handleTimerFired.  scheduleNextCheck comes before    *)
(* the check, and does not wait for it.                                    *)
CheckHealth ==
    /\ pollTimer = 0
    /\ \E seconds \in 0..MaxCheck : Elapse(seconds)
    /\ CheckerThrows \/ \E healthy \in BOOLEAN : CheckerAnswers(healthy)

-----------------------------------------------------------------------------
(* The connection                                                          *)

(* Connection::socketShutdown with WILL_RETRY                              *)
ShutdownOnce(r) ==
    /\ link' = "DOWN"
    /\ hb' = StopManager(hb)
    /\ tickTimer' = Off
    /\ retry' = Retry(r)
    /\ retryTimer' = Retry(r).currentWait
    /\ quickFails' = IF r.lastRetry # Never /\ r.lastRetry <= MinWait
                     THEN Smaller(quickFails + 1, ContinuousRetries + 1)
                     ELSE 0
    /\ quietIn' = 0
    /\ quietOut' = 0
    /\ UNCHANGED downFor

(* When the socket is let go of while it is CLOSING, the end of the        *)
(* shutdown calls socketShutdown a second time.                            *)
SocketShutdown == ShutdownOnce(retry)
ShutdownTwice == ShutdownOnce(Retry(retry))

(* rmqa startFirstConnection: Connection::startFirstConnection, then       *)
(* registerConnection                                                      *)
StartFirstConnection(c) ==
    /\ RegisterConnection(c)
    /\ IF c = Linked
       THEN link = "NONE" /\ link' = "CONNECTING"
       ELSE UNCHANGED link
    /\ UNCHANGED <<everUp, hbVars, retryVars>>

(* Connection.Tune: sendConnectionTuneOk                                   *)
ReceiveTune(server) ==
    /\ link = "CONNECTING"
    /\ link' = "TUNED"
    /\ hb' = StartManager(NegotiateTuneParam(server, ClientHeartbeat))
    /\ tickTimer' = 1
    /\ quietIn' = 0
    /\ quietOut' = 0
    /\ UNCHANGED <<everUp, retryVars, healthVars>>

(* Connection.OpenOk                                                       *)
ReceiveOpenOk ==
    /\ link = "TUNED"
    /\ link' = "UP"
    /\ everUp' = TRUE
    /\ hb' = NotifyMessageReceived(hb)
    /\ quietIn' = 0
    /\ retry' = RetrySuccess(retry)
    /\ downFor' = 0
    /\ quickFails' = 0
    /\ UNCHANGED <<tickTimer, quietOut, retryTimer, healthVars>>

(* Connection::processNextFrame, for a frame of a channel ...              *)
ReceiveFrame ==
    /\ HasSocket
    /\ hb' = NotifyMessageReceived(hb)
    /\ quietIn' = 0
    /\ UNCHANGED <<link, everUp, tickTimer, quietOut, retryVars, healthVars>>

(* ... and for a heartbeat                                                 *)
ReceiveHeartbeat ==
    /\ HasSocket
    /\ hb' = NotifyHeartbeatReceived(NotifyMessageReceived(hb))
    /\ quietIn' = 0
    /\ UNCHANGED <<link, everUp, tickTimer, quietOut, retryVars, healthVars>>

(* Connection::handleAsyncChannelSend and asyncWriteSingleFrame            *)
WriteFrame ==
    /\ link = "UP"
    /\ hb' = NotifyMessageSent(hb)
    /\ quietOut' = 0
    /\ UNCHANGED <<link, everUp, tickTimer, quietIn, retryVars, healthVars>>

(* HeartbeatManagerImpl::handleTick, with sendHeartbeat and                *)
(* killConnection: closeSocket shuts down the socket, or, if that is under *)
(* way already or cannot be done, lets go of it                            *)
HandleTick ==
    /\ tickTimer = 0
    /\ LET counted == CountTick(hb)
       IN \/ /\ ~Kills(counted)
             /\ hb' = ProcessTick(hb)
             /\ tickTimer' = 1
             /\ quietOut' = IF Beats(counted) THEN 0 ELSE quietOut
             /\ UNCHANGED <<link, quietIn, retryVars>>
          \/ /\ Kills(counted)
             /\ link # "CLOSING"
             /\ hb' = ProcessTick(hb)
             /\ tickTimer' = 1
             /\ link' = "CLOSING"
             /\ quietOut' = 0
             /\ UNCHANGED <<quietIn, retryVars>>
          \/ /\ Kills(counted)
             /\ IF link = "CLOSING" THEN ShutdownTwice ELSE SocketShutdown
    /\ UNCHANGED <<everUp, healthVars>>

(* The attempt fails, the socket does, d_hungTimer expires, or the socket  *)
(* has been shut down.                                                     *)
LoseSocket ==
    /\ link \in {"CONNECTING", "TUNED", "UP", "CLOSING"}
    /\ SocketShutdown
    /\ UNCHANGED <<everUp, healthVars>>

(* RetryHandler::handleRetry with Connection::retry                        *)
HandleRetry ==
    /\ retryTimer = 0
    /\ retryTimer' = Off
    /\ retry' = Attempt(retry)
    /\ link' = "CONNECTING"
    /\ UNCHANGED <<everUp, hbVars, downFor, quickFails, healthVars>>

-----------------------------------------------------------------------------
(* The application's consumers                                             *)

(* A consumer is created on a connection that has been established.        *)
NewConsumer(ch) ==
    /\ Owner[ch] = Linked => everUp
    /\ CreateReceiveChannel(ch)
    /\ UNCHANGED linkVars

(* The connection goes away, with its heartbeats and retries.              *)
LoseConnection(c) ==
    /\ DestroyConnection(c)
    /\ IF c = Linked
       THEN /\ link' = "NONE"
            /\ everUp' = FALSE
            /\ hb' = HeartbeatManagerImpl
            /\ retry' = ConnectionRetryHandler
            /\ tickTimer' = Off
            /\ retryTimer' = Off
            /\ quietIn' = 0
            /\ quietOut' = 0
            /\ downFor' = 0
            /\ quickFails' = 0
       ELSE UNCHANGED linkVars

-----------------------------------------------------------------------------
Next ==
    \/ Second \/ CheckHealth \/ HandleTick \/ HandleRetry
    \/ \E server \in ServerHeartbeats : ReceiveTune(server)
    \/ ReceiveOpenOk \/ ReceiveFrame \/ ReceiveHeartbeat \/ WriteFrame
    \/ LoseSocket
    \/ \E c \in Conns : StartFirstConnection(c) \/ LoseConnection(c)
    \/ \E ch \in Channels : NewConsumer(ch)

Spec == Init /\ [][Next]_vars

-----------------------------------------------------------------------------
(* Properties                                                              *)

(* Every timer is slowed down by the health checks at most this much.      *)
Slowed(ticks) == ticks * (1 + MaxCheck)

(* A broker that has gone silent is given up: the heartbeats kill the      *)
(* connection after twice the timeout, and if the socket cannot be shut    *)
(* down, let go of it after as long again.                                 *)
DeadPeerDropped ==
    LET patience == Slowed(hb.timeoutSeconds * 2 + 1)
    IN /\ link \in {"TUNED", "UP"} => quietIn <= patience
       /\ HasSocket => quietIn <= 2 * patience

(* A connection is killed for silence only after a whole timeout of it,    *)
(* even if a tick follows right after what was received last.              *)
LivePeerKept ==
    [][(HandleTick /\ Kills(CountTick(hb))) => quietIn >= hb.timeoutSeconds]_vars

(* The broker always hears from the client within half a timeout, however  *)
(* the ticks, the writes and what is received interleave; if the health    *)
(* checks are slow, within as many ticks as there are in half a timeout.   *)
NeverQuiet ==
    link \in {"TUNED", "UP"} => quietOut <= Slowed(hb.timeoutSeconds \div 2)

(* Attempts that keep failing are spaced: after ContinuousRetries + 1 of   *)
(* them there is a wait, which never exceeds the maximum.                  *)
BackoffHolds ==
    link = "DOWN" =>
        /\ retryTimer <= MaxWait
        /\ quickFails > ContinuousRetries
              => retry.currentWait >= Smaller(MinWait, MaxWait)

(* The application is told that there is no connection only when there has *)
(* been none for longer than the threshold, although the clock of the      *)
(* ConnectionRetryHandler starts and stops with retries and successes.     *)
ReportTruthful ==
    [][(link # "DOWN" /\ link' = "DOWN" /\ Reports(retry))
         => downFor > ErrorThreshold]_vars

(* What the checker last said of the host, unless it has thrown too often  *)
KnownHealthy == answer /\ throws <= MaxRetries + 1

(* Every consumer that is to run only on a healthy host has been asked to  *)
(* run if and only if the host is known to be healthy, no matter when its  *)
(* connection was registered and when it was created; and the health of    *)
(* the host does nothing to the other consumers.                           *)
HealthApplied ==
    \A ch \in Channels :
        consumer[ch] # "none" =>
            consumer[ch] = IF ch \in Aware /\ ~KnownHealthy
                           THEN "paused" ELSE "running"

=============================================================================
