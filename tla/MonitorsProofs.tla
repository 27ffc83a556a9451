--------------------------- MODULE MonitorsProofs ---------------------------
(***************************************************************************)
(* Proofs about Monitors, for every value of the constants: consumers      *)
(* follow the health of the host, a broker that is heard from is not given *)
(* up, attempts that keep failing are spaced, and errors are reported only *)
(* when they have lasted.  Each has an inductive invariant of its own; the *)
(* three sets of variables do not depend on one another.                   *)
(***************************************************************************)
EXTENDS Monitors, TLAPS

-----------------------------------------------------------------------------
(* Host health                                                             *)

HealthTypes ==
    /\ latest \in {"HEALTHY", "UNHEALTHY"}
    /\ tries \in Nat
    /\ throws \in Nat
    /\ answer \in BOOLEAN
    /\ alive \subseteq registered
    /\ registered \subseteq Conns
    /\ onOpen \in [Conns -> {"NOT_PAUSED", "PAUSED_HOST_HEALTH_AWARE"}]
    /\ consumer \in [Channels -> {"none", "paused", "running"}]

(* d_latestHealthCheckResult is what is known of the host, since           *)
(* d_currentTries counts every failure of the checker that is put up with. *)
LatestTrue ==
    /\ (latest = "HEALTHY") <=> KnownHealthy
    /\ throws <= MaxRetries + 1 => tries = throws

(* The ChannelFactory of every connection has been told of it, and so has  *)
(* every consumer.                                                         *)
FactoriesTold == \A c \in alive : onOpen[c] = OpenState(latest)

ConsumersTold ==
    \A ch \in Channels :
        consumer[ch] # "none" =>
            /\ Owner[ch] \in alive
            /\ consumer[ch] = IF ch \in Aware /\ latest = "UNHEALTHY"
                              THEN "paused" ELSE "running"

HealthInv == HealthTypes /\ LatestTrue /\ FactoriesTold /\ ConsumersTold

(* No step of the connection touches the host health monitor.              *)
LEMMA HealthStutter ==
    ASSUME HealthInv, UNCHANGED healthVars
    PROVE  HealthInv'
BY DEF HealthInv, HealthTypes, LatestTrue, KnownHealthy, FactoriesTold,
       ConsumersTold, OpenState, healthVars, monitorVars, channelVars,
       checkerVars

(* Telling all the connections that exist of a result brings every         *)
(* ChannelFactory and every consumer up to date with it.                   *)
LEMMA SyncTells ==
    ASSUME HealthTypes, ConsumersTold, NEW result \in {"HEALTHY", "UNHEALTHY"},
           latest' = result, alive' = alive,
           SyncReceiveChannels(registered \cap alive, result)
    PROVE  /\ onOpen' \in [Conns -> {"NOT_PAUSED", "PAUSED_HOST_HEALTH_AWARE"}]
           /\ consumer' \in [Channels -> {"none", "paused", "running"}]
           /\ FactoriesTold'
           /\ ConsumersTold'
<1> USE HealthAssumption
<1>1. registered \cap alive = alive
  BY DEF HealthTypes
<1>2. onOpen' = [c \in Conns |-> IF c \in alive THEN OpenState(result)
                                 ELSE onOpen[c]]
  BY <1>1 DEF SyncReceiveChannels
<1>3. consumer' = [ch \in Channels |-> IF ch \in Reached(alive)
                                       THEN AskedState(result) ELSE consumer[ch]]
  BY <1>1 DEF SyncReceiveChannels
<1>4. onOpen' \in [Conns -> {"NOT_PAUSED", "PAUSED_HOST_HEALTH_AWARE"}]
  BY <1>2 DEF HealthTypes, OpenState
<1>5. consumer' \in [Channels -> {"none", "paused", "running"}]
  BY <1>3 DEF HealthTypes, AskedState
<1>6. FactoriesTold'
  BY <1>2 DEF FactoriesTold, OpenState, HealthTypes
<1>7. ConsumersTold'
  <2> SUFFICES ASSUME NEW ch \in Channels, consumer'[ch] # "none"
               PROVE  /\ Owner[ch] \in alive
                      /\ consumer'[ch] = IF ch \in Aware /\ result = "UNHEALTHY"
                                         THEN "paused" ELSE "running"
    BY DEF ConsumersTold
  <2>1. consumer[ch] # "none"
    BY <1>3 DEF Reached
  <2>2. Owner[ch] \in alive
    BY <2>1 DEF ConsumersTold
  <2>3. CASE ch \in Aware
    BY <2>1, <2>2, <2>3, <1>3 DEF Reached, AskedState
  <2>4. CASE ch \notin Aware
    BY <2>1, <2>4, <1>3 DEF Reached, ConsumersTold
  <2> QED BY <2>2, <2>3, <2>4
<1> QED BY <1>4, <1>5, <1>6, <1>7

(* A health check keeps the invariant, whatever its result.                *)
LEMMA CheckKeepsHealth ==
    ASSUME HealthInv,
           CheckerThrows \/ \E healthy \in BOOLEAN : CheckerAnswers(healthy)
    PROVE  HealthInv'
<1> USE HealthAssumption DEF HealthInv
<1>1. CASE CheckerThrows /\ MarksUnhealthy
  <2>1. /\ onOpen' \in [Conns -> {"NOT_PAUSED", "PAUSED_HOST_HEALTH_AWARE"}]
        /\ consumer' \in [Channels -> {"none", "paused", "running"}]
        /\ FactoriesTold'
        /\ ConsumersTold'
    BY <1>1, SyncTells DEF CheckerThrows
  <2>2. throws' > MaxRetries + 1 /\ throws' \in Nat
    BY <1>1 DEF CheckerThrows, MarksUnhealthy, HealthTypes, LatestTrue
  <2>3. LatestTrue'
    BY <1>1, <2>2 DEF CheckerThrows, LatestTrue, KnownHealthy, HealthTypes
  <2>4. HealthTypes'
    BY <1>1, <2>1, <2>2 DEF CheckerThrows, HealthTypes
  <2> QED BY <2>1, <2>3, <2>4
<1>2. CASE CheckerThrows /\ ~MarksUnhealthy
  <2>1. LatestTrue'
    BY <1>2 DEF CheckerThrows, MarksUnhealthy, LatestTrue, KnownHealthy, HealthTypes
  <2>2. HealthTypes'
    BY <1>2 DEF CheckerThrows, HealthTypes
  <2>3. FactoriesTold' /\ ConsumersTold'
    BY <1>2 DEF CheckerThrows, FactoriesTold, ConsumersTold, OpenState
  <2> QED BY <2>1, <2>2, <2>3
<1>3. ASSUME NEW healthy \in BOOLEAN, CheckerAnswers(healthy) PROVE HealthInv'
  <2> DEFINE result == IF healthy THEN "HEALTHY" ELSE "UNHEALTHY"
  <2>1. /\ onOpen' \in [Conns -> {"NOT_PAUSED", "PAUSED_HOST_HEALTH_AWARE"}]
        /\ consumer' \in [Channels -> {"none", "paused", "running"}]
        /\ FactoriesTold'
        /\ ConsumersTold'
    <3>1. result \in {"HEALTHY", "UNHEALTHY"} /\ latest' = result
            /\ alive' = alive /\ SyncReceiveChannels(registered \cap alive, result)
      BY <1>3 DEF CheckerAnswers
    <3> HIDE DEF result
    <3> QED BY <3>1, SyncTells
  <2>2. LatestTrue'
    BY <1>3 DEF CheckerAnswers, LatestTrue, KnownHealthy
  <2>3. HealthTypes'
    BY <1>3, <2>1 DEF CheckerAnswers, HealthTypes
  <2> QED BY <2>1, <2>2, <2>3
<1> QED BY <1>1, <1>2, <1>3

(* Registering, creating and destroying keep the invariant.                *)
LEMMA ChannelsKeepHealth ==
    ASSUME HealthInv,
           \/ \E c \in Conns : RegisterConnection(c) \/ DestroyConnection(c)
           \/ \E ch \in Channels : CreateReceiveChannel(ch)
    PROVE  HealthInv'
<1> USE HealthAssumption DEF HealthInv
<1>1. ASSUME NEW c \in Conns, RegisterConnection(c) PROVE HealthInv'
  <2>1. \A ch \in Channels : Owner[ch] = c => consumer[ch] = "none"
    BY <1>1 DEF RegisterConnection, ConsumersTold, HealthTypes
  <2>2. Reached({c}) = {}
    BY <2>1 DEF Reached
  <2>3. consumer' = consumer
    BY <1>1, <2>2 DEF RegisterConnection, SyncReceiveChannels, HealthTypes
  <2>4. onOpen' = [d \in Conns |-> IF d = c THEN OpenState(latest) ELSE onOpen[d]]
    BY <1>1 DEF RegisterConnection, SyncReceiveChannels
  <2>5. HealthTypes'
    BY <1>1, <2>3, <2>4 DEF RegisterConnection, HealthTypes, OpenState, checkerVars
  <2>6. LatestTrue'
    BY <1>1 DEF RegisterConnection, LatestTrue, KnownHealthy, checkerVars
  <2>7. FactoriesTold'
    BY <1>1, <2>4 DEF RegisterConnection, FactoriesTold, OpenState, HealthTypes
  <2>8. ConsumersTold'
    BY <1>1, <2>3 DEF RegisterConnection, ConsumersTold
  <2> QED BY <2>5, <2>6, <2>7, <2>8
<1>2. ASSUME NEW c \in Conns, DestroyConnection(c) PROVE HealthInv'
  <2>1. HealthTypes'
    BY <1>2 DEF DestroyConnection, HealthTypes, monitorVars, checkerVars
  <2>2. LatestTrue'
    BY <1>2 DEF DestroyConnection, LatestTrue, KnownHealthy, monitorVars, checkerVars
  <2>3. FactoriesTold'
    BY <1>2 DEF DestroyConnection, FactoriesTold, OpenState, monitorVars
  <2>4. ConsumersTold'
    BY <1>2 DEF DestroyConnection, ConsumersTold, HealthTypes, monitorVars
  <2> QED BY <2>1, <2>2, <2>3, <2>4
<1>3. ASSUME NEW ch \in Channels, CreateReceiveChannel(ch) PROVE HealthInv'
  <2>1. HealthTypes'
    BY <1>3 DEF CreateReceiveChannel, HealthTypes, monitorVars, checkerVars
  <2>2. LatestTrue'
    BY <1>3 DEF CreateReceiveChannel, LatestTrue, KnownHealthy, monitorVars, checkerVars
  <2>3. FactoriesTold'
    BY <1>3 DEF CreateReceiveChannel, FactoriesTold, OpenState, monitorVars
  <2>4. ConsumersTold'
    BY <1>3 DEF CreateReceiveChannel, ConsumersTold, FactoriesTold, OpenState,
                HealthTypes, monitorVars
  <2> QED BY <2>1, <2>2, <2>3, <2>4
<1> QED BY <1>1, <1>2, <1>3

(* HealthInv is inductive.                                                 *)
LEMMA HealthInductive ==
    HealthInv /\ [Next]_vars => HealthInv'
<1> SUFFICES ASSUME HealthInv, [Next]_vars PROVE HealthInv'
  OBVIOUS
<1>1. CASE UNCHANGED healthVars
  BY <1>1, HealthStutter
<1>2. CASE Second
  <2>1. /\ UNCHANGED <<latest, tries, registered>>
        /\ UNCHANGED channelVars
        /\ UNCHANGED checkerVars
    BY <1>2 DEF Second
  <2> QED
    BY <2>1 DEF HealthInv, HealthTypes, LatestTrue, KnownHealthy, FactoriesTold,
                ConsumersTold, OpenState, channelVars, checkerVars
<1>3. CASE CheckHealth
  BY <1>3, CheckKeepsHealth DEF CheckHealth
<1>4. CASE \E c \in Conns : StartFirstConnection(c) \/ LoseConnection(c)
  BY <1>4, ChannelsKeepHealth DEF StartFirstConnection, LoseConnection
<1>5. CASE \E ch \in Channels : NewConsumer(ch)
  BY <1>5, ChannelsKeepHealth DEF NewConsumer
<1>6. CASE \/ HandleTick \/ HandleRetry
           \/ \E server \in ServerHeartbeats : ReceiveTune(server)
           \/ ReceiveOpenOk \/ ReceiveFrame \/ ReceiveHeartbeat \/ WriteFrame
           \/ LoseSocket
  <2>1. UNCHANGED healthVars
    BY <1>6, Zenon DEF HandleTick, HandleRetry, ReceiveTune, ReceiveOpenOk,
       ReceiveFrame, ReceiveHeartbeat, WriteFrame, LoseSocket
  <2> QED BY <2>1, <1>1
<1>7. CASE UNCHANGED vars
  BY <1>7, <1>1 DEF vars
<1> QED BY <1>2, <1>3, <1>4, <1>5, <1>6, <1>7, Zenon DEF Next

(* However checks, failures of the checker, registrations, new consumers   *)
(* and lost connections interleave, every consumer with                    *)
(* consumeOnlyFromHealthyHost is paused or running as the last known       *)
(* health of the host says, and no other consumer is affected.             *)
THEOREM ConsumersFollowHealth == Spec => []HealthApplied
<1>1. Init => HealthInv
  <2> SUFFICES ASSUME HealthInit PROVE HealthInv
    BY DEF Init
  <2>1. HealthTypes
    BY DEF HealthInit, HealthTypes
  <2>2. LatestTrue
    BY HealthAssumption DEF HealthInit, LatestTrue, KnownHealthy
  <2>3. FactoriesTold /\ ConsumersTold
    BY DEF HealthInit, FactoriesTold, ConsumersTold
  <2> QED BY <2>1, <2>2, <2>3 DEF HealthInv
<1>2. HealthInv => HealthApplied
  BY DEF HealthInv, HealthTypes, LatestTrue, ConsumersTold, HealthApplied
<1> QED BY <1>1, <1>2, HealthInductive, PTL DEF Spec

-----------------------------------------------------------------------------
(* The record of the retries                                               *)

RetryRecord == [backoffLevel : 0..3, numRetries : 0..(ContinuousRetries + 1),
                currentWait : 0..MaxWait, lastRetry : Nat, errorSince : Nat]

(* RetryAssumption, one constant at a time.                                *)
LEMMA RetryConstants ==
    /\ ContinuousRetries \in Nat /\ MinWait \in Nat /\ MaxWait \in Nat
    /\ ErrorThreshold \in Nat /\ Never \in Nat
    /\ Never > MaxWait + MinWait + ErrorThreshold + 1
BY RetryAssumption

(* moveCircuitBreaker starts the count of the new level at zero.           *)
LEMMA MoveFacts ==
    ASSUME NEW q \in RetryRecord, NEW level \in 0..3
    PROVE  MoveCircuitBreaker(q, level) \in RetryRecord
<1>1. 0 \in 0..(ContinuousRetries + 1)
  BY RetryConstants
<1>2. [q EXCEPT !.backoffLevel = level] \in RetryRecord
  BY DEF RetryRecord
<1> DEFINE moved == [q EXCEPT !.backoffLevel = level]
<1>3. MoveCircuitBreaker(q, level) = [moved EXCEPT !.numRetries = 0]
  BY DEF MoveCircuitBreaker
<1> HIDE DEF moved
<1>4. [moved EXCEPT !.numRetries = 0] \in RetryRecord
  BY <1>1, <1>2 DEF RetryRecord, moved
<1> QED BY <1>3, <1>4

(* The functions of the retry handler and its strategy keep to the record; *)
(* in particular no wait is ever longer than MaxWait.                      *)
LEMMA RetryFacts ==
    ASSUME NEW r \in RetryRecord
    PROVE  /\ StrategySuccess(r) \in RetryRecord
           /\ StrategyFail(r) \in RetryRecord
           /\ NextRetryInterval(r) \in RetryRecord
           /\ Retry(r) \in RetryRecord
           /\ Attempt(r) \in RetryRecord
           /\ RetrySuccess(r) \in RetryRecord
           /\ \A seconds \in Nat : RetryClock(r, seconds) \in RetryRecord
<1> USE RetryConstants
<1>1. StrategySuccess(r) \in RetryRecord
  <2>1. (IF r.backoffLevel = IMMEDIATE THEN IMMEDIATE ELSE r.backoffLevel - 1) \in 0..3
    BY DEF RetryRecord, IMMEDIATE
  <2>2. [r EXCEPT !.currentWait = 0] \in RetryRecord
    BY DEF RetryRecord
  <2> QED BY <2>1, <2>2, MoveFacts DEF StrategySuccess
<1>2. StrategyFail(r) \in RetryRecord
  <2>1. Smaller(r.backoffLevel + 1, EXPONENTIAL) \in 0..3
    BY DEF RetryRecord, Smaller, EXPONENTIAL
  <2> QED BY <2>1, MoveFacts DEF StrategyFail
<1>3. ASSUME NEW q \in RetryRecord PROVE CalculateNextInterval(q) \in RetryRecord
  <2> DEFINE grown == CASE q.backoffLevel = IMMEDIATE -> q.currentWait
                        [] q.backoffLevel = CONSTANT_LEVEL -> MinWait
                        [] q.backoffLevel = LINEAR -> q.currentWait + MinWait
                        [] q.backoffLevel = EXPONENTIAL -> 2 * q.currentWait
  <2>1. grown \in Nat
    BY DEF RetryRecord, IMMEDIATE, CONSTANT_LEVEL, LINEAR, EXPONENTIAL
  <2>2. CalculateNextInterval(q) = [q EXCEPT !.currentWait = Smaller(grown, MaxWait)]
    BY DEF CalculateNextInterval
  <2> HIDE DEF grown
  <2>3. Smaller(grown, MaxWait) \in 0..MaxWait
    BY <2>1 DEF Smaller
  <2> QED BY <2>2, <2>3 DEF RetryRecord
<1>4. NextRetryInterval(r) \in RetryRecord
  BY <1>1, <1>2, <1>3 DEF NextRetryInterval
<1>5. Retry(r) \in RetryRecord
  BY <1>4 DEF Retry, RetryRecord
<1>6. Attempt(r) \in RetryRecord
  <2>1. Smaller(r.numRetries + 1, ContinuousRetries + 1) \in 0..(ContinuousRetries + 1)
    BY DEF Smaller, RetryRecord
  <2> QED BY <2>1 DEF Attempt, RetryRecord
<1>7. RetrySuccess(r) \in RetryRecord
  BY <1>1 DEF RetrySuccess, RetryRecord
<1>8. ASSUME NEW seconds \in Nat PROVE RetryClock(r, seconds) \in RetryRecord
  <2>1. /\ Older(r.lastRetry, Larger(MinWait, MaxWait), seconds) \in Nat
        /\ Older(r.errorSince, ErrorThreshold, seconds) \in Nat
    BY DEF Older, Larger, Smaller, RetryRecord
  <2> QED BY <2>1 DEF RetryClock, RetryRecord
<1> QED BY <1>1, <1>2, <1>4, <1>5, <1>6, <1>7, <1>8

-----------------------------------------------------------------------------
(* Heartbeats                                                              *)

Links == {"NONE", "CONNECTING", "TUNED", "UP", "CLOSING", "DOWN"}

Manager == [active : BOOLEAN, timeoutSeconds : Nat, untilDisconnect : Nat,
            untilHeartBeat : Nat, totalUntilDisconnect : Nat,
            totalUntilHeartBeat : Nat]

(* The ticks are running as long as there is a socket.                     *)
BeatTypes ==
    /\ link \in Links
    /\ hb \in Manager
    /\ quietIn \in Nat
    /\ tickTimer \in {0, 1, Off}
    /\ HasSocket <=> tickTimer # Off

(* Since something was last received, every tick that was counted has      *)
(* taken a second, except for the first one.                               *)
TicksTakeTime ==
    HasSocket =>
        /\ hb.untilDisconnect \in 1..hb.totalUntilDisconnect
        /\ hb.totalUntilDisconnect >= hb.timeoutSeconds + 1
        /\ quietIn + tickTimer + hb.untilDisconnect >= hb.totalUntilDisconnect

BeatInv == BeatTypes /\ TicksTakeTime

(* The retry timer is running exactly while the connection is down.        *)
RetryTypes ==
    /\ retry \in RetryRecord
    /\ retryTimer \in 0..MaxWait \cup {Off}
    /\ (link = "DOWN") <=> (retryTimer # Off)

(* A timer that is off is not mistaken for one that is about to fire.      *)
LEMMA OffIsLarge == Off \in Nat /\ Off > 1
BY MonitorsAssumption, HealthAssumption

(* What the functions of HeartbeatManagerImpl make of its counters         *)
LEMMA ManagerFacts ==
    ASSUME NEW h \in Manager
    PROVE  /\ NotifyMessageSent(h) \in Manager
           /\ NotifyMessageReceived(h) \in Manager
           /\ NotifyHeartbeatReceived(h) \in Manager
           /\ StopManager(h) \in Manager
           /\ CountTick(h) \in Manager
           /\ ProcessTick(h) \in Manager
<1>1. \A n \in Nat : Decrement(n) \in Nat
  BY HeartbeatAssumption DEF Decrement
<1>2. ASSUME NEW g \in Manager
      PROVE  NotifyMessageSent(g) \in Manager /\ NotifyMessageReceived(g) \in Manager
  BY DEF NotifyMessageSent, NotifyMessageReceived, Manager
<1>3. NotifyHeartbeatReceived(h) \in Manager /\ StopManager(h) \in Manager
  <2>1. h.timeoutSeconds + 1 \in Nat
    BY DEF Manager
  <2>2. NotifyHeartbeatReceived(h) \in Manager
    BY <2>1 DEF NotifyHeartbeatReceived, Manager
  <2>3. StopManager(h) \in Manager
    BY DEF StopManager, Manager
  <2> QED BY <2>2, <2>3
<1>4. CountTick(h) \in Manager
  BY <1>1 DEF CountTick, Manager
<1>5. ProcessTick(h) \in Manager
  BY <1>2, <1>4 DEF ProcessTick
<1> QED BY <1>2, <1>3, <1>4, <1>5

(* A tick takes one off the counter, and starts it again at zero.          *)
LEMMA TickCounts ==
    ASSUME NEW h \in Manager, h.untilDisconnect \in 1..h.totalUntilDisconnect
    PROVE  /\ Kills(CountTick(h)) <=> h.untilDisconnect = 1
           /\ ProcessTick(h).totalUntilDisconnect = h.totalUntilDisconnect
           /\ ProcessTick(h).timeoutSeconds = h.timeoutSeconds
           /\ ProcessTick(h).untilDisconnect =
                 IF h.untilDisconnect = 1 THEN h.totalUntilDisconnect
                 ELSE h.untilDisconnect - 1
<1> DEFINE counted == CountTick(h)
<1>1. /\ counted \in Manager
      /\ counted.untilDisconnect = h.untilDisconnect - 1
      /\ counted.totalUntilDisconnect = h.totalUntilDisconnect
      /\ counted.timeoutSeconds = h.timeoutSeconds
  <2>1. Decrement(h.untilDisconnect) = h.untilDisconnect - 1
    BY DEF Decrement, Manager
  <2>2. counted \in Manager
    BY ManagerFacts
  <2> QED BY <2>1, <2>2 DEF CountTick, Manager
<1>2. Kills(counted) <=> h.untilDisconnect = 1
  BY <1>1 DEF Kills, Manager
<1> DEFINE beaten == IF Beats(counted) THEN NotifyMessageSent(counted) ELSE counted
<1>3. /\ beaten \in Manager
      /\ beaten.untilDisconnect = h.untilDisconnect - 1
      /\ beaten.totalUntilDisconnect = h.totalUntilDisconnect
      /\ beaten.timeoutSeconds = h.timeoutSeconds
  <2> HIDE DEF counted
  <2> QED BY <1>1, ManagerFacts DEF NotifyMessageSent, Manager
<1>4. ProcessTick(h) = IF Kills(counted) THEN NotifyMessageReceived(beaten) ELSE beaten
  BY DEF ProcessTick
<1> HIDE DEF counted, beaten
<1>5. QED BY <1>2, <1>3, <1>4 DEF NotifyMessageReceived, Manager, counted

(* Time only makes the silence longer, and the tick nearer.                *)
LEMMA ElapseKeepsBeat ==
    ASSUME BeatInv, NEW seconds \in Nat, Elapse(seconds)
    PROVE  BeatInv'
<1> USE OffIsLarge
<1>1. /\ link' = link /\ hb' = hb
      /\ tickTimer' = Countdown(tickTimer, seconds)
      /\ quietIn' = IF HasSocket THEN quietIn + seconds ELSE 0
  BY DEF Elapse
<1>2. BeatTypes'
  BY <1>1 DEF BeatInv, BeatTypes, HasSocket, Countdown
<1>3. TicksTakeTime'
  BY <1>1 DEF BeatInv, BeatTypes, TicksTakeTime, HasSocket, Countdown, Manager
<1> QED BY <1>2, <1>3 DEF BeatInv

(* What arrives starts the count again.                                    *)
LEMMA ReceiveKeepsBeat ==
    ASSUME BeatInv, NEW link2 \in {"TUNED", "UP", "CLOSING"}, HasSocket,
           link' = link2, tickTimer' = tickTimer, quietIn' = 0,
           \/ hb' = NotifyMessageReceived(hb)
           \/ hb' = NotifyHeartbeatReceived(NotifyMessageReceived(hb))
    PROVE  BeatInv'
<1> USE OffIsLarge DEF BeatInv
<1>1. /\ hb' \in Manager
      /\ hb'.untilDisconnect = hb'.totalUntilDisconnect
      /\ hb'.totalUntilDisconnect >= hb'.timeoutSeconds + 1
  <2>1. CASE hb' = NotifyMessageReceived(hb)
    <3>1. hb' \in Manager
      BY <2>1, ManagerFacts DEF BeatTypes
    <3> QED BY <2>1, <3>1 DEF NotifyMessageReceived, BeatTypes, TicksTakeTime, Manager
  <2>2. CASE hb' = NotifyHeartbeatReceived(NotifyMessageReceived(hb))
    <3>1. NotifyMessageReceived(hb) \in Manager
      BY ManagerFacts DEF BeatTypes
    <3>2. hb' \in Manager
      BY <2>2, <3>1, ManagerFacts
    <3>3. /\ hb'.untilDisconnect = NotifyMessageReceived(hb).timeoutSeconds + 1
          /\ hb'.totalUntilDisconnect = NotifyMessageReceived(hb).timeoutSeconds + 1
          /\ hb'.timeoutSeconds = NotifyMessageReceived(hb).timeoutSeconds
      BY <2>2, <3>1 DEF NotifyHeartbeatReceived, Manager
    <3> QED BY <3>1, <3>2, <3>3 DEF Manager
  <2> QED BY <2>1, <2>2
<1>2. BeatTypes'
  BY <1>1 DEF BeatTypes, HasSocket, Links
<1>3. TicksTakeTime'
  BY <1>1 DEF BeatTypes, TicksTakeTime, HasSocket, Manager
<1> QED BY <1>2, <1>3

(* Without a socket there is nothing to count.                             *)
LEMMA NoSocketKeepsBeat ==
    ASSUME BeatInv, link' \in {"NONE", "CONNECTING", "DOWN"}, tickTimer' = Off,
           quietIn' \in Nat, hb' \in Manager
    PROVE  BeatInv'
BY OffIsLarge DEF BeatInv, BeatTypes, TicksTakeTime, HasSocket, Links

(* A tick counts one and starts the next second.                           *)
LEMMA TickKeepsBeat ==
    ASSUME BeatInv, HandleTick
    PROVE  BeatInv'
<1> USE OffIsLarge DEF BeatInv
<1>1. tickTimer = 0 /\ HasSocket /\ hb \in Manager
  BY DEF HandleTick, BeatTypes
<1>2. hb.untilDisconnect \in 1..hb.totalUntilDisconnect
  BY <1>1 DEF TicksTakeTime
<1>3. ASSUME hb' = ProcessTick(hb), tickTimer' = 1, quietIn' = quietIn,
             link' \in {"TUNED", "UP", "CLOSING"}
      PROVE  BeatInv'
  <2>1. hb' \in Manager
    BY <1>1, <1>3, ManagerFacts
  <2>2. /\ hb'.totalUntilDisconnect = hb.totalUntilDisconnect
        /\ hb'.timeoutSeconds = hb.timeoutSeconds
        /\ hb'.untilDisconnect = IF hb.untilDisconnect = 1
                                 THEN hb.totalUntilDisconnect
                                 ELSE hb.untilDisconnect - 1
    BY <1>1, <1>2, <1>3, TickCounts
  <2>3. BeatTypes'
    BY <1>3, <2>1 DEF BeatTypes, HasSocket, Links
  <2>4. TicksTakeTime'
    BY <1>1, <1>2, <1>3, <2>1, <2>2 DEF TicksTakeTime, HasSocket, BeatTypes, Manager
  <2> QED BY <2>3, <2>4
<1>4. ASSUME NEW r, ShutdownOnce(r) PROVE BeatInv'
  BY <1>1, <1>4, ManagerFacts, NoSocketKeepsBeat DEF ShutdownOnce
<1>5. CASE ~Kills(CountTick(hb))
  BY <1>1, <1>3, <1>5, Zenon DEF HandleTick, HasSocket
<1>6. CASE Kills(CountTick(hb)) /\ link # "CLOSING" /\ hb' = ProcessTick(hb)
             /\ tickTimer' = 1 /\ link' = "CLOSING" /\ quietIn' = quietIn
  BY <1>3, <1>6
<1>7. CASE Kills(CountTick(hb))
             /\ IF link = "CLOSING" THEN ShutdownTwice ELSE SocketShutdown
  BY <1>4, <1>7 DEF ShutdownTwice, SocketShutdown
<1> QED BY <1>5, <1>6, <1>7, Zenon DEF HandleTick

(* BeatInv is inductive: only a connection that is down is retried.        *)
LEMMA BeatInductive ==
    BeatInv /\ RetryTypes /\ [Next]_vars => BeatInv'
<1> SUFFICES ASSUME BeatInv, RetryTypes, [Next]_vars PROVE BeatInv'
  OBVIOUS
<1> USE OffIsLarge
<1>0. hb \in Manager /\ quietIn \in Nat
  BY DEF BeatInv, BeatTypes
<1>1. ASSUME link' = link, UNCHANGED hbVars PROVE BeatInv'
  BY <1>1 DEF hbVars, BeatInv, BeatTypes, TicksTakeTime, HasSocket
<1>2. CASE Second
  BY <1>2, ElapseKeepsBeat DEF Second
<1>3. CASE CheckHealth
  BY <1>3, ElapseKeepsBeat, MonitorsAssumption DEF CheckHealth
<1>4. CASE HandleTick
  BY <1>4, TickKeepsBeat
<1>5. ASSUME NEW server \in ServerHeartbeats, ReceiveTune(server) PROVE BeatInv'
  <2> DEFINE timeout == NegotiateTuneParam(server, ClientHeartbeat)
  <2>1. timeout \in Nat
    BY MonitorsAssumption, HeartbeatAssumption DEF NegotiateTuneParam
  <2>2. link' = "TUNED" /\ hb' = StartManager(timeout) /\ tickTimer' = 1 /\ quietIn' = 0
    BY <1>5 DEF ReceiveTune
  <2> HIDE DEF timeout
  <2>3. timeout \div 2 \in Nat
    BY <2>1
  <2>4. /\ hb' \in Manager
        /\ hb'.untilDisconnect = timeout * 2 + 1
        /\ hb'.totalUntilDisconnect = timeout * 2 + 1
        /\ hb'.timeoutSeconds = timeout
    BY <2>1, <2>2, <2>3 DEF StartManager, Manager
  <2>5. BeatTypes'
    BY <2>2, <2>4 DEF BeatTypes, HasSocket, Links
  <2>6. TicksTakeTime'
    BY <2>1, <2>2, <2>4 DEF TicksTakeTime
  <2> QED BY <2>5, <2>6 DEF BeatInv
<1>6. CASE ReceiveOpenOk
  BY <1>6, ReceiveKeepsBeat DEF ReceiveOpenOk, HasSocket
<1>7. CASE ReceiveFrame
  BY <1>7, ReceiveKeepsBeat DEF ReceiveFrame, HasSocket
<1>8. CASE ReceiveHeartbeat
  BY <1>8, ReceiveKeepsBeat DEF ReceiveHeartbeat, HasSocket
<1>9. CASE WriteFrame
  <2>1. /\ hb' = NotifyMessageSent(hb)
        /\ UNCHANGED <<link, tickTimer, quietIn>>
    BY <1>9 DEF WriteFrame
  <2>2. /\ hb' \in Manager
        /\ hb'.untilDisconnect = hb.untilDisconnect
        /\ hb'.totalUntilDisconnect = hb.totalUntilDisconnect
        /\ hb'.timeoutSeconds = hb.timeoutSeconds
    BY <1>0, <2>1, ManagerFacts DEF NotifyMessageSent, Manager
  <2> QED BY <2>1, <2>2 DEF BeatInv, BeatTypes, TicksTakeTime, HasSocket
<1>10. CASE LoseSocket
  BY <1>0, <1>10, ManagerFacts, NoSocketKeepsBeat
     DEF LoseSocket, SocketShutdown, ShutdownOnce
<1>11. CASE HandleRetry
  <2>1. link = "DOWN"
    BY <1>11 DEF HandleRetry, RetryTypes
  <2>2. tickTimer = Off
    BY <2>1 DEF BeatInv, BeatTypes, HasSocket
  <2>3. link' = "CONNECTING" /\ UNCHANGED <<hb, tickTimer, quietIn>>
    BY <1>11 DEF HandleRetry, hbVars
  <2> QED BY <1>0, <2>2, <2>3, NoSocketKeepsBeat
<1>12. ASSUME NEW c \in Conns, StartFirstConnection(c) PROVE BeatInv'
  <2>1. UNCHANGED <<hb, tickTimer, quietIn>>
    BY <1>12 DEF StartFirstConnection, hbVars
  <2>2. CASE c = Linked
    <3>1. link = "NONE" /\ link' = "CONNECTING"
      BY <1>12, <2>2 DEF StartFirstConnection
    <3>2. tickTimer = Off
      BY <3>1 DEF BeatInv, BeatTypes, HasSocket
    <3> QED BY <1>0, <2>1, <3>1, <3>2, NoSocketKeepsBeat
  <2>3. CASE c # Linked
    BY <1>1, <1>12, <2>3 DEF StartFirstConnection
  <2> QED BY <2>2, <2>3
<1>13. ASSUME NEW c \in Conns, LoseConnection(c) PROVE BeatInv'
  <2>1. CASE c = Linked
    <3>1. HeartbeatManagerImpl \in Manager
      BY DEF HeartbeatManagerImpl, Manager
    <3> QED BY <1>13, <2>1, <3>1, NoSocketKeepsBeat DEF LoseConnection
  <2>2. CASE c # Linked
    BY <1>1, <1>13, <2>2 DEF LoseConnection, linkVars
  <2> QED BY <2>1, <2>2
<1>14. ASSUME NEW ch \in Channels, NewConsumer(ch) PROVE BeatInv'
  BY <1>1, <1>14 DEF NewConsumer, linkVars
<1>15. CASE UNCHANGED vars
  BY <1>1, <1>15 DEF vars, linkVars
<1> QED BY <1>2, <1>3, <1>4, <1>5, <1>6, <1>7, <1>8, <1>9, <1>10, <1>11,
           <1>12, <1>13, <1>14, <1>15, Zenon DEF Next

(* Shutting the socket down arms the retry timer.                          *)
LEMMA ShutdownKeepsTypes ==
    ASSUME NEW r \in RetryRecord, ShutdownOnce(r)
    PROVE  RetryTypes'
<1>1. /\ link' = "DOWN" /\ retry' = Retry(r) /\ retryTimer' = retry'.currentWait
      /\ Retry(r) \in RetryRecord
  BY RetryFacts DEF ShutdownOnce
<1>2. retryTimer' \in 0..MaxWait
  BY <1>1 DEF RetryRecord
<1> QED BY <1>1, <1>2, MonitorsAssumption, RetryConstants DEF RetryTypes

(* Time makes no timer start or stop.                                      *)
LEMMA ElapseKeepsTypes ==
    ASSUME RetryTypes, NEW seconds \in Nat, Elapse(seconds)
    PROVE  RetryTypes'
<1>1. retry' \in RetryRecord
  BY RetryFacts DEF RetryTypes, Elapse
<1>2. link' = link /\ retryTimer' = Countdown(retryTimer, seconds)
  BY DEF Elapse
<1>3. /\ retryTimer' \in 0..MaxWait \cup {Off}
      /\ retryTimer = Off <=> retryTimer' = Off
  <2>1. CASE retryTimer = Off
    BY <1>2, <2>1 DEF Countdown
  <2>2. CASE retryTimer # Off
    BY <1>2, <2>2, MonitorsAssumption, RetryConstants DEF Countdown, RetryTypes
  <2> QED BY <2>1, <2>2
<1> QED BY <1>1, <1>2, <1>3 DEF RetryTypes

-----------------------------------------------------------------------------
(* The steps as the retries see them                                       *)

(* The connection is destroyed, and its retry handler with it.             *)
Renewed ==
    /\ link' = "NONE"
    /\ retry' = ConnectionRetryHandler
    /\ retryTimer' = Off
    /\ downFor' = 0
    /\ quickFails' = 0

(* The retry handler is not involved.                                      *)
Uninvolved ==
    /\ UNCHANGED <<retry, retryTimer, downFor, quickFails>>
    /\ \/ link' = link
       \/ link # "DOWN" /\ link' \in {"CONNECTING", "TUNED", "CLOSING"}

(* Every step is one of seven kinds for the retries: in particular a       *)
(* socket is shut down only when the connection is not down, and an        *)
(* attempt is made only when it is.                                        *)
LEMMA RetryCases ==
    ASSUME BeatInv, RetryTypes, [Next]_vars
    PROVE  \/ \E seconds \in Nat : Elapse(seconds)
           \/ link # "DOWN" /\ ShutdownOnce(retry)
           \/ link # "DOWN" /\ ShutdownOnce(Retry(retry))
           \/ ReceiveOpenOk
           \/ link = "DOWN" /\ HandleRetry
           \/ Renewed
           \/ Uninvolved
<1>1. CASE Second
  BY <1>1 DEF Second
<1>2. CASE CheckHealth
  BY <1>2, MonitorsAssumption DEF CheckHealth
<1>3. CASE HandleTick
  <2>1. link \in {"TUNED", "UP", "CLOSING"}
    BY <1>3, OffIsLarge DEF HandleTick, BeatInv, BeatTypes, HasSocket
  <2>2. \/ UNCHANGED <<link, retryVars>>
        \/ link' = "CLOSING" /\ UNCHANGED retryVars
        \/ ShutdownOnce(retry) \/ ShutdownOnce(Retry(retry))
    BY <1>3, Zenon DEF HandleTick, ShutdownTwice, SocketShutdown
  <2> QED BY <2>1, <2>2 DEF retryVars, Uninvolved
<1>4. CASE HandleRetry
  BY <1>4, OffIsLarge DEF HandleRetry, RetryTypes
<1>5. ASSUME NEW server \in ServerHeartbeats, ReceiveTune(server) PROVE Uninvolved
  BY <1>5 DEF ReceiveTune, Uninvolved, retryVars
<1>6. CASE ReceiveFrame \/ ReceiveHeartbeat \/ WriteFrame
  BY <1>6 DEF ReceiveFrame, ReceiveHeartbeat, WriteFrame, Uninvolved, retryVars
<1>7. CASE LoseSocket
  BY <1>7 DEF LoseSocket, SocketShutdown
<1>8. ASSUME NEW c \in Conns, StartFirstConnection(c) PROVE Uninvolved
  BY <1>8 DEF StartFirstConnection, Uninvolved, retryVars
<1>9. ASSUME NEW c \in Conns, LoseConnection(c) PROVE Renewed \/ Uninvolved
  BY <1>9 DEF LoseConnection, Renewed, Uninvolved, retryVars, linkVars
<1>10. ASSUME NEW ch \in Channels, NewConsumer(ch) PROVE Uninvolved
  BY <1>10 DEF NewConsumer, Uninvolved, retryVars, linkVars
<1>11. CASE UNCHANGED vars
  BY <1>11 DEF vars, linkVars, Uninvolved, retryVars
<1> QED BY <1>1, <1>2, <1>3, <1>4, <1>5, <1>6, <1>7, <1>8, <1>9, <1>10, <1>11,
           Zenon DEF Next

(* RetryTypes is inductive.                                                *)
LEMMA TypesInductive ==
    BeatInv /\ RetryTypes /\ [Next]_vars => RetryTypes'
<1> SUFFICES ASSUME BeatInv, RetryTypes, [Next]_vars PROVE RetryTypes'
  OBVIOUS
<1>1. ASSUME NEW seconds \in Nat, Elapse(seconds) PROVE RetryTypes'
  BY <1>1, ElapseKeepsTypes
<1>2. CASE ShutdownOnce(retry)
  BY <1>2, ShutdownKeepsTypes DEF RetryTypes
<1>3. CASE ShutdownOnce(Retry(retry))
  BY <1>3, ShutdownKeepsTypes, RetryFacts DEF RetryTypes
<1>4. CASE ReceiveOpenOk
  BY <1>4, RetryFacts DEF ReceiveOpenOk, RetryTypes
<1>5. CASE HandleRetry
  BY <1>5, RetryFacts DEF HandleRetry, RetryTypes
<1>6. CASE Renewed
  <2>1. ConnectionRetryHandler \in RetryRecord
    BY RetryConstants DEF ConnectionRetryHandler, RetryRecord, IMMEDIATE
  <2> QED BY <1>6, <2>1 DEF Renewed, RetryTypes
<1>7. CASE Uninvolved
  BY <1>7 DEF Uninvolved, RetryTypes
<1> QED BY <1>1, <1>2, <1>3, <1>4, <1>5, <1>6, <1>7, RetryCases

(* Both hold at first.                                                     *)
LEMMA InitTypes == Init => BeatInv /\ RetryTypes
<1> SUFFICES ASSUME Init PROVE BeatInv /\ RetryTypes
  OBVIOUS
<1>1. HeartbeatManagerImpl \in Manager
  BY DEF HeartbeatManagerImpl, Manager
<1>2. ConnectionRetryHandler \in RetryRecord
  BY RetryConstants DEF ConnectionRetryHandler, RetryRecord, IMMEDIATE
<1>3. BeatInv
  BY <1>1 DEF Init, BeatInv, BeatTypes, TicksTakeTime, HasSocket, Links
<1>4. RetryTypes
  BY <1>2 DEF Init, RetryTypes
<1> QED BY <1>3, <1>4

(* The heartbeats kill a connection only after a silence of a whole        *)
(* timeout, although ticks and what is received are not aligned, slow      *)
(* health checks delay the ticks, and the first heartbeat changes what the *)
(* counter starts from.                                                    *)
THEOREM LivePeersAreKept == Spec => LivePeerKept
<1>1. BeatInv /\ [Next]_vars
        => [(HandleTick /\ Kills(CountTick(hb))) => quietIn >= hb.timeoutSeconds]_vars
  <2> SUFFICES ASSUME BeatInv, HandleTick, Kills(CountTick(hb))
               PROVE  quietIn >= hb.timeoutSeconds
    OBVIOUS
  <2>1. tickTimer = 0 /\ HasSocket /\ hb \in Manager
    BY OffIsLarge DEF HandleTick, BeatInv, BeatTypes
  <2>2. hb.untilDisconnect = 1
    BY <2>1, TickCounts DEF BeatInv, TicksTakeTime
  <2> QED BY <2>1, <2>2 DEF BeatInv, BeatTypes, TicksTakeTime, Manager
<1> QED BY <1>1, InitTypes, BeatInductive, TypesInductive, PTL DEF Spec, LivePeerKept

-----------------------------------------------------------------------------
(* Reports                                                                 *)

(* The clock of evaluateErrorThreshold starts after the connection was     *)
(* lost, and is stopped when it is back.                                   *)
ErrorInv ==
    /\ downFor \in Nat
    /\ retry.errorSince # Never => retry.errorSince <= downFor
    /\ link \in {"NONE", "UP"} => retry.errorSince = Never

(* The strategy leaves d_errorSince and d_lastRetry alone.                 *)
LEMMA RetryLeaves ==
    ASSUME NEW r \in RetryRecord
    PROVE  /\ Retry(r).errorSince = IF r.errorSince = Never THEN 0 ELSE r.errorSince
           /\ Retry(r).lastRetry = r.lastRetry
           /\ RetrySuccess(r).errorSince = Never
           /\ RetrySuccess(r).lastRetry = r.lastRetry
           /\ Attempt(r).errorSince = r.errorSince
<1>1. /\ StrategySuccess(r) \in RetryRecord /\ StrategyFail(r) \in RetryRecord
      /\ NextRetryInterval(r) \in RetryRecord
  BY RetryFacts
<1>2. /\ StrategySuccess(r).errorSince = r.errorSince
      /\ StrategySuccess(r).lastRetry = r.lastRetry
  BY DEF StrategySuccess, MoveCircuitBreaker, RetryRecord
<1>3. /\ StrategyFail(r).errorSince = r.errorSince
      /\ StrategyFail(r).lastRetry = r.lastRetry
  BY DEF StrategyFail, MoveCircuitBreaker, RetryRecord
<1>4. ASSUME NEW q \in RetryRecord
      PROVE  /\ CalculateNextInterval(q).errorSince = q.errorSince
             /\ CalculateNextInterval(q).lastRetry = q.lastRetry
  BY DEF CalculateNextInterval, RetryRecord
<1>5. /\ NextRetryInterval(r).errorSince = r.errorSince
      /\ NextRetryInterval(r).lastRetry = r.lastRetry
  BY <1>1, <1>2, <1>3, <1>4 DEF NextRetryInterval
<1>6. /\ Retry(r).errorSince = IF r.errorSince = Never THEN 0 ELSE r.errorSince
      /\ Retry(r).lastRetry = r.lastRetry
  BY <1>1, <1>5 DEF Retry, RetryRecord
<1>7. /\ RetrySuccess(r).errorSince = Never
      /\ RetrySuccess(r).lastRetry = r.lastRetry
  BY <1>1, <1>2 DEF RetrySuccess, RetryRecord
<1>8. Attempt(r).errorSince = r.errorSince
  BY DEF Attempt, RetryRecord
<1> QED BY <1>6, <1>7, <1>8

(* ErrorInv is inductive.                                                  *)
LEMMA ErrorInductive ==
    ErrorInv /\ BeatInv /\ RetryTypes /\ [Next]_vars => ErrorInv'
<1> SUFFICES ASSUME ErrorInv, BeatInv, RetryTypes, [Next]_vars PROVE ErrorInv'
  OBVIOUS
<1> USE RetryConstants
<1>0. retry \in RetryRecord /\ Retry(retry) \in RetryRecord
  BY RetryFacts DEF RetryTypes
<1>1. ASSUME NEW seconds \in Nat, Elapse(seconds) PROVE ErrorInv'
  <2>1. retry'.errorSince = Older(retry.errorSince, ErrorThreshold, seconds)
    BY <1>0, <1>1 DEF Elapse, RetryClock, RetryRecord
  <2>2. /\ link' = link
        /\ downFor' = IF link \in {"NONE", "UP"} THEN 0
                      ELSE Smaller(downFor + seconds, ErrorThreshold + 1)
    BY <1>1 DEF Elapse
  <2>3. retry.errorSince \in Nat
    BY <1>0 DEF RetryRecord
  <2> QED BY <2>1, <2>2, <2>3 DEF ErrorInv, Older, Smaller
<1>2. CASE ShutdownOnce(retry)
  BY <1>0, <1>2, RetryLeaves DEF ShutdownOnce, ErrorInv
<1>3. CASE ShutdownOnce(Retry(retry))
  <2>1. /\ retry' = Retry(Retry(retry)) /\ link' = "DOWN" /\ downFor' = downFor
    BY <1>3 DEF ShutdownOnce
  <2>2. Retry(retry).errorSince = IF retry.errorSince = Never THEN 0
                                  ELSE retry.errorSince
    BY <1>0, RetryLeaves
  <2>3. retry'.errorSince = IF Retry(retry).errorSince = Never THEN 0
                            ELSE Retry(retry).errorSince
    BY <1>0, <2>1, RetryLeaves
  <2> QED BY <2>1, <2>2, <2>3 DEF ErrorInv
<1>4. CASE ReceiveOpenOk
  BY <1>0, <1>4, RetryLeaves DEF ReceiveOpenOk, ErrorInv
<1>5. CASE HandleRetry
  BY <1>0, <1>5, RetryLeaves DEF HandleRetry, ErrorInv
<1>6. CASE Renewed
  BY <1>6 DEF Renewed, ConnectionRetryHandler, ErrorInv
<1>7. CASE Uninvolved
  BY <1>7 DEF Uninvolved, ErrorInv
<1> QED BY <1>1, <1>2, <1>3, <1>4, <1>5, <1>6, <1>7, RetryCases

(* evaluateErrorThreshold tells the application that there is no           *)
(* connection only if there has been none for longer than the threshold:   *)
(* no sequence of attempts, successes and double shutdowns leaves an old   *)
(* d_errorSince behind.                                                    *)
THEOREM ReportsAreTruthful == Spec => ReportTruthful
<1>1. Init => ErrorInv
  BY DEF Init, ErrorInv, ConnectionRetryHandler
<1>2. ErrorInv /\ RetryTypes /\ [Next]_vars
        => [(link # "DOWN" /\ link' = "DOWN" /\ Reports(retry))
              => downFor > ErrorThreshold]_vars
  BY RetryConstants DEF ErrorInv, Reports, RetryTypes, RetryRecord
<1> QED BY <1>1, <1>2, InitTypes, BeatInductive, TypesInductive, ErrorInductive,
           PTL DEF Spec, ReportTruthful

-----------------------------------------------------------------------------
(* Backoff                                                                 *)

W == Smaller(MinWait, MaxWait)

(* A level that waits has something to grow from: EXPONENTIAL doubles a    *)
(* wait that is not zero, and LINEAR has waited before it is left upwards. *)
Sound(r) ==
    /\ r.backoffLevel = EXPONENTIAL => r.currentWait >= W
    /\ r.backoffLevel = LINEAR /\ r.currentWait < W => r.numRetries = 0
    /\ r.lastRetry = Never => r.backoffLevel = IMMEDIATE

(* While the level is IMMEDIATE, d_numRetries counts every quick failure.  *)
SpacedInv ==
    /\ Sound(retry)
    /\ quickFails \in 0..(ContinuousRetries + 1)
    /\ retry.lastRetry = Never => quickFails = 0
    /\ link = "DOWN" /\ retry.backoffLevel # IMMEDIATE => retry.currentWait >= W
    /\ link = "DOWN" /\ retry.backoffLevel = IMMEDIATE
         => quickFails <= ContinuousRetries /\ quickFails <= retry.numRetries + 1
    /\ link # "DOWN" /\ retry.backoffLevel = IMMEDIATE
         => quickFails <= retry.numRetries

(* calculateNextInterval, one field at a time                              *)
LEMMA IntervalFacts ==
    ASSUME NEW q \in RetryRecord,
           q.backoffLevel = EXPONENTIAL => q.currentWait >= W
    PROVE  /\ CalculateNextInterval(q).backoffLevel = q.backoffLevel
           /\ CalculateNextInterval(q).numRetries = q.numRetries
           /\ q.backoffLevel # IMMEDIATE
                => CalculateNextInterval(q).currentWait >= W
<1> USE RetryConstants DEF IMMEDIATE, CONSTANT_LEVEL, LINEAR, EXPONENTIAL
<1> DEFINE grown == CASE q.backoffLevel = IMMEDIATE -> q.currentWait
                      [] q.backoffLevel = CONSTANT_LEVEL -> MinWait
                      [] q.backoffLevel = LINEAR -> q.currentWait + MinWait
                      [] q.backoffLevel = EXPONENTIAL -> 2 * q.currentWait
<1>1. CalculateNextInterval(q) = [q EXCEPT !.currentWait = Smaller(grown, MaxWait)]
  BY DEF CalculateNextInterval
<1>2. grown \in Nat
  BY DEF RetryRecord
<1>3. q.backoffLevel # IMMEDIATE => grown >= W
  <2>1. W \in Nat /\ W <= MinWait
    BY DEF W, Smaller
  <2>2. q.currentWait \in Nat /\ q.backoffLevel \in 0..3
    BY DEF RetryRecord
  <2>3. CASE q.backoffLevel = CONSTANT_LEVEL
    BY <2>1, <2>3
  <2>4. CASE q.backoffLevel = LINEAR
    BY <2>1, <2>2, <2>4
  <2>5. CASE q.backoffLevel = EXPONENTIAL
    BY <2>1, <2>2, <2>5
  <2> QED BY <2>2, <2>3, <2>4, <2>5
<1> HIDE DEF grown
<1>4. q.backoffLevel # IMMEDIATE => Smaller(grown, MaxWait) >= W
  BY <1>2, <1>3 DEF W, Smaller
<1> QED BY <1>1, <1>4 DEF RetryRecord

(* getNextRetryInterval: every level but IMMEDIATE waits, and a quick      *)
(* failure leaves the level IMMEDIATE only while retries are left on it.   *)
LEMMA RetryWaits ==
    ASSUME ContinuousRetries # 0, NEW r \in RetryRecord, Sound(r)
    PROVE  /\ Sound(Retry(r))
           /\ Retry(r).backoffLevel # IMMEDIATE => Retry(r).currentWait >= W
           /\ Retry(r).backoffLevel = IMMEDIATE /\ r.lastRetry <= MinWait
                => /\ r.backoffLevel = IMMEDIATE
                   /\ Retry(r).numRetries = r.numRetries
                   /\ r.numRetries < ContinuousRetries
<1> USE RetryConstants DEF IMMEDIATE, LINEAR, EXPONENTIAL
<1> DEFINE next == NextRetryInterval(r)
<1>0. /\ next \in RetryRecord
      /\ Retry(r) \in RetryRecord
      /\ StrategySuccess(r) \in RetryRecord
      /\ StrategyFail(r) \in RetryRecord
  BY RetryFacts
<1>1. /\ Retry(r).backoffLevel = next.backoffLevel
      /\ Retry(r).numRetries = next.numRetries
      /\ Retry(r).currentWait = next.currentWait
      /\ Retry(r).lastRetry = r.lastRetry
  BY <1>0, RetryLeaves DEF Retry, RetryRecord
<1>2. CASE r.lastRetry = Never
  <2>1. next = r
    BY <1>2 DEF NextRetryInterval
  <2> QED BY <1>1, <1>2, <2>1 DEF Sound
<1>3. CASE r.lastRetry # Never /\ r.lastRetry > Threshold(r)
  <2> DEFINE q == StrategySuccess(r)
  <2>1. next = CalculateNextInterval(q)
    BY <1>3 DEF NextRetryInterval
  <2>2. q.backoffLevel = IF r.backoffLevel = 0 THEN 0 ELSE r.backoffLevel - 1
    BY DEF StrategySuccess, MoveCircuitBreaker, RetryRecord
  <2>3. q.backoffLevel # EXPONENTIAL
    BY <2>2 DEF RetryRecord
  <2>4. r.lastRetry > MinWait
    BY <1>3 DEF Threshold, Larger, Smaller, RetryRecord
  <2> HIDE DEF q
  <2>5. /\ next.backoffLevel = q.backoffLevel
        /\ next.backoffLevel # IMMEDIATE => next.currentWait >= W
    BY <1>0, <2>1, <2>3, IntervalFacts DEF q
  <2> HIDE DEF next
  <2>6. next.currentWait \in Nat /\ W \in Nat /\ r.lastRetry \in Nat
    BY <1>0 DEF RetryRecord, W, Smaller
  <2> QED BY <1>1, <1>3, <2>3, <2>4, <2>5, <2>6 DEF Sound
<1>4. CASE r.lastRetry # Never /\ ~(r.lastRetry > Threshold(r))
  <2> DEFINE q == StrategyFail(r)
  <2>1. next = CalculateNextInterval(q)
    BY <1>4 DEF NextRetryInterval
  <2>2. CASE r.numRetries >= ContinuousRetries
    <3>1. q.backoffLevel = Smaller(r.backoffLevel + 1, 3) /\ q.currentWait = r.currentWait
      BY <2>2 DEF StrategyFail, MoveCircuitBreaker, RetryRecord
    <3>2. q.backoffLevel # 0
      BY <3>1 DEF Smaller, RetryRecord
    <3>3. q.backoffLevel = EXPONENTIAL => q.currentWait >= W
      BY <2>2, <3>1 DEF Smaller, RetryRecord, Sound, W
    <3> HIDE DEF q
    <3>4. next.backoffLevel = q.backoffLevel /\ next.currentWait >= W
      BY <1>0, <2>1, <3>2, <3>3, IntervalFacts DEF q
    <3> HIDE DEF next
    <3>5. next.currentWait \in Nat /\ W \in Nat
      BY <1>0 DEF RetryRecord, W, Smaller
    <3> QED BY <1>1, <1>4, <3>2, <3>4, <3>5 DEF Sound
  <2>3. CASE ~(r.numRetries >= ContinuousRetries)
    <3>1. q = r
      BY <2>3 DEF StrategyFail
    <3>2. /\ next.backoffLevel = r.backoffLevel
          /\ next.numRetries = r.numRetries
          /\ next.backoffLevel # IMMEDIATE => next.currentWait >= W
      BY <2>1, <3>1, IntervalFacts DEF Sound
    <3> HIDE DEF next
    <3>3. /\ next.currentWait \in Nat /\ W \in Nat /\ r.numRetries \in Nat
      BY <1>0 DEF RetryRecord, W, Smaller
    <3> QED BY <1>1, <1>4, <2>3, <3>2, <3>3 DEF Sound
  <2> QED BY <2>2, <2>3
<1> QED BY <1>2, <1>3, <1>4

(* Shutting the socket down, once or twice, keeps the attempts spaced.     *)
LEMMA ShutdownKeepsSpaced ==
    ASSUME ContinuousRetries # 0, NEW r \in RetryRecord, Sound(r),
           quickFails \in 0..(ContinuousRetries + 1),
           r.backoffLevel = IMMEDIATE /\ r.lastRetry <= MinWait
              => quickFails <= r.numRetries,
           ShutdownOnce(r)
    PROVE  SpacedInv'
<1> USE RetryConstants
<1>1. /\ link' = "DOWN" /\ retry' = Retry(r)
      /\ quickFails' = IF r.lastRetry # Never /\ r.lastRetry <= MinWait
                       THEN Smaller(quickFails + 1, ContinuousRetries + 1)
                       ELSE 0
  BY DEF ShutdownOnce
<1>2. /\ Sound(retry')
      /\ retry'.backoffLevel # IMMEDIATE => retry'.currentWait >= W
      /\ retry'.backoffLevel = IMMEDIATE /\ r.lastRetry <= MinWait
           => /\ r.backoffLevel = IMMEDIATE
              /\ retry'.numRetries = r.numRetries
              /\ r.numRetries < ContinuousRetries
  BY <1>1, RetryWaits
<1>3. retry'.lastRetry = r.lastRetry /\ retry' \in RetryRecord
  BY <1>1, RetryLeaves, RetryFacts
<1>4. /\ quickFails' \in 0..(ContinuousRetries + 1)
      /\ retry'.lastRetry = Never => quickFails' = 0
  BY <1>1, <1>3 DEF Smaller
<1>5. retry'.backoffLevel = IMMEDIATE
        => quickFails' <= ContinuousRetries /\ quickFails' <= retry'.numRetries + 1
  <2>1. retry'.numRetries \in Nat /\ r.numRetries \in Nat
    BY <1>3 DEF RetryRecord
  <2>2. CASE r.lastRetry # Never /\ r.lastRetry <= MinWait
    BY <1>1, <1>2, <2>1, <2>2 DEF Smaller
  <2>3. CASE ~(r.lastRetry # Never /\ r.lastRetry <= MinWait)
    BY <1>1, <2>1, <2>3
  <2> QED BY <2>2, <2>3
<1>6. Sound(retry)'
  BY <1>2 DEF Sound, W
<1> QED BY <1>1, <1>2, <1>4, <1>5, <1>6 DEF SpacedInv, W

(* SpacedInv is inductive.                                                 *)
LEMMA SpacedInductive ==
    ASSUME ContinuousRetries # 0
    PROVE  SpacedInv /\ BeatInv /\ RetryTypes /\ [Next]_vars => SpacedInv'
<1> SUFFICES ASSUME SpacedInv, BeatInv, RetryTypes, [Next]_vars PROVE SpacedInv'
  OBVIOUS
<1> USE RetryConstants
<1>0. retry \in RetryRecord /\ Retry(retry) \in RetryRecord
  BY RetryFacts DEF RetryTypes
<1>1. ASSUME NEW seconds \in Nat, Elapse(seconds) PROVE SpacedInv'
  <2>1. /\ retry'.backoffLevel = retry.backoffLevel
        /\ retry'.numRetries = retry.numRetries
        /\ retry'.currentWait = retry.currentWait
        /\ retry'.lastRetry = Older(retry.lastRetry, Larger(MinWait, MaxWait), seconds)
    BY <1>0, <1>1 DEF Elapse, RetryClock, RetryRecord
  <2>2. retry'.lastRetry = Never => retry.lastRetry = Never
    BY <1>0, <2>1 DEF Older, Larger, Smaller, RetryRecord
  <2>3. link' = link /\ quickFails' = quickFails
    BY <1>1 DEF Elapse
  <2> QED BY <2>1, <2>2, <2>3 DEF SpacedInv, Sound, W
<1>2. CASE link # "DOWN" /\ ShutdownOnce(retry)
  BY <1>0, <1>2, ShutdownKeepsSpaced DEF SpacedInv
<1>3. CASE link # "DOWN" /\ ShutdownOnce(Retry(retry))
  <2>1. Sound(Retry(retry))
    BY <1>0, RetryWaits DEF SpacedInv
  <2>2. Retry(retry).backoffLevel = IMMEDIATE /\ Retry(retry).lastRetry <= MinWait
          => quickFails <= Retry(retry).numRetries
    BY <1>0, <1>3, RetryWaits, RetryLeaves DEF SpacedInv
  <2> QED BY <1>0, <1>3, <2>1, <2>2, ShutdownKeepsSpaced DEF SpacedInv
<1>4. CASE ReceiveOpenOk
  <2>1. /\ link = "TUNED" /\ link' = "UP"
        /\ retry' = RetrySuccess(retry) /\ quickFails' = 0
    BY <1>4 DEF ReceiveOpenOk
  <2>2. StrategySuccess(retry) \in RetryRecord /\ retry' \in RetryRecord
    BY <1>0, <2>1, RetryFacts
  <2>3. /\ StrategySuccess(retry).backoffLevel = IF retry.backoffLevel = 0 THEN 0
                                                 ELSE retry.backoffLevel - 1
        /\ StrategySuccess(retry).numRetries = 0
    BY <1>0 DEF StrategySuccess, MoveCircuitBreaker, RetryRecord, IMMEDIATE
  <2>4. /\ retry'.backoffLevel = IF retry.backoffLevel = 0 THEN 0
                                 ELSE retry.backoffLevel - 1
        /\ retry'.numRetries = 0
    BY <2>1, <2>2, <2>3 DEF RetrySuccess, RetryRecord
  <2>5. retry'.lastRetry = retry.lastRetry
    BY <1>0, <2>1, RetryLeaves
  <2>6. retry'.backoffLevel # EXPONENTIAL
    BY <1>0, <2>4 DEF RetryRecord, EXPONENTIAL
  <2>7. Sound(retry)'
    BY <2>4, <2>5, <2>6 DEF SpacedInv, Sound, IMMEDIATE
  <2> QED BY <2>1, <2>4, <2>7 DEF SpacedInv
<1>5. CASE link = "DOWN" /\ HandleRetry
  <2>1. link' = "CONNECTING" /\ retry' = Attempt(retry) /\ quickFails' = quickFails
    BY <1>5 DEF HandleRetry
  <2>2. /\ retry'.backoffLevel = retry.backoffLevel
        /\ retry'.currentWait = retry.currentWait
        /\ retry'.lastRetry = 0
        /\ retry'.numRetries = IF retry.lastRetry = Never THEN retry.numRetries
                               ELSE Smaller(retry.numRetries + 1, ContinuousRetries + 1)
    BY <1>0, <2>1 DEF Attempt, RetryRecord
  <2>3. retry.numRetries \in Nat /\ retry.currentWait \in Nat /\ W \in Nat
    BY <1>0 DEF RetryRecord, W, Smaller
  <2>4. Sound(retry)'
    BY <1>5, <2>2, <2>3 DEF SpacedInv, Sound, W, IMMEDIATE, LINEAR
  <2>5. retry'.backoffLevel = IMMEDIATE => quickFails' <= retry'.numRetries
    BY <1>5, <2>1, <2>2, <2>3 DEF SpacedInv, Smaller
  <2> QED BY <2>1, <2>2, <2>4, <2>5 DEF SpacedInv
<1>6. CASE Renewed
  BY <1>6 DEF Renewed, ConnectionRetryHandler, SpacedInv, Sound, W, IMMEDIATE,
              LINEAR, EXPONENTIAL
<1>7. CASE Uninvolved
  BY <1>7 DEF Uninvolved, SpacedInv, Sound, W
<1> QED BY <1>1, <1>2, <1>3, <1>4, <1>5, <1>6, <1>7, RetryCases

(* However failures, successes and double shutdowns follow one another,    *)
(* the attempts of a strategy that allows at least one continuous retry    *)
(* are spaced once they have been used up, and no wait exceeds the         *)
(* maximum.  Without continuous retries LINEAR can be left upwards with a  *)
(* wait of zero, which EXPONENTIAL then doubles in vain.                   *)
THEOREM BackoffIsKept ==
    ASSUME ContinuousRetries # 0
    PROVE  Spec => []BackoffHolds
<1>1. Init => SpacedInv
  BY RetryConstants DEF Init, ConnectionRetryHandler, SpacedInv, Sound, W,
     IMMEDIATE, LINEAR, EXPONENTIAL
<1>2. SpacedInv /\ RetryTypes => BackoffHolds
  <2> SUFFICES ASSUME SpacedInv, RetryTypes, link = "DOWN"
               PROVE  /\ retryTimer <= MaxWait
                      /\ quickFails > ContinuousRetries
                            => retry.currentWait >= Smaller(MinWait, MaxWait)
    BY DEF BackoffHolds
  <2>1. retryTimer <= MaxWait
    BY RetryConstants DEF RetryTypes
  <2>2. quickFails > ContinuousRetries => retry.backoffLevel # IMMEDIATE
    BY RetryConstants DEF SpacedInv
  <2> QED BY <2>1, <2>2 DEF SpacedInv, W
<1> QED BY <1>1, <1>2, InitTypes, BeatInductive, TypesInductive, SpacedInductive,
           PTL DEF Spec

=============================================================================
