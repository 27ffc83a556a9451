----------------------------- MODULE HostHealth -----------------------------
(***************************************************************************)
(* rmqamqp::HostHealthMonitor, and what it does to the receive channels of *)
(* the connections registered with it: through Connection, ChannelFactory  *)
(* and ChannelMap it asks each to pause or to resume.  How a channel       *)
(* carries such a request out is the subject of ReceiveChannel; here a     *)
(* consumer is only what it was last asked to be.  Nothing but the monitor *)
(* asks: pause and resume are not offered to the application.              *)
(***************************************************************************)
EXTENDS Naturals

CONSTANTS
    Conns,          \* connections
    Channels,       \* receive channels
    Owner,          \* Owner[ch]: the connection of a channel
    Aware,          \* those with consumeOnlyFromHealthyHost
    MaxRetries,     \* HostHealthConfig::maxRetriesOnFailure
    PollInterval    \* HostHealthConfig::pollInterval, in seconds

ASSUME HealthAssumption ==
    /\ Owner \in [Channels -> Conns]
    /\ Aware \subseteq Channels
    /\ MaxRetries \in Nat
    /\ PollInterval \in Nat \ {0}

VARIABLES
    latest,      \* d_latestHealthCheckResult
    tries,       \* d_currentTries
    pollTimer,   \* seconds until d_timer fires
    registered,  \* d_connections
    alive,       \* the connections that exist
    onOpen,      \* ChannelFactory::d_receiveChannelOnOpenState of each
    consumer,    \* what each channel was last asked to be
    answer,      \* what the health checker last answered
    throws       \* how often it has thrown since, up to a bound

monitorVars == <<latest, tries, pollTimer, registered>>
channelVars == <<alive, onOpen, consumer>>
checkerVars == <<answer, throws>>
healthVars == <<monitorVars, channelVars, checkerVars>>

(* The constructor, start, and Connection::Factory::newChannelFactory      *)
HealthInit ==
    /\ latest = "UNHEALTHY"
    /\ tries = 0
    /\ pollTimer = 0
    /\ registered = {}
    /\ alive = {}
    /\ onOpen = [c \in Conns |-> "PAUSED_HOST_HEALTH_AWARE"]
    /\ consumer = [ch \in Channels |-> "none"]
    /\ answer = FALSE
    /\ throws = 0

-----------------------------------------------------------------------------
(* Pausing and resuming                                                    *)

OpenState(health) ==
    IF health = "HEALTHY" THEN "NOT_PAUSED" ELSE "PAUSED_HOST_HEALTH_AWARE"

AskedState(health) == IF health = "HEALTHY" THEN "running" ELSE "paused"

(* ChannelMap::pauseReceiveChannels and ::resumeReceiveChannels, which     *)
(* with respectHostHealth reach only those that are aware                  *)
Reached(conns) ==
    {ch \in Channels \cap Aware : Owner[ch] \in conns /\ consumer[ch] # "none"}

(* syncReceiveChannelsToHostHealth for each of conns: the ChannelFactory   *)
(* of the connection, then its channels                                    *)
SyncReceiveChannels(conns, health) ==
    /\ onOpen' = [c \in Conns |->
                    IF c \in conns THEN OpenState(health) ELSE onOpen[c]]
    /\ consumer' = [ch \in Channels |->
                      IF ch \in Reached(conns)
                      THEN AskedState(health) ELSE consumer[ch]]

-----------------------------------------------------------------------------
(* Actions                                                                 *)

(* HostHealthMonitor::registerConnection, from startFirstConnection of     *)
(* rmqa::RabbitContextImpl; and a variant that leaves it to the next poll  *)
RegisterForLater(c) ==
    /\ c \notin registered
    /\ registered' = registered \cup {c}
    /\ alive' = alive \cup {c}
    /\ UNCHANGED <<latest, tries, pollTimer, onOpen, consumer, checkerVars>>

RegisterConnection(c) ==
    /\ c \notin registered
    /\ registered' = registered \cup {c}
    /\ alive' = alive \cup {c}
    /\ SyncReceiveChannels({c}, latest)
    /\ UNCHANGED <<latest, tries, pollTimer, checkerVars>>

(* HostHealthMonitor::checkHealth with processHealthResult: the checker    *)
(* answers ...                                                             *)
CheckerAnswers(healthy) ==
    LET result == IF healthy THEN "HEALTHY" ELSE "UNHEALTHY"
    IN
    /\ pollTimer = 0
    /\ pollTimer' = PollInterval
    /\ tries' = 0
    /\ latest' = result
    /\ registered' = registered \cap alive
    /\ SyncReceiveChannels(registered \cap alive, result)
    /\ answer' = healthy
    /\ throws' = 0
    /\ UNCHANGED alive

(* ... or throws, which is put up with for a while.                        *)
MarksUnhealthy == tries > MaxRetries

CheckerThrows ==
    /\ pollTimer = 0
    /\ pollTimer' = PollInterval
    /\ throws' = IF throws > MaxRetries + 1 THEN throws ELSE throws + 1
    /\ IF MarksUnhealthy
       THEN /\ tries' = 0
            /\ latest' = "UNHEALTHY"
            /\ registered' = registered \cap alive
            /\ SyncReceiveChannels(registered \cap alive, "UNHEALTHY")
       ELSE /\ tries' = tries + 1
            /\ UNCHANGED <<latest, registered, onOpen, consumer>>
    /\ UNCHANGED <<alive, answer>>

(* Connection::createReceiveChannel with                                   *)
(* ChannelFactory::createReceiveChannel                                    *)
CreateReceiveChannel(ch) ==
    /\ Owner[ch] \in alive
    /\ consumer[ch] = "none"
    /\ consumer' = [consumer EXCEPT ![ch] =
           IF ch \in Aware /\ onOpen[Owner[ch]] = "PAUSED_HOST_HEALTH_AWARE"
           THEN "paused" ELSE "running"]
    /\ UNCHANGED <<monitorVars, alive, onOpen, checkerVars>>

(* The last reference to a connection is dropped.  The monitor finds out   *)
(* at the next result.                                                     *)
DestroyConnection(c) ==
    /\ c \in alive
    /\ alive' = alive \ {c}
    /\ consumer' = [ch \in Channels |->
                      IF Owner[ch] = c THEN "none" ELSE consumer[ch]]
    /\ UNCHANGED <<monitorVars, onOpen, checkerVars>>

=============================================================================
