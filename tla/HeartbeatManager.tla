-------------------------- MODULE HeartbeatManager --------------------------
(***************************************************************************)
(* rmqamqp::HeartbeatManagerImpl as functions from the manager before a    *)
(* call to the manager after it.  Time is counted in ticks of one second.  *)
(***************************************************************************)
EXTENDS Naturals

CONSTANTS
    SizeMax,          \* the largest size_t
    ClientHeartbeat   \* k_MAX_HEARTBEAT_TIMEOUT_SEC, what the client proposes

ASSUME HeartbeatAssumption ==
    /\ SizeMax \in Nat
    /\ ClientHeartbeat \in Nat \ {0}

(* HeartbeatManagerImpl::HeartbeatManagerImpl                              *)
HeartbeatManagerImpl ==
    [active |-> FALSE, timeoutSeconds |-> 0,
     untilDisconnect |-> 0, untilHeartBeat |-> 0,
     totalUntilDisconnect |-> 0, totalUntilHeartBeat |-> 0]

(* negotiateTuneParam for the heartbeat: zero leaves it to the other side  *)
NegotiateTuneParam(server, client) ==
    CASE server = 0 -> client
      [] client = 0 -> server
      [] server # 0 /\ client # 0 -> IF server < client THEN server ELSE client

(* HeartbeatManagerImpl::start: twice the timeout until the first          *)
(* heartbeat has come                                                      *)
StartManager(timeout) ==
    [active |-> TRUE, timeoutSeconds |-> timeout,
     untilDisconnect |-> timeout * 2 + 1, untilHeartBeat |-> timeout \div 2,
     totalUntilDisconnect |-> timeout * 2 + 1,
     totalUntilHeartBeat |-> timeout \div 2]

StopManager(hb) == [hb EXCEPT !.active = FALSE]

(* notifyMessageSent and notifyMessageReceived                             *)
NotifyMessageSent(hb) == [hb EXCEPT !.untilHeartBeat = hb.totalUntilHeartBeat]

NotifyMessageReceived(hb) ==
    [hb EXCEPT !.untilDisconnect = hb.totalUntilDisconnect]

(* notifyHeartbeatReceived, with the extra tick that makes up for the part *)
(* of a second before the next tick; and a variant without it              *)
NotifyHeartbeatNoExtra(hb) ==
    [hb EXCEPT !.totalUntilDisconnect = hb.timeoutSeconds,
               !.untilDisconnect = hb.timeoutSeconds]

NotifyHeartbeatReceived(hb) ==
    [hb EXCEPT !.totalUntilDisconnect = hb.timeoutSeconds + 1,
               !.untilDisconnect = hb.timeoutSeconds + 1]

(* The counters are unsigned.                                              *)
Decrement(n) == IF n = 0 THEN SizeMax ELSE n - 1

(* processTick: the counters go down ...; and a variant that leaves the    *)
(* counter to the traffic of the peer                                      *)
CountHeartBeatOnly(hb) ==
    [hb EXCEPT !.untilHeartBeat = Decrement(hb.untilHeartBeat)]

CountTick(hb) ==
    [hb EXCEPT !.untilHeartBeat = Decrement(hb.untilHeartBeat),
               !.untilDisconnect = Decrement(hb.untilDisconnect)]

(* ... a heartbeat is sent at zero; and a variant that never sends one to  *)
(* a peer that is itself sending                                           *)
BeatsIfSilent(counted) ==
    counted.untilHeartBeat = 0
      /\ counted.untilDisconnect # counted.totalUntilDisconnect - 1

Beats(counted) == counted.untilHeartBeat = 0

(* ... and so is the connection killed.                                    *)
Kills(counted) == counted.untilDisconnect = 0

(* Both counters start again from their totals.                            *)
ProcessTick(hb) ==
    LET counted == CountTick(hb)
        beaten == IF Beats(counted) THEN NotifyMessageSent(counted) ELSE counted
    IN IF Kills(counted) THEN NotifyMessageReceived(beaten) ELSE beaten

=============================================================================
