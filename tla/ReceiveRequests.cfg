\* One message, one fault and three requests, with a topology.
SPECIFICATION Spec
CONSTANTS
  Msgs = {m1}
  NoMsg = NoMsg
  HasTopology = TRUE
  MaxFaults = 1
  GivenTypes = {"ACK"}
  MaxRequests = 3
  MaxTag = 1
  MayGoAway = TRUE
CHECK_DEADLOCK FALSE
INVARIANTS LatestRequestWins NoDoubleConsume
PROPERTIES  StoppedMeansStopped
