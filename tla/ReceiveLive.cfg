\* One message, one fault and two requests under fairness.
SPECIFICATION FairSpec
CONSTANTS
  Msgs = {m1}
  NoMsg = NoMsg
  HasTopology = FALSE
  MaxFaults = 1
  GivenTypes = {"ACK"}
  MaxRequests = 2
  MaxTag = 2
  MayGoAway = FALSE
CHECK_DEADLOCK FALSE
PROPERTIES FuturesResolve DesiredStateReached EveryMessageSettled
