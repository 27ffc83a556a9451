\* One message and two faults, with a topology and Channel.Flow, under fairness.
SPECIFICATION FairSpec
CONSTANTS
  Msgs = {m1}
  NoMsg = NoMsg
  HasTopology = TRUE
  MaxFaults = 2
  BrokerUsesFlow = TRUE
CHECK_DEADLOCK FALSE
PROPERTIES EventuallyConfirmed
