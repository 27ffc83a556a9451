\* Two messages and two faults; no requests.
SPECIFICATION Spec
CONSTANTS
  Msgs = {m1, m2}
  NoMsg = NoMsg
  HasTopology = FALSE
  MaxFaults = 2
  GivenTypes = {"ACK", "REQUEUE"}
  MaxRequests = 0
  MaxTag = 2
  MayGoAway = FALSE
SYMMETRY MsgSymmetry
CHECK_DEADLOCK FALSE
INVARIANTS  StoreAccounted
