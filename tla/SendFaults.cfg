\* Two messages, two faults, no topology and no Channel.Flow.
SPECIFICATION Spec
CONSTANTS
  Msgs = {m1, m2}
  NoMsg = NoMsg
  HasTopology = FALSE
  MaxFaults = 2
  BrokerUsesFlow = FALSE
SYMMETRY MsgSymmetry
\* The environment may stop: every message confirmed, or the channel removed.
CHECK_DEADLOCK FALSE
INVARIANTS NoSilentDrop TagsAgree 
PROPERTIES ImplementsPublisher
