\* A heartbeat timeout of two seconds, one immediate retry.
SPECIFICATION Spec
CONSTANTS
  c = c
  h = h
  u = u
  Conns = {c}
  Linked = c
  Channels = {h, u}
  Owner <- MCOwner
  Aware = {h}
  MaxRetries = 1
  PollInterval = 1
  MaxCheck = 1
  SizeMax = 65535
  ClientHeartbeat = 2
  ServerHeartbeats = {0, 3}
  ContinuousRetries = 1
  MinWait = 1
  MaxWait = 2
  ErrorThreshold = 1
  Never = 99
  Off = 99
INVARIANTS   BackoffHolds 
PROPERTIES LivePeerKept ReportTruthful
