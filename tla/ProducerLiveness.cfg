\* One thread, two workers, a callback that sends, room for one message.
SPECIFICATION FairSpec
CONSTANTS
  a1 = a1
  a2 = a2
  a3 = a3
  Threads = {t1}
  Workers = {w1, w2}
  Attempts = {a1, a2, a3}
  NoAttempt = NoAttempt
  Guid <- MCGuid
  CallbackAttempts = {a3}
  MaxOutstandingConfirms = 1
  HasTransformers = FALSE
  Verdicts = {"ACK"}
CHECK_DEADLOCK FALSE
PROPERTIES  WaitersReturn
