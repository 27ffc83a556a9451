\* Two threads, two workers and three sends, two of them of one message.
SPECIFICATION Spec
CONSTANTS
  a1 = a1
  a2 = a2
  a3 = a3
  Threads = {t1, t2}
  Workers = {w1, w2}
  Attempts = {a1, a2, a3}
  NoAttempt = NoAttempt
  Guid <- MCGuid
  CallbackAttempts = {}
  MaxOutstandingConfirms = 2
  HasTransformers = TRUE
  Verdicts = {"ACK"}
SYMMETRY CallerSymmetry
\* The application may stop calling.
CHECK_DEADLOCK FALSE
INVARIANTS  PermitsConserved WaitMeansConfirmed
