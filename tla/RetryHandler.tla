---------------------------- MODULE RetryHandler ----------------------------
(***************************************************************************)
(* rmqio::ConnectionRetryHandler, the RetryHandler it is built on and its  *)
(* BackoffLevelRetryStrategy, as functions on one record.  The points of   *)
(* time d_lastRetry and d_errorSince are kept as their ages in seconds,    *)
(* which stop counting when no decision depends on them any more.          *)
(***************************************************************************)
EXTENDS Naturals

CONSTANTS
    ContinuousRetries,  \* d_continuousRetries
    MinWait,            \* d_minWaitSeconds
    MaxWait,            \* d_maxWaitSeconds
    ErrorThreshold,     \* ConnectionRetryHandler::d_errorThreshold
    Never               \* the age of a time that is not set

ASSUME RetryAssumption ==
    /\ {ContinuousRetries, MinWait, MaxWait, ErrorThreshold} \subseteq Nat
    /\ Never \in Nat
    /\ Never > MaxWait + MinWait + ErrorThreshold + 1

IMMEDIATE == 0
CONSTANT_LEVEL == 1
LINEAR == 2
EXPONENTIAL == 3

Smaller(a, b) == IF a < b THEN a ELSE b
Larger(a, b) == IF a > b THEN a ELSE b

(* The constructors                                                        *)
ConnectionRetryHandler ==
    [backoffLevel |-> IMMEDIATE, numRetries |-> 0, currentWait |-> 0,
     lastRetry |-> Never, errorSince |-> Never]

(* Time passes.                                                            *)
Older(age, bound, seconds) ==
    IF age = Never THEN Never ELSE Smaller(age + seconds, bound + 1)

RetryClock(r, seconds) ==
    [r EXCEPT !.lastRetry = Older(@, Larger(MinWait, MaxWait), seconds),
              !.errorSince = Older(@, ErrorThreshold, seconds)]

(* BackoffLevelRetryStrategy::attempt; and a variant that does not count   *)
AttemptUncounted(r) == [r EXCEPT !.lastRetry = 0]

Attempt(r) ==
    [r EXCEPT !.numRetries = IF r.lastRetry = Never THEN @
                             ELSE Smaller(@ + 1, ContinuousRetries + 1),
              !.lastRetry = 0]

(* BackoffLevelRetryStrategy::moveCircuitBreaker                           *)
MoveCircuitBreaker(r, level) ==
    [r EXCEPT !.backoffLevel = level, !.numRetries = 0]

(* BackoffLevelRetryStrategy::success and ::fail                           *)
StrategySuccess(r) ==
    MoveCircuitBreaker([r EXCEPT !.currentWait = 0],
                       IF r.backoffLevel = IMMEDIATE THEN IMMEDIATE
                       ELSE r.backoffLevel - 1)

StrategyFail(r) ==
    IF r.numRetries >= ContinuousRetries
    THEN MoveCircuitBreaker(r, Smaller(r.backoffLevel + 1, EXPONENTIAL))
    ELSE r

(* BackoffLevelRetryStrategy::calculateNextInterval                        *)
CalculateNextInterval(r) ==
    LET grown == CASE r.backoffLevel = IMMEDIATE -> r.currentWait
                   [] r.backoffLevel = CONSTANT_LEVEL -> MinWait
                   [] r.backoffLevel = LINEAR -> r.currentWait + MinWait
                   [] r.backoffLevel = EXPONENTIAL -> 2 * r.currentWait
    IN [r EXCEPT !.currentWait = Smaller(grown, MaxWait)]

(* How long an attempt must have lasted to count as a success              *)
Threshold(r) ==
    Larger(MinWait, Smaller(MinWait * ContinuousRetries, r.currentWait))

(* BackoffLevelRetryStrategy::getNextRetryInterval                         *)
NextRetryInterval(r) ==
    IF r.lastRetry = Never THEN r
    ELSE CalculateNextInterval(IF r.lastRetry > Threshold(r)
                               THEN StrategySuccess(r) ELSE StrategyFail(r))

(* ConnectionRetryHandler::retry: the sleep timer is set to currentWait,   *)
(* and evaluateErrorThreshold starts counting                              *)
Retry(r) ==
    [NextRetryInterval(r) EXCEPT !.errorSince = IF @ = Never THEN 0 ELSE @]

(* evaluateErrorThreshold calls the error callback                         *)
Reports(r) == r.errorSince # Never /\ r.errorSince > ErrorThreshold

(* ConnectionRetryHandler::success; and a variant without the reset        *)
RetrySuccess(r) == [StrategySuccess(r) EXCEPT !.errorSince = Never]

=============================================================================
