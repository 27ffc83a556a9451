------------------------------ MODULE Producer ------------------------------
(***************************************************************************)
(* rmqa::ProducerImpl: the producer an application calls.  Application     *)
(* threads call send, trySend and waitForConfirms; a message that gets a   *)
(* permit of outstandingMessagesCap and an entry in callbackMap is posted  *)
(* to the event loop, where it reaches the SendChannel; the channel's      *)
(* confirms become jobs of the thread pool, which run the application's    *)
(* callbacks.  A callback may itself call send.                            *)
(*                                                                         *)
(* The channel is the abstract one of Publisher, which SendChannel         *)
(* implements.  An attempt is one call of send or trySend; attempts with   *)
(* the same guid send the same message again.                              *)
(***************************************************************************)
EXTENDS Naturals, FiniteSets, Sequences

CONSTANTS
    Threads,                 \* application threads
    Workers,                 \* threads of the bdlmt::ThreadPool
    Attempts,                \* calls of send and trySend
    NoAttempt,
    Guid,                    \* the guid of the message of each attempt, after
                             \* the transformers have been applied
    CallbackAttempts,        \* the attempts made by callbacks
    MaxOutstandingConfirms,
    HasTransformers,         \* addTransformer has been called
    Verdicts                 \* what a broker can answer

ASSUME ProducerAssumption ==
    /\ IsFiniteSet(Threads) /\ IsFiniteSet(Workers)
    /\ Threads \cap Workers = {}
    /\ NoAttempt \notin Attempts
    /\ CallbackAttempts \subseteq Attempts
    /\ MaxOutstandingConfirms \in Nat
    /\ HasTransformers \in BOOLEAN
    /\ "unsent" \notin Verdicts /\ "waiting" \notin Verdicts

VARIABLES
    pc,           \* where each caller is: see PCs
    attempt,      \* the attempt each caller is making
    result,       \* the SendStatus an attempt returned, or "none"
    permits,      \* outstandingMessagesCap
    callbackMap,  \* the attempts whose callback is registered
    isValid,
    future,       \* SharedState::waitForConfirmsFuture is set
    sharers,      \* the threads waiting on that future
    posted,       \* publishMessage calls posted to the event loop
    response,     \* the channel: see Publisher
    verdicts,     \* the channel: see Publisher
    jobs,         \* the confirms queued on the thread pool
    poolEnabled,
    running,      \* the attempt whose callback each worker runs
    taken,        \* the threads waiting on the future a worker will resolve
    done,         \* history: the attempts whose callback has returned
    owed,         \* history: the attempts that were sent and not called back
                  \* when a thread called waitForConfirms
    waited        \* history: the threads whose last waitForConfirms succeeded

callVars == <<pc, attempt, result>>
sharedVars == <<permits, callbackMap, isValid, future, sharers>>
channelVars == <<response, verdicts>>
poolVars == <<jobs, poolEnabled, running, taken>>
waitVars == <<owed, waited>>
vars == <<callVars, sharedVars, posted, channelVars, poolVars, done, waitVars>>

Callers == Threads \cup Workers

(* blocked: in outstandingMessagesCap.wait or timedWait.  permitted: in    *)
(* doSend, with a permit.  registered: about to post.  duplicate: about to *)
(* give the permit back.  waiting: in waitForConfirms.                     *)
PCs == {"idle", "blocked", "timedBlocked", "permitted", "registered",
        "duplicate", "waiting", "timedWaiting"}

SendStatuses == {"SENDING", "DUPLICATE", "TIMEOUT", "INFLIGHT_LIMIT",
                 "TRANSFORM_ERROR"}

Sender == INSTANCE Publisher WITH Msgs <- Attempts

Init ==
    /\ pc = [p \in Callers |-> "idle"]
    /\ attempt = [p \in Callers |-> NoAttempt]
    /\ result = [a \in Attempts |-> "none"]
    /\ permits = MaxOutstandingConfirms
    /\ callbackMap = {}
    /\ isValid = TRUE
    /\ future = FALSE
    /\ sharers = {}
    /\ posted = <<>>
    /\ Sender!Init
    /\ jobs = {}
    /\ poolEnabled = TRUE
    /\ running = [w \in Workers |-> NoAttempt]
    /\ taken = [w \in Workers |-> {}]
    /\ done = {}
    /\ owed = [t \in Threads |-> {}]
    /\ waited = {}

-----------------------------------------------------------------------------
(* send, trySend and doSend                                                *)

(* A thread that is not in a call, or a callback that is running, calls    *)
(* the producer, which exists.                                             *)
MayCall(p, a) ==
    /\ isValid
    /\ pc[p] = "idle"
    /\ result[a] = "none"
    /\ \A q \in Callers : attempt[q] # a
    /\ IF p \in Workers
       THEN running[p] # NoAttempt /\ a \in CallbackAttempts
       ELSE a \notin CallbackAttempts

Goes(p, a, where) ==
    /\ pc' = [pc EXCEPT ![p] = where]
    /\ attempt' = [attempt EXCEPT ![p] = a]
    /\ UNCHANGED result

Returns(p, status) ==
    /\ pc' = [pc EXCEPT ![p] = "idle"]
    /\ attempt' = [attempt EXCEPT ![p] = NoAttempt]
    /\ result' = [result EXCEPT ![attempt[p]] = status]

(* sendImpl up to the wait, without and with a timeout                     *)
Send(p, a) ==
    /\ MayCall(p, a)
    /\ \/ Goes(p, a, "blocked")
       \/ Goes(p, a, "timedBlocked")
    /\ UNCHANGED <<sharedVars, posted, channelVars, poolVars, done, waitVars>>

(* outstandingMessagesCap.wait or timedWait gets a permit.                 *)
Acquire(p) ==
    /\ pc[p] \in {"blocked", "timedBlocked"}
    /\ permits > 0
    /\ permits' = permits - 1
    /\ Goes(p, attempt[p], "permitted")
    /\ UNCHANGED <<callbackMap, isValid, future, sharers, posted, channelVars,
                   poolVars, done, waitVars>>

SendTimesOut(p) ==
    /\ pc[p] = "timedBlocked"
    /\ permits = 0
    /\ Returns(p, "TIMEOUT")
    /\ UNCHANGED <<sharedVars, posted, channelVars, poolVars, done, waitVars>>

(* trySend: tryWait takes a permit or the call returns at once.            *)
TrySend(p, a) ==
    /\ MayCall(p, a)
    /\ IF permits > 0
       THEN /\ permits' = permits - 1
            /\ Goes(p, a, "permitted")
       ELSE /\ result' = [result EXCEPT ![a] = "INFLIGHT_LIMIT"]
            /\ UNCHANGED <<permits, pc, attempt>>
    /\ UNCHANGED <<callbackMap, isValid, future, sharers, posted, channelVars,
                   poolVars, done, waitVars>>

(* doSend, when applyTransformations fails: the permit is given back.      *)
TransformFails(p) ==
    /\ pc[p] = "permitted"
    /\ HasTransformers
    /\ permits' = permits + 1
    /\ Returns(p, "TRANSFORM_ERROR")
    /\ UNCHANGED <<callbackMap, isValid, future, sharers, posted, channelVars,
                   poolVars, done, waitVars>>

(* registerUniqueCallback, under the mutex                                 *)
RegisterUniqueCallback(p) ==
    /\ pc[p] = "permitted"
    /\ IF \E b \in callbackMap : Guid[b] = Guid[attempt[p]]
       THEN Goes(p, attempt[p], "duplicate") /\ UNCHANGED callbackMap
       ELSE /\ callbackMap' = callbackMap \cup {attempt[p]}
            /\ Goes(p, attempt[p], "registered")
    /\ UNCHANGED <<permits, isValid, future, sharers, posted, channelVars,
                   poolVars, done, waitVars>>

(* doSend, for a duplicate; the variant keeps the permit.                  *)
RefuseKeepingPermit(p) ==
    /\ pc[p] = "duplicate"
    /\ Returns(p, "DUPLICATE")
    /\ UNCHANGED <<sharedVars, posted, channelVars, poolVars, done, waitVars>>

RefuseDuplicate(p) ==
    /\ pc[p] = "duplicate"
    /\ permits' = permits + 1
    /\ Returns(p, "DUPLICATE")
    /\ UNCHANGED <<callbackMap, isValid, future, sharers, posted, channelVars,
                   poolVars, done, waitVars>>

(* doSend posts publishMessage and returns.                                *)
PostPublish(p) ==
    /\ pc[p] = "registered"
    /\ posted' = Append(posted, attempt[p])
    /\ Returns(p, "SENDING")
    /\ UNCHANGED <<sharedVars, channelVars, poolVars, done, waitVars>>

-----------------------------------------------------------------------------
(* The event loop                                                          *)

(* SendChannel::publishMessage, in the order of the posts                  *)
EventLoopPublishes ==
    /\ posted # <<>>
    /\ Sender!Accept(Head(posted))
    /\ posted' = Tail(posted)
    /\ UNCHANGED <<callVars, sharedVars, poolVars, done, waitVars>>

BrokerJudges ==
    /\ Sender!Judge
    /\ UNCHANGED <<callVars, sharedVars, posted, poolVars, done, waitVars>>

(* handleConfirmOnEventLoop, for each message the channel confirms: a pool *)
(* that is shut down takes no jobs.                                        *)
HandleConfirmOnEventLoop ==
    /\ Sender!Confirm
    /\ jobs' = IF poolEnabled
               THEN jobs \cup {a \in Attempts : response'[a] # response[a]}
               ELSE jobs
    /\ UNCHANGED <<callVars, sharedVars, posted, poolEnabled, running, taken,
                   done, waitVars>>

-----------------------------------------------------------------------------
(* The thread pool: actionConfirmOnThreadPool                              *)

(* Under the mutex.  bdlmt::ThreadPool starts jobs in order, on whichever  *)
(* worker is free; nothing here depends on the order.                      *)
(*                                                                         *)
(* The variants leave out a part each: the test of isValid, the erasure    *)
(* from callbackMap, the permit, the test that callbackMap is empty before *)
(* the future is taken, or the future altogether.                          *)
ConfirmWith(w, a, valid, erased, given, takes) ==
    /\ a \in jobs
    /\ pc[w] = "idle" /\ running[w] = NoAttempt
    /\ jobs' = jobs \ {a}
    /\ \E e \in callbackMap :
          /\ valid /\ Guid[e] = Guid[a]
          /\ callbackMap' = callbackMap \ (IF erased THEN {e} ELSE {})
          /\ permits' = permits + given
          /\ running' = [running EXCEPT ![w] = e]
          /\ future' = (future /\ ~takes)
          /\ taken' = [taken EXCEPT ![w] = IF takes THEN sharers ELSE {}]
          /\ sharers' = IF takes THEN {} ELSE sharers
    /\ UNCHANGED <<callVars, isValid, posted, channelVars, poolEnabled, done,
                   waitVars>>

LastOne(a) == \A e \in callbackMap : Guid[e] = Guid[a]

ConfirmKeepingEntry(w, a) == ConfirmWith(w, a, isValid, FALSE, 1, FALSE)
ConfirmKeepingPermit(w, a) == ConfirmWith(w, a, isValid, TRUE, 0, LastOne(a))
ConfirmTakingEarly(w, a) == ConfirmWith(w, a, isValid, TRUE, 1, TRUE)
ConfirmWithoutFuture(w, a) == ConfirmWith(w, a, isValid, TRUE, 1, FALSE)

ActionConfirm(w, a) ==
    /\ a \in jobs
    /\ pc[w] = "idle" /\ running[w] = NoAttempt
    /\ jobs' = jobs \ {a}
    /\ \/ /\ ~isValid \/ \A e \in callbackMap : Guid[e] # Guid[a]
          /\ UNCHANGED <<permits, callbackMap, future, sharers, running, taken>>
       \/ \E e \in callbackMap :
             /\ isValid /\ Guid[e] = Guid[a]
             /\ callbackMap' = callbackMap \ {e}
             /\ permits' = permits + 1
             /\ running' = [running EXCEPT ![w] = e]
             /\ IF callbackMap' = {} /\ future
                THEN /\ future' = FALSE
                     /\ taken' = [taken EXCEPT ![w] = sharers]
                     /\ sharers' = {}
                ELSE UNCHANGED <<future, sharers, taken>>
    /\ UNCHANGED <<callVars, isValid, posted, channelVars, poolEnabled, done,
                   waitVars>>

(* The callback returns, and the future the worker took is resolved.       *)
CallbackReturns(w) ==
    /\ pc[w] = "idle" /\ running[w] # NoAttempt
    /\ running' = [running EXCEPT ![w] = NoAttempt]
    /\ done' = done \cup {running[w]}
    /\ taken' = [taken EXCEPT ![w] = {}]
    /\ pc' = [p \in Callers |-> IF p \in taken[w] THEN "idle" ELSE pc[p]]
    /\ waited' = waited \cup taken[w]
    /\ UNCHANGED <<attempt, result, sharedVars, posted, channelVars, jobs,
                   poolEnabled, owed>>

-----------------------------------------------------------------------------
(* waitForConfirms                                                         *)

(* Under the mutex: the thread shares the future, or returns at once.      *)
WaitForConfirms(t) ==
    /\ isValid
    /\ pc[t] = "idle"
    /\ owed' = [owed EXCEPT ![t] = {a \in Attempts \ done : result[a] = "SENDING"}]
    /\ IF callbackMap # {}
       THEN /\ future' = TRUE
            /\ sharers' = sharers \cup {t}
            /\ \E where \in {"waiting", "timedWaiting"} :
                  pc' = [pc EXCEPT ![t] = where]
            /\ waited' = waited \ {t}
       ELSE /\ waited' = waited \cup {t}
            /\ UNCHANGED <<pc, future, sharers>>
    /\ UNCHANGED <<attempt, result, permits, callbackMap, isValid, posted,
                   channelVars, poolVars, done>>

(* waitResult times out: the future stays where it is, without the thread. *)
WaitTimesOut(t) ==
    /\ pc[t] = "timedWaiting"
    /\ pc' = [pc EXCEPT ![t] = "idle"]
    /\ sharers' = sharers \ {t}
    /\ taken' = [w \in Workers |-> taken[w] \ {t}]
    /\ UNCHANGED <<attempt, result, permits, callbackMap, isValid, future,
                   posted, channelVars, jobs, poolEnabled, running, done,
                   waitVars>>

-----------------------------------------------------------------------------
(* ~ProducerImpl: the application has no call of it in progress.           *)
Destroy ==
    /\ isValid
    /\ \A p \in Callers : pc[p] = "idle"
    /\ isValid' = FALSE
    /\ UNCHANGED <<callVars, permits, callbackMap, future, sharers, posted,
                   channelVars, poolVars, done, waitVars>>

(* ~RabbitContextImpl shuts its pool down: queued jobs are cancelled.      *)
PoolShutdown ==
    /\ poolEnabled
    /\ poolEnabled' = FALSE
    /\ jobs' = {}
    /\ UNCHANGED <<callVars, sharedVars, posted, channelVars, running, taken,
                   done, waitVars>>

-----------------------------------------------------------------------------
CallerNext(p) ==
    \/ \E a \in Attempts : Send(p, a) \/ TrySend(p, a)
    \/ Acquire(p) \/ SendTimesOut(p) \/ TransformFails(p)
    \/ RegisterUniqueCallback(p) \/ RefuseDuplicate(p) \/ PostPublish(p)

WorkerNext(w) == CallbackReturns(w) \/ \E a \in jobs : ActionConfirm(w, a)

Next ==
    \/ \E p \in Callers : CallerNext(p)
    \/ \E t \in Threads : WaitForConfirms(t) \/ WaitTimesOut(t)
    \/ \E w \in Workers : WorkerNext(w)
    \/ EventLoopPublishes \/ BrokerJudges \/ HandleConfirmOnEventLoop
    \/ Destroy \/ PoolShutdown

Spec == Init /\ [][Next]_vars

(* Fairness.  A thread in the library proceeds, timeouts expire, the event *)
(* loop runs what it is posted, the pool runs its jobs, callbacks return,  *)
(* and the broker answers every message.  Nothing makes the application    *)
(* call.                                                                   *)
Fairness ==
    /\ \A p \in Callers :
          WF_vars(Acquire(p) \/ SendTimesOut(p) \/ RegisterUniqueCallback(p)
                    \/ RefuseDuplicate(p) \/ PostPublish(p))
    /\ \A t \in Threads : WF_vars(WaitTimesOut(t))
    /\ \A w \in Workers : WF_vars(WorkerNext(w))
    /\ WF_vars(EventLoopPublishes)
    /\ WF_vars(BrokerJudges /\ verdicts' # verdicts)
    /\ WF_vars(HandleConfirmOnEventLoop)

FairSpec == Spec /\ Fairness

-----------------------------------------------------------------------------
(* Properties                                                              *)

(* Every variable has its type.                                            *)
TypeOK ==
    /\ pc \in [Callers -> PCs]
    /\ attempt \in [Callers -> Attempts \cup {NoAttempt}]
    /\ result \in [Attempts -> SendStatuses \cup {"none"}]
    /\ permits \in Nat
    /\ callbackMap \in SUBSET Attempts
    /\ isValid \in BOOLEAN
    /\ future \in BOOLEAN
    /\ sharers \in SUBSET Threads
    /\ posted \in Seq(Attempts)
    /\ response \in [Attempts -> Verdicts \cup {"unsent", "waiting"}]
    /\ verdicts \in SUBSET (Attempts \X Verdicts)
    /\ jobs \in SUBSET Attempts
    /\ poolEnabled \in BOOLEAN
    /\ running \in [Workers -> Attempts \cup {NoAttempt}]
    /\ taken \in [Workers -> SUBSET Threads]
    /\ done \in SUBSET Attempts
    /\ owed \in [Threads -> SUBSET Attempts]
    /\ waited \in SUBSET Threads

(* The callers in doSend that hold a permit no entry of callbackMap stands *)
(* for.                                                                    *)
Holders == {p \in Callers : pc[p] \in {"permitted", "duplicate"}}

(* Permits are neither lost nor made: those of outstandingMessagesCap,     *)
(* those of calls in progress and one for every outstanding message are    *)
(* maxOutstandingConfirms, whatever becomes of a send.                     *)
PermitsConserved ==
    permits + Cardinality(Holders) + Cardinality(callbackMap)
       = MaxOutstandingConfirms

(* The messages between registerUniqueCallback and their callback.         *)
InFlight ==
    {a \in Attempts :
       \/ \E p \in Callers : pc[p] = "registered" /\ attempt[p] = a
       \/ \E i \in 1..Len(posted) : posted[i] = a
       \/ response[a] = "waiting"
       \/ a \in jobs}

(* A message on its way through the event loop, the channel and the pool   *)
(* has its callback registered, alone under its guid: a confirm always     *)
(* finds the callback of the very send it answers, and the branch that     *)
(* reports a duplicate confirm is never taken.  Conversely a callback      *)
(* stays registered only while its message is on the way, as long as the   *)
(* producer and the pool live.                                             *)
CallbackFound ==
    /\ InFlight \subseteq callbackMap
    /\ \A a, b \in callbackMap : Guid[a] = Guid[b] => a = b
    /\ isValid /\ poolEnabled => callbackMap \subseteq InFlight

(* A callback runs at most once, only for a send that returned SENDING,    *)
(* and only when the broker has confirmed the message.                     *)
CalledBackOnce ==
    /\ \A w \in Workers : running[w] # NoAttempt =>
          /\ running[w] \notin callbackMap \cup done
          /\ response[running[w]] \in Verdicts
          /\ \A v \in Workers : running[v] = running[w] => v = w
    /\ \A a \in done : a \notin callbackMap /\ response[a] \in Verdicts
                         /\ result[a] = "SENDING"

(* When waitForConfirms reports success, the broker has confirmed every    *)
(* message whose send had returned before the call, although the future is *)
(* shared, timed waits come and go, and other threads keep sending.        *)
WaitMeansConfirmed ==
    \A t \in waited : \A a \in owed[t] : response[a] \in Verdicts

(* Once the producer is destroyed no queued confirm starts a callback of   *)
(* the application.                                                        *)
NoCallbackAfterDestroy ==
    [][~isValid => \A w \in Workers : running'[w] \in {running[w], NoAttempt}]_vars

(* A send without a timeout that found the limit reached eventually gets a *)
(* permit: confirms give permits back.                                     *)
SendersServed ==
    \A p \in Callers : pc[p] = "blocked" ~> (pc[p] # "blocked" \/ ~poolEnabled)

(* waitForConfirms without a timeout eventually returns: the confirm that  *)
(* empties callbackMap finds the future.                                   *)
WaitersReturn ==
    \A t \in Threads : pc[t] = "waiting" ~> (pc[t] # "waiting" \/ ~poolEnabled)

=============================================================================
