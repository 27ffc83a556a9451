--------------------------- MODULE ProducerProofs ---------------------------
(***************************************************************************)
(* Proofs about Producer, for any number of threads, workers, sends and    *)
(* permits.                                                                *)
(***************************************************************************)
EXTENDS Producer, FiniteSetTheorems, TLAPS

Calling == {"blocked", "timedBlocked", "permitted", "registered", "duplicate"}
Waiting == {"waiting", "timedWaiting"}

(* Where an attempt can be: with its one caller before its send returns,   *)
(* then posted, then in the channel, then a job.                           *)
CallersApart ==
    /\ \A p, q \in Callers :
          attempt[p] # NoAttempt /\ attempt[p] = attempt[q] => p = q
    /\ \A p \in Callers : attempt[p] # NoAttempt => result[attempt[p]] = "none"
    /\ \A p \in Callers : attempt[p] # NoAttempt <=> pc[p] \in Calling

PostedOnce ==
    /\ \A i \in 1..Len(posted) :
          response[posted[i]] = "unsent" /\ result[posted[i]] = "SENDING"
    /\ \A i, j \in 1..Len(posted) : posted[i] = posted[j] => i = j

Confirmed ==
    /\ \A a \in Attempts : result[a] # "SENDING" => response[a] = "unsent"
    /\ \A a \in jobs : response[a] \in Verdicts
    /\ \A a \in Attempts : result[a] = "SENDING" =>
          response[a] # "unsent" \/ \E i \in 1..Len(posted) : posted[i] = a

(* A thread that shares a future is in waitForConfirms, and shares one.    *)
Waiters ==
    /\ \A t \in sharers : pc[t] \in Waiting
    /\ \A w \in Workers : \A t \in taken[w] : pc[t] \in Waiting /\ t \notin sharers
    /\ \A v, w \in Workers : v # w => taken[v] \cap taken[w] = {}

Control == CallersApart /\ PostedOnce /\ Confirmed /\ Waiters

-----------------------------------------------------------------------------
(* TypeOK, in two parts: the Boolean variables and the others.             *)
Flags == isValid \in BOOLEAN /\ future \in BOOLEAN /\ poolEnabled \in BOOLEAN

CallTypes ==
    /\ pc \in [Callers -> PCs]
    /\ attempt \in [Callers -> Attempts \cup {NoAttempt}]
    /\ result \in [Attempts -> SendStatuses \cup {"none"}]

SharedTypes ==
    /\ permits \in Nat
    /\ callbackMap \in SUBSET Attempts
    /\ sharers \in SUBSET Threads
    /\ posted \in Seq(Attempts)
    /\ response \in [Attempts -> Verdicts \cup {"unsent", "waiting"}]
    /\ verdicts \in SUBSET (Attempts \X Verdicts)

PoolTypes ==
    /\ jobs \in SUBSET Attempts
    /\ running \in [Workers -> Attempts \cup {NoAttempt}]
    /\ taken \in [Workers -> SUBSET Threads]
    /\ done \in SUBSET Attempts
    /\ owed \in [Threads -> SUBSET Attempts]
    /\ waited \in SUBSET Threads

(* The parts are TypeOK, now and after a step.                             *)
LEMMA TypeParts ==
    /\ TypeOK <=> Flags /\ CallTypes /\ SharedTypes /\ PoolTypes
    /\ TypeOK' <=> Flags' /\ CallTypes' /\ SharedTypes' /\ PoolTypes'
  BY Zenon DEF TypeOK, Flags, CallTypes, SharedTypes, PoolTypes

(* The constructor of ProducerImpl and an idle application.                *)
LEMMA InitTypeOK == Init => TypeOK
<1> SUFFICES ASSUME Init PROVE TypeOK
  OBVIOUS
<1>1. Flags
  BY Zenon DEF Init, Flags
<1>2. CallTypes
  BY DEF Init, CallTypes, PCs
<1>3. SharedTypes
  <2>1. /\ permits = MaxOutstandingConfirms /\ callbackMap = {}
        /\ sharers = {} /\ posted = <<>> /\ verdicts = {}
        /\ response = [m \in Attempts |-> "unsent"]
    BY Zenon DEF Init, Sender!Init
  <2> QED
    BY <2>1, ProducerAssumption DEF SharedTypes
<1>4. PoolTypes
  <2>1. /\ running = [w \in Workers |-> NoAttempt] /\ taken = [w \in Workers |-> {}]
        /\ owed = [t \in Threads |-> {}] /\ jobs = {} /\ done = {} /\ waited = {}
    BY Zenon DEF Init
  <2> QED
    BY <2>1 DEF PoolTypes
<1> QED
  BY <1>1, <1>2, <1>3, <1>4, TypeParts, Zenon

(* What Publisher's Confirm does to the responses.                         *)
LEMMA ConfirmType ==
    ASSUME SharedTypes, Sender!Confirm
    PROVE  /\ response' \in [Attempts -> Verdicts \cup {"unsent", "waiting"}]
           /\ \A a \in Attempts : response'[a] # response[a]
                 => response[a] = "waiting" /\ response'[a] \in Verdicts
           /\ verdicts' = verdicts
<1>1. PICK S \in SUBSET Sender!Waiting, f \in [Attempts -> Verdicts] :
         response' = [m \in Attempts |-> IF m \in S THEN f[m] ELSE response[m]]
  BY DEF Sender!Confirm
<1> QED
  BY <1>1 DEF SharedTypes, Sender!Confirm, Sender!Waiting

(* Every step keeps the flags Boolean.                                     *)
LEMMA FlagsType == Flags /\ [Next]_vars => Flags'
<1> SUFFICES ASSUME Flags, [Next]_vars PROVE Flags'
  OBVIOUS
<1> USE DEF Flags
<1>1. ASSUME NEW p \in Callers, CallerNext(p) PROVE Flags'
  BY <1>1, Zenon DEF CallerNext, Send, TrySend, Acquire, SendTimesOut,
     TransformFails, RegisterUniqueCallback, RefuseDuplicate, PostPublish,
     sharedVars, poolVars
<1>2. ASSUME NEW t \in Threads, WaitForConfirms(t) \/ WaitTimesOut(t) PROVE Flags'
  BY <1>2, Zenon DEF WaitForConfirms, WaitTimesOut, poolVars
<1>3. ASSUME NEW w \in Workers, WorkerNext(w) PROVE Flags'
  BY <1>3, Zenon DEF WorkerNext, CallbackReturns, ActionConfirm, sharedVars
<1>4. CASE EventLoopPublishes \/ BrokerJudges \/ HandleConfirmOnEventLoop
  BY <1>4, Zenon DEF EventLoopPublishes, BrokerJudges, HandleConfirmOnEventLoop,
     sharedVars, poolVars
<1>5. CASE Destroy \/ PoolShutdown
  BY <1>5, Zenon DEF Destroy, PoolShutdown, sharedVars, poolVars
<1>6. CASE UNCHANGED vars
  BY <1>6, Zenon DEF vars, sharedVars, poolVars
<1> QED
  BY <1>1, <1>2, <1>3, <1>4, <1>5, <1>6, Zenon DEF Next

(* A call that moves or returns keeps the types of the callers.            *)
LEMMA MoveTypes ==
    ASSUME CallTypes, NEW p \in Callers
    PROVE  /\ \A a \in Attempts, where \in PCs : Goes(p, a, where) => CallTypes'
           /\ \A s \in SendStatuses : Returns(p, s) => CallTypes'
           /\ pc[p] \in Calling /\ CallersApart => attempt[p] \in Attempts
           /\ Calling \subseteq PCs
  BY DEF Goes, Returns, CallTypes, PCs, Calling, CallersApart

(* The calls of send and trySend keep every type.                          *)
LEMMA CallerTypes ==
    ASSUME CallTypes, SharedTypes, PoolTypes, CallersApart,
           NEW p \in Callers, CallerNext(p)
    PROVE  CallTypes' /\ SharedTypes' /\ PoolTypes'
<1>pool. PoolTypes'
  BY Zenon DEF PoolTypes, CallerNext, Send, TrySend, Acquire, SendTimesOut,
     TransformFails, RegisterUniqueCallback, RefuseDuplicate, PostPublish,
     poolVars, waitVars
<1>pcs. /\ {"blocked", "timedBlocked", "permitted", "duplicate", "registered"} \subseteq PCs
        /\ {"TIMEOUT", "INFLIGHT_LIMIT", "TRANSFORM_ERROR", "DUPLICATE", "SENDING"}
             \subseteq SendStatuses
  BY DEF PCs, SendStatuses
<1>1. ASSUME NEW a \in Attempts, Send(p, a) PROVE CallTypes' /\ SharedTypes'
  <2>1. SharedTypes'
    BY <1>1, Zenon DEF Send, SharedTypes, sharedVars, channelVars
  <2> QED
    BY <1>1, <2>1, <1>pcs, MoveTypes, Zenon DEF Send
<1>2. ASSUME NEW a \in Attempts, TrySend(p, a) PROVE CallTypes' /\ SharedTypes'
  <2>1. CASE permits > 0
    <3>1. permits' \in Nat
      BY <1>2, <2>1 DEF TrySend, SharedTypes
    <3>2. SharedTypes'
      BY <1>2, <3>1, Zenon DEF TrySend, SharedTypes, channelVars
    <3> QED
      BY <1>2, <2>1, <3>2, <1>pcs, MoveTypes, Zenon DEF TrySend
  <2>2. CASE ~(permits > 0)
    <3>1. SharedTypes'
      BY <1>2, <2>2, Zenon DEF TrySend, SharedTypes, channelVars
    <3>2. /\ result' = [result EXCEPT ![a] = "INFLIGHT_LIMIT"]
          /\ UNCHANGED <<pc, attempt>>
      BY <1>2, <2>2, Zenon DEF TrySend
    <3>3. CallTypes'
      BY <3>2 DEF CallTypes, SendStatuses
    <3> QED
      BY <3>1, <3>3
  <2> QED
    BY <2>1, <2>2, Zenon
<1>3. CASE Acquire(p)
  <2>1. attempt[p] \in Attempts
    BY <1>3, MoveTypes DEF Acquire, Calling
  <2>2. permits' \in Nat
    BY <1>3 DEF Acquire, SharedTypes
  <2>3. SharedTypes'
    BY <1>3, <2>2, Zenon DEF Acquire, SharedTypes, channelVars
  <2> QED
    BY <1>3, <2>1, <2>3, <1>pcs, <1>pool, MoveTypes, Zenon DEF Acquire
<1>4. CASE SendTimesOut(p)
  <2>1. SharedTypes'
    BY <1>4, Zenon DEF SendTimesOut, SharedTypes, sharedVars, channelVars
  <2> QED
    BY <1>4, <2>1, <1>pcs, <1>pool, MoveTypes, Zenon DEF SendTimesOut
<1>5. CASE TransformFails(p) \/ RefuseDuplicate(p)
  <2>1. permits' = permits + 1
    BY <1>5, Zenon DEF TransformFails, RefuseDuplicate
  <2>2. permits' \in Nat
    BY <2>1 DEF SharedTypes
  <2>3. SharedTypes'
    BY <1>5, <2>2, Zenon DEF TransformFails, RefuseDuplicate, SharedTypes, channelVars
  <2> QED
    BY <1>5, <2>3, <1>pcs, <1>pool, MoveTypes, Zenon DEF TransformFails, RefuseDuplicate
<1>6. CASE RegisterUniqueCallback(p)
  <2>1. attempt[p] \in Attempts
    BY <1>6, MoveTypes DEF RegisterUniqueCallback, Calling
  <2>2. callbackMap' \in SUBSET Attempts
    BY <1>6, <2>1, Zenon DEF RegisterUniqueCallback, SharedTypes
  <2>3. SharedTypes'
    BY <1>6, <2>2, Zenon DEF RegisterUniqueCallback, SharedTypes, channelVars
  <2> QED
    BY <1>6, <2>1, <2>3, <1>pcs, <1>pool, MoveTypes, Zenon DEF RegisterUniqueCallback
<1>8. CASE PostPublish(p)
  <2>1. attempt[p] \in Attempts
    BY <1>8, MoveTypes DEF PostPublish, Calling
  <2>2. posted' \in Seq(Attempts)
    BY <1>8, <2>1 DEF PostPublish, SharedTypes
  <2>3. SharedTypes'
    BY <1>8, <2>2, Zenon DEF PostPublish, SharedTypes, sharedVars, channelVars
  <2> QED
    BY <1>8, <2>3, <1>pcs, <1>pool, MoveTypes, Zenon DEF PostPublish
<1> QED
  BY <1>pool, <1>1, <1>2, <1>3, <1>4, <1>5, <1>6, <1>8, Zenon DEF CallerNext

(* Every other step keeps every type.                                      *)
LEMMA OtherTypes ==
    ASSUME CallTypes, SharedTypes, PoolTypes,
           \/ \E t \in Threads : WaitForConfirms(t) \/ WaitTimesOut(t)
           \/ \E w \in Workers : WorkerNext(w)
           \/ EventLoopPublishes \/ BrokerJudges \/ HandleConfirmOnEventLoop
           \/ Destroy \/ PoolShutdown \/ UNCHANGED vars
    PROVE  CallTypes' /\ SharedTypes' /\ PoolTypes'
<1>idle. "idle" \in PCs /\ "waiting" \in PCs /\ "timedWaiting" \in PCs
  BY DEF PCs
<1>1. ASSUME NEW t \in Threads, WaitForConfirms(t)
      PROVE  CallTypes' /\ SharedTypes' /\ PoolTypes'
  <2>1. /\ pc' = pc \/ \E where \in {"waiting", "timedWaiting"} :
                          pc' = [pc EXCEPT ![t] = where]
        /\ UNCHANGED <<attempt, result>>
    BY <1>1, Zenon DEF WaitForConfirms
  <2>2. CallTypes'
    BY <2>1, <1>idle DEF CallTypes
  <2>3. sharers' = sharers \/ sharers' = sharers \cup {t}
    BY <1>1, Zenon DEF WaitForConfirms
  <2>4. SharedTypes'
    BY <1>1, <2>3, Zenon DEF WaitForConfirms, SharedTypes, channelVars
  <2>5. /\ owed' = [owed EXCEPT ![t] = {a \in Attempts \ done : result[a] = "SENDING"}]
        /\ waited' = waited \ {t} \/ waited' = waited \cup {t}
        /\ UNCHANGED <<jobs, running, taken, done>>
    BY <1>1, Zenon DEF WaitForConfirms, poolVars
  <2>6. PoolTypes'
    BY <2>5 DEF PoolTypes
  <2> QED
    BY <2>2, <2>4, <2>6
<1>2. ASSUME NEW t \in Threads, WaitTimesOut(t)
      PROVE  CallTypes' /\ SharedTypes' /\ PoolTypes'
  <2>1. /\ pc' = [pc EXCEPT ![t] = "idle"]
        /\ UNCHANGED <<attempt, result>>
        /\ taken' = [w \in Workers |-> taken[w] \ {t}]
        /\ UNCHANGED <<jobs, running, done, owed, waited>>
    BY <1>2, Zenon DEF WaitTimesOut, waitVars
  <2>2. SharedTypes'
    BY <1>2, Zenon DEF WaitTimesOut, SharedTypes, channelVars
  <2>3. CallTypes'
    BY <2>1, <1>idle DEF CallTypes
  <2>4. PoolTypes'
    BY <2>1 DEF PoolTypes
  <2> QED
    BY <2>2, <2>3, <2>4
<1>3. ASSUME NEW w \in Workers, NEW a \in jobs, ActionConfirm(w, a)
      PROVE  CallTypes' /\ SharedTypes' /\ PoolTypes'
  <2>1. CallTypes'
    BY <1>3, Zenon DEF ActionConfirm, CallTypes, callVars
  <2>2. /\ jobs' = jobs \ {a}
        /\ UNCHANGED <<posted, response, verdicts, done, owed, waited>>
        /\ sharers' = sharers \/ sharers' = {}
        /\ taken' = taken \/ taken' = [taken EXCEPT ![w] = sharers]
    BY <1>3, Zenon DEF ActionConfirm, channelVars, waitVars
  <2>3. \/ UNCHANGED <<permits, callbackMap, running>>
        \/ \E e \in callbackMap : /\ permits' = permits + 1
                                  /\ callbackMap' = callbackMap \ {e}
                                  /\ running' = [running EXCEPT ![w] = e]
    BY <1>3, Zenon DEF ActionConfirm
  <2>4. SharedTypes'
    BY <2>2, <2>3 DEF SharedTypes
  <2>5. PoolTypes'
    BY <2>2, <2>3 DEF SharedTypes, PoolTypes
  <2> QED
    BY <2>1, <2>4, <2>5
<1>4. ASSUME NEW w \in Workers, CallbackReturns(w)
      PROVE  CallTypes' /\ SharedTypes' /\ PoolTypes'
  <2>1. /\ pc' = [p \in Callers |-> IF p \in taken[w] THEN "idle" ELSE pc[p]]
        /\ UNCHANGED <<attempt, result, jobs, owed>>
        /\ running' = [running EXCEPT ![w] = NoAttempt]
        /\ running[w] # NoAttempt
        /\ done' = done \cup {running[w]}
        /\ taken' = [taken EXCEPT ![w] = {}]
        /\ waited' = waited \cup taken[w]
    BY <1>4, Zenon DEF CallbackReturns
  <2>2. SharedTypes'
    BY <1>4, Zenon DEF CallbackReturns, SharedTypes, sharedVars, channelVars
  <2>3. CallTypes'
    BY <2>1, <1>idle DEF CallTypes
  <2>4. PoolTypes'
    BY <2>1 DEF PoolTypes
  <2> QED
    BY <2>2, <2>3, <2>4
<1>5. CASE EventLoopPublishes
  <2>1. CallTypes' /\ PoolTypes'
    BY <1>5, Zenon DEF EventLoopPublishes, CallTypes, PoolTypes, callVars, poolVars,
       waitVars
  <2>2. /\ posted # <<>> /\ posted' = Tail(posted)
        /\ response' = [response EXCEPT ![Head(posted)] = "waiting"]
        /\ UNCHANGED <<permits, callbackMap, sharers, verdicts>>
    BY <1>5, Zenon DEF EventLoopPublishes, sharedVars, Sender!Accept
  <2> QED
    BY <2>1, <2>2 DEF SharedTypes
<1>6. CASE BrokerJudges
  <2>1. CallTypes' /\ PoolTypes'
    BY <1>6, Zenon DEF BrokerJudges, CallTypes, PoolTypes, callVars, poolVars, waitVars
  <2>2. PICK new \in SUBSET (Sender!Waiting \X Verdicts) : verdicts' = verdicts \cup new
    BY <1>6, Zenon DEF BrokerJudges, Sender!Judge
  <2>3. verdicts' \in SUBSET (Attempts \X Verdicts)
    BY <2>2 DEF SharedTypes, Sender!Waiting
  <2>4. SharedTypes'
    BY <1>6, <2>3, Zenon DEF BrokerJudges, Sender!Judge, SharedTypes, sharedVars
  <2> QED
    BY <2>1, <2>4
<1>7. CASE HandleConfirmOnEventLoop
  <2>1. CallTypes'
    BY <1>7, Zenon DEF HandleConfirmOnEventLoop, CallTypes, callVars
  <2>2. jobs' = jobs \/ jobs' = jobs \cup {a \in Attempts : response'[a] # response[a]}
    BY <1>7, Zenon DEF HandleConfirmOnEventLoop
  <2>3. jobs' \in SUBSET Attempts
    BY <2>2 DEF PoolTypes
  <2>4. PoolTypes'
    BY <1>7, <2>3, Zenon DEF HandleConfirmOnEventLoop, PoolTypes, waitVars
  <2>5. /\ response' \in [Attempts -> Verdicts \cup {"unsent", "waiting"}]
        /\ verdicts' = verdicts
    BY <1>7, ConfirmType, Zenon DEF HandleConfirmOnEventLoop
  <2>6. SharedTypes'
    BY <1>7, <2>5, Zenon DEF HandleConfirmOnEventLoop, SharedTypes, sharedVars
  <2> QED
    BY <2>1, <2>4, <2>6
<1>8. CASE Destroy \/ PoolShutdown \/ UNCHANGED vars
  <2>1. jobs' = jobs \/ jobs' = {}
    BY <1>8, Zenon DEF Destroy, PoolShutdown, vars, poolVars
  <2> QED
    BY <1>8, <2>1, Zenon DEF Destroy, PoolShutdown, vars, CallTypes, SharedTypes,
       PoolTypes, callVars, sharedVars, channelVars, poolVars, waitVars
<1> QED
  BY <1>1, <1>2, <1>3, <1>4, <1>5, <1>6, <1>7, <1>8, Zenon DEF WorkerNext

-----------------------------------------------------------------------------
(* Where an attempt is                                                     *)

(* The three things a caller's step can do to the callers' state: take up  *)
(* a new attempt, go on with its own, or return a status.                  *)
LEMMA CallSteps ==
    ASSUME CallTypes, CallersApart, NEW p \in Callers, CallerNext(p)
    PROVE  \/ \E a \in Attempts, where \in Calling \ {"registered"} :
                 /\ MayCall(p, a) /\ Goes(p, a, where)
           \/ \E a \in Attempts :
                 /\ MayCall(p, a)
                 /\ result' = [result EXCEPT ![a] = "INFLIGHT_LIMIT"]
                 /\ UNCHANGED <<pc, attempt>>
           \/ \E where \in Calling :
                 pc[p] \in Calling /\ attempt[p] \in Attempts
                   /\ Goes(p, attempt[p], where)
           \/ \E s \in SendStatuses :
                 pc[p] \in Calling /\ attempt[p] \in Attempts /\ Returns(p, s)
<1>1. /\ {"blocked", "timedBlocked", "permitted", "duplicate"} \subseteq Calling
      /\ "registered" \in Calling
      /\ "registered" \notin {"blocked", "timedBlocked", "permitted", "duplicate"}
      /\ {"TIMEOUT", "TRANSFORM_ERROR", "DUPLICATE", "SENDING"} \subseteq SendStatuses
  BY DEF Calling, SendStatuses
<1>2. pc[p] \in Calling => attempt[p] \in Attempts
  BY MoveTypes
<1> QED
  BY <1>1, <1>2, Zenon DEF CallerNext, Send, TrySend, Acquire, SendTimesOut,
     TransformFails, RegisterUniqueCallback, RefuseDuplicate, PostPublish

(* An attempt is made by one caller, until the call returns.               *)
LEMMA CallersStayApart ==
    ASSUME CallTypes, PoolTypes, CallersApart, Waiters, [Next]_vars
    PROVE  CallersApart'
<1>na. NoAttempt \notin Attempts
  BY ProducerAssumption, Zenon
<1>idle. "idle" \notin Calling /\ "waiting" \notin Calling /\ "timedWaiting" \notin Calling
         /\ "none" \notin SendStatuses
  BY DEF Calling, SendStatuses
<1>1. ASSUME NEW p \in Callers, CallerNext(p) PROVE CallersApart'
  <2>1. ASSUME NEW a \in Attempts, NEW where \in Calling,
               MayCall(p, a), Goes(p, a, where)
        PROVE  CallersApart'
    <3>1. /\ result[a] = "none" /\ pc[p] = "idle"
          /\ \A q \in Callers : attempt[q] # a
      BY <2>1, Zenon DEF MayCall
    <3> QED
      BY <2>1, <3>1, <1>na DEF Goes, CallTypes, CallersApart
  <2>2. ASSUME NEW a \in Attempts, MayCall(p, a),
               result' = [result EXCEPT ![a] = "INFLIGHT_LIMIT"],
               UNCHANGED <<pc, attempt>>
        PROVE  CallersApart'
    <3>1. \A q \in Callers : attempt[q] # a
      BY <2>2, Zenon DEF MayCall
    <3> QED
      BY <2>2, <3>1 DEF CallTypes, CallersApart
  <2>3. ASSUME NEW where \in Calling, pc[p] \in Calling, Goes(p, attempt[p], where)
        PROVE  CallersApart'
    BY <2>3 DEF Goes, CallTypes, CallersApart
  <2>4. ASSUME NEW s \in SendStatuses, pc[p] \in Calling, attempt[p] \in Attempts,
               Returns(p, s)
        PROVE  CallersApart'
    BY <2>4, <1>na, <1>idle DEF Returns, CallTypes, CallersApart
  <2> QED
    BY <1>1, <2>1, <2>2, <2>3, <2>4, CallSteps, Zenon
<1>2. ASSUME NEW t \in Threads, WaitForConfirms(t) PROVE CallersApart'
  <2>1. /\ pc[t] = "idle"
        /\ pc' = pc \/ \E where \in {"waiting", "timedWaiting"} :
                          pc' = [pc EXCEPT ![t] = where]
        /\ UNCHANGED <<attempt, result>>
    BY <1>2, Zenon DEF WaitForConfirms
  <2> QED
    BY <2>1, <1>idle DEF CallTypes, CallersApart, Callers
<1>3. ASSUME NEW t \in Threads, WaitTimesOut(t) PROVE CallersApart'
  <2>1. /\ pc[t] = "timedWaiting" /\ pc' = [pc EXCEPT ![t] = "idle"]
        /\ UNCHANGED <<attempt, result>>
    BY <1>3, Zenon DEF WaitTimesOut
  <2> QED
    BY <2>1, <1>idle DEF CallTypes, CallersApart, Callers
<1>4. ASSUME NEW w \in Workers, CallbackReturns(w) PROVE CallersApart'
  <2>1. /\ pc' = [p \in Callers |-> IF p \in taken[w] THEN "idle" ELSE pc[p]]
        /\ UNCHANGED <<attempt, result>>
    BY <1>4, Zenon DEF CallbackReturns
  <2>2. \A p \in taken[w] : pc[p] \notin Calling
    BY <1>idle DEF Waiters, Waiting
  <2> QED
    BY <2>1, <2>2, <1>idle DEF CallTypes, CallersApart
<1>5. CASE UNCHANGED callVars
  BY <1>5, Zenon DEF callVars, CallersApart
<1> QED
  BY <1>1, <1>2, <1>3, <1>4, <1>5, Zenon DEF Next, WorkerNext, ActionConfirm,
     EventLoopPublishes, BrokerJudges, HandleConfirmOnEventLoop, Destroy,
     PoolShutdown, vars

(* The threads that share a future stay in waitForConfirms.                *)
LEMMA WaitersStay ==
    ASSUME CallTypes, SharedTypes, PoolTypes, CallersApart, Waiters, [Next]_vars
    PROVE  Waiters'
<1>apart. \A x \in Waiting : x \notin Calling /\ x # "idle"
  BY DEF Waiting, Calling
<1>1. ASSUME NEW p \in Callers, CallerNext(p) PROVE Waiters'
  <2>1. UNCHANGED <<sharers, taken>>
    BY <1>1, Zenon DEF CallerNext, Send, TrySend, Acquire, SendTimesOut,
       TransformFails, RegisterUniqueCallback, RefuseDuplicate, PostPublish,
       sharedVars, poolVars
  <2>2. /\ pc[p] \notin Waiting
        /\ pc' = pc \/ \E x : pc' = [pc EXCEPT ![p] = x]
    BY <1>1, <1>apart, CallSteps, Zenon DEF MayCall, Goes, Returns
  <2> QED
    BY <2>1, <2>2 DEF Waiters, CallTypes, PoolTypes, SharedTypes, Callers
<1>2. ASSUME NEW t \in Threads, WaitForConfirms(t) PROVE Waiters'
  <2>1. /\ taken' = taken /\ pc[t] = "idle"
        /\ \/ pc' = pc /\ sharers' = sharers
           \/ /\ sharers' = sharers \cup {t}
              /\ \E where \in {"waiting", "timedWaiting"} :
                    pc' = [pc EXCEPT ![t] = where]
    BY <1>2, Zenon DEF WaitForConfirms, poolVars
  <2> QED
    BY <2>1 DEF Waiters, Waiting, CallTypes, PoolTypes, SharedTypes, Callers
<1>3. ASSUME NEW t \in Threads, WaitTimesOut(t) PROVE Waiters'
  <2>1. /\ pc' = [pc EXCEPT ![t] = "idle"] /\ sharers' = sharers \ {t}
        /\ taken' = [w \in Workers |-> taken[w] \ {t}]
    BY <1>3, Zenon DEF WaitTimesOut
  <2> QED
    BY <2>1 DEF Waiters, CallTypes, PoolTypes, SharedTypes, Callers
<1>4. ASSUME NEW w \in Workers, NEW a \in jobs, ActionConfirm(w, a) PROVE Waiters'
  <2>1. /\ pc' = pc
        /\ \/ sharers' = sharers /\ taken' = taken
           \/ sharers' = {} /\ taken' = [taken EXCEPT ![w] = sharers]
    BY <1>4, Zenon DEF ActionConfirm, callVars
  <2> QED
    BY <2>1 DEF Waiters, PoolTypes
<1>5. ASSUME NEW w \in Workers, CallbackReturns(w) PROVE Waiters'
  <2>1. /\ pc' = [p \in Callers |-> IF p \in taken[w] THEN "idle" ELSE pc[p]]
        /\ taken' = [taken EXCEPT ![w] = {}]
        /\ sharers' = sharers
    BY <1>5, Zenon DEF CallbackReturns, sharedVars
  <2> QED
    BY <2>1 DEF Waiters, CallTypes, PoolTypes, SharedTypes, Callers
<1>6. CASE UNCHANGED <<pc, sharers, taken>>
  BY <1>6, Zenon DEF Waiters
<1> QED
  BY <1>1, <1>2, <1>3, <1>4, <1>5, <1>6, Zenon DEF Next, WorkerNext,
     EventLoopPublishes, BrokerJudges, HandleConfirmOnEventLoop, Destroy,
     PoolShutdown, vars, callVars, sharedVars, poolVars

(* A step that returns another status than SENDING, or none, and leaves    *)
(* the event loop alone leaves the sent messages where they are.           *)
LEMMA NotSent ==
    ASSUME CallTypes, SharedTypes, PoolTypes, PostedOnce, Confirmed,
           UNCHANGED <<posted, response>>, jobs' \subseteq jobs,
           \/ result' = result
           \/ \E a \in Attempts, s \in SendStatuses \ {"SENDING"} :
                 result[a] = "none" /\ result' = [result EXCEPT ![a] = s]
    PROVE  PostedOnce' /\ Confirmed'
<1>1. \A a \in Attempts : result'[a] = "SENDING" <=> result[a] = "SENDING"
  BY DEF CallTypes
<1>2. \A i \in 1..Len(posted) : posted[i] \in Attempts
  BY DEF SharedTypes
<1> QED
  BY <1>1, <1>2 DEF PostedOnce, Confirmed, PoolTypes

(* A message that is sent is posted once, handed to the channel once, and  *)
(* confirmed once.                                                         *)
LEMMA SentStays ==
    ASSUME CallTypes, SharedTypes, PoolTypes, CallersApart, PostedOnce,
           Confirmed, [Next]_vars
    PROVE  PostedOnce' /\ Confirmed'
<1>v. "unsent" \notin Verdicts /\ "waiting" \notin Verdicts
  BY ProducerAssumption, Zenon
<1>s. {"TIMEOUT", "INFLIGHT_LIMIT", "TRANSFORM_ERROR", "DUPLICATE"}
        \subseteq SendStatuses \ {"SENDING"}
  BY DEF SendStatuses
<1>c. \A p \in Callers : pc[p] \in Calling =>
         attempt[p] \in Attempts /\ result[attempt[p]] = "none"
  BY MoveTypes, ProducerAssumption DEF CallersApart
<1>d. {"timedBlocked", "permitted", "duplicate", "registered"} \subseteq Calling
  BY DEF Calling
<1>1. ASSUME NEW p \in Callers, CallerNext(p), ~PostPublish(p)
      PROVE  PostedOnce' /\ Confirmed'
  <2>1. UNCHANGED <<posted, response, jobs>>
    BY <1>1, Zenon DEF CallerNext, Send, TrySend, Acquire, SendTimesOut,
       TransformFails, RegisterUniqueCallback, RefuseDuplicate, channelVars,
       poolVars
  <2>2. \/ result' = result
        \/ \E a \in Attempts, s \in SendStatuses \ {"SENDING"} :
              result[a] = "none" /\ result' = [result EXCEPT ![a] = s]
    BY <1>1, <1>s, <1>c, <1>d, Zenon DEF CallerNext, Send, TrySend, Acquire,
       SendTimesOut, TransformFails, RegisterUniqueCallback, RefuseDuplicate,
       Goes, Returns, MayCall
  <2> QED
    BY <2>1, <2>2, NotSent
<1>2. ASSUME NEW p \in Callers, PostPublish(p) PROVE PostedOnce' /\ Confirmed'
  <2> DEFINE a == attempt[p]
  <2>1. /\ posted' = Append(posted, a)
        /\ result' = [result EXCEPT ![a] = "SENDING"]
        /\ UNCHANGED <<response, jobs>>
        /\ pc[p] = "registered"
    BY <1>2, Zenon DEF PostPublish, Returns, channelVars, poolVars
  <2>2. a \in Attempts /\ result[a] = "none"
    BY <2>1, <1>c, <1>d
  <2>3. response[a] = "unsent"
    BY <2>2 DEF Confirmed
  <2> HIDE DEF a
  <2>4. /\ Len(posted') = Len(posted) + 1 /\ Len(posted) \in Nat
        /\ posted'[Len(posted) + 1] = a
        /\ \A i \in 1..Len(posted) : posted'[i] = posted[i] /\ posted[i] \in Attempts
                                       /\ posted[i] # a
    BY <2>1, <2>2 DEF SharedTypes, PostedOnce
  <2>5. PostedOnce'
    BY <2>1, <2>2, <2>3, <2>4 DEF PostedOnce, CallTypes, SharedTypes
  <2>6. Confirmed'
    <3>1. \A b \in Attempts : result'[b] # "SENDING" => response'[b] = "unsent"
      BY <2>1, <2>2, <2>3 DEF Confirmed, CallTypes
    <3>2. \A b \in Attempts : result'[b] = "SENDING" =>
             response'[b] # "unsent" \/ \E i \in 1..Len(posted') : posted'[i] = b
      BY <2>1, <2>2, <2>4 DEF Confirmed, CallTypes
    <3> QED
      BY <3>1, <3>2, <2>1 DEF Confirmed
  <2> QED
    BY <2>5, <2>6
<1>3. CASE EventLoopPublishes
  <2> DEFINE a == Head(posted)
  <2>1. /\ posted # <<>> /\ posted' = Tail(posted)
        /\ response' = [response EXCEPT ![a] = "waiting"]
        /\ UNCHANGED <<result, jobs>>
    BY <1>3, Zenon DEF EventLoopPublishes, Sender!Accept, callVars, poolVars
  <2>2. a = posted[1] /\ 1 \in 1..Len(posted) /\ a \in Attempts
    BY <2>1 DEF SharedTypes
  <2>3. response[a] = "unsent" /\ result[a] = "SENDING"
    BY <2>2 DEF PostedOnce
  <2> HIDE DEF a
  <2>4. /\ Len(posted') = Len(posted) - 1 /\ Len(posted) \in Nat
        /\ \A i \in 1..Len(posted') : /\ posted'[i] = posted[i + 1]
                                      /\ i + 1 \in 1..Len(posted)
                                      /\ posted[i + 1] \in Attempts
    BY <2>1, <2>2 DEF SharedTypes
  <2>5. \A i \in 1..Len(posted') : posted'[i] # a
    BY <2>2, <2>4 DEF PostedOnce
  <2>6. PostedOnce'
    BY <2>1, <2>4, <2>5 DEF PostedOnce, SharedTypes
  <2>7. \A b \in Attempts \ {a}, i \in 1..Len(posted) :
           posted[i] = b => i - 1 \in 1..Len(posted') /\ posted'[i - 1] = b
    BY <2>2, <2>4
  <2>8. a \notin jobs
    BY <2>3, <1>v DEF Confirmed
  <2>9. Confirmed'
    <3>1. /\ \A b \in Attempts : result'[b] # "SENDING" => response'[b] = "unsent"
          /\ \A b \in jobs' : response'[b] \in Verdicts
      BY <2>1, <2>3, <2>8 DEF Confirmed, SharedTypes, PoolTypes
    <3>2. \A b \in Attempts : result'[b] = "SENDING" =>
             response'[b] # "unsent" \/ \E i \in 1..Len(posted') : posted'[i] = b
      BY <2>1, <2>2, <2>7 DEF Confirmed, SharedTypes
    <3> QED
      BY <3>1, <3>2 DEF Confirmed
  <2> QED
    BY <2>6, <2>9
<1>4. CASE HandleConfirmOnEventLoop
  <2>1. /\ UNCHANGED <<posted, result>>
        /\ \/ jobs' = jobs
           \/ jobs' = jobs \cup {a \in Attempts : response'[a] # response[a]}
    BY <1>4, Zenon DEF HandleConfirmOnEventLoop, callVars
  <2>2. /\ response' \in [Attempts -> Verdicts \cup {"unsent", "waiting"}]
        /\ \A a \in Attempts : response'[a] # response[a]
              => response[a] = "waiting" /\ response'[a] \in Verdicts
    BY <1>4, ConfirmType, Zenon DEF HandleConfirmOnEventLoop
  <2>3. \A a \in Attempts : response'[a] = "unsent" <=> response[a] = "unsent"
    BY <2>2, <1>v
  <2>4. \A i \in 1..Len(posted) : posted[i] \in Attempts
    BY DEF SharedTypes
  <2>5. \A a \in jobs' : response'[a] \in Verdicts
    BY <2>1, <2>2 DEF Confirmed, PoolTypes
  <2> QED
    BY <2>1, <2>3, <2>4, <2>5 DEF PostedOnce, Confirmed
<1>5. CASE \/ \E t \in Threads : WaitForConfirms(t) \/ WaitTimesOut(t)
           \/ \E w \in Workers : WorkerNext(w)
           \/ BrokerJudges \/ Destroy \/ PoolShutdown \/ UNCHANGED vars
  <2>1. UNCHANGED <<posted, response, result>>
    BY <1>5, Zenon DEF WaitForConfirms, WaitTimesOut, WorkerNext, CallbackReturns,
       ActionConfirm, BrokerJudges, Sender!Judge, Destroy, PoolShutdown, vars,
       callVars, channelVars
  <2>2. jobs' = jobs \/ jobs' = {} \/ \E a \in jobs : jobs' = jobs \ {a}
    BY <1>5, Zenon DEF WaitForConfirms, WaitTimesOut, WorkerNext, CallbackReturns,
       ActionConfirm, BrokerJudges, Destroy, PoolShutdown, vars, poolVars
  <2>3. jobs' \subseteq jobs
    BY <2>2
  <2> QED
    BY <2>1, <2>3, NotSent
<1> QED
  BY <1>1, <1>2, <1>3, <1>4, <1>5, Zenon DEF Next

(* A new producer has sent nothing.                                        *)
LEMMA InitControl == Init => Control
<1> SUFFICES ASSUME Init PROVE Control
  OBVIOUS
<1>1. /\ pc = [p \in Callers |-> "idle"] /\ attempt = [p \in Callers |-> NoAttempt]
      /\ result = [a \in Attempts |-> "none"] /\ posted = <<>> /\ jobs = {}
      /\ response = [a \in Attempts |-> "unsent"] /\ sharers = {}
      /\ taken = [w \in Workers |-> {}]
  BY Zenon DEF Init, Sender!Init
<1> QED
  BY <1>1 DEF Control, CallersApart, PostedOnce, Confirmed, Waiters, Calling

(* Every variable keeps its type, and every attempt is in one place, along *)
(* every step.                                                             *)
LEMMA StepControl == TypeOK /\ Control /\ [Next]_vars => TypeOK' /\ Control'
<1> SUFFICES ASSUME TypeOK, Control, [Next]_vars PROVE TypeOK' /\ Control'
  OBVIOUS
<1>1. Flags /\ CallTypes /\ SharedTypes /\ PoolTypes
  BY TypeParts, Zenon
<1>2. CallersApart /\ PostedOnce /\ Confirmed /\ Waiters
  BY Zenon DEF Control
<1>3. CallTypes' /\ SharedTypes' /\ PoolTypes'
  BY <1>1, <1>2, CallerTypes, OtherTypes, Zenon DEF Next
<1>4. CallersApart' /\ PostedOnce' /\ Confirmed' /\ Waiters'
  BY <1>1, <1>2, CallersStayApart, WaitersStay, SentStays, Zenon
<1> QED
  BY <1>1, <1>3, <1>4, FlagsType, TypeParts, Zenon DEF Control

(* Every variable of ProducerImpl keeps its type, for any number of        *)
(* threads, pool threads, sends and permits; in particular the semaphore   *)
(* never goes below zero.                                                  *)
THEOREM TypeCorrect == Spec => []TypeOK
<1>1. Init => TypeOK /\ Control
  BY InitTypeOK, InitControl
<1> QED
  BY <1>1, StepControl, PTL DEF Spec

-----------------------------------------------------------------------------
(* The callback a confirm looks for                                        *)

(* The attempts whose caller is about to post.                             *)
Registered == {a \in Attempts :
                 \E p \in Callers : pc[p] = "registered" /\ attempt[p] = a}

(* The attempts the event loop has been posted.                            *)
OnLoop == {a \in Attempts : \E i \in 1..Len(posted) : posted[i] = a}

(* The attempts the channel has accepted.                                  *)
InChannel == {a \in Attempts : response[a] = "waiting"}

(* InFlight by its four parts.                                             *)
LEMMA FlightParts ==
    /\ jobs \subseteq Attempts =>
          InFlight = Registered \cup OnLoop \cup InChannel \cup jobs
    /\ jobs' \subseteq Attempts =>
          InFlight' = Registered' \cup OnLoop' \cup InChannel' \cup jobs'
  BY Zenon DEF InFlight, Registered, OnLoop, InChannel

(* What a caller's step does to the attempts about to be posted.           *)
LEMMA RegisteredStep ==
    ASSUME CallTypes, CallersApart, NEW p \in Callers, NEW a \in Attempts
    PROVE  /\ \A where \in PCs \ {"registered"} :
                 pc[p] # "registered" /\ Goes(p, a, where) => Registered' = Registered
           /\ \A s \in SendStatuses :
                 pc[p] # "registered" /\ Returns(p, s) => Registered' = Registered
           /\ a = attempt[p] /\ pc[p] # "registered" /\ Goes(p, a, "registered")
                 => Registered' = Registered \cup {a}
           /\ a = attempt[p] /\ pc[p] = "registered" /\ Returns(p, "SENDING")
                 => Registered = Registered' \cup {a}
  BY DEF CallTypes, CallersApart, Goes, Returns, Registered

(* A step that leaves the messages in flight and their callbacks alone     *)
(* keeps CallbackFound, and so does one that loses messages at the end of  *)
(* the producer or of the pool.                                            *)
LEMMA FoundStays ==
    ASSUME CallbackFound, callbackMap' = callbackMap,
           \/ InFlight' = InFlight /\ isValid' = isValid /\ poolEnabled' = poolEnabled
           \/ InFlight' \subseteq InFlight /\ ~(isValid' /\ poolEnabled')
    PROVE  CallbackFound'
<1>1. CASE InFlight' = InFlight /\ isValid' = isValid /\ poolEnabled' = poolEnabled
  BY <1>1, Zenon DEF CallbackFound
<1>2. CASE InFlight' \subseteq InFlight /\ ~(isValid' /\ poolEnabled')
  <2>1. InFlight' \subseteq callbackMap'
    BY <1>2 DEF CallbackFound
  <2> QED
    BY <2>1, <1>2, Zenon DEF CallbackFound
<1> QED
  BY <1>1, <1>2

(* The steps of send and trySend keep CallbackFound.                       *)
LEMMA CallerFound ==
    ASSUME CallTypes, SharedTypes, PoolTypes, CallersApart, CallbackFound,
           NEW p \in Callers, CallerNext(p)
    PROVE  CallbackFound'
<1>j. jobs \subseteq Attempts /\ jobs' = jobs
  BY Zenon DEF PoolTypes, CallerNext, Send, TrySend, Acquire, SendTimesOut,
     TransformFails, RegisterUniqueCallback, RefuseDuplicate, PostPublish, poolVars
<1>c. /\ InChannel' = InChannel /\ isValid' = isValid /\ poolEnabled' = poolEnabled
  BY Zenon DEF CallerNext, Send, TrySend, Acquire, SendTimesOut,
     TransformFails, RegisterUniqueCallback, RefuseDuplicate, PostPublish,
     poolVars, sharedVars, channelVars, InChannel
<1>a. pc[p] \in Calling => attempt[p] \in Attempts
  BY MoveTypes
<1>s. /\ {"blocked", "timedBlocked", "permitted", "duplicate"} \subseteq Calling
      /\ {"blocked", "timedBlocked", "permitted", "duplicate"} \subseteq PCs \ {"registered"}
      /\ {"TIMEOUT", "TRANSFORM_ERROR", "DUPLICATE"} \subseteq SendStatuses
      /\ "registered" \in Calling /\ "registered" \notin {"blocked", "timedBlocked", "permitted", "duplicate", "idle"}
  BY DEF Calling, PCs, SendStatuses
<1>1. ASSUME NEW a \in Attempts, Send(p, a) \/ TrySend(p, a) PROVE CallbackFound'
  <2>1. callbackMap' = callbackMap /\ posted' = posted
    BY <1>1, Zenon DEF Send, TrySend, sharedVars
  <2>2. pc[p] = "idle" /\ (\/ \E where \in {"blocked", "timedBlocked", "permitted"} :
                                 Goes(p, a, where)
                           \/ UNCHANGED <<pc, attempt>>)
    BY <1>1, Zenon DEF Send, TrySend, MayCall
  <2>3. Registered' = Registered
    <3>1. pc[p] # "registered"
      BY <2>2
    <3>2. UNCHANGED <<pc, attempt>> => Registered' = Registered
      BY Zenon DEF Registered
    <3>3. ASSUME NEW where \in {"blocked", "timedBlocked", "permitted"},
                 Goes(p, a, where)
          PROVE  Registered' = Registered
      <4>1. where \in PCs \ {"registered"}
        BY DEF PCs
      <4> QED
        BY <3>1, <3>3, <4>1, RegisteredStep, Zenon
    <3> QED
      BY <2>2, <3>2, <3>3, Zenon
  <2>4. OnLoop' = OnLoop
    BY <2>1, Zenon DEF OnLoop
  <2> QED
    BY <2>1, <2>3, <2>4, <1>c, <1>j, FlightParts, FoundStays, Zenon
<1>2. CASE Acquire(p) \/ SendTimesOut(p) \/ TransformFails(p) \/ RefuseDuplicate(p)
             \/ (RegisterUniqueCallback(p) /\ Goes(p, attempt[p], "duplicate"))
  <2>1. posted' = posted
    BY <1>2, Zenon DEF Acquire, SendTimesOut, TransformFails, RefuseDuplicate,
       RegisterUniqueCallback, sharedVars
  <2>2. /\ pc[p] \in {"blocked", "timedBlocked", "permitted", "duplicate"}
        /\ \/ \E where \in {"permitted", "duplicate"} : Goes(p, attempt[p], where)
           \/ \E s \in {"TIMEOUT", "TRANSFORM_ERROR", "DUPLICATE"} : Returns(p, s)
    BY <1>2, Zenon DEF Acquire, SendTimesOut, TransformFails, RefuseDuplicate,
       RegisterUniqueCallback
  <2>3. Registered' = Registered
    BY <2>2, <1>s, <1>a, RegisteredStep, Zenon
  <2>4. OnLoop' = OnLoop
    BY <2>1, Zenon DEF OnLoop
  <2>5. callbackMap' = callbackMap
    <3>1. CASE RegisterUniqueCallback(p) /\ Goes(p, attempt[p], "duplicate")
      <4>1. pc'[p] = "duplicate"
        BY <3>1 DEF Goes, CallTypes
      <4>2. ~Goes(p, attempt[p], "registered")
        BY <4>1 DEF Goes, CallTypes
      <4> QED
        BY <3>1, <4>2, Zenon DEF RegisterUniqueCallback
    <3> QED
      BY <1>2, <3>1, Zenon DEF Acquire, SendTimesOut, TransformFails,
         RefuseDuplicate, sharedVars
  <2> QED
    BY <2>3, <2>4, <2>5, <1>c, <1>j, FlightParts, FoundStays, Zenon
<1>3. CASE RegisterUniqueCallback(p) /\ ~Goes(p, attempt[p], "duplicate")
  <2> DEFINE a == attempt[p]
  <2>1. /\ pc[p] = "permitted" /\ posted' = posted
        /\ ~ \E b \in callbackMap : Guid[b] = Guid[a]
        /\ callbackMap' = callbackMap \cup {a}
        /\ Goes(p, a, "registered")
    BY <1>3, Zenon DEF RegisterUniqueCallback
  <2>2. a \in Attempts
    BY <2>1, <1>a, <1>s, Zenon
  <2> HIDE DEF a
  <2>3. Registered' = Registered \cup {a}
    <3>1. pc[p] # "registered"
      BY <2>1, <1>s
    <3> QED
      BY <2>1, <2>2, <3>1, RegisteredStep, Zenon DEF a
  <2>4. OnLoop' = OnLoop
    BY <2>1, Zenon DEF OnLoop
  <2>5. InFlight' = InFlight \cup {a}
    BY <2>3, <2>4, <1>c, <1>j, FlightParts
  <2>6. \A b, c \in callbackMap' : Guid[b] = Guid[c] => b = c
    BY <2>1, Zenon DEF CallbackFound
  <2>7. InFlight' \subseteq callbackMap'
    BY <2>1, <2>5, Zenon DEF CallbackFound
  <2>8. isValid' /\ poolEnabled' => callbackMap' \subseteq InFlight'
    BY <2>1, <2>5, <1>c, Zenon DEF CallbackFound
  <2> QED
    BY <2>6, <2>7, <2>8, Zenon DEF CallbackFound
<1>4. CASE PostPublish(p)
  <2> DEFINE a == attempt[p]
  <2>1. /\ pc[p] = "registered" /\ callbackMap' = callbackMap
        /\ posted' = Append(posted, a) /\ Returns(p, "SENDING")
    BY <1>4, Zenon DEF PostPublish, sharedVars
  <2>2. a \in Attempts
    BY <2>1, <1>a, <1>s, Zenon
  <2> HIDE DEF a
  <2>3. Registered = Registered' \cup {a}
    BY <2>1, <2>2, RegisteredStep, Zenon DEF a
  <2>4. OnLoop' = OnLoop \cup {a}
    <3>1. /\ Len(posted') = Len(posted) + 1 /\ Len(posted) \in Nat
          /\ posted'[Len(posted) + 1] = a
          /\ \A i \in 1..Len(posted) : posted'[i] = posted[i]
      BY <2>1, <2>2 DEF SharedTypes
    <3>2. ASSUME NEW b \in Attempts
          PROVE  b \in OnLoop' <=> b \in OnLoop \cup {a}
      BY <3>1 DEF OnLoop
    <3> QED
      BY <3>2, <2>2 DEF OnLoop
  <2>5. InFlight' = InFlight
    BY <2>3, <2>4, <1>c, <1>j, FlightParts
  <2> QED
    BY <2>1, <2>5, <1>c, FoundStays, Zenon
<1> QED
  BY <1>1, <1>2, <1>3, <1>4, Zenon DEF CallerNext

(* The event loop, the pool and waitForConfirms keep CallbackFound.        *)
LEMMA OtherFound ==
    ASSUME CallTypes, SharedTypes, PoolTypes, Control, CallbackFound,
           Flags, PoolTypes',
           \/ \E t \in Threads : WaitForConfirms(t) \/ WaitTimesOut(t)
           \/ \E w \in Workers : WorkerNext(w)
           \/ EventLoopPublishes \/ BrokerJudges \/ HandleConfirmOnEventLoop
           \/ Destroy \/ PoolShutdown \/ UNCHANGED vars
    PROVE  CallbackFound'
<1>v. "unsent" \notin Verdicts /\ "waiting" \notin Verdicts /\ NoAttempt \notin Attempts
  BY ProducerAssumption, Zenon
<1>j. jobs \subseteq Attempts /\ jobs' \subseteq Attempts
  BY DEF PoolTypes
<1>n. /\ "registered" \notin Waiting /\ "waiting" # "registered"
      /\ "timedWaiting" # "registered" /\ "idle" # "registered"
  BY DEF Waiting
<1>w. Waiters /\ CallersApart /\ PostedOnce /\ Confirmed
  BY Zenon DEF Control
<1>1. ASSUME NEW t \in Threads, WaitForConfirms(t) \/ WaitTimesOut(t)
      PROVE  CallbackFound'
  <2>1. UNCHANGED <<callbackMap, isValid, poolEnabled, posted, response, jobs, attempt>>
    BY <1>1, Zenon DEF WaitForConfirms, WaitTimesOut, poolVars, channelVars
  <2>2. /\ pc[t] = "idle" \/ pc[t] = "timedWaiting"
        /\ \/ pc' = pc
           \/ \E where \in {"waiting", "timedWaiting", "idle"} :
                 pc' = [pc EXCEPT ![t] = where]
    BY <1>1, Zenon DEF WaitForConfirms, WaitTimesOut
  <2>3. Registered' = Registered
    BY <2>1, <2>2, <1>n DEF Registered, CallTypes
  <2>4. OnLoop' = OnLoop /\ InChannel' = InChannel
    BY <2>1, Zenon DEF OnLoop, InChannel
  <2> QED
    BY <2>1, <2>3, <2>4, <1>j, FlightParts, FoundStays, Zenon
<1>2. ASSUME NEW w \in Workers, CallbackReturns(w) PROVE CallbackFound'
  <2>1. /\ UNCHANGED <<callbackMap, isValid, poolEnabled, posted, response, jobs, attempt>>
        /\ pc' = [p \in Callers |-> IF p \in taken[w] THEN "idle" ELSE pc[p]]
    BY <1>2, Zenon DEF CallbackReturns, channelVars, sharedVars
  <2>2. Registered' = Registered
    BY <2>1, <1>n, <1>w DEF Registered, CallTypes, Waiters
  <2>3. OnLoop' = OnLoop /\ InChannel' = InChannel
    BY <2>1, Zenon DEF OnLoop, InChannel
  <2> QED
    BY <2>1, <2>2, <2>3, <1>j, FlightParts, FoundStays, Zenon
<1>3. ASSUME NEW w \in Workers, NEW a \in jobs, ActionConfirm(w, a)
      PROVE  CallbackFound'
  <2>1. /\ UNCHANGED <<isValid, poolEnabled, posted, response, pc, attempt>>
        /\ jobs' = jobs \ {a}
    BY <1>3, Zenon DEF ActionConfirm, channelVars, callVars
  <2>2. Registered' = Registered /\ OnLoop' = OnLoop /\ InChannel' = InChannel
    BY <2>1, Zenon DEF Registered, OnLoop, InChannel
  <2>3. a \in Attempts /\ response[a] \in Verdicts
    BY <1>w, <1>j DEF Confirmed
  <2>4. result[a] = "SENDING"
    BY <2>3, <1>w, <1>v DEF Confirmed
  <2>5. a \notin Registered /\ a \notin OnLoop /\ a \notin InChannel
    <3>1. a \notin OnLoop /\ a \notin InChannel
      BY <2>3, <1>w, <1>v DEF OnLoop, InChannel, PostedOnce
    <3>2. a \notin Registered
      BY <2>3, <2>4, <1>w, <1>v DEF Registered, CallersApart
    <3> QED
      BY <3>1, <3>2
  <2>6. InFlight' = InFlight \ {a}
    BY <2>1, <2>2, <2>5, <1>j, FlightParts
  <2>7. a \in callbackMap
    BY <1>3, <1>j, FlightParts DEF CallbackFound
  <2>8. CASE isValid
    <3>1. PICK e \in callbackMap : Guid[e] = Guid[a] /\ callbackMap' = callbackMap \ {e}
      BY <1>3, <2>7, <2>8, Zenon DEF ActionConfirm
    <3>2. e = a
      BY <3>1, <2>7, Zenon DEF CallbackFound
    <3>3. callbackMap' = callbackMap \ {a}
      BY <3>1, <3>2
    <3>4. InFlight' \subseteq callbackMap'
      BY <3>3, <2>6, Zenon DEF CallbackFound
    <3>5. isValid' /\ poolEnabled' => callbackMap' \subseteq InFlight'
      BY <3>3, <2>1, <2>6, Zenon DEF CallbackFound
    <3>6. \A b, c \in callbackMap' : Guid[b] = Guid[c] => b = c
      BY <3>3, Zenon DEF CallbackFound
    <3> QED
      BY <3>4, <3>5, <3>6, Zenon DEF CallbackFound
  <2>9. CASE ~isValid
    <3>1. callbackMap' = callbackMap
      BY <1>3, <2>9, Zenon DEF ActionConfirm
    <3>2. InFlight' \subseteq InFlight
      BY <2>6
    <3> QED
      BY <3>1, <3>2, <2>1, <2>9, FoundStays, Zenon
  <2> QED
    BY <2>8, <2>9
<1>4. CASE EventLoopPublishes
  <2> DEFINE a == Head(posted)
  <2>1. /\ posted # <<>> /\ posted' = Tail(posted)
        /\ response' = [response EXCEPT ![a] = "waiting"]
        /\ UNCHANGED <<callbackMap, isValid, poolEnabled, pc, attempt, jobs>>
    BY <1>4, Zenon DEF EventLoopPublishes, Sender!Accept, callVars, sharedVars, poolVars
  <2>2. a = posted[1] /\ 1 \in 1..Len(posted) /\ a \in Attempts
    BY <2>1 DEF SharedTypes
  <2> HIDE DEF a
  <2>3. OnLoop = OnLoop' \cup {a}
    <3>1. /\ Len(posted') = Len(posted) - 1 /\ Len(posted) \in Nat
          /\ \A i \in 1..Len(posted') : posted'[i] = posted[i + 1]
      BY <2>1, <2>2 DEF SharedTypes
    <3>2. ASSUME NEW b \in OnLoop' PROVE b \in OnLoop
      <4>1. PICK i \in 1..Len(posted') : posted'[i] = b
        BY <3>2 DEF OnLoop
      <4>2. i + 1 \in 1..Len(posted) /\ posted[i + 1] = b
        BY <3>1, <4>1
      <4> QED
        BY <3>2, <4>2 DEF OnLoop
    <3>3. ASSUME NEW b \in OnLoop, b # a PROVE b \in OnLoop'
      <4>1. PICK i \in 1..Len(posted) : posted[i] = b
        BY <3>3 DEF OnLoop
      <4>2. i - 1 \in 1..Len(posted') /\ posted'[i - 1] = b
        BY <3>1, <3>3, <4>1, <2>2
      <4> QED
        BY <3>3, <4>2 DEF OnLoop
    <3> QED
      BY <3>2, <3>3, <2>2 DEF OnLoop
  <2>4. InChannel' = InChannel \cup {a}
    BY <2>1, <2>2 DEF InChannel, SharedTypes
  <2>5. Registered' = Registered
    BY <2>1, Zenon DEF Registered
  <2>6. InFlight' = InFlight
    BY <2>1, <2>3, <2>4, <2>5, <1>j, FlightParts
  <2> QED
    BY <2>1, <2>6, FoundStays, Zenon
<1>5. CASE HandleConfirmOnEventLoop
  <2>1. /\ UNCHANGED <<callbackMap, isValid, poolEnabled, pc, attempt, posted>>
        /\ poolEnabled => jobs' = jobs \cup {b \in Attempts : response'[b] # response[b]}
        /\ ~poolEnabled => jobs' = jobs
    BY <1>5, Zenon DEF HandleConfirmOnEventLoop, callVars, sharedVars
  <2>2. \A b \in Attempts : response'[b] # response[b]
              => response[b] = "waiting" /\ response'[b] \in Verdicts
    BY <1>5, ConfirmType, Zenon DEF HandleConfirmOnEventLoop
  <2>3. Registered' = Registered /\ OnLoop' = OnLoop
    BY <2>1, Zenon DEF Registered, OnLoop
  <2>4. InChannel' = InChannel \ {b \in Attempts : response'[b] # response[b]}
    BY <2>2, <1>v DEF InChannel
  <2>5. {b \in Attempts : response'[b] # response[b]} \subseteq InChannel
    BY <2>2 DEF InChannel
  <2> DEFINE new == {b \in Attempts : response'[b] # response[b]}
  <2> HIDE DEF new
  <2>6. CASE poolEnabled
    <3>1. InFlight' = InFlight
      <4>1. jobs' = jobs \cup new /\ InChannel' = InChannel \ new /\ new \subseteq InChannel
        BY <2>1, <2>4, <2>5, <2>6, Zenon DEF new
      <4> QED
        BY <4>1, <2>3, <1>j, FlightParts
    <3> QED
      BY <3>1, <2>1, FoundStays, Zenon
  <2>7. CASE ~poolEnabled
    <3>1. InFlight' \subseteq InFlight
      BY <2>1, <2>3, <2>4, <2>7, <1>j, FlightParts
    <3> QED
      BY <3>1, <2>1, <2>7, FoundStays, Zenon
  <2> QED
    BY <2>6, <2>7
<1>6. CASE Destroy \/ PoolShutdown
  <2>1. /\ UNCHANGED <<callbackMap, pc, attempt, posted, response>>
        /\ ~(isValid' /\ poolEnabled')
        /\ jobs' = jobs \/ jobs' = {}
    BY <1>6, Zenon DEF Destroy, PoolShutdown, callVars, sharedVars, channelVars, poolVars
  <2>2. Registered' = Registered /\ OnLoop' = OnLoop /\ InChannel' = InChannel
    BY <2>1, Zenon DEF Registered, OnLoop, InChannel
  <2>3. InFlight' \subseteq InFlight
    BY <2>1, <2>2, <1>j, FlightParts
  <2> QED
    BY <2>1, <2>3, FoundStays, Zenon
<1>7. CASE BrokerJudges \/ UNCHANGED vars
  <2>1. UNCHANGED <<callbackMap, isValid, poolEnabled, pc, attempt, posted, response, jobs>>
    BY <1>7, Zenon DEF BrokerJudges, Sender!Judge, vars, callVars, sharedVars,
       channelVars, poolVars
  <2>2. InFlight' = InFlight
    BY <2>1, Zenon DEF InFlight
  <2> QED
    BY <2>1, <2>2, FoundStays, Zenon
<1> QED
  BY <1>1, <1>2, <1>3, <1>4, <1>5, <1>6, <1>7, Zenon DEF WorkerNext

-----------------------------------------------------------------------------
(* The permits of outstandingMessagesCap                                   *)

(* PermitsConserved counts a finite map.                                   *)
Ledger == IsFiniteSet(callbackMap) /\ PermitsConserved

(* There are finitely many callers, so Holders can be counted.             *)
LEMMA HoldersFinite ==
    /\ IsFiniteSet(Holders)
    /\ IsFiniteSet(Holders')
<1>1. IsFiniteSet(Callers)
  BY ProducerAssumption, FS_Union DEF Callers
<1>2. Holders \subseteq Callers /\ Holders' \subseteq Callers
  BY Zenon DEF Holders
<1> QED
  BY <1>1, <1>2, FS_Subset

(* One more or one less holder, entry or permit.                           *)
LEMMA LedgerMoves ==
    ASSUME permits \in Nat, Ledger
    PROVE  /\ UNCHANGED permits /\ Holders' = Holders /\ UNCHANGED callbackMap
                => Ledger'
           /\ \A p : /\ permits > 0 /\ permits' = permits - 1 /\ p \notin Holders
                     /\ Holders' = Holders \cup {p} /\ UNCHANGED callbackMap
                => Ledger'
           /\ \A p : /\ permits' = permits + 1 /\ p \in Holders
                     /\ Holders' = Holders \ {p} /\ UNCHANGED callbackMap
                => Ledger'
           /\ \A p, a : /\ UNCHANGED permits /\ p \in Holders /\ a \notin callbackMap
                        /\ Holders' = Holders \ {p} /\ callbackMap' = callbackMap \cup {a}
                => Ledger'
           /\ \A e : /\ permits' = permits + 1 /\ e \in callbackMap
                     /\ Holders' = Holders /\ callbackMap' = callbackMap \ {e}
                => Ledger'
<1>1. /\ Cardinality(Holders) \in Nat /\ Cardinality(callbackMap) \in Nat
  BY HoldersFinite, FS_CardinalityType DEF Ledger
<1>2. \A p : p \notin Holders => Cardinality(Holders \cup {p}) = Cardinality(Holders) + 1
  BY HoldersFinite, FS_AddElement
<1>3. \A p : p \in Holders => Cardinality(Holders \ {p}) = Cardinality(Holders) - 1
  BY HoldersFinite, FS_RemoveElement
<1>4. \A a : a \notin callbackMap =>
         /\ IsFiniteSet(callbackMap \cup {a})
         /\ Cardinality(callbackMap \cup {a}) = Cardinality(callbackMap) + 1
  BY FS_AddElement DEF Ledger
<1>5. \A e : e \in callbackMap =>
         /\ IsFiniteSet(callbackMap \ {e})
         /\ Cardinality(callbackMap \ {e}) = Cardinality(callbackMap) - 1
  BY FS_RemoveElement DEF Ledger
<1>6. permits + Cardinality(Holders) + Cardinality(callbackMap) = MaxOutstandingConfirms
  BY Zenon DEF Ledger, PermitsConserved
<1> DEFINE Sum == permits' + Cardinality(Holders') + Cardinality(callbackMap')
                    = MaxOutstandingConfirms
<1>7. IsFiniteSet(callbackMap') /\ Sum => Ledger'
  BY Zenon DEF Ledger, PermitsConserved
<1>a. UNCHANGED permits /\ Holders' = Holders /\ UNCHANGED callbackMap => Ledger'
  BY <1>6, <1>7, Zenon DEF Ledger
<1>b. ASSUME NEW p, permits > 0, permits' = permits - 1, p \notin Holders,
             Holders' = Holders \cup {p}, UNCHANGED callbackMap
      PROVE  Ledger'
  <2>1. Cardinality(Holders') = Cardinality(Holders) + 1
    BY <1>b, <1>2, Zenon
  <2>2. Sum
    BY <1>b, <2>1, <1>1, <1>6
  <2> QED
    BY <1>b, <2>2, <1>7, Zenon DEF Ledger
<1>c. ASSUME NEW p, permits' = permits + 1, p \in Holders,
             Holders' = Holders \ {p}, UNCHANGED callbackMap
      PROVE  Ledger'
  <2>1. Cardinality(Holders') = Cardinality(Holders) - 1
    BY <1>c, <1>3, Zenon
  <2>2. Sum
    BY <1>c, <2>1, <1>1, <1>6
  <2> QED
    BY <1>c, <2>2, <1>7, Zenon DEF Ledger
<1>d. ASSUME NEW p, NEW a, UNCHANGED permits, p \in Holders, a \notin callbackMap,
             Holders' = Holders \ {p}, callbackMap' = callbackMap \cup {a}
      PROVE  Ledger'
  <2>1. /\ Cardinality(Holders') = Cardinality(Holders) - 1
        /\ Cardinality(callbackMap') = Cardinality(callbackMap) + 1
        /\ IsFiniteSet(callbackMap')
    BY <1>d, <1>3, <1>4, Zenon
  <2>2. Sum
    BY <1>d, <2>1, <1>1, <1>6
  <2> QED
    BY <2>1, <2>2, <1>7, Zenon
<1>e. ASSUME NEW e, permits' = permits + 1, e \in callbackMap,
             Holders' = Holders, callbackMap' = callbackMap \ {e}
      PROVE  Ledger'
  <2>1. /\ Cardinality(callbackMap') = Cardinality(callbackMap) - 1
        /\ Cardinality(Holders') = Cardinality(Holders)
        /\ IsFiniteSet(callbackMap')
    BY <1>e, <1>5, Zenon
  <2>2. Sum
    BY <1>e, <2>1, <1>1, <1>6
  <2> QED
    BY <2>1, <2>2, <1>7, Zenon
<1> QED
  BY <1>a, <1>b, <1>c, <1>d, <1>e, Zenon

(* What a caller's step does to the set of holders.                        *)
LEMMA HoldersStep ==
    ASSUME CallTypes, NEW p \in Callers
    PROVE  /\ \A a, where : Goes(p, a, where) =>
                 Holders' = IF where \in {"permitted", "duplicate"}
                            THEN Holders \cup {p} ELSE Holders \ {p}
           /\ \A s : Returns(p, s) => Holders' = Holders \ {p}
           /\ p \in Holders <=> pc[p] \in {"permitted", "duplicate"}
  BY DEF CallTypes, Goes, Returns, Holders

(* The calls of send and trySend, the confirms and waitForConfirms keep    *)
(* the permits in balance.                                                 *)
LEMMA LedgerStep ==
    ASSUME CallTypes, permits \in Nat, Waiters, Ledger, [Next]_vars
    PROVE  Ledger'
<1>1. ASSUME NEW p \in Callers, NEW a \in Attempts, Send(p, a) PROVE Ledger'
  <2>1. /\ pc[p] = "idle" /\ UNCHANGED <<permits, callbackMap>>
        /\ Goes(p, a, "blocked") \/ Goes(p, a, "timedBlocked")
    BY <1>1, Zenon DEF Send, MayCall, sharedVars
  <2>2. Holders' = Holders
    BY <2>1, HoldersStep
  <2> QED
    BY <2>1, <2>2, LedgerMoves, Zenon
<1>2. ASSUME NEW p \in Callers, NEW a \in Attempts, TrySend(p, a) PROVE Ledger'
  <2>1. pc[p] = "idle" /\ UNCHANGED callbackMap
    BY <1>2, Zenon DEF TrySend, MayCall
  <2>2. CASE permits > 0
    <3>1. permits' = permits - 1 /\ Goes(p, a, "permitted")
      BY <1>2, <2>2, Zenon DEF TrySend
    <3>2. p \notin Holders /\ Holders' = Holders \cup {p}
      BY <3>1, <2>1, HoldersStep
    <3> QED
      BY <2>1, <2>2, <3>1, <3>2, LedgerMoves, Zenon
  <2>3. CASE ~(permits > 0)
    <3>1. UNCHANGED <<permits, pc>>
      BY <1>2, <2>3, Zenon DEF TrySend
    <3> QED
      BY <2>1, <3>1, LedgerMoves, Zenon DEF Holders
  <2> QED
    BY <2>2, <2>3, Zenon
<1>3. ASSUME NEW p \in Callers, Acquire(p) PROVE Ledger'
  <2>1. /\ pc[p] \in {"blocked", "timedBlocked"} /\ permits > 0
        /\ permits' = permits - 1 /\ Goes(p, attempt[p], "permitted")
        /\ UNCHANGED callbackMap
    BY <1>3, Zenon DEF Acquire
  <2>2. p \notin Holders /\ Holders' = Holders \cup {p}
    BY <2>1, HoldersStep
  <2> QED
    BY <2>1, <2>2, LedgerMoves, Zenon
<1>4. ASSUME NEW p \in Callers, SendTimesOut(p) \/ PostPublish(p) PROVE Ledger'
  <2>1. /\ pc[p] \in {"timedBlocked", "registered"}
        /\ UNCHANGED <<permits, callbackMap>>
        /\ \E s : Returns(p, s)
    BY <1>4, Zenon DEF SendTimesOut, PostPublish, sharedVars
  <2>2. Holders' = Holders
    BY <2>1, HoldersStep
  <2> QED
    BY <2>1, <2>2, LedgerMoves, Zenon
<1>5. ASSUME NEW p \in Callers, TransformFails(p) \/ RefuseDuplicate(p) PROVE Ledger'
  <2>1. /\ pc[p] \in {"permitted", "duplicate"}
        /\ permits' = permits + 1 /\ UNCHANGED callbackMap
        /\ \E s : Returns(p, s)
    BY <1>5, Zenon DEF TransformFails, RefuseDuplicate
  <2>2. p \in Holders /\ Holders' = Holders \ {p}
    BY <2>1, HoldersStep
  <2> QED
    BY <2>1, <2>2, LedgerMoves, Zenon
<1>6. ASSUME NEW p \in Callers, RegisterUniqueCallback(p) PROVE Ledger'
  <2>1. pc[p] = "permitted" /\ UNCHANGED permits
    BY <1>6, Zenon DEF RegisterUniqueCallback
  <2>2. CASE \E b \in callbackMap : Guid[b] = Guid[attempt[p]]
    <3>1. Goes(p, attempt[p], "duplicate") /\ UNCHANGED callbackMap
      BY <1>6, <2>2, Zenon DEF RegisterUniqueCallback
    <3>2. Holders' = Holders
      BY <2>1, <3>1, HoldersStep
    <3> QED
      BY <2>1, <3>1, <3>2, LedgerMoves, Zenon
  <2>3. CASE ~ \E b \in callbackMap : Guid[b] = Guid[attempt[p]]
    <3>1. /\ callbackMap' = callbackMap \cup {attempt[p]}
          /\ Goes(p, attempt[p], "registered")
      BY <1>6, <2>3, Zenon DEF RegisterUniqueCallback
    <3>2. p \in Holders /\ Holders' = Holders \ {p} /\ attempt[p] \notin callbackMap
      BY <2>1, <2>3, <3>1, HoldersStep
    <3> QED
      BY <2>1, <3>1, <3>2, LedgerMoves, Zenon
  <2> QED
    BY <2>2, <2>3, Zenon
<1>7. ASSUME NEW w \in Workers, NEW a \in jobs, ActionConfirm(w, a) PROVE Ledger'
  <2>1. /\ UNCHANGED pc
        /\ \/ UNCHANGED <<permits, callbackMap>>
           \/ \E e \in callbackMap : /\ permits' = permits + 1
                                     /\ callbackMap' = callbackMap \ {e}
    BY <1>7, Zenon DEF ActionConfirm, callVars
  <2>2. Holders' = Holders
    BY <2>1, Zenon DEF Holders
  <2> QED
    BY <2>1, <2>2, LedgerMoves, Zenon
<1>8. ASSUME NEW w \in Workers, CallbackReturns(w) PROVE Ledger'
  <2>1. /\ pc' = [p \in Callers |-> IF p \in taken[w] THEN "idle" ELSE pc[p]]
        /\ UNCHANGED <<permits, callbackMap>>
    BY <1>8, Zenon DEF CallbackReturns, sharedVars
  <2>2. Holders' = Holders
    BY <2>1 DEF Holders, Waiters, Waiting, CallTypes
  <2> QED
    BY <2>1, <2>2, LedgerMoves, Zenon
<1>9. ASSUME NEW t \in Threads, WaitForConfirms(t) \/ WaitTimesOut(t) PROVE Ledger'
  <2>1. /\ pc[t] \in {"idle", "timedWaiting"} /\ UNCHANGED <<permits, callbackMap>>
        /\ \/ pc' = pc
           \/ \E where \in {"waiting", "timedWaiting", "idle"} :
                 pc' = [pc EXCEPT ![t] = where]
    BY <1>9, Zenon DEF WaitForConfirms, WaitTimesOut
  <2>2. Holders' = Holders
    BY <2>1 DEF Holders, CallTypes
  <2> QED
    BY <2>1, <2>2, LedgerMoves, Zenon
<1>10. CASE \/ EventLoopPublishes \/ BrokerJudges \/ HandleConfirmOnEventLoop
            \/ Destroy \/ PoolShutdown \/ UNCHANGED vars
  <2>1. UNCHANGED <<permits, callbackMap, pc>>
    BY <1>10, Zenon DEF EventLoopPublishes, BrokerJudges, HandleConfirmOnEventLoop,
       Destroy, PoolShutdown, vars, callVars, sharedVars
  <2>2. Holders' = Holders
    BY <2>1, Zenon DEF Holders
  <2> QED
    BY <2>1, <2>2, LedgerMoves, Zenon
<1> QED
  BY <1>1, <1>2, <1>3, <1>4, <1>5, <1>6, <1>7, <1>8, <1>9, <1>10, Zenon
     DEF Next, CallerNext, WorkerNext

(* Whatever becomes of its sends, a producer neither loses nor makes a     *)
(* permit: the limit on outstanding messages is exact for every limit and  *)
(* every number of threads.                                                *)
THEOREM PermitsBalance == Spec => []PermitsConserved
<1>1. Init => TypeOK /\ Control /\ Ledger
  <2> SUFFICES ASSUME Init PROVE Ledger
    BY InitTypeOK, InitControl
  <2>1. /\ pc = [p \in Callers |-> "idle"] /\ callbackMap = {}
        /\ permits = MaxOutstandingConfirms
    BY Zenon DEF Init
  <2>2. Holders = {}
    BY <2>1 DEF Holders
  <2> QED
    BY <2>1, <2>2, FS_EmptySet, ProducerAssumption DEF Ledger, PermitsConserved
<1>2. TypeOK /\ Control /\ Ledger /\ [Next]_vars => Ledger'
  <2> SUFFICES ASSUME TypeOK, Control, Ledger, [Next]_vars PROVE Ledger'
    OBVIOUS
  <2>1. CallTypes /\ permits \in Nat /\ Waiters
    BY TypeParts, Zenon DEF Control, SharedTypes
  <2> QED
    BY <2>1, LedgerStep, Zenon
<1>3. Ledger => PermitsConserved
  BY Zenon DEF Ledger
<1> QED
  BY <1>1, <1>2, <1>3, StepControl, PTL DEF Spec

-----------------------------------------------------------------------------
(* Callbacks and waitForConfirms                                           *)

(* The broker's verdict on a message stays, and a status once returned     *)
(* stays.                                                                  *)
LEMMA Monotone ==
    ASSUME CallTypes, SharedTypes, CallersApart, PostedOnce, [Next]_vars
    PROVE  /\ \A a \in Attempts : response[a] \in Verdicts => response'[a] \in Verdicts
           /\ \A a \in Attempts : result[a] = "SENDING" => result'[a] = "SENDING"
<1>v. "unsent" \notin Verdicts /\ "waiting" \notin Verdicts
  BY ProducerAssumption, Zenon
<1>1. CASE EventLoopPublishes
  <2>1. /\ posted # <<>> /\ result' = result
        /\ response' = [response EXCEPT ![Head(posted)] = "waiting"]
    BY <1>1, Zenon DEF EventLoopPublishes, Sender!Accept, callVars
  <2>2. Head(posted) = posted[1] /\ 1 \in 1..Len(posted) /\ Head(posted) \in Attempts
    BY <2>1 DEF SharedTypes
  <2>3. response[Head(posted)] = "unsent"
    BY <2>2 DEF PostedOnce
  <2> QED
    BY <2>1, <2>2, <2>3, <1>v DEF SharedTypes
<1>2. CASE HandleConfirmOnEventLoop
  <2>1. result' = result
    BY <1>2, Zenon DEF HandleConfirmOnEventLoop, callVars
  <2>2. \A a \in Attempts : response'[a] # response[a] => response'[a] \in Verdicts
    BY <1>2, ConfirmType, Zenon DEF HandleConfirmOnEventLoop
  <2> QED
    BY <2>1, <2>2
<1>3. ASSUME NEW p \in Callers, CallerNext(p)
      PROVE  /\ response' = response
             /\ \A a \in Attempts : result[a] = "SENDING" => result'[a] = "SENDING"
  <2>1. response' = response
    BY <1>3, Zenon DEF CallerNext, Send, TrySend, Acquire, SendTimesOut,
       TransformFails, RegisterUniqueCallback, RefuseDuplicate, PostPublish, channelVars
  <2>2. \/ result' = result
        \/ \E a \in Attempts :
              result[a] = "none" /\ \E s : result' = [result EXCEPT ![a] = s]
    <3>1. pc[p] \in Calling => result[attempt[p]] = "none"
      BY MoveTypes, ProducerAssumption DEF CallersApart
    <3>2. \A a \in Attempts : MayCall(p, a) => result[a] = "none"
      BY Zenon DEF MayCall
    <3>3. \A a : \A where : Goes(p, a, where) => result' = result
      BY Zenon DEF Goes
    <3>4. \A s : Returns(p, s) => result' = [result EXCEPT ![attempt[p]] = s]
      BY Zenon DEF Returns
    <3> QED
      BY <1>3, <3>1, <3>2, <3>3, <3>4, CallSteps, Zenon
  <2> QED
    BY <2>1, <2>2 DEF CallTypes
<1>4. CASE \/ \E t \in Threads : WaitForConfirms(t) \/ WaitTimesOut(t)
           \/ \E w \in Workers : WorkerNext(w)
           \/ BrokerJudges \/ Destroy \/ PoolShutdown \/ UNCHANGED vars
  <2>1. UNCHANGED <<response, result>>
    BY <1>4, Zenon DEF WaitForConfirms, WaitTimesOut, WorkerNext, CallbackReturns,
       ActionConfirm, BrokerJudges, Sender!Judge, Destroy, PoolShutdown, vars,
       callVars, channelVars
  <2> QED
    BY <2>1
<1> QED
  BY <1>1, <1>2, <1>3, <1>4, Zenon DEF Next

(* A confirm job takes the callback of its own attempt out of the map.     *)
LEMMA ConfirmTakes ==
    ASSUME PoolTypes, Control, CallbackFound,
           NEW w \in Workers, NEW a \in jobs, ActionConfirm(w, a)
    PROVE  \/ UNCHANGED <<callbackMap, running, taken>>
           \/ /\ a \in callbackMap /\ callbackMap' = callbackMap \ {a}
              /\ running' = [running EXCEPT ![w] = a]
              /\ \/ taken' = taken
                 \/ callbackMap' = {} /\ taken' = [taken EXCEPT ![w] = sharers]
<1>1. a \in callbackMap
  BY FlightParts DEF PoolTypes, CallbackFound
<1>2. CASE ~isValid
  BY <1>1, <1>2, Zenon DEF ActionConfirm
<1>3. CASE isValid
  <2>1. PICK e \in callbackMap :
           /\ Guid[e] = Guid[a]
           /\ callbackMap' = callbackMap \ {e}
           /\ running' = [running EXCEPT ![w] = e]
           /\ \/ taken' = taken
              \/ callbackMap' = {} /\ taken' = [taken EXCEPT ![w] = sharers]
    BY <1>1, <1>3, Zenon DEF ActionConfirm
  <2>2. e = a
    BY <2>1, <1>1, Zenon DEF CallbackFound
  <2> QED
    BY <1>1, <2>1, <2>2
<1> QED
  BY <1>2, <1>3

(* A callback runs once, after its send has returned and the broker has    *)
(* judged.                                                                 *)
LEMMA OnceStep ==
    ASSUME CallTypes, SharedTypes, PoolTypes, Control, CallbackFound,
           CalledBackOnce, [Next]_vars
    PROVE  CalledBackOnce'
<1>w. CallersApart /\ PostedOnce /\ Confirmed
  BY Zenon DEF Control
<1>m. /\ \A a \in Attempts : response[a] \in Verdicts => response'[a] \in Verdicts
      /\ \A a \in Attempts : result[a] = "SENDING" => result'[a] = "SENDING"
  BY <1>w, Monotone
<1>v. "unsent" \notin Verdicts /\ NoAttempt \notin Attempts
  BY ProducerAssumption, Zenon
<1>s. \A a \in Attempts : response[a] \in Verdicts => result[a] = "SENDING"
  BY <1>w, <1>v DEF Confirmed
<1>0. ASSUME UNCHANGED <<running, done>>,
             \A b \in callbackMap' : b \in callbackMap \/ (b \in Attempts /\ response[b] \notin Verdicts)
      PROVE  CalledBackOnce'
  BY <1>0, <1>m DEF CalledBackOnce, PoolTypes
<1>1. ASSUME NEW p \in Callers, CallerNext(p) PROVE CalledBackOnce'
  <2>1. UNCHANGED <<running, done>>
    BY <1>1, Zenon DEF CallerNext, Send, TrySend, Acquire, SendTimesOut,
       TransformFails, RegisterUniqueCallback, RefuseDuplicate, PostPublish, poolVars
  <2>2. callbackMap' = callbackMap
          \/ (pc[p] = "permitted" /\ callbackMap' = callbackMap \cup {attempt[p]})
    BY <1>1, Zenon DEF CallerNext, Send, TrySend, Acquire, SendTimesOut,
       TransformFails, RegisterUniqueCallback, RefuseDuplicate, PostPublish, sharedVars
  <2>3. pc[p] = "permitted" =>
           attempt[p] \in Attempts /\ response[attempt[p]] \notin Verdicts
    BY <1>w, <1>v, <1>s DEF CallersApart, Calling, CallTypes
  <2> QED
    BY <1>0, <2>1, <2>2, <2>3
<1>2. ASSUME NEW w \in Workers, NEW a \in jobs, ActionConfirm(w, a) PROVE CalledBackOnce'
  <2>1. UNCHANGED <<done, response, result>>
    BY <1>2, Zenon DEF ActionConfirm, channelVars, callVars
  <2>2. a \in Attempts /\ response[a] \in Verdicts
    BY <1>w DEF Confirmed, PoolTypes
  <2>3. CASE UNCHANGED <<callbackMap, running>>
    BY <2>1, <2>3, <1>0
  <2>4. CASE /\ a \in callbackMap /\ callbackMap' = callbackMap \ {a}
             /\ running' = [running EXCEPT ![w] = a]
    <3>1. \A v \in Workers : running'[v] = IF v = w THEN a ELSE running[v]
      BY <2>4 DEF PoolTypes
    <3>2. a \notin done /\ \A v \in Workers : running[v] # a
      BY <2>2, <2>4, <1>v DEF CalledBackOnce
    <3> QED
      BY <2>1, <2>2, <2>4, <3>1, <3>2 DEF CalledBackOnce
  <2> QED
    BY <1>2, <2>3, <2>4, ConfirmTakes, Zenon
<1>3. ASSUME NEW w \in Workers, CallbackReturns(w) PROVE CalledBackOnce'
  <2>1. /\ running[w] # NoAttempt /\ running' = [running EXCEPT ![w] = NoAttempt]
        /\ done' = done \cup {running[w]}
        /\ UNCHANGED <<callbackMap, response, result>>
    BY <1>3, Zenon DEF CallbackReturns, sharedVars, channelVars
  <2>2. running[w] \in Attempts
    BY <2>1 DEF PoolTypes
  <2>3. /\ running[w] \notin callbackMap /\ response[running[w]] \in Verdicts
        /\ result[running[w]] = "SENDING"
        /\ \A v \in Workers : running[v] = running[w] => v = w
    BY <2>1, <2>2, <1>s DEF CalledBackOnce
  <2>4. \A v \in Workers : running'[v] = IF v = w THEN NoAttempt ELSE running[v]
    BY <2>1 DEF PoolTypes
  <2> QED
    BY <2>1, <2>2, <2>3, <2>4 DEF CalledBackOnce
<1>4. CASE \/ \E t \in Threads : WaitForConfirms(t) \/ WaitTimesOut(t)
           \/ EventLoopPublishes \/ BrokerJudges \/ HandleConfirmOnEventLoop
           \/ Destroy \/ PoolShutdown \/ UNCHANGED vars
  <2>1. UNCHANGED <<callbackMap, running, done>>
    BY <1>4, Zenon DEF WaitForConfirms, WaitTimesOut, EventLoopPublishes,
       BrokerJudges, HandleConfirmOnEventLoop, Destroy, PoolShutdown, vars,
       sharedVars, poolVars
  <2> QED
    BY <2>1, <1>0
<1> QED
  BY <1>1, <1>2, <1>3, <1>4, Zenon DEF Next, WorkerNext

(* What a waiting thread relies on: the messages it waits for were sent,   *)
(* and are confirmed once a worker has taken its future.                   *)
Owed ==
    /\ \A t \in Threads : \A a \in owed[t] : result[a] = "SENDING"
    /\ \A w \in Workers : \A t \in taken[w] : \A a \in owed[t] : response[a] \in Verdicts
    /\ WaitMeansConfirmed

(* When the map is empty, everything that was sent has been confirmed.     *)
LEMMA EmptyMeansConfirmed ==
    ASSUME SharedTypes, PoolTypes, Control, CallbackFound, callbackMap = {},
           NEW a \in Attempts, result[a] = "SENDING"
    PROVE  response[a] \in Verdicts
<1>1. a \notin OnLoop /\ a \notin InChannel
  BY FlightParts DEF CallbackFound, PoolTypes
<1>2. response[a] # "unsent"
  BY <1>1 DEF Control, Confirmed, OnLoop
<1> QED
  BY <1>1, <1>2 DEF InChannel, SharedTypes

(* A successful waitForConfirms means the broker has confirmed.            *)
LEMMA OwedStep ==
    ASSUME CallTypes, SharedTypes, PoolTypes, Control, CallbackFound, Owed,
           [Next]_vars, SharedTypes', PoolTypes', Control', CallbackFound'
    PROVE  Owed'
<1>w. CallersApart /\ PostedOnce /\ Confirmed /\ Waiters
  BY Zenon DEF Control
<1>m. /\ \A a \in Attempts : response[a] \in Verdicts => response'[a] \in Verdicts
      /\ \A a \in Attempts : result[a] = "SENDING" => result'[a] = "SENDING"
  BY <1>w, Monotone
<1>0. ASSUME UNCHANGED <<owed, waited, taken>> PROVE Owed'
  BY <1>0, <1>m DEF Owed, WaitMeansConfirmed, PoolTypes
<1>1. ASSUME NEW w \in Workers, NEW a \in jobs, ActionConfirm(w, a) PROVE Owed'
  <2>1. UNCHANGED <<owed, waited, response, result>>
    BY <1>1, Zenon DEF ActionConfirm, waitVars, channelVars, callVars
  <2>2. CASE taken' = taken
    BY <2>1, <2>2, <1>0
  <2>3. CASE callbackMap' = {} /\ taken' = [taken EXCEPT ![w] = sharers]
    <3>1. \A b \in Attempts : result'[b] = "SENDING" => response'[b] \in Verdicts
      <4>1. SUFFICES ASSUME NEW b \in Attempts, result'[b] = "SENDING"
                     PROVE  response'[b] \in Verdicts
        OBVIOUS
      <4>2. b \notin OnLoop' /\ b \notin InChannel'
        BY <2>3, FlightParts DEF CallbackFound, PoolTypes
      <4>3. response'[b] # "unsent"
        BY <4>1, <4>2 DEF Control, Confirmed, OnLoop
      <4> QED
        BY <4>2, <4>3 DEF InChannel, SharedTypes
    <3>2. \A v \in Workers : taken'[v] = IF v = w THEN sharers ELSE taken[v]
      BY <2>3 DEF PoolTypes
    <3>3. \A t \in sharers : t \in Threads
      BY DEF SharedTypes
    <3>4. \A t \in Threads : owed[t] \subseteq Attempts
      BY DEF PoolTypes
    <3>5. \A t \in sharers : \A b \in owed[t] : response[b] \in Verdicts
      BY <2>1, <3>1, <3>3, <3>4 DEF Owed
    <3> QED
      BY <2>1, <3>2, <3>5 DEF Owed, WaitMeansConfirmed
  <2> QED
    BY <1>1, <2>2, <2>3, ConfirmTakes, Zenon
<1>2. ASSUME NEW w \in Workers, CallbackReturns(w) PROVE Owed'
  <2>1. /\ taken' = [taken EXCEPT ![w] = {}] /\ waited' = waited \cup taken[w]
        /\ UNCHANGED <<owed, response, result>>
    BY <1>2, Zenon DEF CallbackReturns, channelVars
  <2>2. \A v \in Workers : taken'[v] \subseteq taken[v]
    BY <2>1 DEF PoolTypes
  <2> QED
    BY <2>1, <2>2 DEF Owed, WaitMeansConfirmed
<1>3. ASSUME NEW t \in Threads, WaitForConfirms(t) PROVE Owed'
  <2>1. /\ pc[t] = "idle" /\ UNCHANGED <<taken, response, result>>
        /\ owed' = [owed EXCEPT ![t] = {a \in Attempts \ done : result[a] = "SENDING"}]
        /\ \/ waited' = waited \ {t}
           \/ callbackMap = {} /\ waited' = waited \cup {t}
    BY <1>3, Zenon DEF WaitForConfirms, poolVars, channelVars
  <2>2. \A u \in Threads : owed'[u] = IF u = t THEN {a \in Attempts \ done : result[a] = "SENDING"}
                                      ELSE owed[u]
    BY <2>1 DEF PoolTypes
  <2>3. \A w \in Workers : t \notin taken[w]
    BY <2>1, <1>w DEF Waiters, Waiting
  <2>4. \A w \in Workers : \A u \in taken[w] : u \in Threads
    BY DEF PoolTypes
  <2>5. /\ \A u \in Threads : \A a \in owed'[u] : result'[a] = "SENDING"
        /\ \A w \in Workers : \A u \in taken'[w] : \A a \in owed'[u] : response'[a] \in Verdicts
    BY <2>1, <2>2, <2>3, <2>4 DEF Owed
  <2>6. WaitMeansConfirmed'
    <3>1. SUFFICES ASSUME NEW u \in waited', NEW a \in owed'[u]
                   PROVE  response[a] \in Verdicts
      BY <2>1 DEF WaitMeansConfirmed
    <3>2. u \in Threads
      BY <3>1 DEF PoolTypes
    <3>3. CASE u = t
      <4>1. callbackMap = {}
        BY <2>1, <3>1, <3>3, Zenon
      <4>2. a \in {b \in Attempts \ done : result[b] = "SENDING"}
        BY <2>2, <3>1, <3>3, Zenon
      <4> QED
        BY <4>1, <4>2, EmptyMeansConfirmed
    <3>4. CASE u # t
      BY <2>1, <2>2, <3>1, <3>2, <3>4 DEF Owed, WaitMeansConfirmed
    <3> QED
      BY <3>3, <3>4
  <2> QED
    BY <2>5, <2>6 DEF Owed
<1>4. ASSUME NEW t \in Threads, WaitTimesOut(t) PROVE Owed'
  <2>1. /\ taken' = [w \in Workers |-> taken[w] \ {t}]
        /\ UNCHANGED <<owed, waited, response, result>>
    BY <1>4, Zenon DEF WaitTimesOut, channelVars, waitVars
  <2> QED
    BY <2>1 DEF Owed, WaitMeansConfirmed
<1>5. CASE \/ \E p \in Callers : CallerNext(p)
           \/ EventLoopPublishes \/ BrokerJudges \/ HandleConfirmOnEventLoop
           \/ Destroy \/ PoolShutdown \/ UNCHANGED vars
  <2>1. UNCHANGED <<owed, waited, taken>>
    BY <1>5, Zenon DEF CallerNext, Send, TrySend, Acquire, SendTimesOut,
       TransformFails, RegisterUniqueCallback, RefuseDuplicate, PostPublish,
       EventLoopPublishes, BrokerJudges, HandleConfirmOnEventLoop, Destroy,
       PoolShutdown, vars, poolVars, waitVars
  <2> QED
    BY <2>1, <1>0
<1> QED
  BY <1>1, <1>2, <1>3, <1>4, <1>5, Zenon DEF Next, WorkerNext

(* The invariant of the producer.                                          *)
Found == TypeOK /\ Control /\ CallbackFound

(* Found holds in the beginning and along every step.                      *)
LEMMA FoundInductive == (Init => Found) /\ (Found /\ [Next]_vars => Found')
<1>1. ASSUME Init PROVE CallbackFound
  <2>1. /\ callbackMap = {} /\ posted = <<>> /\ jobs = {}
        /\ response = [a \in Attempts |-> "unsent"]
        /\ pc = [p \in Callers |-> "idle"]
    BY <1>1, Zenon DEF Init, Sender!Init
  <2>2. InFlight = {}
    BY <2>1 DEF InFlight
  <2> QED
    BY <2>1, <2>2, Zenon DEF CallbackFound
<1>2. ASSUME Found, [Next]_vars PROVE CallbackFound'
  <2>1. Flags /\ CallTypes /\ SharedTypes /\ PoolTypes /\ CallersApart /\ Control /\ CallbackFound
    BY <1>2, TypeParts, Zenon DEF Control, Found
  <2>2. PoolTypes'
    BY <1>2, StepControl, TypeParts, Zenon DEF Found
  <2> QED
    BY <1>2, <2>1, <2>2, CallerFound, OtherFound, Zenon DEF Next
<1> QED
  BY <1>1, <1>2, InitTypeOK, InitControl, StepControl, Zenon DEF Found

(* Every confirm that reaches the thread pool finds the callback of the    *)
(* send it answers, whatever the number of threads, sends and permits, and *)
(* whatever messages are sent twice.                                       *)
THEOREM ConfirmFindsCallback == Spec => []CallbackFound
<1>1. Found => CallbackFound
  BY Zenon DEF Found
<1> QED
  BY <1>1, FoundInductive, PTL DEF Spec

(* The application's callback runs at most once for a send, after the      *)
(* broker's verdict, on whichever pool threads the confirms land.          *)
THEOREM CallbacksRunOnce == Spec => []CalledBackOnce
<1>1. Init => CalledBackOnce
  BY DEF Init, CalledBackOnce
<1>2. Found /\ CalledBackOnce /\ [Next]_vars => CalledBackOnce'
  BY TypeParts, OnceStep, Zenon DEF Found
<1> QED
  BY <1>1, <1>2, FoundInductive, PTL DEF Spec

(* A successful waitForConfirms means the broker has confirmed everything  *)
(* that was sent before the call, with any number of threads waiting,      *)
(* timing out and sending at the same time.                                *)
THEOREM WaitIsTruthful == Spec => []WaitMeansConfirmed
<1>1. Init => Owed
  BY DEF Init, Owed, WaitMeansConfirmed
<1>2. Found /\ Owed /\ [Next]_vars => Owed'
  BY FoundInductive, TypeParts, OwedStep, Zenon DEF Found
<1>3. Owed => WaitMeansConfirmed
  BY Zenon DEF Owed
<1> QED
  BY <1>1, <1>2, <1>3, FoundInductive, PTL DEF Spec

(* No confirm starts a callback once the destructor has returned.          *)
THEOREM DestroyedIsSilent == Spec => NoCallbackAfterDestroy
<1> DEFINE Silent == ~isValid => \A w \in Workers : running'[w] \in {running[w], NoAttempt}
<1>1. TypeOK /\ [Next]_vars => [Silent]_vars
  <2> SUFFICES ASSUME TypeOK, Next, ~isValid, NEW w \in Workers
               PROVE  running'[w] \in {running[w], NoAttempt}
    BY Zenon
  <2>1. running' = running \/ \E v \in Workers : running' = [running EXCEPT ![v] = NoAttempt]
    BY Zenon DEF Next, CallerNext, Send, TrySend, Acquire, SendTimesOut,
       TransformFails, RegisterUniqueCallback, RefuseDuplicate, PostPublish,
       WaitForConfirms, WaitTimesOut, WorkerNext, CallbackReturns, ActionConfirm,
       EventLoopPublishes, BrokerJudges, HandleConfirmOnEventLoop, Destroy,
       PoolShutdown, poolVars
  <2> QED
    BY <2>1 DEF TypeOK
<1> QED
  BY <1>1, TypeCorrect, PTL DEF Spec, NoCallbackAfterDestroy
=============================================================================
