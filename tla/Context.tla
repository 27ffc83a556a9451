------------------------------ MODULE Context ------------------------------
(***************************************************************************)
(* How rmqa hands out connections: VHostImpl with one future connection    *)
(* for its producers and one for its consumers, RabbitContextImpl, which   *)
(* makes them, ConnectionImpl, and the rmqt::Future objects that hold them *)
(* together.  The question is one of ownership: what keeps a               *)
(* rmqamqp::Connection alive, and what happens when that is let go of.     *)
(*                                                                         *)
(* The state is one record, and the functions of the code are functions    *)
(* from the record before the call to the record after it.                 *)
(*   vhost     the application still has the VHost                         *)
(*   current   d_producerFuture and d_consumerFuture of the VHostImpl      *)
(*   future    of each connection, the Future it was made with             *)
(*   impl      whether its ConnectionImpl has its d_connection             *)
(*   amqp      its rmqamqp::Connection                                     *)
(*   timer     its graceful close timer is running, and holds it           *)
(*   req       the Future of each request for a producer or consumer       *)
(*   on        the connection each request was made on                     *)
(*   loop      what has been posted to the event loop                      *)
(*   closes    how often Connection::close has been posted                 *)
(*   ended     connections that were closed, timed out or were cancelled   *)
(*   disturbed requests that were outstanding when the VHost was closed    *)
(***************************************************************************)
EXTENDS Naturals, SequencesExt

CONSTANTS
    Requests,     \* calls of createProducerAsync and createConsumerAsync
    Role,         \* Role[r]: "producer" or "consumer"
    Refused,      \* requests whose exchange is not in the topology
    Conns,        \* connections, a sequence in the order they are made
    NoConn,       \* no connection
    MaxFaults     \* bound: how often connections are lost

ASSUME ContextAssumption ==
    /\ Role \in [Requests -> {"producer", "consumer"}]
    /\ Refused \subseteq Requests
    /\ NoConn \notin ToSet(Conns)
    /\ MaxFaults \in Nat

VARIABLES
    s,            \* the record described above
    endpointOk,   \* the VHost was created with an endpoint and credentials
    faults        \* connections lost so far

vars == <<s, endpointOk, faults>>

ConnIds == ToSet(Conns)
Roles == {"producer", "consumer"}

Init ==
    /\ s = [vhost |-> TRUE,
            current |-> [role \in Roles |-> NoConn],
            future |-> [c \in ConnIds |-> "none"],
            impl |-> [c \in ConnIds |-> FALSE],
            amqp |-> [c \in ConnIds |-> "none"],
            timer |-> [c \in ConnIds |-> FALSE],
            req |-> [r \in Requests |-> "none"],
            on |-> [r \in Requests |-> NoConn],
            loop |-> <<>>,
            closes |-> [c \in ConnIds |-> 0],
            ended |-> {},
            disturbed |-> {}]
    /\ endpointOk \in BOOLEAN
    /\ faults = 0

Outstanding(t, r) == t.req[r] \in {"waiting", "posted", "opening"}

(* EventLoop::post                                                         *)
Job(kind, conn, req) == [kind |-> kind, conn |-> conn, req |-> req]

Post(t, job) == [t EXCEPT !.loop = Append(@, job)]

-----------------------------------------------------------------------------
(* ConnectionImpl                                                          *)

(* Connection::close is posted for each of conns.                          *)
PostClose(t, conns) ==
    LET order == SelectSeq(Conns, LAMBDA c : c \in conns)
    IN [t EXCEPT !.loop = @ \o [i \in DOMAIN order |->
                                   Job("close", order[i], NoConn)],
                 !.closes = [c \in ConnIds |->
                               IF c \in conns THEN @[c] + 1 ELSE @[c]]]

(* The timer of GRACEFUL_CLOSE_TIMEOUT_SEC takes the connections over; and *)
(* a variant without it.                                                   *)
NoCloseTimer(t, conns) == t

StartCloseTimer(t, conns) ==
    [t EXCEPT !.timer = [c \in ConnIds |-> @[c] \/ c \in conns]]

(* ConnectionImpl::doClose for each of conns; and a variant that keeps     *)
(* d_connection                                                            *)
WithConnection(t, conns) == {c \in conns : t.impl[c]}

CloseAndKeep(t, conns) ==
    PostClose(StartCloseTimer(t, WithConnection(t, conns)),
              WithConnection(t, conns))

DoClose(t, conns) ==
    [PostClose(StartCloseTimer(t, WithConnection(t, conns)),
               WithConnection(t, conns))
       EXCEPT !.impl = [c \in ConnIds |-> @[c] /\ c \notin conns]]

(* ConnectionImpl::createProducerAsync and ::createConsumerAsync           *)
CreateAsync(t, r) ==
    LET c == t.on[r]
    IN IF ~t.impl[c] \/ r \in Refused
       THEN [t EXCEPT !.req[r] = "failed"]
       ELSE [Post(t, Job("create", c, r)) EXCEPT !.req[r] = "posted"]

-----------------------------------------------------------------------------
(* Futures                                                                 *)

(* Future::Impl::futureConverter for the future of a request, with         *)
(* propagateError.  From here on that future holds the next one of the     *)
(* chain, no longer the one of the connection.                             *)
FutureConverter(t, r) ==
    IF t.future[t.on[r]] = "made" THEN CreateAsync(t, r)
    ELSE [t EXCEPT !.req[r] = "failed"]

(* Future::Impl::addChain: at once if the future is made already           *)
AddChain(t, r, c) ==
    LET chained == [t EXCEPT !.on[r] = c, !.req[r] = "waiting"]
    IN IF t.future[c] = "pending" THEN chained ELSE FutureConverter(chained, r)

(* Future::Impl::notifyChain (in an order of the model's own); and a       *)
(* variant that forgets all but one                                        *)
Chain(t, c) == {r \in Requests : t.req[r] = "waiting" /\ t.on[r] = c}

NotifyOne(t, c) ==
    IF Chain(t, c) = {} THEN t
    ELSE FutureConverter(t, CHOOSE r \in Chain(t, c) : TRUE)

NotifyChain(t, c) ==
    FoldFunctionOnSet(LAMBDA r, u : FutureConverter(u, r), t,
                      [r \in Requests |-> r], Chain(t, c))

(* Future::Impl::made with the ConnectionImpl                              *)
Made(t, c) ==
    NotifyChain([t EXCEPT !.future[c] = "made", !.impl[c] = TRUE], c)

(* What holds a future connection: the VHostImpl, and the future of every  *)
(* request that waits for it                                               *)
FutureHeld(t, c) ==
    (\E role \in Roles : t.current[role] = c) \/ Chain(t, c) # {}

(* Future::Impl::~Impl of each future that nothing holds: an unfinished    *)
(* one runs shutdownAmqpConnection, a finished one takes the               *)
(* ConnectionImpl with it.                                                 *)
Unheld(t) ==
    {c \in ConnIds : t.future[c] \in {"pending", "made", "failed"}
                       /\ ~FutureHeld(t, c)}

DropFutures(t) ==
    LET cancelled == {c \in Unheld(t) : t.future[c] = "pending"}
    IN [DoClose(PostClose(t, cancelled), Unheld(t))
          EXCEPT !.future = [c \in ConnIds |->
                               IF c \in Unheld(t) THEN "gone" ELSE @[c]],
                 !.ended = @ \cup cancelled]

(* What holds a rmqamqp::Connection: the future, whose cancel function     *)
(* keeps it even after it is made, the timer, and what is posted.  The job *)
(* that starts it does not.                                                *)
ConnectionHeld(t, c) ==
    \/ t.future[c] \in {"pending", "made"}
    \/ t.timer[c]
    \/ \E i \in DOMAIN t.loop :
          t.loop[i].conn = c /\ t.loop[i].kind # "start"

(* Connection::~Connection of each connection that nothing holds           *)
DropConnections(t) ==
    [t EXCEPT !.amqp = [c \in ConnIds |->
        IF @[c] = "none" \/ ConnectionHeld(t, c) THEN @[c] ELSE "gone"]]

(* The state after a step: t, but everything that is no longer held goes   *)
(* at the end of the step that let go of it.                               *)
Becomes(t) ==
    \E u \in {t} : \E v \in {DropFutures(u)} : s' = DropConnections(v)

-----------------------------------------------------------------------------
(* RabbitContextImpl                                                       *)

(* createNewConnection: the factory makes a connection, startFirst-        *)
(* Connection is posted with a weak pointer to it; without an endpoint the *)
(* future is resolved with an error                                        *)
CreateNewConnection(t, c) ==
    IF endpointOk
    THEN [Post(t, Job("start", c, NoConn))
            EXCEPT !.future[c] = "pending", !.amqp[c] = "new"]
    ELSE [t EXCEPT !.future[c] = "failed"]

Unused(t) == SelectSeq(Conns, LAMBDA c : t.future[c] = "none")

-----------------------------------------------------------------------------
(* VHostImpl                                                               *)

(* createProducerAsync and createConsumerAsync                             *)
Create(r) ==
    LET role == Role[r]
        c == IF s.current[role] # NoConn THEN s.current[role]
             ELSE Head(Unused(s))
        t == IF s.current[role] # NoConn THEN s
             ELSE CreateNewConnection([s EXCEPT !.current[role] = c], c)
    IN
    /\ s.vhost
    /\ s.req[r] = "none"
    /\ s.current[role] # NoConn \/ Unused(s) # <<>>
    /\ Becomes(AddChain(t, r, c))
    /\ UNCHANGED <<endpointOk, faults>>

(* shutdownConnectionFuture for both futures                               *)
CloseFutures(t) ==
    LET conns == {t.current[role] : role \in Roles} \ {NoConn}
    IN [DoClose(t, {c \in conns : t.future[c] = "made"})
          EXCEPT !.current = [role \in Roles |-> NoConn],
                 !.disturbed = @ \cup {r \in Requests : Outstanding(t, r)}]

(* VHostImpl::close, after which the VHost can be used again               *)
CloseVHost ==
    /\ s.vhost
    /\ \E role \in Roles : s.current[role] # NoConn
    /\ Becomes(CloseFutures(s))
    /\ UNCHANGED <<endpointOk, faults>>

(* rmqa::VHost::~VHost                                                     *)
DestroyVHost ==
    /\ s.vhost
    /\ Becomes([CloseFutures(s) EXCEPT !.vhost = FALSE])
    /\ UNCHANGED <<endpointOk, faults>>

(* The application lets go of the future of a request.                     *)
DropRequest(r) ==
    /\ Outstanding(s, r)
    /\ Becomes([s EXCEPT !.req[r] = "dropped"])
    /\ UNCHANGED <<endpointOk, faults>>

-----------------------------------------------------------------------------
(* The event loop                                                          *)

(* The close callback, cancelCloseTimer, lets go of the connection.        *)
CloseFinished(t, c) ==
    [t EXCEPT !.amqp[c] = "closed", !.timer[c] = FALSE, !.ended = @ \cup {c}]

(* Connection::close: a Close method if there is somebody to send it to.   *)
(* When nobody waits for the CloseOk, the connection goes with the job.    *)
RunClose(t, job) ==
    CASE t.amqp[job.conn] = "up" -> [t EXCEPT !.amqp[job.conn] = "closing"]
      [] t.amqp[job.conn] \in {"new", "connecting", "down"} ->
           CloseFinished(t, job.conn)
      [] OTHER -> t

(* startFirstConnection, if the connection still exists                    *)
RunStart(t, job) ==
    IF t.amqp[job.conn] = "new"
    THEN [t EXCEPT !.amqp[job.conn] = "connecting"] ELSE t

(* createTopologySyncedSendChannel and createTopologySyncedReceiveChannel  *)
RunCreate(t, job) ==
    IF t.req[job.req] = "posted"
    THEN [t EXCEPT !.req[job.req] = "opening"] ELSE t

Run ==
    /\ s.loop # <<>>
    /\ LET job == Head(s.loop)
           t == [s EXCEPT !.loop = Tail(@)]
       IN Becomes(CASE job.kind = "start" -> RunStart(t, job)
                         [] job.kind = "create" -> RunCreate(t, job)
                         [] job.kind = "close" -> RunClose(t, job))
    /\ UNCHANGED <<endpointOk, faults>>

(* Connection.OpenOk, for the first time: initiateConnection               *)
Connects(c) ==
    /\ s.amqp[c] = "connecting"
    /\ Becomes(IF s.future[c] = "pending"
                    THEN Made([s EXCEPT !.amqp[c] = "up"], c)
                    ELSE [s EXCEPT !.amqp[c] = "up"])
    /\ UNCHANGED <<endpointOk, faults>>

(* The connection is lost, or found again.                                 *)
LosesConnection(c) ==
    /\ s.amqp[c] = "up"
    /\ faults < MaxFaults
    /\ faults' = faults + 1
    /\ s' = [s EXCEPT !.amqp[c] = "down"]
    /\ UNCHANGED endpointOk

Reconnects(c) ==
    /\ s.amqp[c] = "down"
    /\ s' = [s EXCEPT !.amqp[c] = "up"]
    /\ UNCHANGED <<endpointOk, faults>>

(* The channel of a request is READY: waitForReady resolves, and           *)
(* setupProducer or setupConsumer completes the request.                   *)
ChannelReady(r) ==
    /\ s.req[r] = "opening"
    /\ s.amqp[s.on[r]] = "up"
    /\ Becomes([s EXCEPT !.req[r] = "made"])
    /\ UNCHANGED <<endpointOk, faults>>

(* Connection.CloseOk, or the end of the socket                            *)
ReceiveCloseOk(c) ==
    /\ s.amqp[c] = "closing"
    /\ Becomes(CloseFinished(s, c))
    /\ UNCHANGED <<endpointOk, faults>>

(* gracefulCloseTimeout; and a variant in which the timer goes on holding  *)
(* itself                                                                  *)
TimeoutKeepsTimer(c) ==
    /\ s.timer[c]
    /\ s' = [s EXCEPT !.ended = @ \cup {c}]
    /\ UNCHANGED <<endpointOk, faults>>

GracefulCloseTimeout(c) ==
    /\ s.timer[c]
    /\ Becomes([s EXCEPT !.timer[c] = FALSE, !.ended = @ \cup {c}])
    /\ UNCHANGED <<endpointOk, faults>>

-----------------------------------------------------------------------------
EventLoop ==
    \/ Run
    \/ \E c \in ConnIds : GracefulCloseTimeout(c)

Broker ==
    \/ \E c \in ConnIds : Connects(c) \/ Reconnects(c)
    \/ \E r \in Requests : ChannelReady(r)

Application ==
    \/ \E r \in Requests : Create(r) \/ DropRequest(r)
    \/ CloseVHost
    \/ DestroyVHost

Next ==
    \/ EventLoop \/ Broker \/ Application
    \/ \E c \in ConnIds : LosesConnection(c) \/ ReceiveCloseOk(c)

Spec == Init /\ [][Next]_vars

(* The event loop runs what it is posted and its timers, and the broker    *)
(* accepts connections and channels.  It need not answer a Close, and the  *)
(* application need not do anything.  Nothing can be put off for ever by   *)
(* the rest, as no step can be taken for ever.                             *)
Fairness == WF_vars(EventLoop \/ Broker)

FairSpec == Spec /\ Fairness

-----------------------------------------------------------------------------
(* Properties                                                              *)

(* A connection is told to close at most once: by VHostImpl::close, by     *)
(* ~ConnectionImpl or by the cancel function of its future.  A second      *)
(* Connection::close would replace the callback of the first.              *)
CloseOnce == \A c \in ConnIds : s.closes[c] <= 1

(* A connection does not go away before the closing handshake is over, or  *)
(* has had its five seconds, unless it was cancelled before anybody was    *)
(* given it: something always holds it until then.                         *)
GracefulClose ==
    \A c \in ConnIds : s.amqp[c] = "gone" => c \in s.ended

Settling(r) == Outstanding(s, r) /\ r \notin s.disturbed

(* Every future of VHostImpl::createProducerAsync and createConsumerAsync  *)
(* is resolved, unless the VHost was closed meanwhile.                     *)
RequestsResolve == []<>(\A r \in Requests : ~Settling(r))

(* When the VHost is gone, so is every connection in the end, whatever     *)
(* requests are still under way: otherwise the event loop could not stop.  *)
AllReleased ==
    (~s.vhost) ~> (\A c \in ConnIds : s.amqp[c] \in {"none", "gone"})

=============================================================================
