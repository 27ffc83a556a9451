------------------------------ MODULE Topology ------------------------------
(***************************************************************************)
(* The topology of a channel: how rmqa::Topology and rmqa::TopologyUpdate  *)
(* describe it, how rmqamqp::Channel declares it every time the channel    *)
(* opens (TopologyTransformer), how updates are queued, sent, answered and *)
(* folded into what the next reopening declares (TopologyMerger), and what *)
(* the broker makes of it.                                                 *)
(*                                                                         *)
(* The channel's own part of the state is the record `channel'; a handler  *)
(* is a function from records to records, because the handlers call one    *)
(* another and each call may close the channel or run a callback.  The     *)
(* rest of a channel's life is abstracted as far as this code can tell:    *)
(* READY stands for AWAITING_REPLY too (see SendChannel, ReceiveChannel).  *)
(***************************************************************************)
EXTENDS Naturals, SequencesExt

CONSTANTS
    Scripts,        \* the ways the application builds its rmqa::Topology
    Updates,        \* the topology updates it may ask for
    Items(_),       \* what an update consists of, in order
    MaxFaults       \* bound: how often the connection is lost

VARIABLES
    conn,           \* the connection: DOWN, UP, or CLOSING by the broker
    channel,        \* the channel's state that this code reads and writes
    writing,        \* a completion of writeMessage(_, State) is outstanding
    retryArmed,     \* the channel's RetryHandler timer is running
    toBroker,       \* frames of this channel on their way to the broker
    toClient,       \* frames of this channel on their way to the client
    bState,         \* the broker's end of the channel
    broker,         \* the broker's queues, exchanges and bindings
    applied,        \* history: <<update, item number>> the broker carried out
    foreignAlive,   \* the application still has its other rmqa::Topology
    faults          \* losses of the connection so far

netVars == <<conn, writing, retryArmed, toBroker, toClient>>
brokerVars == <<bState, broker, applied>>
vars == <<netVars, channel, brokerVars, foreignAlive, faults>>

-----------------------------------------------------------------------------
(* rmqa::Topology and rmqa::TopologyUpdate                                 *)

(* A binding of d_topology or an item of an update.  The handles it holds  *)
(* are weak pointers: a foreign one is owned by another rmqa::Topology,    *)
(* and a null one was returned for a duplicate name.                       *)
Item(op, exchange, queue, key, handle) ==
    [op |-> op, exchange |-> exchange, queue |-> queue, key |-> key,
     handle |-> handle]

Bind(x, q, key) == Item("bind", x, q, key, "own")
BindForeign(x, q, key) == Item("bind", x, q, key, "foreign")
Unbind(x, q, key) == Item("unbind", x, q, key, "own")
Delete(q) == Item("delete", "", q, "", "own")

DefaultExchange == ""

EmptyTopology ==
    [queues |-> <<>>, exchanges |-> <<>>, queueBindings |-> <<>>,
     exchangeBindings |-> <<>>, null |-> {}]

(* insertIfNotDupe: the handle returned for a name that is there already   *)
(* is null, and the application goes on with that one.                     *)
InsertIfNotDupe(t, field, name) ==
    IF name \in Range(t[field])
    THEN [t EXCEPT !.null = @ \cup {name}]
    ELSE [t EXCEPT ![field] = Append(@, name)]

(* One call on rmqa::Topology: addQueue or addExchange (passive or not),   *)
(* defaultExchange, or one of the two bind functions.  Names are valid.    *)
BuildStep(t, call) ==
    LET handle == IF {call[2], call[3]} \cap t.null = {} THEN "own" ELSE "null"
    IN CASE call[1] = "addQueue" -> InsertIfNotDupe(t, "queues", call[2])
         [] call[1] = "addExchange" -> InsertIfNotDupe(t, "exchanges", call[2])
         [] call[1] = "bindQueue" ->
              [t EXCEPT !.queueBindings =
                 Append(@, Item("bind", call[2], call[3], call[4], handle))]
         [] call[1] = "bindExchange" ->
              [t EXCEPT !.exchangeBindings =
                 Append(@, Item("bindExchange", call[2], call[3], call[4], handle))]

Build(script) == FoldLeft(BuildStep, EmptyTopology, script)

-----------------------------------------------------------------------------
(* TopologyTransformer: the methods to write, and the replies they get     *)

Live(item, alive) ==
    item.handle = "own" \/ (item.handle = "foreign" /\ alive)

(* A method, the reply it gets, and, as history, the item it stands for.   *)
Method(kind, item, u, i) == [kind |-> kind, item |-> item, u |-> u, i |-> i]

DeclareMethod(kind, name) == Method(kind, Item(kind, name, name, "", "own"), "", 0)

(* processQueue, processExchange (the default exchange is not declared),   *)
(* processQueueBinding and processExchangeBinding, in this order; and a    *)
(* variant that leaves the bindings to whoever declared them first.        *)
Declarations(t) ==
    [i \in 1..Len(t.queues) |-> DeclareMethod("queue", t.queues[i])]
    \o LET xs == SelectSeq(t.exchanges, LAMBDA x : x # DefaultExchange)
       IN [i \in 1..Len(xs) |-> DeclareMethod("exchange", xs[i])]

BindingMethods(items) ==
    [i \in 1..Len(items) |-> Method(items[i].op, items[i], "", 0)]

TransformTopologyUnbound(t) == Declarations(t)

TransformTopology(t) ==
    Declarations(t) \o BindingMethods(t.queueBindings)
                    \o BindingMethods(t.exchangeBindings)

(* processUpdate for every item                                            *)
TransformUpdate(u) ==
    [i \in 1..Len(Items(u)) |-> Method(Items(u)[i].op, Items(u)[i], u, i)]

(* d_error after the constructor: an item whose handle has expired         *)
HasError(methods, alive) ==
    \E i \in 1..Len(methods) : ~Live(methods[i].item, alive)

(* processReplyMessage: the reply must be of the kind expected next, and a *)
(* DeclareOk must name the queue expected next.                            *)
Matches(expected, reply) ==
    /\ expected.kind = reply.kind
    /\ expected.kind = "queue" => expected.item.queue = reply.item.queue

-----------------------------------------------------------------------------
(* TopologyMerger                                                          *)

SameBinding(a, b) ==
    a.exchange = b.exchange /\ a.queue = b.queue /\ a.key = b.key

(* findByBinding does not find a binding whose handles have expired.       *)
Found(b, item, alive) == Live(b, alive) /\ SameBinding(b, item)

(* One item of the update; queue deletions are not merged.  The variant    *)
(* leaves unbound bindings in.                                             *)
MergeItemKeeping(bindings, item, alive) ==
    IF item.op = "bind" /\ \A b \in Range(bindings) : ~Found(b, item, alive)
    THEN Append(bindings, item)
    ELSE bindings

MergeItem(bindings, item, alive) ==
    CASE ~Live(item, alive) -> bindings
      [] item.op = "bind" ->
           IF \E b \in Range(bindings) : Found(b, item, alive)
           THEN bindings ELSE Append(bindings, item)
      [] item.op = "unbind" ->
           SelectSeq(bindings, LAMBDA b : ~Found(b, item, alive))
      [] OTHER -> bindings

Merge(t, u, alive) ==
    [t EXCEPT !.queueBindings =
       FoldLeft(LAMBDA bs, item : MergeItem(bs, item, alive), @, Items(u))]

-----------------------------------------------------------------------------
(* rmqamqp::Channel.  first: d_topologyTransformer.first, the methods      *)
(* whose replies are awaited (all are written at once), or none if it is   *)
(* null.  second: its callback.  out: what the handler has written.        *)

Control(kind) == Method(kind, Item(kind, "", "", "", "own"), "", 0)

NullTransformer == <<Control("null")>>

Write(c, methods) == [c EXCEPT !.out = @ \o methods]

WriteAndMove(c, methods, newState) ==
    [c EXCEPT !.out = @ \o methods, !.state = newState]

(* Channel::close, Channel::open                                           *)
Close(c) == WriteAndMove(c, <<Control("close")>>, "CHANNEL_CLOSE_SENT")

Open(c) == WriteAndMove(c, <<Control("open")>>, "CHANNEL_OPEN_SENT")

(* Channel::topologyDeclared: onOpen, or the channel is closed.            *)
TopologyDeclared(c, result) ==
    IF result = "ok" THEN [c EXCEPT !.state = "READY"] ELSE Close(c)

(* Running a callback: that of the declaration, or the future of an update *)
RunCallback(c, callback, result) ==
    CASE callback = "none" -> c
      [] callback = "topologyDeclared" -> TopologyDeclared(c, result)
      [] OTHER -> [c EXCEPT !.result[callback] = result]

(* Channel::sendNextUpdate: updates without items are answered and dropped *)
(* on the way; one with an error stays at the front of the queue.  The     *)
(* variant sends what it can of such an update.                            *)
AnswerEmpty(c) ==
    LET n == SelectInSeq(c.updates, LAMBDA u : Items(u) # <<>>)
        empties == IF n = 0 THEN Len(c.updates) ELSE n - 1
        answered == {c.updates[i] : i \in 1..empties}
    IN [c EXCEPT !.updates = SubSeq(@, empties + 1, Len(@)),
                 !.result = [u \in Updates |->
                               IF u \in answered THEN "ok" ELSE @[u]]]

SendMethods(c, methods) ==
    Write([c EXCEPT !.first = methods, !.second = Head(c.updates)], methods)

SendNextUpdateUnchecked(c, alive) ==
    LET d == AnswerEmpty(c)
    IN IF d.updates = <<>> THEN d
       ELSE SendMethods(d, SelectSeq(TransformUpdate(Head(d.updates)),
                                     LAMBDA m : Live(m.item, alive)))

SendNextUpdate(c, alive) ==
    LET d == AnswerEmpty(c)
        methods == TransformUpdate(Head(d.updates))
    IN IF d.updates = <<>> THEN d
       ELSE IF HasError(methods, alive)
       THEN RunCallback(Close(d), Head(d.updates), "error")
       ELSE SendMethods(d, methods)

(* Channel::updateTopology                                                 *)
UpdateTopology(c, u, alive) ==
    LET d == [c EXCEPT !.updates = Append(@, u), !.result[u] = "waiting"]
    IN IF c.first \in {NullTransformer, <<>>} THEN SendNextUpdate(d, alive) ELSE d

(* Channel::declareTopology                                                *)
DeclareTopology(c, alive) ==
    LET methods == TransformTopology(c.topology)
    IN IF HasError(methods, alive)
       THEN [Close(c) EXCEPT !.first = NullTransformer]
       ELSE IF methods = <<>>
       THEN SendNextUpdate(TopologyDeclared(c, "ok"), alive)
       ELSE WriteAndMove([c EXCEPT !.first = methods,
                                   !.second = "topologyDeclared"],
                         methods, "DECLARING_TOPOLOGY")

(* Channel::processTopologyMethod.  A reply that is not the one expected,  *)
(* or that nobody expects, closes the channel, and the callback of the     *)
(* last declaration or update is told.  The last reply expected completes  *)
(* the declaration, or merges and pops the first update; the next update   *)
(* follows, except in the variant.                                         *)
Failed(c) ==
    [RunCallback(Close(c), c.second, "error") EXCEPT !.first = NullTransformer]

Merged(c, alive) ==
    IF c.state = "DECLARING_TOPOLOGY" THEN c
    ELSE [c EXCEPT !.topology = Merge(@, Head(c.updates), alive),
                   !.updates = Tail(@)]

DoneOnly(c, alive) ==
    [RunCallback(Merged(c, alive), c.second, "ok") EXCEPT !.first = NullTransformer]

Done(c, alive) ==
    SendNextUpdate([RunCallback(Merged(c, alive), c.second, "ok")
                      EXCEPT !.first = NullTransformer], alive)

ProcessTopologyMethod(c, reply, alive) ==
    CASE c.state \notin {"DECLARING_TOPOLOGY", "READY"} -> c
      [] c.first \in {NullTransformer, <<>>} -> Failed(c)
      [] ~Matches(Head(c.first), reply) -> Failed(c)
      [] Len(c.first) > 1 -> [c EXCEPT !.first = Tail(@)]
      [] c.state # "DECLARING_TOPOLOGY" /\ c.updates = <<>> ->
           [c EXCEPT !.first = <<>>]
      [] OTHER -> Done(c, alive)

(* ChannelOpenOk                                                           *)
ProcessOpenOk(c, alive) ==
    IF c.state = "CHANNEL_OPEN_SENT" THEN DeclareTopology(c, alive) ELSE Close(c)

-----------------------------------------------------------------------------
(* The steps.  A handler that ran from d left its writes in d.out: they go *)
(* on the wire if there is one.  Those that move the channel to a new      *)
(* state, all but the methods of updates, have a completion.               *)

Init ==
    /\ conn = "DOWN"
    /\ \E script \in Scripts :
          channel = [state |-> "CLOSED", topology |-> Build(script),
                     first |-> NullTransformer, second |-> "none",
                     updates |-> <<>>, result |-> [u \in Updates |-> "none"],
                     out |-> <<>>]
    /\ writing = FALSE
    /\ retryArmed = FALSE
    /\ toBroker = <<>>
    /\ toClient = <<>>
    /\ bState = "closed"
    /\ broker = [queues |-> {}, exchanges |-> {DefaultExchange}, bindings |-> {}]
    /\ applied = {}
    /\ foreignAlive = TRUE
    /\ faults = 0

Runs(d) ==
    /\ channel' = [d EXCEPT !.out = <<>>]
    /\ toBroker' = IF conn = "UP" THEN toBroker \o d.out ELSE toBroker
    /\ writing' = (writing \/ (conn # "DOWN" /\ \E i \in 1..Len(d.out) : d.out[i].u = ""))

(* Channel::reset: neither d_updateQueue nor d_topologyTransformer is      *)
(* touched.                                                                *)
Reset(c) == [c EXCEPT !.state = "CLOSED"]

(* ProducerImpl or ConsumerImpl::updateTopologyAsync, posted to the loop   *)
AskForUpdate(u) ==
    /\ channel.result[u] = "none"
    /\ Runs(UpdateTopology(channel, u, foreignAlive))
    /\ UNCHANGED <<conn, retryArmed, toClient, brokerVars, foreignAlive, faults>>

(* The other rmqa::Topology is destroyed, and its handles expire.          *)
ForeignDestroyed ==
    /\ foreignAlive
    /\ foreignAlive' = FALSE
    /\ UNCHANGED <<netVars, channel, brokerVars, faults>>

(* The connection opens: ChannelMap::openAll, or createSendChannel.        *)
ConnectionOpens ==
    /\ conn = "DOWN"
    /\ conn' = "UP"
    /\ channel' = [Open(channel) EXCEPT !.out = <<>>]
    /\ toBroker' = <<Control("open")>>
    /\ writing' = TRUE
    /\ UNCHANGED <<retryArmed, toClient, brokerVars, foreignAlive, faults>>

(* The connection is lost, or it ends after the broker's exception:        *)
(* ChannelMap::resetAll, without a retry.                                  *)
SocketShutdown ==
    /\ conn' = "DOWN"
    /\ channel' = Reset(channel)
    /\ writing' = FALSE
    /\ toBroker' = <<>>
    /\ toClient' = <<>>
    /\ bState' = "closed"
    /\ UNCHANGED <<retryArmed, broker, applied, foreignAlive>>

ConnectionLost ==
    /\ conn = "UP"
    /\ faults < MaxFaults
    /\ faults' = faults + 1
    /\ SocketShutdown

ConnectionCloses ==
    /\ conn = "CLOSING"
    /\ SocketShutdown
    /\ UNCHANGED faults

(* Channel::channelHung: the broker has nothing left to answer an open or  *)
(* a declaration with.  A timer that expires earlier is a lost connection. *)
ChannelHung ==
    /\ conn = "UP"
    /\ channel.state \in {"CHANNEL_OPEN_SENT", "DECLARING_TOPOLOGY"}
    /\ toBroker = <<>>
    /\ toClient = <<>>
    /\ conn' = "CLOSING"
    /\ UNCHANGED <<channel, writing, retryArmed, toBroker, toClient, brokerVars,
                   foreignAlive, faults>>

(* Channel::retry                                                          *)
RetryFires ==
    /\ retryArmed
    /\ retryArmed' = FALSE
    /\ Runs(Open(channel))
    /\ UNCHANGED <<conn, toClient, brokerVars, foreignAlive, faults>>

(* Channel::onWriteComplete                                                *)
WriteCompletes ==
    /\ writing
    /\ writing' = FALSE
    /\ channel' = IF channel.state = "CLOSED" THEN Reset(channel) ELSE channel
    /\ retryArmed' = (retryArmed \/ channel.state = "CLOSED")
    /\ UNCHANGED <<conn, toBroker, toClient, brokerVars, foreignAlive, faults>>

(* Channel::processReceived: a channel that is CLOSED drops what it gets.  *)
Receives(kinds) ==
    /\ toClient # <<>>
    /\ Head(toClient).kind \in kinds
    /\ toClient' = Tail(toClient)
    /\ UNCHANGED <<conn, brokerVars, foreignAlive, faults>>

ReplyKinds == {"queue", "exchange", "bind", "unbind", "delete", "bindExchange"}

RecvWhenClosed ==
    /\ channel.state = "CLOSED"
    /\ Receives(ReplyKinds \cup {"openOk", "close", "closeOk"})
    /\ UNCHANGED <<channel, writing, retryArmed, toBroker>>

RecvOpenOk ==
    /\ channel.state # "CLOSED"
    /\ Receives({"openOk"})
    /\ Runs(ProcessOpenOk(channel, foreignAlive))
    /\ UNCHANGED retryArmed

RecvTopologyReply ==
    /\ channel.state # "CLOSED"
    /\ Receives(ReplyKinds)
    /\ Runs(ProcessTopologyMethod(channel, Head(toClient), foreignAlive))
    /\ UNCHANGED retryArmed

RecvClose ==
    /\ channel.state # "CLOSED"
    /\ Receives({"close"})
    /\ Runs(WriteAndMove(channel, <<Control("closeOk")>>, "CLOSED"))
    /\ UNCHANGED retryArmed

RecvCloseOk ==
    /\ channel.state # "CLOSED"
    /\ Receives({"closeOk"})
    /\ channel' = Reset(channel)
    /\ retryArmed' = TRUE
    /\ UNCHANGED <<writing, toBroker>>

-----------------------------------------------------------------------------
(* The broker (external).  A frame on a channel that is not open is a      *)
(* connection exception; a channel it is closing only looks for CloseOk.   *)

BrokerTakes(kinds) ==
    /\ conn = "UP"
    /\ toBroker # <<>>
    /\ Head(toBroker).kind \in kinds
    /\ toBroker' = Tail(toBroker)
    /\ UNCHANGED <<conn, writing, retryArmed, channel, foreignAlive, faults>>

BrokerOpens ==
    /\ BrokerTakes({"open"})
    /\ bState = "closed"
    /\ bState' = "open"
    /\ toClient' = Append(toClient, Control("openOk"))
    /\ UNCHANGED <<broker, applied>>

Triple(item) == <<item.exchange, item.queue, item.key>>

(* What a method does to the broker, and what it must find there           *)
Carried(item) ==
    CASE item.op = "queue" -> [broker EXCEPT !.queues = @ \cup {item.queue}]
      [] item.op = "exchange" -> [broker EXCEPT !.exchanges = @ \cup {item.exchange}]
      [] item.op \in {"bind", "bindExchange"} ->
           [broker EXCEPT !.bindings = @ \cup {Triple(item)}]
      [] item.op = "unbind" -> [broker EXCEPT !.bindings = @ \ {Triple(item)}]
      [] item.op = "delete" ->
           [broker EXCEPT !.queues = @ \ {item.queue},
                          !.bindings = {t \in @ : t[2] # item.queue}]

Acceptable(item) ==
    /\ item.op \in {"bind", "bindExchange"} => item.exchange \in broker.exchanges
    /\ item.op = "bind" => item.queue \in broker.queues
    /\ item.op = "bindExchange" => item.queue \in broker.exchanges

BrokerApplies ==
    /\ BrokerTakes(ReplyKinds)
    /\ bState = "open"
    /\ Acceptable(Head(toBroker).item)
    /\ broker' = Carried(Head(toBroker).item)
    /\ applied' = IF Head(toBroker).u = "" THEN applied
                  ELSE applied \cup {<<Head(toBroker).u, Head(toBroker).i>>}
    /\ toClient' = Append(toClient, Head(toBroker))
    /\ UNCHANGED bState

BrokerRefuses ==
    /\ BrokerTakes(ReplyKinds)
    /\ bState = "open"
    /\ ~Acceptable(Head(toBroker).item)
    /\ bState' = "closing"
    /\ toClient' = Append(toClient, Control("close"))
    /\ UNCHANGED <<broker, applied>>

BrokerClosedByClient ==
    /\ BrokerTakes({"close"})
    /\ bState # "closed"
    /\ bState' = IF bState = "closing" THEN "closing" ELSE "closed"
    /\ toClient' = Append(toClient, Control("closeOk"))
    /\ UNCHANGED <<broker, applied>>

BrokerCloseOk ==
    /\ BrokerTakes({"closeOk"})
    /\ bState = "closing"
    /\ bState' = "closed"
    /\ UNCHANGED <<toClient, broker, applied>>

BrokerDiscards ==
    /\ BrokerTakes(ReplyKinds \cup {"open"})
    /\ bState = "closing"
    /\ UNCHANGED <<toClient, brokerVars>>

BrokerException ==
    /\ conn = "UP"
    /\ toBroker # <<>>
    /\ \/ Head(toBroker).kind = "open" /\ bState = "open"
       \/ Head(toBroker).kind # "open" /\ bState = "closed"
       \/ Head(toBroker).kind = "closeOk" /\ bState = "open"
    /\ conn' = "CLOSING"
    /\ toBroker' = <<>>
    /\ UNCHANGED <<writing, retryArmed, toClient, channel, brokerVars,
                   foreignAlive, faults>>

-----------------------------------------------------------------------------
Broker ==
    \/ BrokerOpens
    \/ BrokerApplies
    \/ BrokerRefuses
    \/ BrokerClosedByClient
    \/ BrokerCloseOk
    \/ BrokerDiscards
    \/ BrokerException

Loop ==
    \/ ConnectionOpens
    \/ ConnectionCloses
    \/ RetryFires
    \/ ChannelHung
    \/ WriteCompletes
    \/ RecvWhenClosed
    \/ RecvOpenOk
    \/ RecvTopologyReply
    \/ RecvClose
    \/ RecvCloseOk

Next ==
    \/ \E u \in Updates : AskForUpdate(u)
    \/ ForeignDestroyed
    \/ ConnectionLost
    \/ Loop
    \/ Broker

(* Something happens as long as something can: the event loop runs its     *)
(* handlers and timers, the connection comes back, or the broker reads.    *)
Fairness == WF_vars(Loop \/ Broker)

Spec == Init /\ [][Next]_vars /\ Fairness

-----------------------------------------------------------------------------
(* An update whose future holds a success was carried out by the broker,   *)
(* item by item (Channel::processTopologyMethod counts the right replies,  *)
(* whatever was cut off, resent or pipelined before them).                 *)
UpdateTruthful ==
    \A u \in Updates : channel.result[u] = "ok" =>
        \A i \in 1..Len(Items(u)) : <<u, i>> \in applied

(* The broker has everything that d_topology says.                         *)
TopologyLoaded ==
    LET t == channel.topology IN
    /\ Range(t.queues) \subseteq broker.queues
    /\ Range(t.exchanges) \subseteq broker.exchanges
    /\ {Triple(b) : b \in Range(t.queueBindings \o t.exchangeBindings)}
         \subseteq broker.bindings

(* Channel::topologyDeclared calls onOpen only when the broker has what    *)
(* the topology, with the updates merged into it, says.                    *)
DeclaredBeforeOpen ==
    [][channel.state # "READY" /\ channel'.state = "READY" => TopologyLoaded]_vars

(* When nothing is on its way, what TopologyMerger has made of the updates *)
(* is what the broker has: a reconnection neither resurrects a binding     *)
(* that was removed nor forgets one that was added.  Deleted queues stand  *)
(* apart, because merge ignores their deletion, and so do handles that     *)
(* expire, because it then ignores the update.                             *)
AgreesWithBroker ==
    channel.state = "READY" /\ channel.updates = <<>> /\ toBroker = <<>>
      /\ toClient = <<>> /\ bState = "open" /\ foreignAlive
    => {Triple(b) : b \in {c \in Range(channel.topology.queueBindings) :
                             c.queue \in broker.queues}}
         = {t \in broker.bindings : t[2] \in broker.queues}

(* Every update succeeds in the end, whenever it was asked for and however *)
(* often the channel or the connection was lost on the way, as long as the *)
(* handles it was made from stay alive.                                    *)
UpdatesResolve ==
    []<>(\/ ~foreignAlive
         \/ \A u \in Updates : channel.result[u] \in {"none", "ok"})

=============================================================================
