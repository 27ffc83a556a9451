-------------------------------- MODULE Wire --------------------------------
(***************************************************************************)
(* rmqamqp::Framer, rmqamqp::ContentMaker, rmqio::Decoder and the reading  *)
(* and writing of rmqio::AsioConnection: messages of several channels are  *)
(* cut into frames, the frames share one stream of octets, which is read   *)
(* in pieces of any size, and the messages are put together again.         *)
(*                                                                         *)
(* Either the client sends, each message as one batch of frames in the     *)
(* write queue, or the broker does, which may let the frames of different  *)
(* channels alternate.  The broker is external: it reads and writes what   *)
(* the client can write and read.                                          *)
(***************************************************************************)
EXTENDS Methods

CONSTANTS
    Channels,       \* channel numbers; connection methods and heartbeats use 0
    ScriptNames,    \* names of the scripts that may be sent
    Script(_),      \* the messages of each channel in the script of that name
    MaxFrame,       \* Framer::d_maxFrameSize, as negotiated by Tune and TuneOk
    DecoderMax,     \* Decoder::d_maxFrameSize
    ReadSizes,      \* bound: how many octets one read may give, if there are so many
    MaxReconnects   \* bound: how often the socket is lost

FrameHeaderSize == 7

FrameOverhead == FrameHeaderSize + 1

FrameEnd == 206

ASSUME WireAssumption ==
    /\ MaxFrame \in Nat /\ MaxFrame > FrameOverhead   \* Framer::setMaxFrameSize
    /\ DecoderMax \in Nat /\ DecoderMax >= MaxFrame
    /\ ReadSizes \subseteq 1..DecoderMax
    /\ MaxReconnects \in Nat
    /\ \A choice \in ScriptNames : DOMAIN Script(choice) = Channels

VARIABLES
    chosen,       \* which script is sent in this behaviour
    sender,       \* which end sends it
    sent,         \* per channel, the messages that were sent
    part,         \* per channel, the frames of the next one the broker has sent
    writeQueue,   \* AsioConnection::d_writeQueue, of batches of frames
    stream,       \* octets written and not read
    buffer,       \* Decoder::d_buffer
    makers,       \* Framer::d_channelContentMakers
    delivered,    \* per channel, what processNextFrame was given
    refused,      \* the receiver has given up on the stream
    reconnects    \* how often the socket was lost

vars == <<chosen, sender, sent, part, writeQueue, stream, buffer, makers,
          delivered, refused, reconnects>>

script == Script(chosen)

(* rmqamqp::Message                                                        *)
MethodMessage(m, values) == [kind |-> "METHOD", method |-> m, values |-> values]

Content(properties, body) == [kind |-> "CONTENT", properties |-> properties, body |-> body]

Heartbeat == [kind |-> "HEARTBEAT"]

FrameType == [METHOD |-> 1, HEADER |-> 2, BODY |-> 3, HEARTBEAT |-> 8]

-----------------------------------------------------------------------------
(* Sending                                                                 *)

(* encodeFrameHeader, the payload, encodeFrameEnd                          *)
Framed(type, channel, payloadLength, payload) ==
    <<FrameType[type]>> \o BigEndian(channel, 2) \o BigEndian(payloadLength, 4)
    \o payload \o <<FrameEnd>>

makeMethodFrame(channel, m, values) ==
    Framed("METHOD", channel, methodEncodedSize(m, values), encodeMethod(m, values))

makeContentHeaderFrame(channel, content) ==
    Framed("HEADER", channel, headerEncodedSize(content.properties),
           encodeHeader(Len(content.body), content.properties))

makeContentBodyFrame(channel, piece) == Framed("BODY", channel, Len(piece), piece)

makeHeartbeatFrame == Framed("HEARTBEAT", 0, 0, <<>>)

(* MessageSerializer: the body in pieces that fill a frame                 *)
Pieces(body) ==
    LET frameSize == MaxFrame - FrameOverhead
    IN [i \in 1..(Len(body) + frameSize - 1) \div frameSize |->
           SubSeq(body, (i - 1) * frameSize + 1, Min({i * frameSize, Len(body)}))]

makeFrames(channel, message) ==
    CASE message.kind = "METHOD" ->
             <<makeMethodFrame(channel, message.method, message.values)>>
      [] message.kind = "HEARTBEAT" -> <<makeHeartbeatFrame>>
      [] message.kind = "CONTENT" ->
             <<makeContentHeaderFrame(channel, message)>>
             \o [i \in DOMAIN Pieces(message.body) |->
                    makeContentBodyFrame(channel, Pieces(message.body)[i])]

NextFrames(channel) == makeFrames(channel, script[channel][sent[channel] + 1])

Unsent(channel) == sent[channel] < Len(script[channel])

(* Connection::handleAsyncChannelSend, AsioConnection::asyncWrite          *)
AsyncWrite(channel) ==
    /\ sender = "client"
    /\ Unsent(channel)
    /\ writeQueue' = Append(writeQueue, NextFrames(channel))
    /\ sent' = [sent EXCEPT ![channel] = @ + 1]
    /\ UNCHANGED <<chosen, sender, part, stream, buffer, makers, delivered,
                   refused, reconnects>>

(* AsioConnection::startNextWrite, handleWrite: one batch at a time, the   *)
(* next one when it is through                                             *)
HandleWrite ==
    /\ writeQueue # <<>>
    /\ stream' = stream \o FlattenSeq(Head(writeQueue))
    /\ writeQueue' = Tail(writeQueue)
    /\ UNCHANGED <<chosen, sender, sent, part, buffer, makers, delivered,
                   refused, reconnects>>

(* The broker sends the next frame of a channel.                           *)
BrokerSends(channel) ==
    /\ sender = "broker"
    /\ Unsent(channel)
    /\ LET frames == NextFrames(channel)
           last == part[channel] + 1 = Len(frames)
       IN  /\ stream' = stream \o frames[part[channel] + 1]
           /\ part' = [part EXCEPT ![channel] = IF last THEN 0 ELSE @ + 1]
           /\ sent' = [sent EXCEPT ![channel] = IF last THEN @ + 1 ELSE @]
    /\ UNCHANGED <<chosen, sender, writeQueue, buffer, makers, delivered,
                   refused, reconnects>>

-----------------------------------------------------------------------------
(* Receiving                                                               *)

(* Frame::decode                                                           *)
decodeFrame(octets) ==
    LET payloadLength == Unsigned(SubSeq(octets, 4, FrameHeaderSize))
        size == FrameOverhead + payloadLength
    IN  IF Len(octets) < FrameOverhead THEN [code |-> "PARTIAL"]
        ELSE IF Len(octets) < size THEN [code |-> "PARTIAL"]
        ELSE IF octets[size] # FrameEnd THEN [code |-> "DECODE_ERROR"]
        ELSE [code |-> "OK", type |-> octets[1],
              channel |-> Unsigned(SubSeq(octets, 2, 3)),
              payload |-> SubSeq(octets, FrameHeaderSize + 1, size - 1),
              size |-> size]

(* Decoder::appendBytes: all the frames the buffer now holds, what is left *)
(* of it, and whether reading goes on.                                     *)
RECURSIVE decodeFrames(_, _)

decodeFrames(frames, octets) ==
    LET frame == decodeFrame(octets)
    IN  IF frame.code = "OK"
        THEN decodeFrames(Append(frames, frame),
                          SubSeq(octets, frame.size + 1, Len(octets)))
        ELSE [frames |-> frames, rest |-> octets,
              ok |-> frame.code = "PARTIAL" /\ Len(octets) <= DecoderMax]

appendBytes(octets) == decodeFrames(<<>>, buffer \o octets)

(* ContentMaker: the properties, the body so far and what it still lacks   *)
Maker(bodySize, properties) ==
    [properties |-> properties, body |-> <<>>, remaining |-> bodySize]

Done(maker) == maker.remaining = 0

Grown(maker, piece) ==
    [maker EXCEPT !.body = @ \o piece, !.remaining = @ - Len(piece)]

(* Framer::appendFrame for one frame, on the state `at' of the receiver:   *)
(* its makers, what it has delivered, and whether it has refused a frame,  *)
(* which makes Connection::processNextFrame end the connection.            *)

Deliver(at, channel, message) ==
    [at EXCEPT !.delivered[channel] = Append(@, message)]

Refuse(at) == [at EXCEPT !.refused = TRUE]

GotMethod(at, channel, method) ==
    IF channel \in DOMAIN at.makers \/ ~method.ok THEN Refuse(at)
    ELSE Deliver(at, channel, MethodMessage(method.value[1], method.value[2]))

AppendMethod(at, frame) == GotMethod(at, frame.channel, decodeMethod(frame.payload))

(* A header without a body is a whole message.                             *)
GotHeader(at, channel, header) ==
    LET maker == Maker(header.value[1], header.value[2])
    IN  IF channel \in DOMAIN at.makers \/ ~header.ok THEN Refuse(at)
        ELSE IF Done(maker)
        THEN Deliver(at, channel, Content(maker.properties, <<>>))
        ELSE [at EXCEPT !.makers = (channel :> maker) @@ @]

AppendHeader(at, frame) == GotHeader(at, frame.channel, decodeHeader(frame.payload))

(* The variant takes the message for complete one octet too early.         *)
AppendBodyWith(at, frame, Ended(_)) ==
    IF frame.channel \notin DOMAIN at.makers THEN Refuse(at)
    ELSE LET maker == at.makers[frame.channel]
             grown == Grown(maker, frame.payload)
         IN  IF maker.remaining < Len(frame.payload) THEN Refuse(at)
             ELSE IF Ended(grown)
             THEN [Deliver(at, frame.channel, Content(grown.properties, grown.body))
                   EXCEPT !.makers = RestrictDomain(@, LAMBDA c : c # frame.channel)]
             ELSE [at EXCEPT !.makers[frame.channel] = grown]

AppendBodyEarly(at, frame) == AppendBodyWith(at, frame, LAMBDA maker : maker.remaining <= 1)

AppendBody(at, frame) == AppendBodyWith(at, frame, Done)

appendFrame(at, frame) ==
    IF at.refused THEN at
    ELSE CASE frame.type = FrameType.METHOD -> AppendMethod(at, frame)
           [] frame.type = FrameType.HEADER -> AppendHeader(at, frame)
           [] frame.type = FrameType.BODY -> AppendBody(at, frame)
           [] frame.type = FrameType.HEARTBEAT -> Deliver(at, frame.channel, Heartbeat)
           [] OTHER -> Refuse(at)

(* AsioConnection::handleRead, doRead: all the frames of a read are handed *)
(* over, then a stream that cannot be decoded is given up.                 *)
HandedOver(decoded, after) ==
    /\ buffer' = decoded.rest
    /\ makers' = after.makers
    /\ delivered' = after.delivered
    /\ refused' = (after.refused \/ ~decoded.ok)

HandOver(decoded) ==
    HandedOver(decoded,
               FoldLeft(appendFrame,
                        [makers |-> makers, delivered |-> delivered, refused |-> FALSE],
                        decoded.frames))

Read(n) ==
    /\ ~refused
    /\ stream # <<>>
    /\ HandOver(appendBytes(SubSeq(stream, 1, Min({n, Len(stream)}))))
    /\ stream' = SubSeq(stream, n + 1, Len(stream))
    /\ UNCHANGED <<chosen, sender, sent, part, writeQueue, reconnects>>

(* Connection::socketShutdown and the next connect: a new AsioConnection   *)
(* with an empty queue and a new Decoder, and a new Framer.  The sender    *)
(* starts over with the messages that have not been delivered.             *)
ReconnectWith(makersAfter) ==
    /\ reconnects < MaxReconnects
    /\ ~refused
    /\ writeQueue' = <<>>
    /\ stream' = <<>>
    /\ buffer' = <<>>
    /\ makers' = makersAfter
    /\ sent' = [c \in Channels |-> Len(delivered[c])]
    /\ part' = [c \in Channels |-> 0]
    /\ reconnects' = reconnects + 1
    /\ UNCHANGED <<chosen, sender, delivered, refused>>

ReconnectKeepsMakers == ReconnectWith(makers)

Reconnect == ReconnectWith(<<>>)

Init ==
    /\ chosen \in ScriptNames
    /\ sender \in {"client", "broker"}
    /\ sent = [c \in Channels |-> 0]
    /\ part = [c \in Channels |-> 0]
    /\ writeQueue = <<>>
    /\ stream = <<>>
    /\ buffer = <<>>
    /\ makers = <<>>
    /\ delivered = [c \in Channels |-> <<>>]
    /\ refused = FALSE
    /\ reconnects = 0

Next ==
    \/ \E c \in Channels : AsyncWrite(c) \/ BrokerSends(c)
    \/ HandleWrite
    \/ \E n \in ReadSizes : Read(n)
    \/ Reconnect

Spec == Init /\ [][Next]_vars

-----------------------------------------------------------------------------
(* Properties                                                              *)

(* What arrives of a value: an unsigned 64 bit number as a signed one, the *)
(* whole seconds of a Datetime, 255 octets of a short string.              *)
RECURSIVE Arrived(_)

Cut(s) == SubSeq(s, 1, ShortMin(Len(s)))

ArrivedTable(table) == {<<Cut(pair[1]), Arrived(pair[2])>> : pair \in table}

Arrived(fv) ==
    CASE fv.t = "uint64" -> Typed("int64", fv.v)
      [] fv.t = "datetime" -> Typed("datetime", (fv.v \div 1000) * 1000)
      [] fv.t = "array" -> Typed("array", [i \in DOMAIN fv.v |-> Arrived(fv.v[i])])
      [] fv.t = "table" -> Typed("table", ArrivedTable(fv.v))
      [] OTHER -> fv

ArrivedField(type, v) ==
    CASE type = "shortstr" -> Cut(v)
      [] type = "timestamp" -> (v \div 1000) * 1000
      [] type = "table" -> ArrivedTable(v)
      [] OTHER -> v

ArrivedMessage(message) ==
    CASE message.kind = "METHOD" ->
             [message EXCEPT !.values =
                 [i \in DOMAIN @ |-> ArrivedField(message.method.fields[i], @[i])]]
      [] message.kind = "CONTENT" ->
             [message EXCEPT !.properties =
                 [id \in DOMAIN @ |-> ArrivedField(PropertyTypes[id + 1], @[id])]]
      [] message.kind = "HEARTBEAT" -> message

Expected == [c \in Channels |-> [i \in DOMAIN script[c] |-> ArrivedMessage(script[c][i])]]

(* Framer, Decoder: wherever the reads cut the stream, however the frames  *)
(* of several channels are interleaved and whenever the socket is lost,    *)
(* every channel receives its messages in order, each whole and unchanged. *)
Transparent == \A c \in Channels : IsPrefix(delivered[c], Expected[c])

(* Framer::appendFrame, Decoder::appendBytes, ContentMaker::done: nothing  *)
(* that one end writes is refused by the other, and a message is handed    *)
(* over with its last octet; nothing waits in the buffer or in a           *)
(* ContentMaker for octets that are not going to come, and no half-        *)
(* received content outlives its connection.                               *)
NothingLeftOver ==
    /\ ~refused
    /\ (\A c \in Channels : ~Unsent(c)) /\ writeQueue = <<>> /\ stream = <<>>
          => delivered = Expected /\ makers = <<>> /\ buffer = <<>>

=============================================================================
