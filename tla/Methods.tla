------------------------------ MODULE Methods ------------------------------
(***************************************************************************)
(* The AMQP methods of rmqamqpt, one definition per class: its class and   *)
(* method id, the fields encode() writes one after the other, how many of  *)
(* them decode() reads, and the part of encodedSize() that does not depend *)
(* on the values.  The other part is the lengths of strings and tables.    *)
(* Flags share an octet: "bits3" is an octet with three of them.           *)
(***************************************************************************)
EXTENDS Codec

-----------------------------------------------------------------------------
(* Fields                                                                  *)

IntegerWidth == [octet |-> 1, short |-> 2, long |-> 4, longlong |-> 8]

BitCount == [bits1 |-> 1, bits2 |-> 2, bits3 |-> 3, bits4 |-> 4, bits5 |-> 5]

(* Fields without a meaning are sent as zero and skipped by the reader.    *)
ReservedWidth == [reservedOctet |-> 1, reservedShort |-> 2, noShortStr |-> 1,
                  noLongStr |-> 4]

encodeField(type, v) ==
    CASE type \in DOMAIN IntegerWidth -> BigEndian(v, IntegerWidth[type])
      [] type \in DOMAIN ReservedWidth -> BigEndian(0, ReservedWidth[type])
      [] type \in DOMAIN BitCount -> <<FoldSet(LAMBDA i, octet : octet + 2^i, 0, v)>>
      [] type = "shortstr" -> encodeShortString(v)
      [] type = "longstr" -> encodeLongString(v)
      [] type = "table" -> encodeFieldTable(v)
      [] type = "timestamp" -> BigEndian(v \div 1000, 8)

decodeField(type, buffer) ==
    CASE type \in DOMAIN IntegerWidth -> Map(Take(buffer, IntegerWidth[type]), Unsigned)
      [] type \in {"reservedOctet", "reservedShort"} ->
             Map(Take(buffer, ReservedWidth[type]), LAMBDA octets : 0)
      [] type \in {"noShortStr", "noLongStr"} ->
             Map(decodeString(ReservedWidth[type], buffer), LAMBDA octets : 0)
      [] type \in DOMAIN BitCount ->
             Map(Take(buffer, 1), LAMBDA octet : {i \in 0..BitCount[type] - 1 :
                                                    (octet[1] \div 2^i) % 2 = 1})
      [] type = "shortstr" -> decodeString(1, buffer)
      [] type = "longstr" -> decodeString(4, buffer)
      [] type = "table" -> decodeFieldTable(buffer)
      [] type = "timestamp" -> decodeTimestamp(buffer)

(* What the value of a field adds to encodedSize()                         *)
variableSize(type, v) ==
    CASE type \in {"shortstr", "longstr"} -> Len(v)
      [] type = "table" -> encodedTableSize(v)
      [] OTHER -> 0

(* Reads fields one after the other                                        *)
decodeFieldSeq(types, buffer) ==
    FoldLeft(LAMBDA soFar, type :
                 IF ~soFar.ok THEN Failed
                 ELSE Map(decodeField(type, soFar.rest),
                          LAMBDA v : Append(soFar.value, v)),
             Got(<<>>, buffer), types)

-----------------------------------------------------------------------------
(* Methods                                                                 *)

(* Constants::AMQPClassId and, for each class, the AMQPMethodIds in use    *)
ClassId == [CONNECTION |-> 10, CHANNEL |-> 20, EXCHANGE |-> 40, QUEUE |-> 50,
            BASIC |-> 60, CONFIRM |-> 85]

MethodId ==
    [BASIC |-> [QOS |-> 10, QOSOK |-> 11, CONSUME |-> 20, CONSUMEOK |-> 21,
                CANCEL |-> 30, CANCELOK |-> 31, PUBLISH |-> 40, RETURN |-> 50,
                DELIVER |-> 60, ACK |-> 80, NACK |-> 120],
     CONFIRM |-> [SELECT |-> 10, SELECTOK |-> 11],
     CONNECTION |-> [START |-> 10, STARTOK |-> 11, TUNE |-> 30, TUNEOK |-> 31,
                     OPEN |-> 40, OPENOK |-> 41, CLOSE |-> 50, CLOSEOK |-> 51],
     CHANNEL |-> [OPEN |-> 10, OPENOK |-> 11, FLOW |-> 20, FLOWOK |-> 21,
                  CLOSE |-> 40, CLOSEOK |-> 41],
     EXCHANGE |-> [DECLARE |-> 10, DECLAREOK |-> 11, BIND |-> 30, BINDOK |-> 31],
     QUEUE |-> [DECLARE |-> 10, DECLAREOK |-> 11, BIND |-> 20, BINDOK |-> 21,
                UNBIND |-> 50, UNBINDOK |-> 51, DELETE |-> 40, DELETEOK |-> 41]]

Method(class, method, fields, fixedSize) ==
    [class |-> ClassId[class], id |-> MethodId[class][method], fields |-> fields,
     read |-> Len(fields), fixedSize |-> fixedSize]

BasicQoSFields == <<"long", "short", "bits1">>
BasicQoS == Method("BASIC", "QOS", BasicQoSFields, 7)
BasicQoSOk == Method("BASIC", "QOSOK", <<>>, 0)
BasicConsumeFields == <<"reservedShort", "shortstr", "shortstr", "bits4", "table">>
BasicConsume == Method("BASIC", "CONSUME", BasicConsumeFields, 9)
BasicConsumeOkFields == <<"shortstr">>
BasicConsumeOk == Method("BASIC", "CONSUMEOK", BasicConsumeOkFields, 1)
BasicCancelFields == <<"shortstr", "bits1">>
BasicCancel == Method("BASIC", "CANCEL", BasicCancelFields, 2)
BasicCancelOkFields == <<"shortstr">>
BasicCancelOk == Method("BASIC", "CANCELOK", BasicCancelOkFields, 1)
BasicPublishFields == <<"reservedShort", "shortstr", "shortstr", "bits2">>
BasicPublish == Method("BASIC", "PUBLISH", BasicPublishFields, 5)
BasicReturnFields == <<"short", "shortstr", "shortstr", "shortstr">>
BasicReturn == Method("BASIC", "RETURN", BasicReturnFields, 5)
BasicDeliverFields == <<"shortstr", "longlong", "bits1", "shortstr", "shortstr">>
BasicDeliver == Method("BASIC", "DELIVER", BasicDeliverFields, 12)
BasicAckFields == <<"longlong", "bits1">>
BasicAck == Method("BASIC", "ACK", BasicAckFields, 9)
BasicNackFields == <<"longlong", "bits2">>
BasicNack == Method("BASIC", "NACK", BasicNackFields, 9)

ConfirmSelectFields == <<"bits1">>
ConfirmSelect == Method("CONFIRM", "SELECT", ConfirmSelectFields, 1)
ConfirmSelectOkFields == <<>>
ConfirmSelectOk == Method("CONFIRM", "SELECTOK", ConfirmSelectOkFields, 0)

ConnectionStartFields == <<"octet", "octet", "table", "longstr", "longstr">>
ConnectionStart == Method("CONNECTION", "START", ConnectionStartFields, 14)
ConnectionStartOkFields == <<"table", "shortstr", "longstr", "shortstr">>
ConnectionStartOk == Method("CONNECTION", "STARTOK", ConnectionStartOkFields, 10)
ConnectionTuneFields == <<"short", "long", "short">>
ConnectionTune == Method("CONNECTION", "TUNE", ConnectionTuneFields, 8)
ConnectionTuneOkFields == <<"short", "long", "short">>
ConnectionTuneOk == Method("CONNECTION", "TUNEOK", ConnectionTuneOkFields, 8)
(* decode() stops at the virtual host                                      *)
ConnectionOpenFields == <<"shortstr", "noShortStr", "reservedOctet">>
ConnectionOpen == [Method("CONNECTION", "OPEN", ConnectionOpenFields, 3) EXCEPT !.read = 1]
ConnectionOpenOkFields == <<"noShortStr">>
ConnectionOpenOk == Method("CONNECTION", "OPENOK", ConnectionOpenOkFields, 1)
ConnectionCloseFields == <<"short", "shortstr", "short", "short">>
ConnectionClose == Method("CONNECTION", "CLOSE", ConnectionCloseFields, 7)
ConnectionCloseOk == Method("CONNECTION", "CLOSEOK", <<>>, 0)

ChannelOpenFields == <<"noShortStr">>
ChannelOpen == Method("CHANNEL", "OPEN", ChannelOpenFields, 1)
ChannelOpenOkFields == <<"noLongStr">>
ChannelOpenOk == Method("CHANNEL", "OPENOK", ChannelOpenOkFields, 4)
ChannelFlowFields == <<"bits1">>
ChannelFlow == Method("CHANNEL", "FLOW", ChannelFlowFields, 1)
ChannelFlowOkFields == <<"bits1">>
ChannelFlowOk == Method("CHANNEL", "FLOWOK", ChannelFlowOkFields, 1)
ChannelCloseFields == <<"short", "shortstr", "short", "short">>
ChannelClose == Method("CHANNEL", "CLOSE", ChannelCloseFields, 7)
ChannelCloseOk == Method("CHANNEL", "CLOSEOK", <<>>, 0)

ExchangeDeclareFields == <<"reservedShort", "shortstr", "shortstr", "bits5", "table">>
ExchangeDeclare == Method("EXCHANGE", "DECLARE", ExchangeDeclareFields, 9)
ExchangeDeclareOkFields == <<>>
ExchangeDeclareOk == Method("EXCHANGE", "DECLAREOK", ExchangeDeclareOkFields, 0)
ExchangeBindFields ==
    <<"reservedShort", "shortstr", "shortstr", "shortstr", "bits1", "table">>
ExchangeBind == Method("EXCHANGE", "BIND", ExchangeBindFields, 10)
ExchangeBindOkFields == <<>>
ExchangeBindOk == Method("EXCHANGE", "BINDOK", ExchangeBindOkFields, 0)

QueueDeclareFields == <<"reservedShort", "shortstr", "bits5", "table">>
QueueDeclare == Method("QUEUE", "DECLARE", QueueDeclareFields, 8)
QueueDeclareOkFields == <<"shortstr", "long", "long">>
QueueDeclareOk == Method("QUEUE", "DECLAREOK", QueueDeclareOkFields, 9)
QueueBindFields ==
    <<"reservedShort", "shortstr", "shortstr", "shortstr", "bits1", "table">>
QueueBind == Method("QUEUE", "BIND", QueueBindFields, 10)
QueueBindOkFields == <<>>
QueueBindOk == Method("QUEUE", "BINDOK", QueueBindOkFields, 0)
QueueUnbindFields == <<"reservedShort", "shortstr", "shortstr", "shortstr", "table">>
QueueUnbind == Method("QUEUE", "UNBIND", QueueUnbindFields, 9)
QueueUnbindOkFields == <<>>
QueueUnbindOk == Method("QUEUE", "UNBINDOK", QueueUnbindOkFields, 0)
QueueDeleteFields == <<"reservedShort", "shortstr", "bits3">>
QueueDelete == Method("QUEUE", "DELETE", QueueDeleteFields, 4)
QueueDeleteOkFields == <<"long">>
QueueDeleteOk == Method("QUEUE", "DELETEOK", QueueDeleteOkFields, 4)

(* The methods each class knows                                            *)
BasicMethods == {BasicQoS, BasicQoSOk, BasicConsume, BasicConsumeOk, BasicCancel,
                 BasicCancelOk, BasicPublish, BasicReturn, BasicDeliver, BasicAck,
                 BasicNack}
ConfirmMethods == {ConfirmSelect, ConfirmSelectOk}
ConnectionMethods == {ConnectionStart, ConnectionStartOk, ConnectionTune,
                      ConnectionTuneOk, ConnectionOpen, ConnectionOpenOk,
                      ConnectionClose, ConnectionCloseOk}
ChannelMethods == {ChannelOpen, ChannelOpenOk, ChannelFlow, ChannelFlowOk,
                   ChannelClose, ChannelCloseOk}
ExchangeMethods == {ExchangeDeclare, ExchangeDeclareOk, ExchangeBind, ExchangeBindOk}
QueueMethods == {QueueDeclare, QueueDeclareOk, QueueBind, QueueBindOk, QueueUnbind,
                 QueueUnbindOk, QueueDelete, QueueDeleteOk}

AllMethods == BasicMethods \cup ConfirmMethods \cup ConnectionMethods
              \cup ChannelMethods \cup ExchangeMethods \cup QueueMethods

(* A method with its values, one per field; 0 for a reserved field         *)
methodEncodedSize(m, values) ==
    2 + 2 + m.fixedSize
    + FoldLeftDomain(LAMBDA size, i : size + variableSize(m.fields[i], values[i]),
                     0, values)

encodeMethod(m, values) ==
    BigEndian(m.class, 2) \o BigEndian(m.id, 2)
    \o FlattenSeq([i \in DOMAIN values |-> encodeField(m.fields[i], values[i])])

decodeShort(buffer) == Map(Take(buffer, 2), Unsigned)

(* BasicMethod::Util::decode and its like: the method id, then the fields. *)
(* Octets beyond the last field are ignored.                               *)
decodeArguments(m, buffer) ==
    Map(decodeFieldSeq(SubSeq(m.fields, 1, m.read), buffer),
        LAMBDA values : <<m, [i \in DOMAIN m.fields |->
                                 IF i <= m.read THEN values[i] ELSE 0]>>)

decodeOneOf(known, buffer) ==
    IF known = {} THEN Failed
    ELSE decodeArguments(CHOOSE m \in known : TRUE, buffer)

decodeIn(methods, buffer) ==
    Then(decodeShort(buffer),
         LAMBDA id, rest : decodeOneOf({m \in methods : m.id = id}, rest))

decodeBasicMethod(buffer) == decodeIn(BasicMethods, buffer)
decodeConfirmMethod(buffer) == decodeIn(ConfirmMethods, buffer)
decodeConnectionMethod(buffer) == decodeIn(ConnectionMethods, buffer)
decodeChannelMethod(buffer) == decodeIn(ChannelMethods, buffer)
decodeExchangeMethod(buffer) == decodeIn(ExchangeMethods, buffer)
decodeQueueMethod(buffer) == decodeIn(QueueMethods, buffer)

decodeMethod(payload) ==
    Then(decodeShort(payload), LAMBDA class, rest :
        CASE class = ClassId.BASIC -> decodeBasicMethod(rest)
          [] class = ClassId.CONFIRM -> decodeConfirmMethod(rest)
          [] class = ClassId.CONNECTION -> decodeConnectionMethod(rest)
          [] class = ClassId.CHANNEL -> decodeChannelMethod(rest)
          [] class = ClassId.EXCHANGE -> decodeExchangeMethod(rest)
          [] class = ClassId.QUEUE -> decodeQueueMethod(rest)
          [] OTHER -> Failed)

-----------------------------------------------------------------------------
(* Content headers: rmqt::Properties is a function from the properties     *)
(* that are set, by their BasicProperties::Id, to their values.            *)

PropertyTypes == <<"shortstr", "shortstr", "table", "octet", "octet", "shortstr",
                   "shortstr", "shortstr", "shortstr", "timestamp", "shortstr",
                   "shortstr", "shortstr">>

PropertyIds == 0..12

(* The properties that are set, in the order of their ids                  *)
InOrder(ids) == SelectSeq([i \in 1..13 |-> i - 1], LAMBDA id : id \in ids)

TypesOf(ids) == [i \in 1..Cardinality(ids) |-> PropertyTypes[InOrder(ids)[i] + 1]]

propertyFlags(ids) == FoldSet(LAMBDA id, flags : flags + 2^(15 - id), 0, ids)

propertiesEncodedSize(properties) ==
    2 + FoldSet(LAMBDA id, size :
                    LET type == PropertyTypes[id + 1]
                    IN  size + variableSize(type, properties[id])
                        + CASE type \in {"shortstr", "octet"} -> 1
                            [] type = "table" -> 4
                            [] type = "timestamp" -> 8,
                0, DOMAIN properties)

encodeProperties(properties) ==
    LET ids == InOrder(DOMAIN properties)
    IN  BigEndian(propertyFlags(DOMAIN properties), 2)
        \o FlattenSeq([i \in DOMAIN ids |->
                          encodeField(PropertyTypes[ids[i] + 1], properties[ids[i]])])

(* The properties in ids                                                   *)
decodeThese(ids, buffer) ==
    LET order == InOrder(ids)
    IN  Map(decodeFieldSeq(TypesOf(ids), buffer),
            LAMBDA values : [id \in ids |->
                                values[CHOOSE i \in DOMAIN order : order[i] = id]])

decodeProperties(buffer) ==
    Then(decodeShort(buffer), LAMBDA flags, rest :
        decodeThese({id \in PropertyIds : (flags \div 2^(15 - id)) % 2 = 1}, rest))

(* ContentHeader: class, weight, body size, properties                     *)
headerEncodedSize(properties) == 12 + propertiesEncodedSize(properties)

encodeHeader(bodySize, properties) ==
    BigEndian(ClassId.BASIC, 2) \o BigEndian(0, 2) \o BigEndian(bodySize, 8)
    \o encodeProperties(properties)

decodeHeader(payload) ==
    Then(decodeFieldSeq(<<"short", "short", "longlong">>, payload), LAMBDA front, rest :
        Map(decodeProperties(rest), LAMBDA p : <<front[3], p>>))

=============================================================================
