------------------------------- MODULE MCWire -------------------------------
(***************************************************************************)
(* Messages for Wire: every method with several values for each field,     *)
(* tables with every type of value, every property, and bodies whose size  *)
(* is just below, at and just above one and two full frames.               *)
(***************************************************************************)
EXTENDS Wire

MCChannels == {0, 1, 2}

Silent == [c \in MCChannels |-> <<>>]

Scalars ==
    {<<<<97>>, Typed("bool", TRUE)>>, <<<<98>>, Typed("int8", -3)>>,
     <<<<99>>, Typed("uint8", 200)>>, <<<<100>>, Typed("int16", -300)>>,
     <<<<101>>, Typed("uint16", 40000)>>, <<<<102>>, Typed("int32", -70000)>>,
     <<<<103>>, Typed("uint32", 70000)>>, <<<<104>>, Typed("int64", -1)>>,
     <<<<105>>, Typed("uint64", 7)>>, <<<<106>>, Typed("float", <<1, 2, 3, 4>>)>>,
     <<<<107>>, Typed("double", <<1, 2, 3, 4, 5, 6, 7, 8>>)>>,
     <<<<108>>, Typed("datetime", 86400999)>>, <<<<109>>, Typed("string", <<206>>)>>,
     <<<<110>>, Typed("bytes", <<>>)>>, <<<<>>, Nil>>}

Nested ==
    {<<<<97, 98>>, Typed("array", <<Typed("array", <<>>), Typed("table", {}), Nil>>)>>,
     <<<<99>>, Typed("table", {<<<<100>>, Typed("array", <<Typed("int8", 1)>>)>>})>>}

(* Values of each type of field; 206 is also the end of a frame.           *)
Samples(type) ==
    CASE type = "octet" -> <<0, 206, 255>>
      [] type = "short" -> <<0, 206, 65535>>
      [] type \in {"long", "longlong"} -> <<1, 0, 131072>>
      [] type \in DOMAIN ReservedWidth -> <<0>>
      [] type \in DOMAIN BitCount -> <<{}, 0..BitCount[type] - 1, {BitCount[type] - 1}>>
      [] type = "timestamp" -> <<0, 1999, 1700000000>>
      [] type = "table" -> <<Nested, {}, Scalars>>
      [] type \in {"shortstr", "longstr"} -> <<<<>>, <<206, 0>>, <<97>>>>

Sample(type, k) == Samples(type)[(k % Len(Samples(type))) + 1]

SampleMethod(m, k) ==
    MethodMessage(m, [i \in DOMAIN m.fields |-> Sample(m.fields[i], i + k)])

SampleProperties(ids, k) == [id \in ids |-> Sample(PropertyTypes[id + 1], id + k)]

Delivery(channel, size) ==
    <<MethodMessage(BasicDeliver, <<<<97>>, channel, {}, <<>>, <<>>>>),
      Content(<<>>, [i \in 1..size |-> 10 * channel + i])>>

(* One method; one content without a body; two deliveries on one channel;  *)
(* deliveries on two channels and a heartbeat.  MaxFrame leaves 16 octets  *)
(* for a piece of a body.                                                  *)
MCScriptNames ==
    ({"method"} \X AllMethods \X (0..2))
    \cup ({"header"} \X ({{}, PropertyIds} \cup {{id} : id \in PropertyIds}) \X (0..2))
    \cup ({"body"} \X {0, 15, 16, 17, 31, 32, 33} \X {1})
    \cup {<<"mixed", 1, 17>>}

MCScript(choice) ==
    LET x == choice[2]
        y == choice[3]
    IN  CASE choice[1] = "method" ->
                 [Silent EXCEPT ![IF x.class = ClassId.CONNECTION THEN 0 ELSE 1] =
                                    <<SampleMethod(x, y)>>]
          [] choice[1] = "header" ->
                 [Silent EXCEPT ![2] = <<Content(SampleProperties(x, y), <<>>)>>]
          [] choice[1] = "body" -> [Silent EXCEPT ![1] = Delivery(1, x) \o Delivery(1, y)]
          [] choice[1] = "mixed" ->
                 [Silent EXCEPT ![0] = <<Heartbeat>>, ![1] = Delivery(1, x),
                                ![2] = Delivery(2, y)]

=============================================================================
