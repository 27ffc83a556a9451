------------------------------- MODULE Codec -------------------------------
(***************************************************************************)
(* rmqamqpt: how AMQP 0-9-1 methods, content headers and field tables      *)
(* become octets and octets become methods, content headers and tables.    *)
(*                                                                         *)
(* The C++ writes a frame in two passes that nothing ties together:        *)
(* encodedSize() says how long the payload will be, which goes into the    *)
(* frame's header, and encode() writes it.  Both are modelled, each from   *)
(* its own code.                                                           *)
(*                                                                         *)
(* An octet is a number below 256, a string a sequence of octets.          *)
(***************************************************************************)
EXTENDS Integers, SequencesExt, FiniteSetsExt

-----------------------------------------------------------------------------
(* Numbers, most significant octet first.  Negative numbers are in two's   *)
(* complement.  The numbers used are small, whatever their width.          *)

BigEndian(value, width) ==
    LET octets[n \in 0..width] ==
            IF n = 0 THEN <<value, <<>>>>
            ELSE LET before == octets[n - 1]
                 IN  <<before[1] \div 256, <<before[1] % 256>> \o before[2]>>
    IN  octets[width][2]

Value(start, octets) ==
    LET value[n \in 0..Len(octets)] ==
            IF n = 0 THEN start ELSE value[n - 1] * 256 + octets[n]
    IN  value[Len(octets)]

Unsigned(octets) == Value(0, octets)

Signed(octets) == Value(IF Head(octets) >= 128 THEN -1 ELSE 0, octets)

(* Reading: either it fails, or it gives a value and what is left over.    *)
Failed == [ok |-> FALSE]

Got(value, rest) == [ok |-> TRUE, value |-> value, rest |-> rest]

(* Buffer::copy, Buffer::consume                                           *)
Take(buffer, n) ==
    IF Len(buffer) < n THEN Failed
    ELSE Got(SubSeq(buffer, 1, n), SubSeq(buffer, n + 1, Len(buffer)))

(* The same reading with its value converted                               *)
Map(reading, Conversion(_)) ==
    IF reading.ok THEN Got(Conversion(reading.value), reading.rest) ELSE Failed

(* One reading after another, which goes on with the value and the rest    *)
Then(reading, Continue(_, _)) ==
    IF reading.ok THEN Continue(reading.value, reading.rest) ELSE Failed

-----------------------------------------------------------------------------
(* Strings: encodeShortString cuts a string that is too long.              *)

ShortMax == 255

ShortMin(n) == IF n < ShortMax THEN n ELSE ShortMax

encodeShortString(s) ==
    LET sendSize == ShortMin(Len(s))
    IN  BigEndian(sendSize, 1) \o SubSeq(s, 1, sendSize)

encodeLongString(s) == BigEndian(Len(s), 4) \o s

decodeString(width, buffer) ==
    Then(Take(buffer, width), LAMBDA length, rest : Take(rest, Unsigned(length)))

-----------------------------------------------------------------------------
(* Field values.  A value has a type t, one of those of rmqt::FieldValue,  *)
(* and a content v.  A table is a set of pairs <<key, value>> with         *)
(* different keys, an array a sequence of values.  A float or a double is  *)
(* the octets that memcpy takes it apart into, a Datetime a number of      *)
(* milliseconds, of which only the seconds are sent.                       *)

(* The type octet; a uint64 is sent as a signed number.                    *)
TypeOctet == [bool |-> 116, int8 |-> 98, uint8 |-> 66, int16 |-> 115,
              uint16 |-> 117, int32 |-> 73, uint32 |-> 105, int64 |-> 108,
              uint64 |-> 108, float |-> 102, double |-> 100, string |-> 83,
              bytes |-> 120, array |-> 65, datetime |-> 84, table |-> 70,
              nil |-> 86]

NumberWidth == [int8 |-> 1, uint8 |-> 1, int16 |-> 2, uint16 |-> 2,
                int32 |-> 4, uint32 |-> 4, int64 |-> 8, uint64 |-> 8]

RECURSIVE encodedSize(_)

fieldArrayContentsEncodedSize(array) ==
    FoldLeft(LAMBDA size, fv : size + encodedSize(fv), 0, array)

encodedTableSize(table) ==
    FoldSet(LAMBDA pair, size : size + 1 + Len(pair[1]) + encodedSize(pair[2]),
            0, table)

encodedValueSize(fv) ==
    CASE fv.t \in DOMAIN NumberWidth -> NumberWidth[fv.t]
      [] fv.t = "bool" -> 1
      [] fv.t = "float" -> 4
      [] fv.t \in {"double", "datetime"} -> 8
      [] fv.t \in {"string", "bytes"} -> 4 + Len(fv.v)
      [] fv.t = "array" -> 4 + fieldArrayContentsEncodedSize(fv.v)
      [] fv.t = "table" -> 4 + encodedTableSize(fv.v)
      [] fv.t = "nil" -> 0

encodedSize(fv) == 1 + encodedValueSize(fv)

RECURSIVE encodeFieldValue(_)

encodeFieldArray(array) ==
    BigEndian(fieldArrayContentsEncodedSize(array), 4)
    \o FlattenSeq([i \in DOMAIN array |-> encodeFieldValue(array[i])])

(* bsl::map hands out its pairs by key; any order will do here.            *)
encodeFieldTable(table) ==
    BigEndian(encodedTableSize(table), 4)
    \o FoldSet(LAMBDA pair, octets : octets \o encodeShortString(pair[1])
                                            \o encodeFieldValue(pair[2]),
               <<>>, table)

encodeFieldValue(fv) ==
    <<TypeOctet[fv.t]>> \o
    CASE fv.t \in DOMAIN NumberWidth -> BigEndian(fv.v, NumberWidth[fv.t])
      [] fv.t = "bool" -> <<IF fv.v THEN 1 ELSE 0>>
      [] fv.t \in {"float", "double"} -> fv.v
      [] fv.t = "datetime" -> BigEndian(fv.v \div 1000, 8)
      [] fv.t \in {"string", "bytes"} -> encodeLongString(fv.v)
      [] fv.t = "array" -> encodeFieldArray(fv.v)
      [] fv.t = "table" -> encodeFieldTable(fv.v)
      [] fv.t = "nil" -> <<>>

Typed(t, v) == [t |-> t, v |-> v]

Nil == Typed("nil", 0)

(* 'L', as well as 'l', is read as a signed number; 'D' is a decimal.      *)
LongLong == 76

Decimal == 68

decodeNumber(type, buffer) ==
    Map(Take(buffer, NumberWidth[type]),
        LAMBDA octets : Typed(type, IF type \in {"uint8", "uint16", "uint32"}
                                    THEN Unsigned(octets) ELSE Signed(octets)))

RECURSIVE decodeFieldValue(_)

RECURSIVE decodeFields(_, _)

RECURSIVE decodeItems(_, _)

(* The fields of a table, up to its last octet; a second value for a key   *)
(* is dropped.                                                             *)
decodeFields(table, buffer) ==
    IF buffer = <<>> THEN Got(table, <<>>)
    ELSE Then(decodeString(1, buffer), LAMBDA key, afterKey :
         Then(decodeFieldValue(afterKey), LAMBDA value, rest :
             decodeFields(IF \E pair \in table : pair[1] = key
                          THEN table ELSE table \cup {<<key, value>>},
                          rest)))

decodeFieldTable(buffer) ==
    Then(decodeString(4, buffer), LAMBDA contents, rest :
    Then(decodeFields({}, contents), LAMBDA table, none : Got(table, rest)))

decodeItems(array, buffer) ==
    IF buffer = <<>> THEN Got(array, <<>>)
    ELSE Then(decodeFieldValue(buffer),
              LAMBDA value, rest : decodeItems(Append(array, value), rest))

decodeFieldArray(buffer) ==
    Then(decodeString(4, buffer), LAMBDA contents, rest :
    Then(decodeItems(<<>>, contents), LAMBDA array, none : Got(array, rest)))

decodeTimestamp(buffer) == Map(Take(buffer, 8), LAMBDA octets : Signed(octets) * 1000)

(* A decimal is skipped and leaves no value.                               *)
decodeFieldValue(buffer) ==
    IF buffer = <<>> THEN Failed
    ELSE LET type == Head(buffer)
             rest == Tail(buffer)
             numbers == {t \in DOMAIN NumberWidth \ {"uint64"} : TypeOctet[t] = type}
             As(t, reading) == Map(reading, LAMBDA v : Typed(t, v))
         IN  CASE numbers # {} -> decodeNumber(CHOOSE t \in numbers : TRUE, rest)
               [] type = LongLong -> decodeNumber("int64", rest)
               [] type = TypeOctet.bool ->
                      Map(Take(rest, 1), LAMBDA v : Typed("bool", v # <<0>>))
               [] type = TypeOctet.float -> As("float", Take(rest, 4))
               [] type = TypeOctet.double -> As("double", Take(rest, 8))
               [] type = TypeOctet.datetime -> As("datetime", decodeTimestamp(rest))
               [] type = TypeOctet.string -> As("string", decodeString(4, rest))
               [] type = TypeOctet.bytes -> As("bytes", decodeString(4, rest))
               [] type = TypeOctet.array -> As("array", decodeFieldArray(rest))
               [] type = TypeOctet.table -> As("table", decodeFieldTable(rest))
               [] type = Decimal -> Map(Take(rest, 5), LAMBDA v : Nil)
               [] type = TypeOctet.nil -> Got(Nil, rest)
               [] OTHER -> Failed

=============================================================================
