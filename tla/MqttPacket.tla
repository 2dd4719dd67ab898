----------------------------- MODULE MqttPacket -----------------------------
(***************************************************************************)
(* The packets of the vendored AWS IoT MQTT client: how it builds what it  *)
(* sends in the write buffer, how it takes apart what is in the read       *)
(* buffer, and which of its topic filters match the topic of a message.    *)
(* A packet is a sequence of bytes, a topic or payload too; an empty       *)
(* result stands for MQTT_TX_BUFFER_TOO_SHORT_ERROR, Bad for any error.    *)
(***************************************************************************)
EXTENDS Naturals, Sequences, SequencesExt, FiniteSets

CONSTANT TxLen       \* AWS_IOT_MQTT_TX_BUF_LEN
ASSUME TxLenAssumption == TxLen \in Nat \ {0}

Bad == [type |-> "bad"]
TypeCode == [CONNECT |-> 1, CONNACK |-> 2, PUBLISH |-> 3, PUBACK |-> 4, SUBSCRIBE |-> 8, SUBACK |-> 9,
             UNSUBSCRIBE |-> 10, UNSUBACK |-> 11, PINGREQ |-> 12, PINGRESP |-> 13, DISCONNECT |-> 14]
Bit(condition) == IF condition THEN 1 ELSE 0

\* The first byte: the type, and the flags duplicate, quality of service 1 and retained.
HeaderByte(type, qos, dup, retained) ==
  16 * TypeCode[type] + 8 * dup + 2 * Bit(qos = 1) + Bit(retained = 1)
HeaderType(byte) ==
  CHOOSE type \in DOMAIN TypeCode \union {"unknown"} :
    IF type = "unknown" THEN \A t \in DOMAIN TypeCode : TypeCode[t] # byte \div 16
    ELSE TypeCode[type] = byte \div 16
HeaderFlags(byte) == [dup |-> (byte \div 8) % 2, qos |-> (byte \div 2) % 4, retained |-> byte % 2]

\* A length in base 128, least significant digit first, the top bit set on all but the last.
LengthBytes[length \in Nat] ==
  IF length < 128 THEN <<length>> ELSE <<128 + (length % 128)>> \o LengthBytes[length \div 128]
\* The length of a whole packet, from what follows the length field.
FinalPacketLength(remLen) ==
  LET withHeader == remLen + 1 IN
  withHeader + CASE withHeader < 128 -> 1 [] withHeader < 16384 -> 2
                 [] withHeader < 2097152 -> 3 [] OTHER -> 4
\* The length field that starts after the first skip bytes: its value and its size.
MaxLengthBytes == 4
DecodeLength(bytes, skip) ==
  LET ends == {n \in 1..MaxLengthBytes : skip + n <= Len(bytes) /\ bytes[skip + n] < 128} IN
  IF ends = {} THEN Bad
  ELSE LET size == Min(ends)
           digits == SubSeq(bytes, skip + 1, skip + size) IN
       [type |-> "length", size |-> size,
        value |-> FoldRight(LAMBDA digit, value : (digit % 128) + 128 * value, digits, 0)]

Uint16(n) == <<n \div 256, n % 256>>
ReadUint16(bytes, at) == 256 * bytes[at] + bytes[at + 1]
Utf8(s) == Uint16(Len(s)) \o s
Sum(lengths) == FoldLeft(LAMBDA a, b : a + b, 0, lengths)

-----------------------------------------------------------------------------
(* The packets the client builds.  The length written in the packet is computed     *)
(* before anything is written, and refused when the packet would not fit.           *)
Build(header, remLen, body) ==
  IF FinalPacketLength(remLen) > TxLen THEN <<>> ELSE <<header>> \o LengthBytes[remLen] \o body

\* Mutant of ConnectLength: the message of the will is not counted.
ConnectLengthNoMessage(p) ==
  12 + Len(p.id) + Sum([i \in DOMAIN p.will |-> 4 + Len(p.will[i].topic)])
     + Sum([i \in DOMAIN p.user |-> 2 + Len(p.user[i])]) + Sum([i \in DOMAIN p.pass |-> 2 + Len(p.pass[i])])
\* will, user and pass are sequences of at most one element: the parameter, or none.
ConnectLength(p) ==
  12 + Len(p.id) + Sum([i \in DOMAIN p.will |-> 4 + Len(p.will[i].topic) + Len(p.will[i].msg)])
     + Sum([i \in DOMAIN p.user |-> 2 + Len(p.user[i])]) + Sum([i \in DOMAIN p.pass |-> 2 + Len(p.pass[i])])
ConnectFlags(p) ==
  2 * Bit(p.clean) + Sum([i \in DOMAIN p.will |-> 4 + 8 * p.will[i].qos + 32 * p.will[i].retained])
  + 64 * Len(p.pass) + 128 * Len(p.user)
Mqtt311 == Utf8(<<77, 81, 84, 84>>) \o <<4>>
SerializeConnect(p) ==
  Build(HeaderByte("CONNECT", 0, 0, 0), ConnectLength(p),
        Mqtt311 \o <<ConnectFlags(p)>> \o Uint16(p.keepAlive) \o Utf8(p.id)
        \o FlattenSeq([i \in DOMAIN p.will |-> Utf8(p.will[i].topic) \o Utf8(p.will[i].msg)])
        \o FlattenSeq([i \in DOMAIN p.user |-> Utf8(p.user[i])])
        \o FlattenSeq([i \in DOMAIN p.pass |-> Utf8(p.pass[i])]))
SerializePublish(p) ==
  Build(HeaderByte("PUBLISH", p.qos, p.dup, p.retained),
        Len(p.topic) + Len(p.payload) + 2 + 2 * Bit(p.qos > 0),
        Utf8(p.topic) \o (IF p.qos > 0 THEN Uint16(p.packetId) ELSE <<>>) \o p.payload)
SerializeSubscribe(p) ==
  Build(HeaderByte("SUBSCRIBE", 1, 0, 0),
        2 + Sum([i \in DOMAIN p.topics |-> Len(p.topics[i]) + 2 + 1]),
        Uint16(p.packetId) \o FlattenSeq([i \in DOMAIN p.topics |-> Utf8(p.topics[i]) \o <<p.qos[i]>>]))
SerializeUnsubscribe(p) ==
  Build(HeaderByte("UNSUBSCRIBE", 1, 0, 0),
        2 + Sum([i \in DOMAIN p.topics |-> Len(p.topics[i]) + 2]),
        Uint16(p.packetId) \o FlattenSeq([i \in DOMAIN p.topics |-> Utf8(p.topics[i])]))
SerializeAck(p) == IF TxLen < 4 THEN <<>> ELSE <<HeaderByte(p.type, 0, 0, 0)>> \o LengthBytes[2] \o Uint16(p.packetId)
SerializeZero(p) == IF TxLen < 4 THEN <<>> ELSE <<HeaderByte(p.type, 0, 0, 0)>> \o LengthBytes[0]
Serialize(p) ==
  CASE p.type = "CONNECT" -> SerializeConnect(p)
    [] p.type = "PUBLISH" -> SerializePublish(p)
    [] p.type = "SUBSCRIBE" -> SerializeSubscribe(p)
    [] p.type = "UNSUBSCRIBE" -> SerializeUnsubscribe(p)
    [] p.type = "PUBACK" -> SerializeAck(p)
    [] OTHER -> SerializeZero(p)

-----------------------------------------------------------------------------
(* The packets the client takes apart.  The buffer holds one whole packet, followed *)
(* by what earlier packets left there.                                              *)

\* A topic or the like starts at "at" and may not go beyond "end".
StringAt(buf, at, end) ==
  IF end - at < 2 \/ at + 2 + ReadUint16(buf, at) > end THEN Bad
  ELSE [type |-> "string", s |-> SubSeq(buf, at + 2, at + 1 + ReadUint16(buf, at)),
        next |-> at + 2 + ReadUint16(buf, at)]
\* What follows the length field of the packet in the buffer: from "at" up to "end".
Body(buf) ==
  LET length == DecodeLength(buf, 1) IN
  [at |-> 2 + length.size, end |-> 2 + length.size + length.value]
DeserializePublish(buf) ==
  LET body == Body(buf)
      flags == HeaderFlags(buf[1])
      topic == StringAt(buf, body.at, body.end)
      payload == topic.next + 2 * Bit(flags.qos # 0) IN
  IF topic = Bad THEN Bad
  ELSE [type |-> "PUBLISH", dup |-> flags.dup, qos |-> flags.qos, retained |-> flags.retained,
        topic |-> topic.s, packetId |-> IF flags.qos # 0 THEN ReadUint16(buf, topic.next) ELSE 0,
        payload |-> SubSeq(buf, payload, body.end - 1)]
DeserializeAck(buf) ==
  LET body == Body(buf) IN
  IF body.end - body.at < 2 THEN Bad
  ELSE [type |-> HeaderType(buf[1]), packetId |-> ReadUint16(buf, body.at)]
\* The count is compared before the next one is stored: one more than expected passes.
DeserializeSuback(buf, maxExpected) ==
  LET body == Body(buf) IN
  IF body.end - body.at < 2 \/ body.end - body.at - 2 > maxExpected + 1 THEN Bad
  ELSE [type |-> "SUBACK", packetId |-> ReadUint16(buf, body.at), qos |-> SubSeq(buf, body.at + 2, body.end - 1)]
\* Whether a session is present is read from the top bit of the flags; codes above 5 are unknown.
DeserializeConnack(buf) ==
  LET body == Body(buf) IN
  IF body.end - body.at # 2 THEN Bad
  ELSE [type |-> "CONNACK", code |-> IF buf[body.at + 1] <= 5 THEN buf[body.at + 1] ELSE 6,
        session |-> buf[body.at] \div 128]
DeserializeUnsuback(buf) == IF DeserializeAck(buf) = Bad \/ HeaderType(buf[1]) # "UNSUBACK" THEN Bad ELSE DeserializeAck(buf)
Deserialize(buf) ==
  CASE HeaderType(buf[1]) = "PUBLISH" -> DeserializePublish(buf)
    [] HeaderType(buf[1]) = "CONNACK" -> DeserializeConnack(buf)
    [] HeaderType(buf[1]) = "SUBACK" -> DeserializeSuback(buf, 1)
    [] HeaderType(buf[1]) = "UNSUBACK" -> DeserializeUnsuback(buf)
    [] HeaderType(buf[1]) = "PUBACK" -> DeserializeAck(buf)
    [] OTHER -> [type |-> HeaderType(buf[1])]

-----------------------------------------------------------------------------
(* Topic filters. *)
Slash == 47
Plus == 43
Hash == 35

\* _aws_iot_mqtt_internal_is_topic_matched from positions f and n on.  "+" skips to the
\* end of the level, "#" to the last byte of the topic; each takes at least one byte.
IsTopicMatched(filter, name) ==
  LET levelEnd(n) == Min({Len(name) + 1} \union {i \in n + 1..Len(name) : name[i] = Slash})
      M[f \in 1..Len(filter) + 1, n \in 1..Len(name) + 1] ==
        IF f > Len(filter) \/ n > Len(name) THEN f > Len(filter) /\ n > Len(name)
        ELSE /\ name[n] = Slash => filter[f] = Slash
             /\ \/ filter[f] = Plus /\ M[f + 1, levelEnd(n)]
                \/ filter[f] = Hash /\ M[f + 1, Len(name) + 1]
                \/ filter[f] \notin {Plus, Hash} /\ filter[f] = name[n] /\ M[f + 1, n + 1]
  IN M[1, 1]
\* Mutant of Matches: as text only.
MatchesAsText(filter, name) == filter = name
\* The handlers a message is for: the same text, or a matching filter.
Matches(filter, name) == filter = name \/ IsTopicMatched(filter, name)
=============================================================================
