------------------------------ MODULE MqttWire ------------------------------
(***************************************************************************)
(* One connection of the vendored AWS IoT MQTT client and its TLS port:    *)
(* the stages that establish it, the reading of packets from a stream of   *)
(* bytes that arrives in pieces while a timer runs, with readBufIndex      *)
(* keeping what an unfinished read has got, and the writing of requests.   *)
(***************************************************************************)
EXTENDS MqttPacket

CONSTANTS
  RxLen,          \* AWS_IOT_MQTT_RX_BUF_LEN
  Filters,        \* topic filters of the client's message handlers
  Inbound,        \* packets the broker may send, those for no handler excluded
  Requests,       \* packets the client may build, packet identifiers excluded
  MaxPacketId,    \* MAX_PACKET_ID
  Verification,   \* isSSLHostnameVerify
  MaxSent         \* bound: packets the broker sends, on all connections
ASSUME WireAssumption == RxLen \in Nat \ {0} /\ MaxPacketId \in Nat \ {0} /\ Verification \in BOOLEAN

VARIABLES
  tls,            \* "closed", the stage iot_tls_connect is at, or "open"
  peer,           \* whether the certificate of the other end is good
  wire,           \* bytes of the broker that the TLS layer has not handed over
  expected,       \* the packets these bytes, and those already read, belong to
  readBuf,        \* clientData.readBuf
  readBufIndex,   \* clientData.readBufIndex
  received,       \* the last packet read, the handlers it was for, and what the broker sent
  sent,           \* how many packets the broker has sent
  skewed,         \* bytes were read that belong to no packet read: the rest means nothing
  packetId,       \* clientData.nextPacketId
  request,        \* the last packet asked to be sent
  writeBuf,       \* what was built for it
  written         \* the bytes of it that were passed on

vars == <<tls, peer, wire, expected, readBuf, readBufIndex, received, sent, skewed,
          packetId, request, writeBuf, written>>
reading == <<wire, expected, readBuf, readBufIndex, received, sent, skewed>>
writing == <<packetId, request, writeBuf, written>>

Nothing == [type |-> "none"]
Stages == <<"entropy", "rootCA", "clientCert", "privateKey", "tcp", "config", "setup", "handshake", "verify">>

Init ==
  /\ tls = "closed" /\ peer = "good"
  /\ wire = <<>> /\ expected = <<>>
  /\ readBuf = [i \in 1..RxLen |-> 0] /\ readBufIndex = 0
  /\ received = [got |-> Nothing, handlers |-> {}, sent |-> Nothing] /\ sent = 0 /\ skewed = FALSE
  /\ packetId = 1 /\ request = Nothing /\ writeBuf = <<>> /\ written = <<>>

-----------------------------------------------------------------------------
(* iot_tls_connect, iot_tls_disconnect and iot_tls_destroy. *)

\* aws_iot_mqtt_connect forgets what an earlier connection left in the read buffer.
\* Mutant of FlushBuffers: readBufIndex stays.
NoFlush == UNCHANGED readBufIndex
FlushBuffers == readBufIndex' = 0
ConnectStart ==
  /\ tls = "closed"
  /\ FlushBuffers
  /\ tls' = Stages[1]
  /\ peer' \in {"good", "bad"}
  /\ UNCHANGED <<wire, expected, readBuf, received, sent, skewed>> /\ UNCHANGED writing
Refused(stage) == stage \in {"handshake", "verify"} /\ peer = "bad" /\ Verification
TlsStage ==
  \E i \in DOMAIN Stages :
    /\ tls = Stages[i] /\ ~Refused(tls)
    /\ tls' = IF i = Len(Stages) THEN "open" ELSE Stages[i + 1]
    /\ UNCHANGED peer /\ UNCHANGED reading /\ UNCHANGED writing
\* A stage fails, or an open connection ends or is given up: it is shut down and freed.
\* The bytes on the way are gone; the read buffer and its index stay.
Close ==
  /\ tls # "closed"
  /\ tls' = "closed"
  /\ wire' = <<>> /\ expected' = <<>> /\ skewed' = FALSE
  /\ request' = Nothing /\ writeBuf' = <<>> /\ written' = <<>>
  /\ peer' = "good"
  /\ UNCHANGED <<readBuf, readBufIndex, received, sent, packetId>>

-----------------------------------------------------------------------------
(* Reading. *)

\* A packet of MQTT, as the broker makes it.  (External.)
InboundBody(p) ==
  CASE p.type = "PUBLISH" -> Utf8(p.topic) \o (IF p.qos = 0 THEN <<>> ELSE Uint16(p.packetId)) \o p.payload
    [] p.type = "CONNACK" -> <<128 * p.session, p.code>>
    [] p.type = "SUBACK" -> Uint16(p.packetId) \o p.qos
    [] p.type \in {"PUBACK", "UNSUBACK"} -> Uint16(p.packetId)
    [] p.type = "PINGRESP" -> <<>>
Encode(p) ==
  <<IF p.type = "PUBLISH" THEN HeaderByte(p.type, p.qos, p.dup, p.retained) ELSE HeaderByte(p.type, 0, 0, 0)>>
  \o LengthBytes[Len(InboundBody(p))] \o InboundBody(p)
\* The two directions of a connection share nothing but its being open: to keep the
\* instances small a behaviour has packets of the broker or requests, not both (a bound).
NoRequestYet == writing = <<1, Nothing, <<>>, <<>>>>
BrokerSends ==
  /\ tls = "open" /\ sent < MaxSent /\ NoRequestYet
  /\ sent' = sent + 1
  /\ \E p \in Inbound : wire' = wire \o Encode(p) /\ expected' = Append(expected, p)
  /\ UNCHANGED <<tls, peer, readBuf, readBufIndex, received, skewed>> /\ UNCHANGED writing

\* The handlers _aws_iot_mqtt_internal_deliver_message calls.
HandlersOf(p) == IF p.type = "PUBLISH" THEN {f \in Filters : Matches(f, p.topic)} ELSE {}

\* The buffer after the bytes of the stream up to have were read behind the index.
Filled(stream, have) == [i \in 1..RxLen |-> IF i <= have THEN stream[i] ELSE readBuf[i]]
\* The packet the bytes to be read next belong to.
Awaited == IF expected = <<>> THEN Nothing ELSE Head(expected)
\* A packet is complete: the index goes back to 0 and what follows stays in the TLS layer.
Complete(stream, size) ==
  LET buf == Filled(stream, size)
      p == Deserialize(buf) IN
  /\ readBuf' = buf /\ readBufIndex' = 0
  /\ wire' = SubSeq(stream, size + 1, Len(stream))
  /\ expected' = SubSeq(expected, 2, Len(expected))
  /\ received' = [got |-> p, handlers |-> HandlersOf(p), sent |-> Awaited]
  /\ UNCHANGED skewed
Unfinished(stream, whole, have) ==
  /\ readBuf' = Filled(stream, have) /\ readBufIndex' = whole
  /\ wire' = SubSeq(stream, have + 1, Len(stream))
  /\ skewed' = (have > whole)
  /\ UNCHANGED <<expected, received>>

\* A packet too long for the buffer is read over it in chunks of the buffer's size, and
\* the first chunk is never shorter: it can take the start of the next packet.  Out of
\* time before the first chunk nothing is lost; later on the buffer is spoilt.
Drain(stream, offset, remLen, have) ==
  LET end == offset + remLen IN
  \/ /\ remLen >= RxLen /\ have >= end
     /\ wire' = SubSeq(stream, end + 1, Len(stream))
     /\ readBufIndex' = 0 /\ expected' = SubSeq(expected, 2, Len(expected))
     /\ received' = [got |-> Nothing, handlers |-> {}, sent |-> Nothing]
     /\ UNCHANGED <<readBuf, skewed>>
  \/ /\ remLen >= RxLen => have < end
     /\ IF have = offset THEN Unfinished(stream, offset, offset)
        ELSE /\ wire' = SubSeq(stream, Min({have, Max({offset + RxLen, end})}) + 1, Len(stream))
             /\ skewed' = TRUE /\ readBufIndex' = offset
             /\ UNCHANGED <<readBuf, expected, received>>

TooLong(offset, remLen) == remLen + offset >= RxLen
\* _aws_iot_mqtt_internal_read_packet: arrived bytes come before its timer expires.  The
\* header and the bytes of the length are read one by one, then the rest at once.
ReadPacket(arrived) ==
  LET stream == SubSeq(readBuf, 1, readBufIndex) \o wire
      have == readBufIndex + arrived
      length == DecodeLength(SubSeq(stream, 1, have), 1)
      offset == 1 + length.size IN
  /\ tls = "open" /\ ~skewed /\ UNCHANGED sent
  /\ IF length = Bad THEN Unfinished(stream, have, have)
     ELSE IF TooLong(offset, length.value) THEN Drain(stream, offset, length.value, have)
     ELSE IF have >= offset + length.value THEN Complete(stream, offset + length.value)
     ELSE Unfinished(stream, offset, have)
  /\ UNCHANGED <<tls, peer>> /\ UNCHANGED writing

-----------------------------------------------------------------------------
(* Writing. *)

NextPacketId == IF packetId = MaxPacketId THEN 1 ELSE packetId + 1
Numbered(p) == p.type \in {"SUBSCRIBE", "UNSUBSCRIBE"} \/ (p.type = "PUBLISH" /\ p.qos = 1)
BuildRequest ==
  /\ tls = "open" /\ sent = 0
  /\ \E p \in Requests :
       LET full == IF Numbered(p) THEN [p EXCEPT !.packetId = NextPacketId] ELSE p IN
       /\ packetId' = IF Numbered(p) THEN NextPacketId ELSE packetId
       /\ request' = full
       /\ writeBuf' = Serialize(full)
       /\ written' = <<>>
  /\ UNCHANGED <<tls, peer>> /\ UNCHANGED reading
\* aws_iot_mqtt_internal_send_packet and iot_tls_write, which repeats its write until all
\* is written, the timer expires or there is an error.  The caller is told of success even
\* if only some was written, because the result becomes that of unlocking the mutex.
Sendable == Len(writeBuf) \in 1..TxLen - 1
SendPacket ==
  /\ tls = "open" /\ written = <<>> /\ Sendable
  /\ \E n \in 1..Len(writeBuf) : written' = SubSeq(writeBuf, 1, n)
  /\ UNCHANGED <<tls, peer, packetId, request, writeBuf>> /\ UNCHANGED reading

Next ==
  \/ ConnectStart \/ TlsStage \/ Close
  \/ BrokerSends \/ \E arrived \in 0..Len(wire) : ReadPacket(arrived)
  \/ BuildRequest \/ SendPacket
Spec == Init /\ [][Next]_vars

-----------------------------------------------------------------------------
(* What the other end makes of a request: MQTT 3.1.1.  (External.) *)
BytesFrom(bytes, at, n) == SubSeq(bytes, at, at + n - 1)
StringFrom(bytes, at) == BytesFrom(bytes, at + 2, ReadUint16(bytes, at))
ParsedTopics[bytes \in Seq(Nat), qos \in BOOLEAN] ==
  IF bytes = <<>> THEN <<>>
  ELSE LET s == StringFrom(bytes, 1)
           size == 2 + Len(s) + Bit(qos) IN
       <<[s |-> s, qos |-> IF qos THEN bytes[size] ELSE 0]>>
       \o ParsedTopics[SubSeq(bytes, size + 1, Len(bytes)), qos]
\* The strings of a CONNECT, in their order, and which of them its flags announce.
ConnectStrings(p) ==
  <<p.id>> \o FlattenSeq([i \in DOMAIN p.will |-> <<p.will[i].topic, p.will[i].msg>>]) \o p.user \o p.pass
Understood(bytes, p) ==
  LET length == DecodeLength(bytes, 1)
      body == SubSeq(bytes, 2 + length.size, Len(bytes))
      flags == HeaderFlags(bytes[1]) IN
  /\ HeaderType(bytes[1]) = p.type
  /\ length.value = Len(body)
  /\ CASE p.type = "CONNECT" ->
            LET strings == ParsedTopics[SubSeq(body, 11, Len(body)), FALSE] IN
            /\ StringFrom(body, 1) = <<77, 81, 84, 84>> /\ body[7] = 4
            /\ ReadUint16(body, 9) = p.keepAlive
            /\ [i \in DOMAIN strings |-> strings[i].s] = ConnectStrings(p)
            /\ Len(strings) = 1 + 2 * ((body[8] \div 4) % 2) + ((body[8] \div 64) % 2) + (body[8] \div 128)
            /\ (body[8] \div 2) % 2 = Bit(p.clean)
       [] p.type = "PUBLISH" ->
            LET topic == StringFrom(body, 1)
                at == 3 + Len(topic) IN
            /\ flags = [dup |-> 0, qos |-> p.qos, retained |-> p.retained]
            /\ topic = p.topic
            /\ p.qos = 1 => ReadUint16(body, at) = p.packetId /\ p.packetId # 0
            /\ SubSeq(body, at + 2 * p.qos, Len(body)) = p.payload
       [] p.type \in {"SUBSCRIBE", "UNSUBSCRIBE"} ->
            LET topics == ParsedTopics[SubSeq(body, 3, Len(body)), p.type = "SUBSCRIBE"] IN
            /\ flags = [dup |-> 0, qos |-> 1, retained |-> 0]
            /\ ReadUint16(body, 1) = p.packetId /\ p.packetId # 0
            /\ [i \in DOMAIN topics |-> topics[i].s] = p.topics
            /\ p.type = "SUBSCRIBE" => [i \in DOMAIN topics |-> topics[i].qos] = p.qos
       [] p.type = "PUBACK" -> ReadUint16(body, 1) = p.packetId
       [] OTHER -> body = <<>>
\* A filter matches a topic level by level.
Levels(s) == LET cuts == {0, Len(s) + 1} \union {i \in 1..Len(s) : s[i] = Slash}
                 at == SetToSortSeq(cuts, <) IN
             [i \in 1..Len(at) - 1 |-> SubSeq(s, at[i] + 1, at[i + 1] - 1)]
MatchesByLevel(filter, name) ==
  LET f == Levels(filter)
      n == Levels(name) IN
  /\ \A i \in 1..Min({Len(f), Len(n)}) : f[i] \in {n[i], <<Plus>>, <<Hash>>}
  /\ Len(f) = Len(n) \/ (Len(f) < Len(n) /\ Last(f) = <<Hash>>)

-----------------------------------------------------------------------------
\* The values of the variables; the index never leaves the buffer.
TypeOK ==
  /\ tls \in {"closed", "open"} \union ToSet(Stages) /\ peer \in {"good", "bad"}
  /\ readBuf \in [1..RxLen -> 0..255] /\ readBufIndex \in 0..RxLen
  /\ skewed \in BOOLEAN /\ packetId \in 1..MaxPacketId
  /\ \A bytes \in {wire, writeBuf, written} : \A i \in DOMAIN bytes : bytes[i] \in 0..255

\* However its bytes arrive and wherever a timer expires, a packet that is read is the
\* next one the broker sent, on a connection made after one that ended in mid-packet too:
\* unless a read was cut off that had got some bytes, or a packet was too long.
PacketsIntact == received.got = received.sent

\* A message is given to the handlers whose filters match its topic level by level.
\* (A filter that ends in "/#" does not match the level above it, as MQTT has it.)
MessagesHandled ==
  received.got.type = "PUBLISH" =>
    received.handlers = {f \in Filters : MatchesByLevel(f, received.sent.topic)}

\* A request that was written whole says to the broker what was asked, with a packet
\* identifier where one is needed, also after the identifiers have wrapped.
RequestsUnderstood ==
  written # <<>> /\ Len(written) = Len(writeBuf) => Understood(written, request)

=============================================================================
