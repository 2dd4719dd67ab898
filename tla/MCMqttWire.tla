----------------------------- MODULE MCMqttWire -----------------------------
(* Letters a and b.  The broker's packets come in every type, some as long as the buffer *)
(* allows and some longer; the requests in every type, with lengths around the buffer's. *)
EXTENDS MqttWire
a == 97
b == 98
Pub(topic, payload, qos) ==
  [type |-> "PUBLISH", dup |-> 0, qos |-> qos, retained |-> 0, topic |-> topic,
   packetId |-> IF qos = 1 THEN 258 ELSE 0, payload |-> payload]
MCFilters == {<<a>>, <<a, Slash, Hash>>, <<Plus, Slash, b>>, <<a, Slash, Plus, Slash, b>>, <<Hash>>}
MCInbound ==
  {[type |-> "CONNACK", session |-> 1, code |-> 0], [type |-> "CONNACK", session |-> 0, code |-> 5],
   [type |-> "SUBACK", packetId |-> 513, qos |-> <<1>>], 
   [type |-> "PUBACK", packetId |-> 65535], [type |-> "UNSUBACK", packetId |-> 3], [type |-> "PINGRESP"],
   Pub(<<a>>, <<a>>, 0), Pub(<<a>>, <<>>, 1), Pub(<<a, Slash, b>>, <<200>>, 1), [Pub(<<b, b, Slash, b>>, <<>>, 0) EXCEPT !.retained = 1],
   Pub(<<a, Slash, b, a, Slash, b>>, <<a>>, 0), [Pub(<<b>>, <<a, a>>, 1) EXCEPT !.dup = 1], 
   Pub(<<a>>, [i \in 1..7 |-> b], 0), Pub(<<a>>, [i \in 1..9 |-> b], 0), Pub(<<a>>, [i \in 1..24 |-> b], 0)}
Con(will, user, pass, idLen) ==
  [type |-> "CONNECT", id |-> [i \in 1..idLen |-> a], clean |-> idLen > 1, will |-> will, user |-> user, pass |-> pass,
   keepAlive |-> 600]
Will(msg) == <<[topic |-> <<b>>, msg |-> msg, qos |-> 1, retained |-> 1]>>
Topics(type, topics, qos) == [type |-> type, packetId |-> 0, topics |-> topics, qos |-> qos]
MCRequests ==
  {Con(will, user, pass, idLen) : will \in {<<>>, Will(<<>>), Will(<<b, a>>)}, user \in {<<>>, <<<<a>>>>},
                                  pass \in {<<>>, <<<<b>>>>}, idLen \in {1, 5}}
  \union {Pub(<<a>>, [i \in 1..n |-> b], qos) : n \in {1, 122, 123, 124, 125}, qos \in {0, 1}}
  \union {Topics(type, topics, [i \in DOMAIN topics |-> i % 2]) : type \in {"SUBSCRIBE", "UNSUBSCRIBE"},
            topics \in {<<<<a>>>>, <<<<a, Slash, b>>, <<b>>>>, <<[i \in 1..124 |-> a]>>, <<[i \in 1..125 |-> a]>>}}
  \union {[type |-> "PUBACK", packetId |-> 258], [type |-> "PINGREQ"], [type |-> "DISCONNECT"]}
=============================================================================
