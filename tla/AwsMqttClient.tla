--------------------------- MODULE AwsMqttClient ---------------------------
(***************************************************************************)
(* The MQTT client of the vendored AWS IoT SDK (aws_iot_mqtt_client*.c):   *)
(* its state, the calls of an application of one or two threads, the       *)
(* message handlers they run, keep-alive, and reconnection.  A thread is a *)
(* stack of frames, because a handler called from a read may call the      *)
(* client again.  Each frame stops wherever another thread, the broker or  *)
(* a timer can come in between: before a compare and set of the state,     *)
(* between filling the write buffer and sending it, and before each read.  *)
(* The mutexes make a compare and set, a send and a read one step each     *)
(* (isBlockOnThreadLockEnabled).  The packets' bytes are in MqttWire.      *)
(***************************************************************************)
EXTENDS Naturals, Sequences, SequencesExt, FiniteSets

CONSTANTS
  Topics,          \* topics an application subscribes to
  NumHandlers,     \* AWS_IOT_MQTT_NUM_SUBSCRIBE_HANDLERS
  MaxWait,         \* AWS_IOT_MQTT_MAX_RECONNECT_WAIT_INTERVAL, MIN = 1
  Applications,    \* the ways of using the client that are explored
  MaxDepth,        \* bound: frames of one thread
  MaxInbox         \* bound: packets on the way before the broker publishes more

None == "none"
ASSUME ClientAssumption ==
  /\ None \notin Topics
  /\ NumHandlers \in Nat \ {0} /\ MaxWait \in Nat \ {0} /\ MaxDepth \in Nat

Requests == {"publish0", "publish1", "subscribe", "unsubscribe"}
Threads == {"main", "worker"}
\* What an application does: the requests of its main thread, of its second
\* thread (none if it has one thread) and of its message handlers, whether it
\* enables automatic reconnection, whether it calls aws_iot_mqtt_attempt_reconnect
\* itself, in its disconnect handler too, as the SDK's samples do, and whether it connects
\* with a keep-alive interval other than 0.  late bounds the acknowledgements that come
\* after their call timed out, and the reads that fail while the connection is up.
Application == [main : SUBSET Requests, worker : SUBSET Requests, handler : SUBSET Requests,
                auto : BOOLEAN, reconnects : BOOLEAN, keepAlive : BOOLEAN, late : Nat]
ASSUME ApplicationAssumption == Applications \subseteq Application

VARIABLES
  app,          \* the application
  clientState,  \* clientStatus.clientState
  stack,        \* of each thread, the frame that runs first
  rc,           \* of each thread, the last result its frames still use
  handlers,     \* clientData.messageHandlers: the topic of each slot
  writeBuf,     \* clientData.writeBuf: the packet serialised and not yet sent
  ping,         \* clientStatus.isPingOutstanding, and whether pingTimer has expired
  reconnect,    \* currentReconnectWaitInterval, whether reconnectDelayTimer has expired
  link,         \* "down", "up", or "broken": established but nothing passes
  session,      \* the subscriptions of the session at the broker
  inbox,        \* packets of the broker the client has not read
  partial,      \* readBufIndex > 0: of the first packet a part has been read, or come alone
  subscribed,   \* topics whose subscribe succeeded, with no unsubscribe since
  late          \* acknowledgements that may still come too late, reads that may fail

vars == <<app, clientState, stack, rc, handlers, writeBuf, ping, reconnect, link, session,
          inbox, partial, subscribed, late>>
net == <<link, session, inbox, partial>>
rest == <<app, subscribed, late>>

ConnectedStates == {"IDLE", "YIELD", "PUBLISH", "SUBSCRIBE", "UNSUBSCRIBE", "RESUBSCRIBE",
                    "WAIT_FOR_CB_RETURN"}
ClientStates == ConnectedStates \union
  {"INVALID", "INITIALIZED", "CONNECTING", "DISCONNECTING", "DISCONNECTED_ERROR",
   "DISCONNECTED_MANUALLY", "PENDING_RECONNECT"}
Connected == clientState \in ConnectedStates
ValidForConnect ==
  clientState \in {"INITIALIZED", "DISCONNECTED_ERROR", "DISCONNECTED_MANUALLY", "PENDING_RECONNECT"}

InProgress(op) ==
  CASE op \in {"publish0", "publish1"} -> "PUBLISH"
    [] op = "subscribe" -> "SUBSCRIBE"
    [] op = "unsubscribe" -> "UNSUBSCRIBE"
    [] op = "resubscribe" -> "RESUBSCRIBE"
    [] op = "connect" -> "CONNECTING"
    [] op = "yield" -> "YIELD"

\* The packet an operation sends and the one it waits for, "none" if it does not wait.
PacketOf(op) ==
  CASE op = "publish0" -> "PUBLISH0" [] op = "publish1" -> "PUBLISH1"
    [] op \in {"subscribe", "resubscribe"} -> "SUBSCRIBE"
    [] op = "unsubscribe" -> "UNSUBSCRIBE" [] op = "connect" -> "CONNECT"
    [] op = "deliver1" -> "PUBACK" [] op = "yield" -> "PINGREQ"
AckOf(packet) ==
  CASE packet = "PUBLISH1" -> "PUBACK" [] packet = "SUBSCRIBE" -> "SUBACK"
    [] packet = "UNSUBSCRIBE" -> "UNSUBACK" [] packet = "CONNECT" -> "CONNACK"
    [] packet = "PINGREQ" -> "PINGRESP" [] OTHER -> None

Packet(type, topic) == [type |-> type, topic |-> topic]
Frame(op, pc, topic) == [op |-> op, pc |-> pc, old |-> clientState, topic |-> topic, slot |-> 0,
                         count |-> 0, called |-> FALSE]

Running(t) == stack[t] # <<>>
Top(t) == Head(stack[t])
At(t, pc) == Running(t) /\ Top(t).pc = pc
\* What the running frame of t does next, calls another frame, or hands result to its caller.
Goto(t, pc) == stack' = [stack EXCEPT ![t][1].pc = pc]
Call(t, pc, frame) == stack' = [stack EXCEPT ![t] = <<frame>> \o [@ EXCEPT ![1].pc = pc]]
Return(t, result) ==
  /\ stack' = [stack EXCEPT ![t] = Tail(@)]
  /\ rc' = [rc EXCEPT ![t] = IF Len(stack[t]) = 1 THEN "SUCCESS" ELSE result]
\* The read that delivered a message is over: the wait or yield goes on, unless it failed.
ReadDone(t, result) ==
  /\ stack' = [stack EXCEPT ![t] = [Tail(stack[t]) EXCEPT ![1].pc =
                 IF result # "SUCCESS" THEN "end" ELSE IF @ = "read" THEN "keepalive" ELSE @]]
  /\ rc' = [rc EXCEPT ![t] = result]
Result(t, pc, result) == Goto(t, pc) /\ rc' = [rc EXCEPT ![t] = result]

\* aws_iot_mqtt_set_client_state: newState if the state is the expected one.
CompareAndSet(expected, newState) == IF clientState = expected THEN newState ELSE clientState

Empty == [by |-> None, type |-> None, topic |-> None]
\* Mutant of FreeSlot: always the first.
FirstSlot == 1
FreeSlot == Min({NumHandlers + 1} \union {i \in 1..NumHandlers : handlers[i] = None})
NoSlot == FreeSlot > NumHandlers
Handled == {handlers[i] : i \in 1..NumHandlers} \ {None}
\* Mutant of Close: the connection stays.
CloseKeeps == UNCHANGED net
Close == link' = "down" /\ session' = {} /\ inbox' = <<>> /\ UNCHANGED partial

Init ==
  /\ app \in Applications
  /\ clientState = "INVALID"
  /\ stack = [t \in Threads |-> <<>>]
  /\ rc = [t \in Threads |-> "SUCCESS"]
  /\ handlers = [i \in 1..NumHandlers |-> None]
  /\ writeBuf = Empty
  /\ ping = [outstanding |-> FALSE, due |-> FALSE]
  /\ reconnect = [wait |-> 0, due |-> FALSE]
  /\ link = "down" /\ session = {} /\ inbox = <<>> /\ partial = FALSE
  /\ subscribed = {} /\ late = app.late

-----------------------------------------------------------------------------
(* The calls of the application. *)

\* A reconnection is pending: the application leaves it to the client, until that gives up.
LeftToClient == clientState = "PENDING_RECONNECT" /\ reconnect.wait <= MaxWait

\* aws_iot_mqtt_init, after aws_iot_mqtt_free if the client was used before: the
\* handlers and flags are reset; without certificates the state is invalid.  Neither
\* closes a connection: one that is open stays so until the next connect replaces it.
ClientInit ==
  /\ \A t \in Threads : ~Running(t)
  /\ handlers' = [i \in 1..NumHandlers |-> None]
  /\ ping' = [ping EXCEPT !.outstanding = FALSE]
  /\ subscribed' = {}
  /\ clientState' \in {"INITIALIZED", "INVALID"}
  /\ UNCHANGED <<app, stack, rc, writeBuf, reconnect, late>> /\ UNCHANGED net

\* A request by the application's own code or by a handler it registered.  In any
\* other state, or while not connected, the call fails and changes nothing.
MayRequest(t, op) ==
  IF Running(t)
  THEN /\ op \in app.handler /\ Len(stack[t]) < MaxDepth
       /\ Top(t).pc = "handler" /\ ~Top(t).called /\ Top(t).topic \in Handled
  ELSE op \in app[t]
Request(t, op, topic) ==
  /\ MayRequest(t, op)
  /\ clientState \in {"IDLE", "WAIT_FOR_CB_RETURN"}
  /\ stack' = [stack EXCEPT ![t] =
       <<Frame(op, "cas", topic)>> \o (IF Running(t) THEN [@ EXCEPT ![1].called = TRUE] ELSE @)]
  /\ subscribed' = IF op = "unsubscribe" THEN subscribed \ {topic} ELSE subscribed
  /\ UNCHANGED <<app, clientState, rc, handlers, writeBuf, ping, reconnect, late>>
  /\ UNCHANGED net

\* aws_iot_mqtt_connect and aws_iot_mqtt_attempt_reconnect by the application.
Connect ==
  /\ ~Running("main") /\ ValidForConnect
  /\ ~LeftToClient
  /\ stack' = [stack EXCEPT !["main"] = <<Frame("connect", "cas", None)>>]
  /\ UNCHANGED <<clientState, rc, handlers, writeBuf, ping, reconnect>>
  /\ UNCHANGED net /\ UNCHANGED rest
AttemptReconnect ==
  /\ ~Running("main") /\ ~Connected /\ app.reconnects
  /\ stack' = [stack EXCEPT !["main"] = <<Frame("reconnect", "start", None)>>]
  /\ UNCHANGED <<clientState, rc, handlers, writeBuf, ping, reconnect>>
  /\ UNCHANGED net /\ UNCHANGED rest

\* aws_iot_mqtt_yield: straight into its loop while a reconnection is pending.
Yield ==
  /\ ~Running("main")
  /\ clientState \in {"IDLE", "PENDING_RECONNECT"}
  /\ stack' = [stack EXCEPT !["main"] =
       <<Frame("yield", IF clientState = "IDLE" THEN "cas" ELSE "loop", None)>>]
  /\ UNCHANGED <<clientState, rc, handlers, writeBuf, ping, reconnect>>
  /\ UNCHANGED net /\ UNCHANGED rest

\* aws_iot_mqtt_disconnect by the application, alone: the packet is sent, whatever
\* becomes of it, and the connection closed.
Disconnect ==
  /\ \A t \in Threads : ~Running(t)
  /\ Connected
  /\ clientState' = "DISCONNECTED_MANUALLY"
  /\ Close
  /\ UNCHANGED <<stack, rc, handlers, writeBuf, ping, reconnect>> /\ UNCHANGED rest
-----------------------------------------------------------------------------
(* Requests, connect and resubscribe: take the state, fill the buffer, send, wait, give the state back. *)

\* Mutant of Granted: the result of the compare and set is ignored.
AlwaysGranted(f) == TRUE
\* A connection goes on whatever the compare and set says; the other calls fail.  A
\* failed unsubscribe sets the state back, although it was not the one that set it.  A
\* connection forgets the part of a packet that has been read.
Granted(f) == f.op = "connect" \/ clientState = f.old
Cas(t) ==
  /\ At(t, "cas")
  /\ LET f == Top(t) IN
     \/ /\ Granted(f)
        /\ clientState' = CompareAndSet(f.old, InProgress(f.op))
        /\ Goto(t, CASE f.op = "yield" -> "loop" [] f.op = "connect" -> "tls" [] OTHER -> "serialize")
        /\ UNCHANGED rc
     \/ /\ ~Granted(f)
        /\ clientState' = IF f.op = "unsubscribe" THEN CompareAndSet("UNSUBSCRIBE", f.old)
                          ELSE clientState
        /\ Return(t, IF clientState' # clientState THEN "SUCCESS" ELSE "UNEXPECTED_STATE")
  /\ partial' = (partial /\ Top(t).op # "connect")
  /\ UNCHANGED <<handlers, writeBuf, ping, reconnect, link, session, inbox>> /\ UNCHANGED rest

\* networkStack.connect: a new TLS session, or none.
TlsConnect(t) ==
  /\ At(t, "tls")
  /\ \/ /\ link' = "up" /\ session' = {} /\ inbox' = <<>> /\ UNCHANGED partial
        /\ Goto(t, "serialize") /\ UNCHANGED rc
     \/ Result(t, "end", "TLS_ERROR") /\ UNCHANGED net
  /\ UNCHANGED <<clientState, handlers, writeBuf, ping, reconnect>> /\ UNCHANGED rest

\* Subscribing again goes over the slots before the one that was the first free when it
\* began, and passes over those that an unsubscribe has emptied meanwhile.
Count(f) == IF f.slot = 0 THEN FreeSlot - 1 ELSE f.count
ToSubscribe(f) == {i \in (f.slot + 1)..Count(f) : handlers[i] # None}
\* Mutant of AllSubscribed: the last topic is left out.
LastOneSkipped(f) == f.slot + 1 >= Count(f)
AllSubscribed(f) == ToSubscribe(f) = {}

Serialized(t) ==
  LET f == Top(t) IN
  [by |-> t, type |-> PacketOf(f.op),
   topic |-> IF f.op = "resubscribe" THEN handlers[Min(ToSubscribe(f))] ELSE f.topic]
\* The request is built in the write buffer.  A subscription takes the first free slot
\* and fails without one; only a topic with a handler can be unsubscribed; subscribing
\* again ends at the first free slot, although an unsubscribe leaves slots behind it.
Serialize(t) ==
  /\ At(t, "serialize")
  /\ LET f == Top(t)
         fails == \/ f.op = "subscribe" /\ NoSlot
                  \/ f.op = "unsubscribe" /\ f.topic \notin Handled
         done == f.op = "resubscribe" /\ AllSubscribed(f) IN
     /\ writeBuf' = IF done \/ (fails /\ f.op = "unsubscribe") THEN writeBuf ELSE Serialized(t)
     /\ \/ fails /\ Result(t, "end", "FAILURE")
        \/ done /\ Result(t, "end", "SUCCESS")
        \/ /\ ~fails /\ ~done
           /\ UNCHANGED rc
           /\ stack' = [stack EXCEPT ![t][1] =
                [f EXCEPT !.pc = "send",
                          !.slot = CASE f.op = "subscribe" -> FreeSlot
                                     [] f.op = "resubscribe" -> Min(ToSubscribe(f))
                                     [] OTHER -> f.slot,
                          !.count = IF f.op = "resubscribe" THEN Count(f) ELSE f.count]]
  /\ UNCHANGED <<clientState, handlers, ping, reconnect>> /\ UNCHANGED net /\ UNCHANGED rest

\* What the broker makes of a packet it gets: its subscriptions, and the reply, which
\* the client reads later.  (External: the AWS IoT message broker.)
BrokerGets(p) ==
  /\ session' = CASE p.type = "SUBSCRIBE" -> session \union {p.topic}
                  [] p.type = "UNSUBSCRIBE" -> session \ {p.topic}
                  [] OTHER -> session
  /\ IF AckOf(p.type) = None THEN inbox' = inbox
     ELSE \E refused \in IF p.type = "CONNECT" THEN BOOLEAN ELSE {FALSE} :
            inbox' = Append(inbox, Packet(AckOf(p.type), IF refused THEN "refused" ELSE p.topic))
\* aws_iot_mqtt_internal_send_packet: what does not pass is not reported, because the
\* result of the write is replaced by that of unlocking the mutex.
Transmit ==
  /\ writeBuf' = Empty
  /\ IF link = "up" THEN BrokerGets(writeBuf) /\ UNCHANGED <<link, partial>> ELSE UNCHANGED net
SendPacket(t) ==
  /\ At(t, "send")
  /\ Transmit
  /\ LET op == Top(t).op IN
     CASE op = "deliver1" -> ReadDone(t, "SUCCESS")
       [] op = "publish0" -> Result(t, "end", "SUCCESS")
       [] OTHER -> Goto(t, "wait") /\ UNCHANGED rc
  /\ UNCHANGED <<clientState, handlers, ping, reconnect>> /\ UNCHANGED rest

Awaited(t) == AckOf(PacketOf(Top(t).op))
\* aws_iot_mqtt_internal_wait_for_read: the timer of the command expires.
WaitTimeout(t) ==
  /\ At(t, "wait")
  /\ IF \E i \in 1..Len(inbox) : inbox[i].type = Awaited(t)
     THEN late > 0 /\ late' = late - 1 ELSE late' = late
  /\ Result(t, "end", "TIMEOUT")
  /\ UNCHANGED <<app, clientState, handlers, writeBuf, ping, reconnect, subscribed>>
  /\ UNCHANGED net

\* An acknowledgement of the awaited type ends the wait: neither its packet identifier
\* nor the granted quality of service is compared.  The slot chosen before the wait is filled.
Acknowledged(t, p) ==
  LET f == Top(t) IN
  /\ CASE f.op = "resubscribe" -> Goto(t, "serialize") /\ UNCHANGED rc
       [] f.op = "connect" /\ p.topic = "refused" -> Result(t, "end", "REFUSED")
       [] OTHER -> Result(t, "end", "SUCCESS")
  /\ handlers' = CASE f.op = "subscribe" -> [handlers EXCEPT ![f.slot] = f.topic]
                   [] f.op = "unsubscribe" ->
                        [i \in 1..NumHandlers |-> IF handlers[i] = f.topic THEN None ELSE handlers[i]]
                   [] OTHER -> handlers
  /\ ping' = IF f.op = "connect" /\ p.topic # "refused"
             THEN [outstanding |-> FALSE, due |-> FALSE] ELSE ping

\* aws_iot_mqtt_internal_cycle_read, from a call that waits and from yield: a message is
\* delivered before the wait goes on, any other acknowledgement is dropped.
Read(t) ==
  /\ At(t, "wait") \/ At(t, "read")
  /\ link = "up" /\ inbox # <<>>
  /\ inbox' = Tail(inbox) /\ partial' = FALSE
  /\ LET p == Head(inbox)
         next == IF At(t, "read") THEN "keepalive" ELSE "wait" IN
     \/ /\ p.type \in {"PUBLISH0", "PUBLISH1"}
        /\ Call(t, Top(t).pc, Frame(IF p.type = "PUBLISH1" THEN "deliver1" ELSE "deliver0", "enter", p.topic))
        /\ UNCHANGED <<rc, handlers, ping>>
     \/ /\ At(t, "wait") /\ p.type = Awaited(t)
        /\ Acknowledged(t, p)
     \/ /\ p.type = "PINGRESP"
        /\ ping' = [outstanding |-> FALSE, due |-> FALSE]
        /\ Goto(t, next)
        /\ UNCHANGED <<rc, handlers>>
     \/ /\ p.type \in {"PUBACK", "SUBACK", "UNSUBACK", "CONNACK"}
        /\ At(t, "wait") => p.type # Awaited(t)
        /\ Goto(t, next)
        /\ UNCHANGED <<rc, handlers, ping>>
  /\ UNCHANGED <<clientState, writeBuf, reconnect, link, session>> /\ UNCHANGED rest
\* The transport fails; yield then closes the connection.
ReadError(t) ==
  /\ At(t, "wait") \/ At(t, "read")
  /\ link # "up"
  /\ IF At(t, "wait") THEN Result(t, "end", "READ_ERROR") ELSE Goto(t, "disconnect") /\ UNCHANGED rc
  /\ UNCHANGED <<clientState, handlers, writeBuf, ping, reconnect>> /\ UNCHANGED net /\ UNCHANGED rest
\* A read that ends the call, yield too, and with it the keep-alive of its round, while
\* the connection seems well: the rest of a packet does not come in time, or never,
\* because the connection is lost, or a message is too long for the buffer.
ReadFails(t) ==
  /\ At(t, "wait") \/ At(t, "read")
  /\ Result(t, "end", "READ_FAILED")
  /\ \/ /\ link # "up" /\ partial
        /\ UNCHANGED <<inbox, partial, late>>
     \/ /\ link = "up" /\ inbox # <<>> /\ late > 0
        /\ late' = late - 1
        /\ \/ partial' = TRUE /\ UNCHANGED inbox
           \/ /\ Head(inbox).type \in {"PUBLISH0", "PUBLISH1"}
              /\ inbox' = Tail(inbox) /\ partial' = FALSE
  /\ UNCHANGED <<app, clientState, handlers, writeBuf, ping, reconnect, link, session, subscribed>>
\* _aws_iot_mqtt_internal_deliver_message and handle_publish: the handlers run in a
\* state of their own, which only requests may use; then a QoS 1 message is acknowledged.
Deliver(t) ==
  /\ At(t, "enter")
  /\ clientState' = CompareAndSet(Top(t).old, "WAIT_FOR_CB_RETURN")
  /\ Goto(t, "handler")
  /\ UNCHANGED <<rc, handlers, writeBuf, ping, reconnect>> /\ UNCHANGED net /\ UNCHANGED rest
HandlersReturn(t) ==
  /\ At(t, "handler")
  /\ clientState' = CompareAndSet("WAIT_FOR_CB_RETURN", Top(t).old)
  /\ IF clientState # "WAIT_FOR_CB_RETURN" THEN ReadDone(t, "UNEXPECTED_STATE")
     ELSE IF Top(t).op = "deliver0" THEN ReadDone(t, "SUCCESS")
     ELSE Goto(t, "puback") /\ UNCHANGED rc
  /\ UNCHANGED <<handlers, writeBuf, ping, reconnect>> /\ UNCHANGED net /\ UNCHANGED rest
SerializePuback(t) ==
  /\ At(t, "puback")
  /\ writeBuf' = Serialized(t)
  /\ Goto(t, "send")
  /\ UNCHANGED <<clientState, rc, handlers, ping, reconnect>> /\ UNCHANGED net /\ UNCHANGED rest
\* The end of a request, of resubscribe and of connect: the state goes back to what it
\* was, or the new connection's; a failed connection is closed.
EndCall(t) ==
  /\ At(t, "end") /\ Top(t).op # "yield"
  /\ LET f == Top(t)
         newState == IF f.op # "connect" THEN f.old
                     ELSE IF rc[t] = "SUCCESS" THEN "IDLE" ELSE "DISCONNECTED_ERROR"
         result == IF rc[t] = "SUCCESS" /\ clientState # InProgress(f.op) /\ f.op # "connect"
                   THEN "UNEXPECTED_STATE" ELSE rc[t] IN
     /\ clientState' = CompareAndSet(InProgress(f.op), newState)
     /\ Return(t, result)
     /\ IF f.op = "connect" /\ rc[t] # "SUCCESS" THEN Close ELSE UNCHANGED net
     /\ subscribed' = IF result = "SUCCESS" /\ f.op = "subscribe" THEN subscribed \union {f.topic}
                      ELSE subscribed
  /\ UNCHANGED <<app, handlers, writeBuf, ping, reconnect, late>>
-----------------------------------------------------------------------------
(* Yield: its loop, keep-alive, the end of a connection and reconnection. *)

\* _aws_iot_mqtt_internal_yield: a pending reconnection, given up when the interval has
\* grown beyond the maximum and tried when its timer has expired, or a read; and again.
YieldLoop(t) ==
  /\ At(t, "loop") \/ At(t, "check")
  /\ IF clientState # "PENDING_RECONNECT" THEN Goto(t, "read") /\ UNCHANGED rc
     ELSE IF reconnect.wait > MaxWait THEN Result(t, "end", "RECONNECT_TIMED_OUT")
     ELSE IF ~reconnect.due THEN Result(t, "check", "ATTEMPTING_RECONNECT")
     ELSE Call(t, "reconnected", Frame("reconnect", "start", None)) /\ UNCHANGED rc
  /\ UNCHANGED <<clientState, handlers, writeBuf, ping, reconnect>>
  /\ UNCHANGED net /\ UNCHANGED rest
\* _aws_iot_mqtt_keep_alive, after a read or when there was nothing to read, unless the
\* interval is 0: when the ping timer has expired a second time without an answer, the
\* connection is given up; else a ping is sent.
KeepAlive(t) ==
  /\ At(t, "keepalive") \/ (At(t, "read") /\ inbox = <<>> /\ ~partial)
  /\ IF ~app.keepAlive \/ ~ping.due THEN Result(t, "check", "SUCCESS") /\ UNCHANGED writeBuf
     ELSE IF ping.outstanding THEN Goto(t, "disconnect") /\ UNCHANGED <<rc, writeBuf>>
     ELSE Goto(t, "ping") /\ writeBuf' = Serialized(t) /\ UNCHANGED rc
  /\ UNCHANGED <<clientState, handlers, ping, reconnect>> /\ UNCHANGED net /\ UNCHANGED rest
\* Mutant of SendPing: isPingOutstanding is not set.
SendPingForgets(t) ==
  /\ At(t, "ping")
  /\ Transmit
  /\ ping' = [outstanding |-> FALSE, due |-> FALSE]
  /\ Result(t, "check", "SUCCESS")
  /\ UNCHANGED <<clientState, handlers, reconnect>> /\ UNCHANGED rest
SendPing(t) ==
  /\ At(t, "ping")
  /\ Transmit
  /\ ping' = [outstanding |-> TRUE, due |-> FALSE]
  /\ Result(t, "check", "SUCCESS")
  /\ UNCHANGED <<clientState, handlers, reconnect>> /\ UNCHANGED rest

\* _aws_iot_mqtt_handle_disconnect: aws_iot_mqtt_disconnect, or by force if it refuses;
\* then the disconnect handler; then the state is that of a broken connection.
HandleDisconnect(t) ==
  /\ At(t, "disconnect")
  /\ clientState' = IF Connected THEN "DISCONNECTED_MANUALLY" ELSE "DISCONNECTED_ERROR"
  /\ writeBuf' = Empty
  /\ Close
  /\ IF app.reconnects THEN Call(t, "disconnected", Frame("reconnect", "start", None))
     ELSE Goto(t, "disconnected")
  /\ UNCHANGED <<rc, handlers, ping, reconnect>> /\ UNCHANGED rest
DisconnectHandled(t) ==
  /\ At(t, "disconnected")
  /\ IF app.auto
     THEN /\ clientState' = "PENDING_RECONNECT"
          /\ reconnect' = [wait |-> 1, due |-> FALSE]
          /\ Result(t, "check", "ATTEMPTING_RECONNECT")
     ELSE /\ clientState' = "DISCONNECTED_ERROR"
          /\ Result(t, "end", "DISCONNECTED")
          /\ UNCHANGED reconnect
  /\ UNCHANGED <<handlers, writeBuf, ping>> /\ UNCHANGED net /\ UNCHANGED rest

Backoff(wait) == 2 * wait
\* _aws_iot_mqtt_handle_reconnect, after the attempt: any failure doubles the interval,
\* that of subscribing again too, although the state is then idle.
Reconnected(t) ==
  /\ At(t, "reconnected")
  /\ IF rc[t] = "RECONNECTED"
     THEN /\ clientState' = CompareAndSet("IDLE", "YIELD")
          /\ Result(t, "check", IF clientState = "IDLE" THEN "RECONNECTED" ELSE "UNEXPECTED_STATE")
          /\ UNCHANGED reconnect
     ELSE /\ reconnect' = [wait |-> Backoff(reconnect.wait),
                           due |-> reconnect.due /\ Backoff(reconnect.wait) > MaxWait]
          /\ Result(t, "check", IF Backoff(reconnect.wait) > MaxWait THEN "RECONNECT_TIMED_OUT" ELSE rc[t])
          /\ UNCHANGED clientState
  /\ UNCHANGED <<handlers, writeBuf, ping>> /\ UNCHANGED net /\ UNCHANGED rest
\* The end of yield, when its timer has expired or for an error.
EndYield(t) ==
  /\ At(t, "check") \/ (At(t, "end") /\ Top(t).op = "yield")
  /\ clientState' = IF rc[t] \in {"DISCONNECTED", "ATTEMPTING_RECONNECT"} THEN clientState
                    ELSE CompareAndSet("YIELD", "IDLE")
  /\ Return(t, rc[t])
  /\ UNCHANGED <<handlers, writeBuf, ping, reconnect>> /\ UNCHANGED net /\ UNCHANGED rest

\* aws_iot_mqtt_attempt_reconnect: connect, then subscribe to all topics again.
ReconnectStart(t) ==
  /\ At(t, "start")
  /\ IF Connected THEN Return(t, "ALREADY_CONNECTED")
     ELSE /\ UNCHANGED rc
          /\ IF ValidForConnect THEN Call(t, "connected", Frame("connect", "cas", None))
             ELSE Goto(t, "connected")
  /\ UNCHANGED <<clientState, handlers, writeBuf, ping, reconnect>>
  /\ UNCHANGED net /\ UNCHANGED rest
ConnectReturned(t) ==
  /\ At(t, "connected")
  /\ IF clientState = "IDLE"
     THEN Call(t, "resubscribed", Frame("resubscribe", "cas", None)) /\ UNCHANGED <<rc, clientState>>
     ELSE /\ clientState' = CompareAndSet("DISCONNECTED_ERROR", "PENDING_RECONNECT")
          /\ Return(t, "ATTEMPTING_RECONNECT")
  /\ UNCHANGED <<handlers, writeBuf, ping, reconnect>> /\ UNCHANGED net /\ UNCHANGED rest
Resubscribed(t) ==
  /\ At(t, "resubscribed")
  /\ Return(t, IF rc[t] = "SUCCESS" THEN "RECONNECTED" ELSE rc[t])
  /\ UNCHANGED <<clientState, handlers, writeBuf, ping, reconnect>>
  /\ UNCHANGED net /\ UNCHANGED rest
-----------------------------------------------------------------------------
(* The broker, the network and the timers (external). *)

BrokerPublishes ==
  /\ link = "up" /\ Len(inbox) < MaxInbox
  /\ \E topic \in session, type \in {"PUBLISH0", "PUBLISH1"} : inbox' = Append(inbox, Packet(type, topic))
  /\ UNCHANGED <<clientState, stack, rc, handlers, writeBuf, ping, reconnect, link, session, partial>>
  /\ UNCHANGED rest
\* Of the first packet on the way a part may have come.
LinkBreaks ==
  /\ link = "up"
  /\ link' = "broken" /\ session' = {} /\ inbox' = <<>>
  /\ partial' \in {partial, inbox # <<>>}
  /\ UNCHANGED <<clientState, stack, rc, handlers, writeBuf, ping, reconnect>> /\ UNCHANGED rest
PingTimerExpires ==
  /\ Connected /\ ~ping.due
  /\ ping' = [ping EXCEPT !.due = TRUE]
  /\ UNCHANGED <<clientState, stack, rc, handlers, writeBuf, reconnect>>
  /\ UNCHANGED net /\ UNCHANGED rest
ReconnectTimerExpires ==
  /\ clientState = "PENDING_RECONNECT" /\ ~reconnect.due
  /\ reconnect' = [reconnect EXCEPT !.due = TRUE]
  /\ UNCHANGED <<clientState, stack, rc, handlers, writeBuf, ping>>
  /\ UNCHANGED net /\ UNCHANGED rest

Step(t) ==
  \/ Cas(t) \/ TlsConnect(t) \/ Serialize(t) \/ SendPacket(t) \/ WaitTimeout(t)
  \/ Read(t) \/ ReadError(t) \/ ReadFails(t)
  \/ Deliver(t) \/ HandlersReturn(t) \/ SerializePuback(t) \/ EndCall(t)
  \/ YieldLoop(t) \/ KeepAlive(t) \/ SendPing(t) \/ HandleDisconnect(t) \/ DisconnectHandled(t)
  \/ Reconnected(t) \/ EndYield(t)
  \/ ReconnectStart(t) \/ ConnectReturned(t) \/ Resubscribed(t)
Requested(t) ==
  \E op \in Requests, topic \in Topics \union {None} :
    /\ (topic = None) <=> op \in {"publish0", "publish1"}
    /\ Request(t, op, topic)
Next ==
  \/ ClientInit \/ Connect \/ AttemptReconnect \/ Yield \/ Disconnect
  \/ \E t \in Threads : Step(t) \/ Requested(t)
  \/ BrokerPublishes \/ LinkBreaks \/ PingTimerExpires \/ ReconnectTimerExpires

\* The main thread runs, the timers expire, and the application yields again and again.
Fairness ==
  /\ WF_vars(Step("main"))
  /\ SF_vars(Yield)
  /\ WF_vars(PingTimerExpires) /\ WF_vars(ReconnectTimerExpires)
Spec == Init /\ [][Next]_vars /\ Fairness
-----------------------------------------------------------------------------
Frames == [op : Requests \union {"connect", "reconnect", "resubscribe", "yield", "deliver0", "deliver1"},
           pc : {"cas", "tls", "serialize", "send", "wait", "end", "enter", "handler",
                 "puback", "loop", "read", "keepalive", "ping", "disconnect",
                 "disconnected", "check", "reconnected", "start", "connected", "resubscribed"},
           old : ClientStates, topic : Topics \union {None}, slot : 0..NumHandlers, count : 0..NumHandlers,
           called : BOOLEAN]

\* The values the variables of the client, of its callers and of the network take.
TypeOK ==
  /\ app \in Applications
  /\ clientState \in ClientStates
  /\ \A t \in Threads : Len(stack[t]) <= MaxDepth + 4 /\ \A i \in DOMAIN stack[t] : stack[t][i] \in Frames
  /\ handlers \in [1..NumHandlers -> Topics \union {None}]
  /\ ping \in [outstanding : BOOLEAN, due : BOOLEAN]
  /\ reconnect \in [wait : 0..2 * MaxWait, due : BOOLEAN]
  /\ link \in {"down", "up", "broken"} /\ partial \in BOOLEAN
  /\ session \subseteq Topics /\ subscribed \subseteq Topics
  /\ late \in 0..app.late

OneThread == app.worker = {}

\* No call of one thread that reads messages shares its state with a call of the other.
\* The handlers of a read leave the state to the other thread's calls: a call that finds
\* it taken when they return ends, and may take it back from the wrong one.
Apart ==
  \A t, u \in Threads : t # u =>
    \A op \in (app[t] \union app.handler) \ {"publish0"}, other \in app[u] \union app.handler :
      InProgress(op) # InProgress(other)

\* aws_iot_mqtt_set_client_state is the lock of the write buffer: what a call sends is
\* the packet it built, although another thread, or a handler, makes calls meanwhile.
\* Not so where the calls of two threads are not apart, or when yield goes on in the
\* idle state after it failed to subscribe again.
WriteBufferOwned ==
  OneThread \/ (~app.auto /\ ~app.reconnects /\ Apart) =>
    \A t \in Threads : At(t, "send") \/ At(t, "ping") =>
      writeBuf.by = t /\ writeBuf.type = PacketOf(Top(t).op)

\* Only one thread subscribes and unsubscribes, and handlers do not subscribe.
OneSubscriber ==
  /\ "subscribe" \notin app.handler
  /\ OneThread \/ /\ "unsubscribe" \notin app.handler
                  /\ \E t \in Threads : app[t] \intersect {"subscribe", "unsubscribe"} = {}

\* A topic whose subscription succeeded has a handler, although the slot is chosen before
\* the wait for the acknowledgement and filled after it: nobody else may subscribe then.
SubscriptionsHandled == OneSubscriber => subscribed \subseteq Handled

\* Subscribing again reports success only when the broker has every topic that was before
\* the first free slot when it began, unless the connection broke again meanwhile.
ResubscribedPrefix ==
  \A t \in Threads :
    /\ At(t, "end") /\ Top(t).op = "resubscribe" /\ rc[t] = "SUCCESS" /\ link = "up"
    /\ OneThread /\ "unsubscribe" \notin app.handler
    => {handlers[i] : i \in 1..Top(t).count} \subseteq session

\* Between the calls of one thread no call's state is left over, and the state says
\* whether there is a connection, unless a disconnect handler reconnects: then yield
\* declares the connection its handler made broken.  A connection the state does not
\* tell of is one that aws_iot_mqtt_init has left open.
SettledBetweenCalls ==
  OneThread /\ ~Running("main") =>
    /\ clientState \in {"INVALID", "INITIALIZED", "IDLE", "DISCONNECTED_ERROR",
                       "DISCONNECTED_MANUALLY", "PENDING_RECONNECT"}
    /\ ~app.reconnects =>
         /\ clientState = "IDLE" => link # "down"
         /\ link # "down" => clientState \in {"IDLE", "INITIALIZED", "INVALID"}

\* A connection that passes nothing any more is given up, by the ping that is not answered
\* or by a failed read, whatever one thread and its handlers call.  Not so without
\* keep-alive, nor when it broke in the middle of a packet: each read then ends yield
\* before its keep-alive.
BrokenLinkNoticed ==
  OneThread /\ app.keepAlive /\ ~partial /\ link = "broken" /\ Connected ~> ~Connected

=============================================================================
