# Verification of the Wastewater Controller

TLA+ models of the firmware in `src/wwc_device/main` and of the AWS IoT client
it carries in `src/wwc_device/components/aws_iot`, model-checked by TLC and,
for the parts named below, proved by TLAPS. The modules are written from the
C and C++ sources; `PROJECT.json` maps every definition to the lines it stands for.

## 1. The system

The device is an ESP32 with two pumps (aeration and circulation), one LED, one
button and a WiFi station. It gets its working schedule from a device shadow of
AWS IoT, follows it by the wall clock, and reports its state. The firmware
consists of active objects: each has a FreeRTOS task, a bounded queue of
function objects and timers whose expiries are posted to that queue.

| Component | State it keeps | Operations | Interacts with |
|---|---|---|---|
| Active-object runtime (`ActiveObject.*`, `MethodRequest.h`) | queue of request pointers, the heap objects, handles of timers | `executeMethod`, `executeMethodSynchronously`, the task function, `createTimer`, `startTimer`, `stopTimer`, `changeTimerPeriod`, the timer callback | every caller's task; the FreeRTOS timer daemon, through a second bounded queue |
| MQTT service (`mqtt.*`, `mqttfsm.*`) | state machine Init / Connecting / Connected, six timers, the map of subscriptions, the AWS client, an activity flag | driver events, errors, time, subscribe, unsubscribe, publish, six timer handlers, entry and exit of three states | WiFi (stops and starts the station), WWC (callbacks, messages), the AWS client (blocking calls) |
| WWC (`wwc.*`) | five parameters, flags and outputs of two pumps, the last heap reading | control run, status report, shadow update and delta, control message, connection callback | MQTT (publishes), LED (told of the connection), heap, system clock |
| LED service (`LEDService.*`) | rhythm, count of expiries, output, timers | `wpsInProgress`, `mqttConnected`, `mqttDisconnected`, `tmrExpiry` | called by WiFi and WWC |
| WiFi (`wifi.*`) | non-volatile storage, flag of the WPS procedure, alternation of two networks | boot, `disconnect`, `connectAndToggle`, button, driver events | the driver's event loop, an interrupt, MQTT |
| ADC service (`ADCService.*`) | none | two averaged readings | WWC |
| Boot (`main.cpp`) | the four objects | creation in the order LED, WiFi, MQTT, WWC | all |
| AWS IoT MQTT client (`aws_iot_mqtt_client*.c`) | client state, message handlers, one write and one read buffer with its index, ping and reconnection timers | connect, publish, subscribe, unsubscribe, yield, disconnect, attempt_reconnect; building and reading of packets | called by MQTT in one task; calls the application's handlers from its reads; the TLS port |
| AWS IoT shadow (`aws_iot_shadow*.c`, `aws_iot_json_utils.c`, `jsmn.c`) | list of waiting requests, list of topics, table of registered keys, last version, token counter, one parsed document | init, connect, update, get, delete, register_delta, yield; building and parsing of documents | the MQTT client; the application's callbacks. The device speaks to its shadow by plain topics and does not call it |
| Port layer (`components/aws_iot/port`) | countdown timers, TLS session, mutexes | init, countdown, expired, left; connect, read, write | the AWS IoT client |
| AWS IoT jobs | none | formatting of topics and documents | the MQTT client |
| Cloud controller, Android application | | | publish desired documents; not part of the device |

What is hard here:

* *Concurrency.* Every object is called by other tasks, by an interrupt, by the
  driver's event loop and by the timer daemon. A request waits in a queue while
  the state it was meant for goes away: a timer that is stopped has already
  posted its expiry, a time message is executed after the connection broke.
* *Bounded queues.* `executeMethod` sends with timeout 0 and ignores the result.
  Any message may be lost: a driver event, an error, a request, a synchronous call.
* *Blocking.* The MQTT object blocks in TLS and in acknowledgements, and the
  messages received in the meantime are posted to its own queue. The
  object's task waits for the timer daemon without a timeout while the daemon
  posts to the object.
* *Failure.* A WiFi link goes up and down, a client call fails in the middle of
  entering a state, the power fails between two writes of the storage.
* *Re-entrance.* The AWS client reads messages while a call waits for its
  acknowledgement, and the handlers it runs call the client again: a slot, a
  buffer, a record or a parsed document chosen before the wait is used after it.
* *Streams.* A packet comes in any pieces; a timer may end a read in the middle,
  and a connection may end in the middle of a packet.
* *Numbers.* The cloud sends the divisor of the schedule; tick counter, packet
  identifiers and the integers of a document have a width, lengths meet the size of a buffer.

What makes each component correct: a request is executed once and freed once, a
synchronous caller is woken after its function; the device never gives up
connecting and never believes in a connection that is broken; parameters stay legal
and the pumps run as long as the parameters say; the LED and the status
message tell the truth; the WPS procedure survives restarts and never mixes
two networks; the AWS client sends the packets its callers meant, reads those the
broker sent, keeps its subscriptions and notices a dead connection; a shadow
request is answered once, by its own answer or at its time; a document is taken
apart as it was put together. `PROJECT.json` lists the hazards line by line with the properties for them.

## 2. The modules

| Module | Models | Uses |
|---|---|---|
| `MethodCalls` | the promise of an active object: a call is refused at once, or waits, runs once, alone, and ends | |
| `ActiveObject` | the runtime with its task, callers, timer daemon and both queues; refines `MethodCalls` | `MethodCalls` |
| `ActiveObjectProofs` | type correctness, three invariants and the refinement, proved | `ActiveObject` |
| `Mqtt` | the MQTT object, its state machine, the station's events, the boot, the WWC object's requests | |
| `MqttProofs` | types and every invariant of the runs of `Mqtt`, proved | `Mqtt` |
| `Wwc` | the WWC object, its messages to the MQTT and LED objects, the clock | |
| `WwcDay` | `Wwc` with a record of the running times of the current day | `Wwc` |
| `WwcProofs` | types, truth of the LED and of the status messages, the window of circulation, proved | `Wwc` |
| `LedService` | the LED object with all timers it ever created | |
| `LedServiceProofs` | the light of a connected device, proved | `LedService` |
| `Wifi` | the WiFi object, its storage, the button, WPS, power failures | |
| `WifiProofs` | types, no mixed credentials, WPS not started again or stopped, proved | `Wifi` |
| `AwsMqttClient` | the state machine of the AWS client, its calls and handlers in one or two threads, keep-alive, reconnection, with broker and network | |
| `AwsMqttClientProofs` | the write buffer, the handlers, the state between calls, subscribing again, proved | `AwsMqttClient` |
| `MqttPacket` | bytes of every packet, built and taken apart, and topic filters | |
| `MqttWire` | one connection: TLS stages, reading packets from the stream, writing requests | `MqttPacket` |
| `JsonTokens` | jsmn and the helpers of `aws_iot_json_utils.c` on lexemes | |
| `AwsJson` | the shadow's documents: built into a bounded buffer, sent, parsed, searched | `JsonTokens` |
| `PortTimer` | the countdown timers of `timer.c` | |
| `PortTimerProofs` | the timers are exact over a wrap, proved | `PortTimer` |
| `AwsShadow` | shadow requests, answers, timeouts, shared topics, deltas | `PortTimer` |
| `AwsShadowProofs` | deltas in order, no timeout too early, truthful answers, topics held and released, proved | `AwsShadow`, `PortTimerProofs` |
| `MC...` | TLC's constants | |

### ActiveObject

A non-persistent `MRequest` is a heap address, so that a use after delete or a
leak is visible: `heap` are the allocated ones, `lost` those whose send failed.
The request of a timer is persistent and named by its timer. `ExecuteMethod`,
`SelfCall` and `ExecuteMethodSynchronously` are the callers, `Receive` and `Finish` the task
function, `TimerCommand`/`SendCommand` the three timer functions (two steps,
since `portMAX_DELAY` blocks between them), `HandleCommand`, `Expire` and
`TimerCallback` the daemon. The body of a method is any finite sequence of calls.

`MethodCalls` knows only the status of a call. The refinement mapping
`statusOf` reads it off `lost`, `current` and `heap`.

### Mqtt

A handler is split where it blocks; `pc` says where the task is. `target`
is the state a transition is heading for: the code sets `currentState` only
after `onEntry` returned, and errors raised in between are handled by the
old state. The station is a `link`, the AWS client a `session` with its
subscriptions; each call may fail. `Delivery` is the
callback of the client while it reads. Aborts restart the device (`Reboot`).

### Wwc, WwcDay

The unit of time is the period of `aControlTmr`; time passes when the queue is
empty. A document is a function from some parameters to integers or to
something that is no number. The schedule keeps the truncating division of C++.
`ControlOnTmr` is the whole control run: the heap check with its restart, both
flags, both outputs. `pins` are levels: the aeration output is active low.
`WwcDay` adds the history `day` and no behaviour; a day counts only when it was seen from
midnight on and nothing but time changed in it. A circulation period longer than the
normal period is cut off with the first of them, as in the code (`wwc.cpp:176`).

### LedService

Every change of rhythm appends a timer; none is ever removed. Time is discrete.

### Wifi

Three tasks (`Task`, the event loop's `StaStart` and `Store`, the MQTT object's `Disconnect`
and `ConnectAndToggle`) beside the constructor. Each start of the driver, for the station or
for WPS, brings one `WIFI_EVENT_STA_START` (`starting`), whose handler calls
`esp_wifi_connect` and does not look at the flag of the WPS procedure; `connecting` records the call. What
the driver makes of it during WPS is not in the repository: `Outcome` is left free. Every write to the storage is a
step, and `PowerLoss` may come between any two. `handler` holds the writes the
event handler has left to do.

### AwsMqttClient

A thread is a stack of frames: a call, a delivery inside its read, a call of
the handler inside that. A frame stops before every compare and set
(`Cas`), between building and sending a packet (`Serialize`, `SendPacket`),
before every read (`Read`, `WaitTimeout`, `ReadError`, `ReadFails`) and where a handler
runs. `ReadError` is a connection found closed, which makes yield disconnect; `ReadFails` is every read that fails on a
connection that seems well, in mid-packet (`partial`) or because a message is too long, which ends yield before its keep-alive.
`ClientInit` is `aws_iot_mqtt_free` and `aws_iot_mqtt_init`, at any time between calls, on an open connection too, which
they leave as it is (as `mqttfsm.cpp:76-94` does). The mutexes of `threads_freertos.c` make each of these one step. `Yield`
is its loop: `YieldLoop`, `KeepAlive`, `SendPing`, `HandleDisconnect`, `DisconnectHandled`,
`Reconnected`, `EndYield`. The broker keeps a session and sends what it
was subscribed for; a link that breaks passes nothing and says nothing.
An *application* says which calls it makes from where, and whether it asks for keep-alive; the instance explores five.

### MqttPacket, MqttWire

Here a packet is its bytes. `ReadPacket(arrived)` is one call of
`_aws_iot_mqtt_internal_read_packet` that sees some of the bytes on the way before its timer
expires; `readBufIndex` keeps what it got for the next call. `expected` is a history:
the packets the bytes belong to.

### JsonTokens, AwsJson

A document is a sequence of lexemes: what is inside a string is one value,
but lengths in characters are counted where the code compares them with a
room. `Feed` is jsmn's loop on one lexeme. `FindToken` also tells whether tokens beyond the
parsed ones were read (`beyond`): the code's loop has no bound there. The construction keeps `used` and `rc`
as the chain of `snprintf` calls does.

### PortTimer, AwsShadow

The tick counter wraps at `Wrap`, differences are unsigned. A shadow request
runs through the steps between which messages are read (`Waiting`), so that an
answer, a delta or a request made in a callback may come in between;
`stack` holds these calls. An MQTT call succeeds or fails. `age`, `requests` and
`applied` are histories the properties compare with.

## 3. The runs

| Run | Question | Instance and why it is enough |
|---|---|---|
| `active_object` | types, ownership of requests, protocol of synchronous calls; refinement of `MethodCalls`; accepted calls are executed, object and daemon never block each other | 2 heap requests, 2 callers, 1 timer; object queue of length 2, command queue of length 1: both fill up, two synchronous calls or one and a timer meet in a queue, an address is allocated again |
| `mqtt` | the client is never used before its init, a watchdog is armed, subscriptions live, truth towards the WWC object; `wifiConnected` aborts only after a dropped message | 1 topic, every timer, two kinds of request beside the subscription at boot, queue of length 2: every message can be the one that is dropped, stale expiries in every state, several restarts of the station in flight |
| `mqtt_live` | retries, notice of a broken session | queue of length 2, the three timers the properties rest on |
| `mqtt_reconnect_abort` | **violated**: the assertion of `reconnectMQTT` | no requests, no topic but the time: the shortest instance with the behaviour |
| `aws_client` | two calls never share the write buffer, where the calls of two threads are apart (`Apart`); a subscribed topic has a handler; a resubscription that succeeds has all topics; the state settles between calls; a link that broke between packets is noticed | 5 applications (one thread with automatic reconnection whose handler publishes; one that reconnects itself; two, one of them without keep-alive, with late acknowledgements or reads that fail; two threads, one subscribing), 2 topics, 2 slots, 3 frames, back-off up to 2: slots run out, two handlers nest, the back-off ends, packets stay half read, the client is initialised with a connection open |
| `aws_wire` | a packet read is the one sent; handlers by topic filter; a request written says what was asked | read buffer of 13 bytes, write buffer of 130: packets that fit exactly, by one too long, longer than two buffers, lengths of one and two bytes; packets cut anywhere; the connection lost in mid-packet and made again; identifiers wrap at 3 |
| `aws_json` | brackets balanced, well-formed documents accepted and searched rightly, what was built is read back, registered keys get what a delta's state says of them | 19 tokens, 72 characters, integers of 3, 5 and 20 bits in the order of 8, 16 and 32; all sequences of up to 5 lexemes, documents cut, edited and spoilt; deltas whose state nests, repeats or only uses a name further inside; values around every limit |
| `aws_shadow` | one truthful answer per request, topics held while needed and given up after, deltas in order, every request answered | 8 applications, 2 records (10 in the code), 3 topic entries (20), 2 registered keys of 3, a counter that wraps at 4 ticks (2^32) with a timeout of 2: lists run full, the counter wraps in a request, failures, nested requests, a start over, three deltas in any order with callbacks that call in between |
| `wwc` | types (parameters legal), truth of LED and status messages, running times of whole days | days of 6 periods, 10 periods of time; queue of length 2 so that messages are dropped; 7 documents whose changes add up: periods that divide, do not divide and exceed the day, duty cycles 30, 50 and 150 %, offsets of both signs, illegal and ill-typed values, a circulation period longer than the normal one; heap short and sufficient. Constraint `Calm` |
| `led_service` | steady light while connected | 40 ms as unit of time; 2 changes of rhythm, 3 timers |
| `led_blinks` | **violated**: a steady light only when connected | 250 ms as unit; 4 changes |
| `wifi` | no mixed credentials, the driver neither stopped nor started again nor given another network in WPS; the button leads to WPS, WPS ends, both networks are tried | 2 WPS networks, 3 presses, 2 power failures: a procedure interrupted twice and begun again with another network |

The `TypeOK` of `Mqtt`, `LedService`, `Wifi`, `AwsMqttClient`, `MqttWire`, `AwsJson`
and `AwsShadow` documents the values of their variables (those of `Mqtt` and `Wifi` are proved);
it is not a property of a run there, and `DocumentFits` is the premise of `RoundTrip`, not a property.

`CHECK_DEADLOCK FALSE` is set for `ActiveObject`, where both heap addresses
may be used up by calls whose send failed, or both callers be blocked in
synchronous calls that found the queue full and never return; for `AwsJson`, which
ends with its document; and for `AwsShadow`, whose application stops after
the requests of its bound.

`Calm` (in `MCWwc`) lets a document arrive only at an empty queue, and a new
request wait until the last answer is published. It orders documents among
themselves and the MQTT object's requests; timers, connection changes and
answers of one request still overlap and overflow. The proofs of
`WwcProofs` need neither this constraint nor any other bound.

Every property of a passing run has a mutant: a definition changed as a
plausible mistake would, with which TLC finds the property violated. The
mutants stand before the definitions they change.

### Fairness

* `ActiveObject`: the scheduler runs every ready task (weak fairness). A method
  makes finitely many calls, so `Finish` and `SendCommand`, which may be
  disabled by other steps of the same task, are strongly fair. The daemon
  looks at its commands between two expiries.
* `Mqtt`: the object's task and `app_main` go on, each blocking call ends
  because each has a timeout. An expiry tried again and again, and the error of
  a failed yield, are accepted in the end: the queue is drained by the highest
  priority that is ready, and no poster is locked out of it for ever. Nothing is
  assumed of the network, the server or the WWC object.
* `Wifi`: every task goes on; the driver ends a WPS procedure, by its timeout if
  nothing else; the MQTT object of a device without a connection restarts the
  station again and again, which is `RetriesWiFi` of `Mqtt`.
* `AwsMqttClient`: the main thread runs, timers expire, and the application
  yields again and again: strongly fair, since other calls keep it from yielding
  at times. The SDK asks for that (keep-alive works only in yield). Nothing is assumed of the broker.
* `AwsShadow`: a call under way proceeds, ticks pass, and the application yields.
  Nothing is assumed of the service: an answer may never come.

### What the violated runs show

1. A stale `reconnect` expiry in Init aborts and so restarts the device
   (`mqtt.cpp:291`), by an ordinary loss of the link; it works again afterwards.
2. Timers left running make the LED of a disconnected device shine steadily (`LEDService.cpp:27`).

### Behaviours the models have that no run singles out

Met while modelling; each is a step of the module named, and where a property
would be false because of it, the property says so in its premise.

* `Mqtt`: a time message queued behind an error aborts in Init (`mqttfsm.cpp:47`); an
  open session is abandoned when Connecting is entered again (`mqttfsm.cpp:76`).
* `Wwc`: a circulation period longer than the normal period is cut off with the first normal
  period (`wwc.cpp:176`), which `CirculationWindow` states exactly. That contradicts `wwc.h:35` ("Defines how long
  circulation pump operates during day"), and `cloud_controller/main/wwc_controller.py:51-53` sends such a pair, 5 and 10
  minutes. `PumpTimesOfDay` therefore takes the header's sentence only where the code can keep it, for periods up to
  the normal one, and of a longer one says only that the pump does not run longer than it.
* `Wifi`: `esp_wifi_connect` is called on `WIFI_EVENT_STA_START` in a WPS procedure too (`wifi.cpp:38-41`), and so the
  driver is not left alone in it. `WpsNotRestarted` denies what would end the procedure by the code's own calls: a stop,
  another start, another network, a second such event.
* `AwsMqttClient`: a failed compare and set of unsubscribe sets another thread's
  state back (`unsubscribe.c:233`); yield goes on in the idle state after a failed
  resubscription; a subscribe inside a subscribe takes the same slot; slots after a
  free one are not subscribed again; packet identifiers of acknowledgements are
  not compared (`subscribe.c:256`); a call whose read finds the state taken when its handlers
  return ends, and may give back the state of a call of the same name in the other thread
  (`common_internal.c:527`), so that both write to one buffer, and `WriteBufferOwned` asks that the calls of two threads be
  `Apart`; a handler, or another thread, that subscribes in another call's wait takes the slot
  chosen before it, hence `OneSubscriber`; a failed write is reported as success, the result
  being that of unlocking (`common_internal.c:305`); yield declares broken what a disconnect
  handler has just connected (`yield.c:69`). A connection that breaks in mid-packet makes every later read fail
  (`common_internal.c:404-442`), yield then ends before its keep-alive (`yield.c:206-236`), no ping is sent and the client stays
  connected for ever, although `yield.c:164-165` says that this time "is used by the MQTT client to manage PING requests to
  monitor the health of the TCP connection";
  nor is there keep-alive with an interval of 0 (`yield.c:122`): `BrokenLinkNoticed` asks for neither. A connection open at
  `aws_iot_mqtt_init` stays open while the state says initialised or invalid, which `SettledBetweenCalls` allows. A
  resubscription that fails in the middle leaves part of the topics; `ResubscribedPrefix` speaks of successful ones.
* `JsonTokens`: `findToken` (`aws_iot_json_utils.c:233-238`) reads the table behind the last parsed token once it has
  passed the last member of a container that ends the document, so "NULL - not found" (`aws_iot_json_utils.h:204`) holds only
  if what is left in the table stops the loop. `WellFormedAccepted` says exactly when: `NoToken(TRUE)` for a name that an
  object with members does not have, nothing beyond otherwise.
* `MqttWire`: bytes of a TLS read that times out are lost (`network_mbedtls_wrapper.c:345`), and the
  first chunk of a packet too long for the buffer may take the start of the next packet
  (`common_internal.c:411`); after either the stream means nothing (`skewed`), and `PacketsIntact`
  speaks of what comes before. `#` and `+` each take at least one byte, a SUBACK
  may hold one code more than asked for, "session present" is read from bit 7.
* `AwsJson`: keys are searched in all tokens before the first `"metadata"`, at any depth and values included
  (`aws_iot_shadow_json.c:440-451`; the unit tests expect nested keys found). `DeltaFromState` says so: a field is found
  exactly when its name is said anywhere in the state, with the value of the first such member, provided
  no string value has the name of a field and no member of the state is called metadata (`Unambiguous`). Numbers
  are told apart by their value, so that one of the metadata would be noticed.
* `AwsJson`: a value is given the room from before its key (`aws_iot_shadow_json.c:175`), so
  `rc` may be SUCCESS for a document longer than its buffer, although `aws_iot_shadow_json_data.h:99` promises an
  error "if the entire string was not filled up", and `RoundTrip` asks `DocumentFits`;
  the length of a client token is cut to 8 bits; `uint16` wraps.
* `AwsShadow`: requests nested in another call's wait take the same record; an
  answer read in a timeout's callback is answered twice; a request made during an
  unsubscribe waits without a subscription; with a full topic list a request is
  published without one and unsubscribes a stale topic; a failed publish leaves a
  count behind, a failed unsubscribe half a pair; the delta topic counts as subscribed even if that
  failed; a start over forgets who waits and counts tokens from 0 again, so that an old answer may pass
  for a new one: that request is told twice and gives its topics up twice, which is why
  `WaitersSubscribed` and `Released` ask `ToldOnce` (preparing their proof showed it; it takes
  three records); a later
  one-off request makes a persistent subscription a passing one, although
  `aws_iot_shadow_interface.h:198` says these topics are listened to always. And a call that a
  delta's callback makes may read an old delta in the middle of it: that one is discarded
  only after it has taken the place of the first in the shared buffers (`aws_iot_shadow_records.c:494`
  and 504), whose remaining keys then get the older values, although
  `aws_iot_shadow_interface.h:280` says of old messages that they will be ignored.
  `DeltasInOrder` speaks of the steps in which the buffers hold the delta under way.

Two more behaviours of the code are in `ActiveObject` without a run of their own. A
synchronous call at a full queue waits for ever (`ActiveObject.cpp:96`), so
`SyncCallProtocol` and `AcceptedCallsExecuted` speak of accepted calls only; no object of the
device calls synchronously. And a stopped timer's queued expiry is executed,
since the check of the task function looks at a handle nobody clears
(`ActiveObject.cpp:130`); the first of the list above is its consequence.

## 4. What is proved

All theorems hold for every value of the constants, under the assumptions
named in the modules (queue lengths are positive, special values differ from
ordinary ones, the default parameters are legal, the documents' fields are
among the five).

**`ActiveObjectProofs`** (assumptions `SizesAssumption`, `DistinctAssumption`).
`TypeCorrect`, then each invariant from the ones before it:
`OwnershipCorrect` (a heap request is queued at most once and only while it is
allocated; what is neither queued nor executed is free or was refused),
`SyncCallsCorrect` (as long as a caller's request is queued or executed, the
caller waits, is not notified, and has no other such request), `HandlesCorrect`. The invariants are inductive
relative to each other as they stand. `PromiseKept` maps every step to one of
`MethodCalls` or to a stutter; it needs ownership, because an address that is
allocated again must not be queued still.

**`WwcProofs`** (the assumptions of `Wwc`). `TypeCorrect` is inductive and holds the
fact the schedule rests on: the divisor is positive whatever arrives.
`LedCorrect`: `LedTruth` only asks for some request that says the truth and is
not inductive, since a younger request may say the opposite; `LedInv` says that
the youngest one is true. `StatusCorrect`: the aeration output starts
opposite to its flag, so `StatusInv` says that until the two agree a control
run precedes everything that reports, or the clock is not set and nothing
that reports is queued at all. `CirculationWindow` solves the division of the schedule: with
it the header's circulation period can be compared to what the code does.

**`WifiProofs`** (`NetworksAssumption`, `SizesAssumption`). One inductive
invariant `WifiInv`: the flags in memory and storage agree but for the steps
between (`FlagInv`), the driver runs WPS only with the flag set and its start is reported once (`ModeInv`), before
the constructor is done the driver is off and nobody asks for a toggle (`StartInv`),
nothing is asked of the object before it has read the storage (`BootInv`), and
the writes left of an event fit what is stored (`StorageInv`). The last is
what power failures are about: name and password may disagree only
while the flag is set in the storage. `CredentialsCorrect` and `WpsCorrect` follow.

**`PortTimerProofs`** (`TimerAssumption`). `ElapsedIsAge`: the unsigned difference of two
readings is the time between them, for every width of the counter, as long as less
than a round passed; `TimerExact`: so a timer expires neither early nor late and has time left exactly
until then. `AwsShadow` rests on it.

**`AwsShadowProofs`** (`ShadowAssumption`, `TimerAssumption`). `DeltasCorrect`: `DeltasInOrder` is about one
step, so the invariant says what the calls under way hold. `SentInv`: the documents in hand were
sent and are none of those still on their way. `OrderInv`: as long
as old deltas are discarded and the application has not started anew, what was applied
is not newer than the version kept, nor than the document parsed last while that is one in hand. An old delta read in the middle
of another one is never in hand, having been discarded, and of it nothing is said. `Pushed` and `Returned` say what documents a call that begins or ends
leaves in hand, and every other step is `Quiet`. `TimeoutsDue`: in `TimeoutInv` the timer of each record was
started as many ticks ago as its request has waited, less than a round, so `TimerExact` applies
when `HandleExpired` finds one; `NeverEarly` is the first part of `TruthfulAnswers`. `TruthfulAlways` proves the whole:
`StackInv` says which call may run inside which; in `AskInv` a request has one call that makes it, one answer
on its way and one record, `TokenInv` makes the token of a record and an answer its request's number until
the tokens start over, and `ToldInv` follows: what `AckStatusCallback` finds by token is the request the answer is
for. That nobody is told twice (`OnceInv`) needs who is *being* told: a record in use whose request has
been answered belongs to a call at or after its callback (`AnsweredHaveTellers`), one call per record, and an answer that
comes after the timeout finds its record only while the timeout's callback runs, when nothing is read unless a
callback makes a request (`LateOnlyInCallback`): the premise `~reentered`.

`WaitersAlways` and `ReleasedAlways` rest on `CalmInv`: while it is `Calm`, that is, as long as the premises of the two properties
hold, `SlotInv /\ TopicInv`. Neither property is inductive: an entry is released when its count is 0, and the count
is nowhere compared with those who need the topic. `Holds` says who does: a record that waits, whose call is over; a call
that publishes or tells and has not yet given the topic up; a call that has subscribed to the first topic and not
to the second. `HoldInv` bounds the number of holders by the entry's count (equality where nothing was meant to stay),
so a topic is unsubscribed only by its last holder (`UnsubInv`). `ListInv` makes the entries and the
client's subscriptions correspond, `ClaimInv` says of a subscription under way that its
two entries, not yet `Live`, are the first that a search for their topics finds. `PairInv` keeps the two topics of an action alike
although they are given up in two steps, with other calls in between: only then does the search for both
topics, by which a request decides whether to subscribe, tell about each of them. `SlotInv` (a call under way has a record of its own,
in use exactly while it tells) makes the holders countable. The proof has one lemma for each step that can move a
topic (`RequestKept`, `SubscribeAcceptedKept`, `SubscribeRejectedKept`, `LeaveKept`, `UnsubscribeKept`); the others are quiet (`QuietKept`).

**`MqttProofs`** (`QueueAssumption`, `TopicAssumption`, `RequestAssumption`, `NoneAssumption`: the
queue has a place, the topics are finitely many). `TypeCorrect` says that no handler posts what is
not a message and that no queue outgrows its length. `ControlInv` ties the place of
the task (`pc`) to the transition under way and the topics at hand; the properties
follow from it, each with a part of its own. `ArmedInv` (`WatchdogAlways`): a state in force has its
timers, and one being entered has those its entry started before it blocked. `TruthInv` (`ReportsTrue`): the WWC
object was told where the object is *heading*, which is where it is whenever it waits. `SessionInv`
(`ClientReadyAlways`): until the client is initialised only the init timer has run, so no
other expiry can be queued, and nothing led away from Init. `LiveInv` (`SubscriptionsAlways`): on the way to
Connected and there, the topics of the map are subscribed or at hand, or the error of the one that
failed is queued or was dropped. `LinkInv` (`WifiAbortsAfterLoss`): the driver's events alternate
in the queue, so two that say the station is up have one between them that says it is not, unless one of those
was dropped. Where a property speaks of dropped messages it supposes that `Tracked` records their kind,
which only makes the history visible and restricts no behaviour.

**`LedServiceProofs`** (`CadenceAssumption`). `LitAlways`: the output follows the count of expiries (`RhythmInv`), and where
the duty is the whole cadence each expiry ends one, whichever timer it is of.

**`AwsMqttClientProofs`** (`ClientAssumption`, `ApplicationAssumption`), for every application, two threads and
handlers nested to any depth. `TypeInv` and `FramesOK` say what a stack looks like: which call can run
inside of which, where its caller then is, and what state it found. `MutexInv` is the argument of the lock: a thread
*relies* on the state from its compare and set to its end, but not while its handlers run
nor after a read that failed; where the calls of two threads are apart and nobody reconnects, one thread at
most relies on it, and the state names the call that does. `SettledInv` says of a single thread what the state
is at each place of each call. From these follow `BufferInv` (`BufferAlways`: what is in the
buffer is what the thread between building and sending has built), `HandlersInv` (`SubscriptionsAlways`: the
slot a subscription has chosen is free until it is filled), `LinkedInv`
(`SettledAlways`: besides the state, what the connection is at each place of each call; a connection that an init left open
accompanies the states initialised and invalid until the next connect) and `PrefixInv` (`ResubscribedAlways`: a resubscription at
slot n has the topics up to n at the broker; it ends at the number of slots counted when it began, below which all were
taken and stay so, and a subscription that a handler makes meanwhile fills a slot beyond it). A read that fails (`ReadFails`)
ends its call like a timeout, so it disturbs only where a thread is and what it holds of the state.
The premises of the four properties (`Apart`, `OneSubscriber`, `OneThread`) are in the properties, where TLC checks them too.

Only model-checked: every liveness property, `BrokenLinkNoticed` among them (fairness and ENABLED are out of
the prover's reach); the running times of `WwcDay` (their proof would need
induction over a day); the recursive renderings of `AwsJson` and the byte formats of
`MqttPacket`, on which `MqttWire` rests (induction over data).

## 5. Bounds, assumptions and what is left out

Bounds, each a constant or a constraint named in its module: `Requests` (heap
addresses) and queue lengths in `ActiveObject`; `QueueSize`, `Requests`, `Expiring`
and `Tracked` in `Mqtt`; `Docs`, `Times`, `MaxTime`, `Heaps` in `Wwc`, `Calm` in
`MCWwc`; `MaxTimers` in `LedService`; `MaxPresses`, `MaxLosses` in `Wifi`; `MaxDepth`, `MaxInbox` and
`late` (acknowledgements too late, and reads that fail while the connection is up) in `AwsMqttClient`; `MaxSent` and `NoRequestYet` in `MqttWire`; `Settings`, `Trees`, `Garbage`
and five fields in `AwsJson`; the numbers of an application and `MaxDepth` in `AwsShadow`.

* `Mqtt`: `xTimerStop` takes effect at once (its command queue is modelled in
  `ActiveObject`); expiries already queued stay. The request of `connectAndToggle` is
  executed at once and the WPS procedure is left out (both are in `Wifi`). A
  message too long for the buffers, and a driver event in the middle of another, are left out. So is the abort when
  `aws_iot_mqtt_free` or `aws_iot_mqtt_init` fails on entering Connecting (`mqttfsm.cpp:77-94`): it restarts the device
  like the aborts the model has (`Reboot`), and on the device these calls fail only for lack of memory (`threads_freertos.c:38`).
* `Wwc`: `valueint` of a number that is no integer is an integer of `Docs`; the
  duty cycle is a percentage; the time message is well formed; the readings of the pumps are left out.
* `LedService`: `currentCadence` has no effect with `count = 0`. Times are
  rounded to whole units; the object's task ends its requests within one unit.
* `Wifi`: the storage opens and its writes are durable at once; an absent flag
  counts as false; a WPS exchange takes longer than the two writes of a button
  press made just before it; driver calls do not fail (they abort).
* `AwsMqttClient`: `isBlockOnThreadLockEnabled` is set; automatic reconnection is chosen before
  the first call; the worker thread only makes requests; handlers make one call
  each. Packets are their types and topics; topic filters are in `MqttWire`. A packet is read and taken apart in one step, although the
  code uses the read buffer after it gave back `tls_read_mutex` (`common_internal.c:602-645`, `subscribe.c:250`): what two
  threads reading at a time do to that buffer is left out (a second thread reads only in the wait of a request).
* `MqttWire`: both directions of a connection share only its being open, so a behaviour
  has packets of the broker or requests. A topic name holds no wildcards.
* `AwsJson`: no floating point, octal or hexadecimal numbers; blanks and escapes inside
  strings do not matter to what is modelled. The token after the last parsed one is `Invalid` (`After`); the code reads a
  stale one or the memory behind the table (`aws_iot_shadow_json.c:442`, 497), and no property depends on it.
* `AwsShadow`: one thing, one client, one thread; every request has a callback and a
  client token; an application yields often enough that the counter does not come round while a request waits.
  The init and the connect are one step that succeeds: after a failed connect the code has not reset its records
  (`aws_iot_shadow.c:130-136`), and the subscription to the topic of `deleteActionHandler` (138-144) and
  `aws_iot_shadow_reset_last_received_version` (43-45) are left out. An answer or a delta that is too long or no JSON is
  dropped by the code (`aws_iot_shadow_records.c:191-202`, 489-500) and stands here for one that is lost, although one that is no
  JSON has taken the place of the document parsed last; every delta has a version (one without is applied
  unchecked, 503). `Leave` names the two topics from the record when it gives each of them up, where the code has computed both
  names first (258-261): they differ only if the record is used again in between, which needs a request made inside
  another call, outside the premises of the properties. And `Applies` finds nothing once another document is in the buffers, where
  the code goes on with the number of tokens of the outer one and may find keys in the rest of
  either (514-517): `DeltasInOrder` says nothing of those steps.
* Not modelled: the ADC service (no decision depends on it), `nvs_flash_erase`, AWS IoT jobs
  (formatting only), certificates and sockets, the Linux platform, samples and tests of the
  SDK, the Android application, the controller script (its documents are inputs of `Wwc`), and the
  shadow service of AWS: it is not in the repository, so whether desired and
  reported documents converge cannot be read from this code.

## 6. Plan

Done, in this order: the runtime, the MQTT state machine, the WWC
object, the WiFi object, the LED service, with the proofs of the runtime, the WWC
object and the WiFi object; then the AWS client, its packets, its shadow part and
the port's timers; then the proofs of the MQTT and LED objects, of the AWS client's calls and of the topics its shadow part holds. What is left:

1. Refinement: the client calls of `Mqtt`, which succeed or fail, as an abstraction of `AwsMqttClient`
   used by one thread without automatic reconnection.
2. Compositions: `Mqtt` with `Wifi` (WPS included), `Wwc` with `LedService`.
