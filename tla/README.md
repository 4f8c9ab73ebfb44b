# Verification of the WunderBar V2 firmware

TLA+ models of the WunderBar V2 application (`src/src`, C++ on mbed OS 5), TLC
configurations that check them, and TLAPS proofs.  File names below are
relative to `src/src`.

## 1. The system

The board connects six BLE sensors, a button, an LED and an information
resource with a cloud broker over WiFi, TLS and MQTT.  `main.cpp` alternates
between two blocking loops: `onboardLoop` until the flash holds a complete
configuration, `runLoop` from then on.

| component | state it keeps | operations | interacts with |
|---|---|---|---|
| **MqttProtocol** (`mqttprotocol.cpp`) | `error`, `pingSent`, `keepAliveTimer`, `keepAliveHeartbeat`, pool `messages` (64), `upstreamQueue` (64), `subscribers`, `packetId`, two packet buffers | `connect`, `loop`/`dispatch`, `publish`, `subscribe`, `setPingPeriod`, `disconnect` | called from the resources' threads; calls their done and data callbacks from the dispatcher thread; reads and writes an `ITransportLayer` |
| **IPubSub** (`interfaces/ipubsub.h`) | none of its own | the contract between the two | |
| **Resource** (`resource.cpp`) | `msgStorage` (4), `msgQueue` (4), `subscribed`, worker thread with its signals | `advertise`, `revoke`, `publish`, `subscribe`, `acknowledge`, the callbacks | its worker calls the protocol and sleeps until the callback signals it |
| **MainLooper** (`runloop.cpp`) | scope of TLS and MqttProtocol objects | connect WiFi, set time, connect MQTT, advertise, loop, revoke | creates and destroys the protocol |
| **Button, Led, Info** | `publishing`, `counter`; ticker; `pingInterval`, `pingCallback` | interrupts, a timing thread, a ticker, commands | Resource, Flash |
| **Flash** (`flash.cpp`) | marker, configuration word, configuration | `isOnboarded`, `reset`, `resetHeader`, `store` | main loop, onboarding, button |
| **Onboarder and wizards** (`onboardloop.cpp`, `*wizard.cpp`) | `stepStatus`, the configuration being filled | steps in any order until all are complete | console, WiFi, BLE, HTTPS, Flash |
| **console helpers** (`loopsutil.cpp`) | field being read; progress thread | `readField`, `agree`, `ProgressBar` | console, LED |
| **Sensors** (`sensors/`) | `commandId`, `retCode`, cached readings | BLE events, commands, GATT writes | Resource, BLE gateway |
| **TLS** (`tls.cpp`) | mbedTLS session, `error`, time-out | `connect`, `send`, `receive`, `disconnect` | socket |
| **HttpsRequest, HttpParser, JsonDecode** | request text; response; tokens | build, send, receive; parse | TLS |
| **CDC, nouartfix, descriptors, entropy, pass key, cloudconfig** | none worth modelling | I/O, constants | external USB stack |

Behaviour that is hard to test:

* Requests pass from a publishing thread to a worker to the dispatcher and back
  by a callback and a thread signal.  No return value on that way is looked
  at, and the data is handed on by pointer.
* The dispatcher meets packets in whatever order the broker sends them, in two
  different places (`dispatch` and `receiveTill`), and any receive can time out.
* Every error replaces the connection under the feet of the requests that wait;
  `pingSent`, the timer and the list of subscribers survive it.
* The main thread terminates the workers wherever they are and starts again
  with the same resource objects (`subscribed` keeps its value).
* Interrupts, a ticker, BLE events and commands publish at any time, also while
  the main thread advertises or revokes.
* Power may fail between erasing and programming the flash.
* A sensor's command ends with an event of the gateway's thread, which shares the
  command's id and result with the worker and cannot tell whose write it confirms.
* Six sensor classes repeat the same code with small differences, and describe to
  the cloud in text what they do in code.
* The onboarding steps work on one configuration in any order and any number of
  times; what an earlier run left there meets the next.

What makes each component correct:

* **MqttProtocol**: a block is never lost or used twice; an accepted request is
  answered once, in order; the answer to SUBSCRIBE is true; ping traffic is
  bounded; a dead connection is noticed; nothing is done on a connection that
  was not accepted.
* **Resource**: the worker never waits for a callback that cannot come nor goes
  on too early; data handed to the protocol stays in place until the answer;
  storage does not leak; commands the broker delivers are not thrown away.
* **MainLooper**: revoke comes after the last callback; nothing calls a
  protocol that is gone.
* **Button / Led / Info**: only advertised resources publish; the flash is
  cleared only on a long press.
* **Flash**: after power loss at any point the board either onboards again or
  runs with a complete configuration.
* **Onboarder**: only a configuration with all three steps complete is stored.
* **Sensors**: each command is acknowledged once, with its own id and result.
* **TLS / HTTP / JSON**: all bytes are sent once; parsers stay inside their
  input.

## 2. Modules

| module | models | kind |
|---|---|---|
| `PubSub` | the contract of `IPubSub` | abstract specification |
| `MqttProtocol` | `mqttprotocol.cpp` with the broker and the link as environment | detailed specification |
| `MqttPubSub` | how the state of `MqttProtocol` is one of `PubSub` | refinement mapping |
| `MCMqttProtocol` | symmetry | for TLC |
| `MqttProtocolProofs` | theorems about `MqttProtocol` | TLAPS |
| `MqttPubSubProofs` | the refinement, action by action | TLAPS |
| `Resource` | `resource.cpp` and the order of calls in `MainLooper::loop`, over `PubSub` | composition |
| `MCResource` | symmetry | for TLC |
| `ResourceProofs` | theorems about `Resource` | TLAPS |
| `Button` | `button.cpp`: pin interrupts, timing thread, advertise and revoke | detailed specification |
| `ButtonProofs` | theorems about `Button` | TLAPS |
| `FlashBoot` | `flash.cpp`, the loop of `main.cpp`, clearing, power loss | composition |
| `FlashBootProofs` | theorems about `FlashBoot` | TLAPS |
| `SensorTables` | what the six classes of `sensors/` know: commands, fields, characteristics, and the commands they advertise | operators |
| `SensorCommands` | a command's way through one sensor, against the gateway's events | detailed specification |
| `SensorCommandsProofs` | theorems about the tables and the commands | TLAPS |
| `ReadField` | `readField` of `loopsutil.cpp`, with the repeated questions of the wizards | algorithm, key by key |
| `ReadFieldProofs` | theorems about `ReadField` | TLAPS |
| `Onboarding` | `onboardloop.cpp` and the three wizards, the registration request | composition |
| `OnboardingProofs` | theorems about `Onboarding` | TLAPS |

`MqttProtocol` implements `PubSub` (`PubSubImplemented`), and `Resource` is built on the actions of
`PubSub` (`Protocol!Accept`, `Protocol!Answer`, ...), so what is shown of the
resources holds over the real protocol.  `PubSub!Capacity` is the number of
blocks of the protocol's pool.

### PubSub

`requests` is the sequence of accepted requests not answered yet; `held` is 1
between the done callback and the return of the block to the pool, which the
code does in that order (`mqttprotocol.cpp:371` and `:343`); `listening` is the
set of clients that receive data; `inbound` is the client whose data callback
is running.  `MqttPubSub` gives these four their values: the request in hand is
unanswered until its callback has run, and a subscriber listens when both the
broker and `subscribers` have it and its own SUBSCRIBE is not still under way.
`Reconnect`, and the choice in `Release`, let every subscription
end without notice, which is what `handleError` does.

### MqttProtocol

`pc` says where the protocol object stands; inside `dispatch` there is one value
for each point where another thread or the broker can be observed.

| action | code |
|---|---|
| `connect`, `connecting`, `handleError` | `connect`, `connecting`, `handleError`; the five outcomes are the values left in `error` |
| `loop`, `Reconstruct` | `loop`; end of scope in `MainLooper::loop` and the next constructor |
| `publish`, `subscribe` | both enqueue; a request refused for want of a block changes nothing |
| `setPingPeriod`, `Tick` | the period may change at any time; the timer counts |
| `ReceiveNothing`, `ReceivePublish`, `ReceivePingresp`, `InvokeSubscriber` | one call of `receivePacket` in `dispatch` with what follows from it |
| `TakeMessage`, `sendPublish`, `sendSubscribe` | `handleMessageQueue` up to the send |
| `SkipPacket`, `ReceiveSuback`, `SubackTimeout` | `receiveTill(SUBACK)` and the rest of `sendSubscribe` |
| `InvokeDone`, `FreeMessage` | done callback, `messages.free`, `handleError` on failure |
| `KeepAlive` with `PingAccepted`, `PingNotSent`, `PingUnanswered` | the end of an iteration |
| `BrokerPublish`, `LinkDies` | environment |

The cases CONNACK and SUBACK of `dispatch`'s switch (`mqttprotocol.cpp:206-213`)
have no action: `AnswersOnlyWhereAwaited` states, and `AnswersAwaited` proves,
that neither packet is ever there to be received.

Abstractions:

* A packet is read whole, is lost whole, or does not come; the bytes of a packet
  and what is left of one after a time-out in its middle are not modelled yet
  (section 7).
* The pool and the queue are thread safe (RTX), so `alloc` and `put` of one call
  are one step; between the two no other thread can tell the difference,
  because a block out of the free list and not yet queued is used by nobody.
* CONNECT and PINGREQ fit the 500 bytes of the packet buffer, so their serialisation
  does not fail.  A PUBLISH may not fit: the negative result is kept in a `size_t`
  (`mqttprotocol.cpp:366`), `SERIALIZATION_FAILED` is not reported and `sendPacket` is
  asked for about 2^32 bytes.  The model takes that for a send that failed; the lengths
  with their width are planned (section 7).
* A live link delivers what it accepted, in order; a dead one may still accept.
  A new connection starts with an empty channel and, the client using clean
  sessions, without subscriptions.
* The pool is a set of blocks of which any free one may be handed out.
* A refused CONNACK counts as OK, as in the code; the broker then closes the
  connection, which is `LinkDies`.
* `KeepAlive` runs after a reconnection that failed as well, as line 226 does: it is the
  one place where the dispatcher acts on a connection that was not accepted
  (`NoWorkOnBrokenConnection`, `FailedReconnectionEnds`).

### Resource

`worker[r]` follows `pubSubThread`: `get`, `call`, `wait`, `free`, and for incoming
data `handle`, `ack`.  `phase` is the main thread in `MainLooper::loop`.  Each
resource makes one `subscribe()` in its own `advertise`, which are one step.
Handling a command may publish, acknowledge at once, acknowledge later, or all of
these.  The terminated worker leaves its request in the protocol's queue, which is
destroyed before the next round.  A message too long for the storage is dropped as in
the code.

* The threads of `Publishers` know nothing of advertising and revoking.  `publish` and
  `acknowledge` allocate (`Allocate`), fill in, and queue in a later step (`PutMessage`);
  `filling` is the block in between.  `revoke` may fall there: the address is then
  `Dangling`, and `put()` with it does nothing at best.  Without storage `alloc()` is a call
  on a null pointer.  Info alone publishes from no thread of its own.
* The worker, the dispatcher and the main thread allocate and queue in one step: no
  `revoke` can overtake them, since the worker is terminated by it and the
  dispatcher has ended before, and no other thread sees the difference.
* A command of more than 16 tokens, or no JSON at all, passes for JSON
  (`jsondecode.cpp:10`): `handleSubscription` may end in a length that cannot be assigned.
* `Undefined` is any use of memory that is not there.  Nothing is claimed of such a
  board but that it may be restarted (`PowerCycle`).

### Button

`edge` is the one edge the interrupt is attached to, `signals` the signals of
the timing thread, `step` its place in `waitForRise`.  An interrupt runs between any
two steps of a thread.  The timing thread is created with `osPriorityHigh`, the
thread that advertises and revokes with `osPriorityNormal`: the latter takes a step
only while the former waits (`Waiting`).  `outrun` remembers that the pin has changed
before the thread had dealt with an earlier edge, by contact bounce or a
publication that took its time: it is in no code, and only the properties about
priming read it.  `clearFlash` ends in a system
reset, which puts everything but the pin back to its initial state.  The value of
`counter` is reduced to whether a change of it has been looked at.

### FlashBoot

`header` is the write unit that holds the marker and the configuration word (8
bytes, `BLOCK_WRITE_UNIT_SIZE`), `config` the units behind it, `pending` the units
the current operation has still to program, in the order of their addresses.
`at` follows the loop of `main()`.  Erasing the sector, programming each unit and
unlocking are steps; between any two of them the power may fail, which leaves the
unit being programmed as it was or with foreign content.  `clearing` is set
from the button's thread, which then has the processor except while it waits for
the mutex.  `torn` remembers a power failure during `store` until the next
operation: it is in no code, and only `RunsOnWholeConfiguration` reads it.
A configuration is one value that every unit must hold.

### SensorTables and SensorCommands

Commands, fields and characteristics are tables by name; `Merged` puts a
class's table in front of the common one, as a class does that handles what it knows
and hands the rest to `WunderbarSensor`.

A command is its name, the names of the fields in its argument, and whether the
values are allowed.  `step` follows `handleCommand` of the class and then that of
`WunderbarSensor`, with a step for each point where the gateway's thread can be
observed: the copy of the id (`copyId`, `copyBase`), the preset of `retCode`
(`Base`, `DecodeBase`), the request (`Send`, `SendAgain`), the result (`Succeeded`,
`Failed`) and the final `acknowledge` (`Ack`).  `Event` is `event()`: `NewData` writes
the default rate, `WriteOk` and `AckWrite` read the code first and the id after it.

* `pending` counts writes the gateway has accepted; it confirms them in any number
  of steps, or forgets them when the link is lost (`LinkLost`).
* `crossed` remembers that a confirmation was outstanding when a command came, or
  came while one was handled; it is in no code.  The properties about results
  hold without it and say so.  `overtaken`, `lost` and `refused` remember the ids of
  commands that were overwritten, lost with the link or given up by their class while
  unanswered: `NoSilentCommand` says that no other command stays so.
* A command has 7 tokens and two for each field (`Tokens`), of which `parseSubscription`
  allows 16.  More of them, or text that is no JSON, halt the board (`Unreadable`): the
  parser's error counts as success, and `data` has no length.
* The four measuring classes take an argument from within the text of the command, or
  from a value without an end; a field it lacks is looked for behind the tokens
  (`SearchesMemory`).  What is found there may be taken for the field, or end the search
  and the board.
* A message a search finds by chance in old tokens is as if it had been sent.
* The classes copy arguments into short buffers, some without an end, and convert
  them; `valid` leaves open whether a value is taken.
* An acknowledgement that finds no storage is `Resource`'s matter.
* Advertised commands are sent with the fields advertised, in any order, or with a
  bare value.

What the classes do beyond the properties: `readUUID` by the name "led" reads a
characteristic that may only be written (the exception in `AccessRespected`); a
`writeUUID` whose second write is refused answers 404 although the first went
through; `toggleState` of the bridge flips its state before the write is accepted
(`wbbridge.cpp:56`); a WRITE_OK between `sendToServer` and `retCode = 200` reports an
accepted command as a bad request.

### ReadField

`field` is the buffer with its cells, `numCharacters` and `defaultLength` are the
function's, `typed`, `touched`, `shown` and `overlong` remember what the user has seen
and done.  `masked` fields are passwords: the default they are asked with is a
fixed text.  `StartOver` is the wizard's next round.

`Cells` is memory from the start of the buffer as far as a key is stored, one cell more
than the longest entry.  That cell is the buffer's own (`size = Max + 1`) for ssid 32/31,
password 64/63, token 9/8 and the one-letter answers 2/1; it is not for `userName`, 30/30
(`cloudwizard.cpp:246`), which therefore starts with something unknown behind it and is
never asked for again.  `outside` remembers that a key or an end was stored there.

### Onboarding

`at` names the question or the call the onboarding thread is in; a wizard that
returns sets `stepStatus` of its step (`Finished`).  Agreeing to try again, refusing,
failing and starting any step at any time are choices.  `mqtt` keeps, for
credentials copied without their end, which registration the characters come from;
`buffer` is the body that stands in the static buffer of `cloudwizard.cpp:44`.

* `HeaderOnly`: `HttpsRequest::recv` reads once; when the body of the answer comes
  later, the parser finds behind the header what an earlier answer left there.
* A body that is not blank counts as JSON.  One that the parser gives up (`broken`) is
  searched behind its tokens, where nothing defined is found: garbage is copied, or the
  board halts.
* The network may be lost at any time (`LoseNetwork`); `cloudStep` looks at `stepStatus`
  only.
* The test connection takes any CONNACK, so `tested` are credentials that brought one,
  and `joined` is the network joined last.  `last` and `longer` describe the answers used so
  far; all four are in no code, and only properties read them.
* After a test that failed and was given up the wizard prints "Perfect!"
  (`cloudwizard.cpp:333`) but reports failure; the model has the report.
* A wizard's own retries inside one question are in `ReadField`.
* The BLE wizard asks "Try again?" also when all sensors are accounted for; both
  answers end it.  A sensor not checked counts as accounted for.

## 3. Runs

| run | configuration | shows |
|---|---|---|
| `mqtt` | 2 clients, 2 blocks, periods {0, 1, 2}, timer up to 2, symmetric | `TypeOK`, `PoolConserved`, `SubscribeAnswerTruthful`, `OnePingInFlight`, `NoWorkOnBrokenConnection`, `FailedReconnectionEnds`, `AnswersOnlyWhereAwaited`, `ImplementsPubSub`, `DeadLinkDetected`, `AllServed` |
| `resource` | 2 resources, one with a publishing thread, 2 blocks each, protocol with room for 3 | `TypeOK`, `StorageConserved`, `NoLostWakeup`, `DataInPlace`, `NoStaleSignal`, `NoCommandIgnored`, `AllHandled` |
| `button` | reset time 5 ticks, edges as fast as they like | `TypeOK`, `PublishOnlyAdvertised`, `PressReported`, `LongPressPrimes`, `CalmPriming` |
| `flash_safety` | 2 configurations of 2 write units, foreign or erased at first | `TypeOK`, `RunsOnWholeConfiguration`, `ClearedStaysCleared`, `OneOperationAtATime` |
| `sensors` | each of the 6 classes, 2 commands | `TypeOK`, `NoSilentCommand`, `TruthfulResult`, `AckCount`, `AdvertisedUnderstood`, `AccessRespected`, `StrayAcksBounded` |
| `readfield` | 2 characters, entries of 2 to 4, a mask of 3, with and without a spare cell | `TypeOK`, `AcceptedAsTyped`, `DefaultKept` |
| `onboarding` | 2 networks, 2 sensors, 3 registrations | `TypeOK`, `StoredConfigurationTested`, `CloudAfterWifi`, `TestedAsIssued` |
| `mqtt_ping_failure` | violation | a connection is given up for the ping of the one before |
| `button_primed` | violation, as `button` | the board is primed with the button up |
| `flash_onboarded` | violation, as `flash_safety` | a board that is onboarded without a configuration |
| `sensor_tx` | violation, as `sensors` | an advertised command is unknown |
| `readfield_previous` | violation, as `readfield` | ENTER cuts the previous password |

Bounds and why they are enough:

* Two clients are what it takes to confuse one answer with another's; two blocks
  make the pool run empty while one request is in hand and one waits.  The
  queue is as large as the pool, as in the code, and `ConstantsAssumption` says so.
* `MaxTime` saturates the timer one above the largest period, so that "expired"
  and "not expired" both occur under every period.
* `MaxInbox` bounds what the broker publishes on its own, not its answers: a late
  SUBACK, a PINGRESP and a PUBLISH can be in the channel together.
* `PoolSize` 3 for two resources is one more than there are resources, which the
  code has in abundance (64 for 9).  It must be more, and `ResourceAssumption` says
  so: with as many blocks as resources `NoLostWakeup` fails, because the done
  callback wakes a worker before its block is returned.
* Two blocks per resource let a request be waited for while another waits or a
  command comes in, and the storage run empty; one publishing thread is enough to be
  caught by `revoke`, because nothing it does touches another resource's storage.
* `heldFor` counts to one tick above `ResetTime` and stays there; the thread never
  waits longer than `ResetTime`.
* Two configurations tell the new one from the old one; two write units are the
  least of which one can be programmed and one not.
* Two commands are what it takes for the confirmation of one to meet the other,
  and the sensor's own write makes a third write outstanding.
* Entries from below the minimum to one beyond the maximum, and a mask shorter than
  the longest entry, give every order of the lengths `readField` compares.
* Three registrations: one accepted, one that fails over it, and one that repairs it.

The larger runs have 497856 states (`mqtt`), 454815 (`resource`), 178413 (`readfield`),
1214840 (`onboarding`) and 6153759 (`sensors`).

Deadlock is checked in every run but those of sensors, onboarding and readField, which
end when the last command is answered or the board halts, the configuration is stored,
and an entry is accepted that is asked for once.

Fairness.  `MqttProtocol`: weak fairness of the dispatcher thread, which the RTOS
schedules round robin among threads of its priority; of `SubackTimeout`, the timer of
`receiveTill`; of time.  Nothing is assumed of the broker, the link or the
clients.  `Resource`: weak fairness of each worker; of the end of a callback; of
the return of a block; strong fairness of the answer, because `dispatch` looks at
its queue after every packet, so data that keeps arriving cannot keep it from
answering.  That is what `AllServed` shows of `MqttProtocol`.  The other
modules are checked for safety only.

## 4. Proofs

Every safety property and action property that a passing run checks is also a
theorem, for all values of the constants that satisfy the module's assumption, and
so is the refinement of `PubSub`.

`MqttProtocolProofs` proves, for all values of the constants that satisfy
`ConstantsAssumption`:

| theorem | states |
|---|---|
| `TypeCorrect` | `Spec => []TypeOK` |
| `PoolSafe` | `Spec => []PoolConserved` |
| `OnePing` | `Spec => []OnePingInFlight` |
| `WorkOnAcceptedConnection` | `Spec => []NoWorkOnBrokenConnection` |
| `FailureEnds` | `Spec => FailedReconnectionEnds` |
| `AnswerTruthful` | `Spec => []SubscribeAnswerTruthful` |
| `AnswersAwaited` | `Spec => []AnswersOnlyWhereAwaited` |

* `PoolInv` is `TypeOK`, `HandInv` (a block is in hand exactly from `send` to
  `free`) and `PoolConserved`.  `TypeOK` alone is not inductive: `SubscribeFinished`
  reads the client of the block in hand, which is a request only because a
  block in hand is allocated.  `PoolConserved` needs that `put` never finds the
  queue full; `QueueHasRoom` derives it: the queue holds distinct blocks, not the
  one being allocated, of a finite set no larger than the queue.
* `PingInv` adds that a PINGRESP on its way implies `lastPing = "asked"` and
  `pingSent`, and that there is one at most.
* `StatusInv` ties `error`, `link` and the outcome of the message in hand to `pc`: without
  it a reconnection that failed could not be told from one that was not tried.
* `AnswerInv` adds `SubackInv`: while the dispatcher is not waiting for a SUBACK any
  SUBACK in the channel belongs to a failed request, and the connection is
  replaced before the next SUBSCRIBE; while it waits, a granted SUBACK in the channel
  stands for a subscription the broker holds.

* `ConnackInv` says that no CONNACK is in the channel of an accepted connection; with
  `SubackInv` it yields `AnswersOnlyWhereAwaited`.

`MqttPubSubProofs` proves `PubSubImplemented`, `Spec => ImplementsPubSub`: the initial
states map to the initial state of `PubSub`, and each action to one of its actions or to
a stutter (one `Maps` lemma each).  What the steps need beyond `AnswerInv` is in
`MapInv`:

* `InboundInv`: a subscriber is being called back exactly while the dispatcher delivers.
* `SubscribersInv`: a client has one SUBSCRIBE in the pool at most, and is among
  `subscribers` from the end of `sendSubscribe` on.  Without it the answer to one
  SUBSCRIBE could add a listener whose other SUBSCRIBE is still pending.
* `PublishedInv`: what the broker published on this connection is for clients that are
  subscribed on it; that is why data reaches listeners only.
* `CapacityLeft`: unanswered requests and the answered one whose block is not back yet
  are as many as the allocated blocks, so `alloc` succeeds only where `PubSub` has room.

`ResourceProofs`, for any finite set of resources smaller than the protocol's pool and
any finite storage:

| theorem | states |
|---|---|
| `TypeCorrect` | `Spec => []TypeOK` |
| `StorageSafe` | `Spec => []StorageConserved` |
| `NoWakeupLost` | `Spec => []NoLostWakeup` |
| `DataStaysInPlace` | `Spec => []DataInPlace` |
| `NoSignalStale` | `Spec => []NoStaleSignal` |
| `CommandsHandled` | `Spec => []NoCommandIgnored` |

* `StorageInv` adds to the storage property what a phase of the main thread says of the
  workers (`PhaseInv`) and when a worker has a block in hand (`HandInv`).  `Conserved` states
  it for one resource; `ConservedPut`, `ConservedTake` and `ConservedFree` say what the three
  operations on pool and queue do to it.  A block another thread fills belongs to nobody
  else, and what that thread is left with after a revoke is no block at all.
* `Undefined` leaves every variable as after a start, so the invariants hold of it without
  saying anything of the board (`AfterUndefined`).
* `WaitInv` is `NoLostWakeup`, `NoStaleSignal` and `RequestInv`, which are inductive only
  together: an answer sets the signal the worker waits for because the request it
  answers is the one the worker made.  Requests of revoked resources stay in the
  protocol's queue, which the protocol takes with it.
* `RoomForRequest` is where the size of the pool counts.  Each request under way
  belongs to another resource than the one about to call, so with the block not
  returned yet there is still one left.
* `SubscribedInv` says that no data for a resource is about while its SUBSCRIBE is
  unanswered (`Subscribing`).  `subscribed` keeps its value over revoke and advertise, and
  the callback sets it before any data can come, so nothing is thrown away.

`ButtonProofs`, for every `ResetTime`:

| theorem | states |
|---|---|
| `TypeCorrect` | `Spec => []TypeOK` |
| `PublishSafe` | `Spec => []PublishOnlyAdvertised` |
| `PressNotLost` | `Spec => []PressReported` |
| `LongPressSuffices` | `Spec => []LongPressPrimes` |
| `LongPressNeeded` | `Spec => CalmPriming` |

* `PublishInv` is what the priorities give: the thread that has decided to publish
  sees no step of the main thread before it has done so.
* `CalmInv` ties pin, attached edge, signals and the thread's step together: the pin
  is down exactly while a release is outstanding, and the thread has waited as
  long as the button has been down.  It holds until edges have outrun the thread;
  what happens then is finding 2.

`FlashBootProofs`, for all `Configs` and every number of `Chunks`:

| theorem | states |
|---|---|
| `TypeCorrect` | `Spec => []TypeOK` |
| `OneOperation` | `Spec => OneOperationAtATime` |
| `ClearingLasts` | `Spec => []ClearedStaysCleared` |
| `RunsOnWhole` | `Spec => []RunsOnWholeConfiguration` |

* `MutexInv`: nothing is left to program while the mutex is free, and who holds it is
  where it would hold it.
* `ClearedInv`: on a cleared board the onboarded marker neither stands nor is about
  to be programmed (`OnboardedAhead`).
* `StoreInv`: behind such a marker every unit holds its part of one
  configuration or waits to be programmed with it (`Storing`).

`OnboardingProofs`, for all networks, sensors and any number of registrations:

| theorem | states |
|---|---|
| `TypeCorrect` | `Spec => []TypeOK` |
| `StoredTested` | `Spec => []StoredConfigurationTested` |
| `CloudJoined` | `Spec => []CloudAfterWifi` |
| `TestedIssued` | `Spec => []TestedAsIssued` |

* One invariant per step says what its completion stands for, outside its own
  wizard: `WifiInv`, `BleInv`, `CloudInv`.  While the wizard runs again the old result
  stands and may be wrong, which is harmless because the wizard replaces it.
  `TypeOK` is not inductive without them: what is stored is typed because the
  steps are complete.
* `IssuedInv`: nothing in memory has the number of a registration to come, and characters
  stand behind short credentials when, and only when, longer ones were copied before.
  `TakeKeeps` derives from it which answers leave the credentials as they were issued.

`ReadFieldProofs`, for all characters and limits that satisfy `FieldAssumption`:

| theorem | states |
|---|---|
| `TypeCorrect` | `Spec => []TypeOK` |
| `EntryKept` | `Spec => []AcceptedAsTyped` |
| `EnterAloneKeeps` | `Spec => []DefaultKept` |

* `strlen` is the least cell that holds an end, so facts about it (`StrlenFacts`,
  `EndRewritten`) rest on every non-empty set of numbers having a least one (`LeastNumber`).
* `TypeInv` adds to `TypeOK` that the buffer is not overrun while keys are read; the
  longest entry stops the reading.
  It also settles what is stored outside: the cell behind the longest entry, which
  is outside only of a buffer that lacks it.
* `TypedInv`: what was typed is at the front of the buffer.  Only an entry that is too long
  takes away the end in the last cell, where the buffer has one.
* `ShownInv`: until a key is stored, the buffer holds the text ENTER alone stands for, and
  the default's length is that of the string, or of the mask.

`SensorCommandsProofs`, for any set of sensor classes and any number of commands:

| theorem | states |
|---|---|
| `TypeCorrect` | `Spec => []TypeOK` |
| `NoCommandSilent` | `Spec => []NoSilentCommand` |
| `ResultsTrue` | `Spec => []TruthfulResult` |
| `AcksCounted` | `Spec => []AckCount` |
| `StrayAcksLimited` | `Spec => []StrayAcksBounded` |
| `AdvertisedIsUnderstood` | `Spec => []AdvertisedUnderstood` |
| `AccessIsRespected` | `Spec => []AccessRespected` |

* Lemmas about the tables come first: what a class advertises is handled by it or by the
  common part (`AdvertisedHandled`) with the fields it reads (`FieldsAdvertised`); what its
  commands access may be accessed so (`OwnAccess`, `BaseAccess`); what `findUuid` finds
  may be, too (`FoundAccess`).
* `IdInv`: `commandId` is the command's own except in the steps before it is copied.
* `ResultInv`: `retCode` is 200 for the very commands that were done, so a code read after
  `retCode` was set is true, and one read before belongs to a confirmation that crossed.
* `CountInv` counts confirmations outstanding, the one being acknowledged and the
  acknowledgements, step by step; together they never exceed the writes asked for.
  `StrayInv` counts the same before the first command.
* `AnswerInv`: of every command so far, not only the last, what it asked for is on its way
  while `commandId` names it, or was acknowledged, overtaken, lost or refused.
* `HaltInv`: an advertised command that comes with the fields it is advertised with halts
  the board only when it has more than four of them, which is what the parser's 16 tokens
  hold (`SixAreFinite`, `FieldsFinite`).
* `RouteInv`: a class's own command does not reach the common part, except the infrared
  sensor's, which is always refused there with 404 and so never sent (finding 4).
* `KnownInv`: 404 is a first guess that no advertised command keeps.
* `AccessInv`: what is sent has been looked up before.

The assumptions.  `ConstantsAssumption` (`MqttProtocol`): a finite pool, and a queue with a
place for each block.  `ResourceAssumption`: finite storage, and a pool of more blocks than
there are resources.  `SensorAssumption`: the classes are among the six.
`FieldAssumption`: the least entry is not empty and not longer than the mask, the mask
shorter than the longest entry, as for both kinds of password of `wifiwizard.cpp` (10 to
24 and 8 to 63 characters, a mask of 19); no other field uses the mask.
`OnboardingAssumption` asks only that "no network" be none of the networks,
`FlashAssumption` that foreign and erased content be told from the two headers and
from configurations, `ButtonAssumption` that the reset time be positive.  The
values that stand for "none" differ from those they stand beside.

Each theorem is proved by `Init => Inv`, `Inv /\ [Next]_vars => Inv'` with one step per
action, and a temporal step.  Two things rest on TLC alone: the liveness properties
`DeadLinkDetected`, `AllServed` and `AllHandled`, because fairness and `ENABLED` are outside
the prover's reach, and the five violations, each of which is a behaviour to be shown.

## 5. Findings

1. `mqttprotocol.cpp:302`: `pingSent` survives a reconnection, so the new
   connection may be dropped for the unanswered ping of the old one; after a ping
   that could not be sent it is, in the very next iteration.  The same property
   fails when a PINGRESP arrives while SUBACK is awaited (`mqttprotocol.cpp:393`).
2. `button.cpp:73`: two clicks faster than the timing thread leave it waiting for a
   release that has already been taken; the wait times out and the board is primed
   for clearing with the button up.
3. `flash.cpp:77`: the marker is programmed in front of the configuration, so a power
   failure in the middle of `store` leaves a board that counts as onboarded and
   runs on what was programmed so far.
4. `sensors/wbinfrared.cpp:23`: the infrared command is tried after a 400 of the
   common part, which for an unknown command is a 404: TX is never carried out.  The
   bridge's `setState` is advertised as an object and taken only as a bare value.
5. `loopsutil.cpp:94`: ENTER at "[Default: <previous password>]" ends the password at
   the length of that text, so one longer than 19 characters is cut.

Each of these has a run that finds it.  The next ones are the exceptions that properties
of passing runs state: the run reaches the behaviour, and the property, proved, says that
there is no other.

6. `mqttprotocol.cpp:226`: after a failed reconnection the keep-alive check may ping or
   connect once more, where the comment at 428 says the loop will end
   (`FailedReconnectionEnds`).
7. `resource.cpp:64`: `revoke` frees storage and queue under a thread that fills a block, and
   `publish` and `acknowledge` do not ask whether there is any storage, so the queue that
   `advertise` prepares (line 55, "clean") may get a block of the round before, or
   `alloc()` is called on a null pointer (`StorageConserved`, `Undefined`).
8. `resource.cpp:194`: 16 tokens are too few for the six fields of `setThreshold` that the
   HTU, gyro and light sensors advertise; the parser's error passes for success and the
   board halts (`AdvertisedUnderstood`).
9. `sensors/wunderbarsensor.cpp:79`: a second command takes over the id, so the first one's
   confirmation acknowledges the second and the first stays without an answer
   (`NoSilentCommand`).
10. `cloudwizard.cpp:246`: `userName` has 30 cells and a limit of 30, so the character that is
    one too many, or the end in its place, is stored behind it, and an e-mail of 30
    characters has no end (`TypeOK` and `AcceptedAsTyped` of `ReadField`).
11. `loopsutil.cpp:157`: an entry that is too short is accepted when the default is long
    enough, where the banner promises "between %d and %d characters"
    (`AcceptedAsTyped`).
12. `mqttprotocol.cpp:180`: the return code of CONNACK is not examined, so the cloud wizard
    counts credentials the broker refused as tested (`StoredConfigurationTested`).
13. `cloudwizard.cpp:203` and `:177`: credentials are copied without their end and the answer
    is read once into a buffer nobody clears, so the credentials tested may be a mixture, or
    those of an earlier registration (`TestedAsIssued`).

A disagreement with a comment that has no effect a property could name:
`mqttprotocol.cpp:414` adds the subscriber whatever became of the SUBACK, where the
comment at 412 says "SUBACK received ok"; `ImplementsPubSub` shows that no data
reaches such a subscriber, because the connection is replaced first.  Outside of the
models, the gyro's `scale` is published as an object (`sensors/wbgyro.cpp:117`) and
described as an array of two integers (370-381).

## 6. Not modelled

USB console, descriptors, UART stub, entropy, pass key and configuration texts:
I/O and constants without behaviour of their own.  The wording of messages, logs
and of descriptions beyond the names of commands and fields; readings, their conversion
and their description (`getSenseSpec`).  The
RTOS, mbedTLS, Paho, jsmn and the BLE stack are external; only what the code relies
on is modelled.

Left open in components that are modelled in part:

* `ProgressBar` and `Keeper` draw dots and blink the LED.  `terminate` only signals the
  thread, and the destructor may end it inside `printf`; the console's state is
  external.
* `TLS`: an error of `send` stays in `error`, so `connect` refuses until `disconnect`, which
  also clears an error of `sslInit`; the callers here always disconnect or drop the
  object first.
* Partial sends, in `MqttProtocol::sendPacket` and `HttpsRequest::sendData`, go on from
  the start of the buffer; mbedTLS takes what these two send whole.
* `getTime`, the WiFi connection of the run loop, the values of LED, counter and ping
  interval.

## 7. Plan

1. `PacketStream`: `sendPacket`, `receivePacket`, `readPacketLength`, `receiveTill`
   over a byte stream with time-outs in the middle of a packet; lengths with
   their width.  Properties: a packet is sent once and whole; after an error
   the next receive starts at a packet.
2. `TlsTransport` with partial sends, under `HttpsRequest` and `MqttProtocol`.
3. `JsonTokens`: `JsonDecode` over arrays of tokens, against the value of a key.
4. The commands of Button, Led and Info in the manner of `SensorCommands`.

Proofs of the planned modules go with them.  For `PacketStream` and `JsonTokens` that is
the safety of the indices; what their loops compute for every input is an induction
over data and stays with TLC.
