# zigpy-ziggurat in TLA+

zigpy-ziggurat lets zigpy use *Ziggurat*, a Zigbee stack that runs outside the host program: in a
server reached over a WebSocket, or in a firmware reached over a serial port. This directory holds
TLA+ models of the Python code under `zigpy_ziggurat/`, their TLC configurations, and TLAPS proofs.
Paths below are relative to `zigpy_ziggurat/zigbee/`; a number after a name is a line.

    tlc -workers 2 -config Session.cfg MCSession.tla        # any run of PROJECT.json
    tlapm ApiProofs.tla                                     # and the other modules with proofs, section 2

## 1. Inventory

The program is single-threaded asyncio: tasks interleave at their awaits, and the callbacks of the
transport (a frame, a loss) and timers run between them.

| part | state it keeps | operations | what makes it hard |
|---|---|---|---|
| **request multiplexer** `ZigguratApi` (api.py) | `_request_id`, `_pending`, `_pending_confirms`, `_awaiting_aps_ack`, `_closing`, `_received_frame`; for each call a response future, a confirm future, an event queue | `request`, `request_confirmed`, `request_stream`, `_cancel_send`, `disconnect`; `_handle_frame` (response, event, notification, hello), `_connection_lost` | any number of tasks share the tables; answers come in any order, late, never or twice; timeouts and cancellations race them; the device reboots under a live transport; ids wrap |
| **transports** (transport.py): `WebSocketTransport`, `SpinelTransport` | the WebSocket and its client session, or the serial port; the receiver task | `connect_transport` (open, probe, adopt), `send_frame`, `disconnect`; `_receive_loop`, `connection_lost` | the probe fails, or times out, half way; a task is cancelled before its first step; the loss and the close race |
| **session** (`connect`, `disconnect` of application.py) | `self._api` | they make, use and forget a `ZigguratApi`, whose callbacks are the application's | callbacks of a session outlive its use; `connect` awaits `Reset` without a timeout |
| **network settings** (application.py 141-309, 329-339, 450-568, 714-770) | `state.network_info` (frame counters, link keys, channel, update id), zigpy's backups | `load_network_info`, `write_network_info`, `start_network`, `_move_network_to_channel`, `reset_network_info`; the notifications of counters and link keys | the device has no storage: the backups are its memory; many awaits with the settings in local copies; crashes between them |
| **joins and leaves** (683-706, 734-752) | the timers of `call_later`; zigpy's registry of devices | `_handle_device_joined`, DeviceJoined, DeviceLeft | announcements race timers; addresses change and are given to others |
| **packets** (574-681, 839-945; 162-193, 314-327) | the concurrency semaphore of zigpy; the coordinator with its endpoints | `send_packet`, `packet_received` and the local ZDO, `add_endpoint` | a place in the semaphore is awaited after `self._api` was checked; the registry changes during the wait |
| **permits, scans, capture** (341-448) | none; the device keeps its streams, its join window and its provisional keys | `permit`, `permit_ncp`, `permit_with_link_key`, `energy_scan`, `_network_scan`, `_packet_capture`, `_packet_capture_change_channel` | several awaits over sessions that come and go; the device goes on with the streams of a session that is gone |
| **received packets** (779-837) | none | `_handle_received_aps_command`, `_handle_received_gpdf` | translations without state |
| **frame header** (wire.py 123-145, protocol.py 454-476) | none | `Header.serialize`, `Header.deserialize` | id and type share a word |
| **protocol structures** (protocol.py, wire.py), **configuration** (config.py) | none | serialisation, validation | data only; wire.py is generated |

How they interact: the application calls `ZigguratApi`, which calls `Transport.send_frame`. The
transport calls back `on_frame` (`_handle_frame`) and `on_lost` (`_on_transport_lost`); `ZigguratApi`
calls back `on_notification` and, once, `connection_lost` of the application. The application writes the
settings into zigpy's `state` and `backups` and tells zigpy of joins, leaves and packets.

What makes each correct:

* *Multiplexer.* A call reports what the device said of that call and nothing else; a task that waits
  can be woken; what is given up on is cancelled on the device; nothing stale stays in the tables; a loss
  is reported once; calls end.
* *Transports and session.* No frame after the loss and one loss per link; what was opened is closed;
  only the session in use speaks to the application; `connect` does not hang on a session that is gone.
* *Settings.* No frame counter value is used twice across reboots; a link key that was learned is not
  forgotten by host or device; a move to another channel is not undone, and no beacon advertises an old
  instance of the network.
* *Joins.* An interview is not restarted; a device that is there is not reported to have left; a silent device
  becomes known, by its present address.
* *Packets.* A request names one device, by address and EUI64, with a hint of the way there; nothing secured is sent in
  the clear; no place among the concurrent sends is lost.
* *Permits, scans, capture.* Nobody gets items of another's stream; a session starts from an idle radio; a scan
  counts every reading once; a permit that returns has opened its window, with the key there before it.

## 2. The modules

| module | models | checked by | proofs |
|---|---|---|---|
| `Exchange` | abstract: what `Api` promises its callers | as `PromiseKept` of `Api` | `ApiStreamProofs` |
| `Api` | api.py as a whole, with the device it talks to | `MCApi`: four runs | `ApiProofs`, `ApiStreamProofs` |
| `Link` | abstract: what `Api` takes for granted of a transport | as `LinkKept` of `Session` | `SessionProofs` |
| `Session` | transport.py, and `connect`/`disconnect` through all layers | `MCSession` | `SessionProofs` |
| `NetworkState` | the network settings, with a device that forgets | `MCNetworkState`: four runs | `NetworkStateProofs` |
| `Joins` | joins, announcements, leaves, removals | `MCJoins` | `JoinsProofs` |
| `Packets` | `send_packet` with its payloads, answers to ZDO requests | `MCPackets` | `PacketsProofs` |
| `Wire` | the header of a frame | in `Radio` | in `Wire` |
| `Radio` | permits, scans, captures over several sessions; extends `Wire` | `MCRadio` | `RadioProofs` |

`Session` is to `Api` what a lower layer is to the one above: `Api` has a single variable `link` for the
transport, which is up, passes frames, and goes down once. `Link` writes that contract down, and
`Session` is shown to implement it for each attempt to connect, over either medium, under the mapping
`opened <- LinkOpened`, with `frames` and `losses` counting the callbacks.

`Exchange` is the contract on the upper side of `Api`: there are no ids, tables, futures, queues or timers in it, and each
call is between itself and the device. `Api` implements it under the mapping `asked <- Asked` (the calls that left
`idle`), `gone <- closing`, `muddled <- reused`; the other variables are the observations of the same names and
`outcome`. It promises what is said of each way to end (`Justified`), that a call ends once (`Close`), that only the
cancellation of a message given up on may replace the exception it ends with (`CancelFails`), and that a stream yields the next
event emitted for it, while it lasts (`Take`). It promises nothing from the step on that hands out an id in use.

Every module has the same conventions. One action is the code a task runs between two awaits, or one
callback. The variables come in groups by the object that owns them. The last group, marked
*Observation*, is never read by an action that models code: it remembers what happened so that a property
can speak of it. Operators whose comment begins with `Mutant:` are plausible mistakes in the definition
they precede. They are used by no action and show that a property would notice.

### Api

A call is one activation of `request`, `request_confirmed` (kinds `unicast`, `ackUnicast`, `broadcast`)
or `request_stream`. `pc` says at which await its coroutine stands.

| code | model |
|---|---|
| `_next_id` 93-97 | `NextId` |
| `request`, `request_confirmed`, `request_stream` up to `send_frame` | `Register`; `Written` is the write |
| `send_frame` returns, raises | `SendReturns`, `SendRaises` |
| the awaits of the response, of `confirm`, of `events.get()` | `RequestReturns`, `Accepted`, `Rejected`, `Confirmed`, `StreamYields`, `StreamEnds` |
| `asyncio.timeout`, `Task.cancel` | `Interrupt` delivers it, `Raise` is the coroutine seeing it: in between a frame may still be handled |
| the `finally` clauses and `_cancel_send` | `Return`, `CancelEnds` |
| `_handle_frame` and its four handlers | `Respond`, `AnswerCancel` (of a `CancelRequest`, which has no entry), `EmitEvent`, `EmitHandoff`, `EmitTerminal`, `Notify`, `Hello` |
| `_connection_lost`, `disconnect` | `ConnectionLost` within `LinkDown` and `Hello`; `Disconnect` |

The device may answer a request, a handoff, an ack and a terminal confirmation in any order that its
protocol allows, or never. A frame is emitted and handled in one step: the pipe is FIFO and the handler has
no await, so that delaying the handling is the same as delaying the emission. Payloads, decoding errors
and `set_tunable` (a `request` with a given payload) are left out.

`reused` is set once an id is handed out while something still goes by it: an entry, a task, a frame on
its way, an answer still owed. It takes a call that outlives 0x3FFF others, as a packet capture may. The
properties about one call's own frames hold until then. After it the stream loses its entry to the call that
gets its id, and that call's response ends it: `_next_id` (93-97) does not skip ids in use.

### Session

An attempt is one call of `connect()`, with the `ZigguratApi`, the transport and the callbacks it makes;
all of these outlive the call. `Medium` says whether it is a WebSocket or a serial port.

| code | model |
|---|---|
| `connect` 111-130, `connect_transport` 37-53 | `Connect`, `Opened`, `ProbeRejected`, `Adopt`, `ResetEnds`; `Raises` is every other exception that leaves it |
| `_receive_loop` 204-222 | `ReceiverStarts`, `Frame`, `ReceiverEnds`, `ReceiverCancelled` |
| `_SpinelProtocol` 59-80 | `Frame`, `PortDies`, `DriverCloses` |
| `disconnect` 132-139, 193-202, 128-131 | `Disconnect`, `PortCloses`, `ClientCloses`; `DisconnectRaises` at any of its awaits |
| `_connection_lost`, api.py 78-91 | `ConnectionLost`: the future of `Reset`, `_closing`, the report |

`LossHeard` asks the other half of `LinkKept`: not only that a loss is told once, but that it does reach the
application, in any stage of `connect`, unless `disconnect` was called.

The medium may be lost between the answer to the probe and the step of `connect` that reads it. `Adopt` goes on all the
same: the receiver of a WebSocket then finds it closed, and the write of `Reset` to a serial port fails.

`Cancelled` is asyncio's: a task cancelled before its first step never runs (`stillborn`), and so tells
nobody of a loss. `left` remembers that a call ended without having closed what it opened, and which.

### NetworkState

The settings are the two outgoing frame counters, the unique link keys, the channel and the update id; what
only the user changes is left out. The device forgets everything when it reboots. `LoadNetworkInfo` and `WriteNetworkInfo`
are the operations step by step, each action the code between two requests; `start_network` loads and
then writes, and sets its tunables. `MoveNetwork` is `_move_network_to_channel`: zigpy has broadcast the
move, chosen the next update id from the settings it has, and loads the settings again afterwards. Channels are
numbered in the order of the moves, so that `chan <= uid` says that no beacon advertises an instance older than
its channel. `ResetNetworkInfo` makes the device forget, as a reboot does, with the connection left up.
A request may be refused, the operation cancelled, the connection lost, the device rebooted,
the host restarted, between any two. Answers and notifications share a FIFO pipe, and the task may resume
after later frames were handled; the answer to a request that was given up still comes (`Unasked`) and finds
nobody.

Three flags name the windows in which the code does not protect the settings:

* `overtaken`: a notification changed what an operation holds a copy of, and the copy then replaces it;
* `torn`: a write was cut short between `Configure` and the record of the settings, and its remains were
  built upon: as the settings of the network that a later load found, or as counters that were on air
  and are in no backup;
* `outrun`: the device sent more than `Margin` frames unreported before it rebooted.

`KeysSurvive` holds outside the first two and `CountersFresh` outside all three; `ChannelKept` holds in them too. `mixed` is none of the
code's windows: it marks the formation of a new network while the settings of another that had moved are still
loaded, until it is recorded. The two violation runs show that the first two
windows are real; the third is a premise of the margin.

### Joins

`known` is zigpy's registry, `timers` the pending callbacks in the order they are due (all have the same
delay). `HandleDeviceJoined`, `JoinIfStillUnannounced` and `Leavers` are the code; the devices may join
anew, announce themselves, leave with or without their EUI64 in the notification, or vanish, and zigpy may
remove them from the registry (`Removed`). Every join of an unknown device sets a timer of its own, with its own
address: a device that joins at a second address before the first timer is due is created by the first timer,
with the first address, and the second finds it known and tells nobody. So it is with one removed while
a timer runs. `again` marks these devices, and `AddressCurrent` excepts them; a timer that runs is no exception,
for a device it is to make known.
Those who vanish, without a DeviceLeft, keep their records while others take their addresses, so that a leave without an
EUI64 may be put down to one of them. It is not put down to a device that is there (`LeaverIsRight`): outside `again`
such a device has its present address on record.
`handle_join` (external) puts the device into the registry; zigpy finds announcements by itself in
the packets it receives.

### Packets

Each packet is a task of `send_packet`, of which two are under way at a time. It looks its device up and is refused, or fails for want of a session,
or gets one of `limit` places, or waits for one (`SendPacket`). With a place it makes its request
and hands it to the session, if there still is one (`Granted`, `Hand`); `Confirmed` is the end of
`request_confirmed`. `Build` is the payload as protocol.py makes it, with a flag for the EUI64, the reserved address
0xFFFE for none, and next hop or relays by the kind of route; `sent` holds what the device understands of it, so
that the properties speak of the message and not of the arguments. A device reports its relays from itself to the
coordinator (`HandleRelays`); `build_source_route_to` of zigpy reverses them (`BuildSourceRoute`), so that the next hop is
the last one recorded (test_application.py 814-830), and is the device itself if there are none.
`ReceiveRequest` is a ZDO request that the
coordinator has to answer, by a packet of its own; before `start_network` has registered the coordinator
(`served`) the search for it raises.
The registry changes meanwhile. A device that moves is the same object, which the waiting task reads anew. One that is
removed stays with the task as it was (`former`), though it may join again as another object. So the hint is always
the way to the device of the EUI64. The address was fixed before the wait: if it passed from or to a device
meanwhile (`stale`), the message goes to it with the EUI64 of the earlier owner, which `NamesOneDevice`
excepts, and nothing else. `moved` has the answers whose device took another address before zigpy made them
packets; these go to the new one. The semaphore is
zigpy's and external; priorities only choose among those who wait, and so does the model. If
the session is gone when the place comes, `self._api.request_confirmed` raises `AttributeError`, not the
`DeliveryError` of the comment at 865-867: in the model the packet ends.

### Wire and Radio

`Wire` is the header: the id and the type of a frame in two bytes. `Radio` uses it for every frame.

A task of `Radio` is a call of one of the methods of section 1, written as the script of the requests that it awaits
one by one (`Script`). zigpy's own `permit`, which they call, sends a broadcast and then calls `permit_ncp`;
given the coordinator itself it only calls `permit_ncp` (`own`), and given a router it asks that router. The broadcast waits
for a place in the semaphore (`Place`) and only then reads `self._api` (send_packet 874, 945), which may be another
session's by that time, or nobody's. `Send` is the code from one await to the next, with the id and the entry that
the session gives the request; `GoesOn`, `Returns`, `Raises` and `Abandon` are how a method resumes. The
device (external) streams scans and captures item by item, opens and closes its join window, keeps provisional
keys, and goes on with all of it when a session ends and another begins, unless it reboots. What `connect` does
about that is `Reset`.

`connect` sets `self._api` before `Reset` is answered (126-130). A `permit` that awaited a router meanwhile may
then send `PermitJoins` into a session that still receives what a stream of the session before says, and the ids
of both start at 1: the end of such a stream may pass for the answer to the permit. `early` remembers the
tasks that did so, and `PermitTruthful` excepts them. No other exception is needed: what zigpy starts, it starts
after `connect` has returned, when the old streams and all they said are gone.

### What the properties except

Some hazards the code does not guard against. Where a property would be false for one of them, an observation marks
exactly the states or calls it spoils, and the property excepts them, which is to say that there it promises nothing:

| mark | where | what the code does then |
|---|---|---|
| `reused` | `Api` | gives out an id in use, after 0x3FFF others |
| `left` | `Session` | leaves a medium open: a probe that timed out, foreign firmware, a `connect` or `disconnect` cut short |
| `stillborn` | `Session` | waits for `Reset` although the receiver was cancelled before its first step |
| `overtaken`, `torn`, `outrun`, `mixed` | `NetworkState` | see above |
| `again` | `Joins` | makes a device known by the address of its earlier join |
| `stale`, `moved` | `Packets` | sends to the address looked up before the wait; to that of the device when the answer is made |
| `early` | `Radio` | takes the end of an old stream for the answer to a permit |

`LossHeard` has no mark but counts a hello that was reported before `self._api` was set as the report of the session's
loss. The notes of the hazards in PROJECT.json say, one by one, what this leaves uncovered.

## 3. The runs

| run | instance | asks |
|---|---|---|
| `api_sends` | a unicast and a unicast with APS ack, 4 ids | `TruthfulOutcome`, `NoOrphanWait`, `AbandonedIsCancelled` |
| `api_mixed` | a unicast with APS ack and a stream of two events, 2 ids | `TypeOK`, `NoStaleEntry`, `LossReported`, `StreamExact`, `NoReportAfterDisconnect`, `SettledOnce`, `PromiseKept` |
| `api_live` | a broadcast and a request, 3 ids, fair | `SendsEnd`, `RequestsEndAfterLoss` |
| `api_stream_loss` | a stream | *violated:* `StreamsEndAfterLoss` |
| `session` | a WebSocket and a serial attempt, in either order, two frames each, fair | `TypeOK`, `Released`, `LinkKept`, `OnlyOwnSessionSpeaks`, `ResetEndsWithSession`, `LossHeard` |
| `network_state` | one counter, two devices with keys, batches of one, margin 1, counters to 2, pipe of 2 | `TypeOK`, `CountersFresh`, `KeysSurvive` |
| `network_overlap` | the same with one device | *violated:* `KeysRecorded` |
| `network_torn` | the same, counters to 3 | *violated:* `RestartNeverRollsBack` |
| `network_channel` | one counter that stays at 0, one device with a key negotiated twice, two moves, pipe of 2 | `BeaconsCurrent`, `ChannelKept` |
| `joins` | two devices, two addresses, each joins twice, fair | `TypeOK`, `AddressCurrent`, `InterviewUndisturbed`, `LeaverIsRight`, `JoinedIsKnown` |
| `packets` | two packets under way, one place, two devices over two addresses, directly or over two relays | `TypeOK`, `SecurityKept`, `AnsweredAsAsked`, `NoPlaceLost`, `NamesOneDevice` |
| `radio` | two tasks, two sessions, two channels, scans twice over, pipe of 2 | `TypeOK`, `OwnEventsOnly`, `StartsFromIdle`, `ScanComplete`, `KeyBeforeWindow`, `PermitTruthful` |

Why the bounds are enough.

* *Ids.* A call uses at most two ids, its own and that of its cancellation, so that two sends need four:
  `api_sends` explores all outcomes without reuse. With fewer (`api_mixed`) the counter
  wraps into ids in use. For more calls and ids than two and four there are the proofs.
* *Calls.* Calls meet only in the tables; a fault between calls takes two of them. Calls of one kind
  behave alike, and the runs pair the kinds that differ.
* *Events.* Two events show order and gaps.
* *Attempts.* `connect` runs one at a time: what one leaves behind meets at most the one in use.
* *Settings.* The counters are treated alike and never mixed, so that one stands for both. Two devices with
  batches of one make a first and a last batch. Margin 1 against counters to 2 or 3 leaves room for one
  restore and its reuse. `SYMMETRY` permutes the devices, which nothing tells apart; the run has
  only invariants. `NetworkState` never stops, and deadlock is checked there.
* *Moves.* With two moves there is a backup of each, and one to fall back to. The counters play no part in a move and
  stand still (margin 0) in `network_channel`; `MaxMoves` is 0 in the other three runs.
* *Packets.* Packets meet at the places and nowhere else, so that one place makes the second wait; a raised limit only
  lets it go earlier. Two relays tell the first from the last, and a source route from the one recorded. Everything is asked of both devices and both addresses, and `SYMMETRY` permutes devices,
  addresses and packets; the run has one action property besides invariants, which is as symmetric. The model never
  stops.
* *Radio.* A place is free at some time, or after the session is lost: which packets have it is left open. Two sessions are one and the one before; two tasks are an abandoned stream and what meets it, or
  the two ends of a race for the join window. Two scans of two channels tell a last reading from all.
  `MaxId` is 8, which the requests of a session never reach there; `HeaderRoundTrip` is about all ids.
* *Joins.* Two joins per device over two addresses make every exchange of addresses.

`CHECK_DEADLOCK FALSE` stands in the runs of `Api`, `Session`, `Joins` and `Radio`: when all calls have ended,
all attempts have failed, all joins were made, or all sessions are over, the model may stop.

Fairness. In `Api` the event loop runs a task that is ready and a timer that is due; a write ends, by the
heartbeat of the WebSocket or the response timeout of Spinel; a transport told to close closes. In
`Session` the event loop runs the receiver and the task of `connect`, and the serial driver closes its
port when asked. In `Joins` a timer fires when it is due. It is weak fairness on these steps, and nothing is
assumed of the device or the network: it may be silent for ever.

## 4. What the violated runs show

* `api_stream_loss` (api.py 78): the loss of the connection fails the responses of streams but does
  not put the `None` that ends their queue. A stream that waits for its next item waits for ever, while
  the comment at api.py 168 has the disconnect raised once the stream is exhausted. A `request`
  does end (`RequestsEndAfterLoss`).
* `network_overlap` (application.py 263): a link key notified between the scan of the key table and the end of
  `load_network_info` is dropped from the settings and from the next backup.
* `network_torn` (application.py 531): the network is started with the counters moved past the backup's
  and the backup is made after the answer. If the connection or the host goes in between, and then the
  device reboots, the same counters are restored again.

## 5. Proofs

The proofs assume only what the modules assume of their constants, which TLC evaluates on every run: bounds are
natural numbers; `None` and `NoAddress` are no values of the things they stand beside; each call (attempt) has
a kind (medium); a path is a sequence of routers; zigpy offers no packet that is an answer of the coordinator's
own; there are finitely many devices; channels are not numbers of packets; the ids of a session fit in 14 bits. The sets of calls, ids, attempts, packets, devices,
addresses and counters may otherwise be of any size.

Every module has one inductive invariant `Inv`, whose parts are named (the streams and the refinement of `Api` add three to it); each part was an invariant of a TLC run
before it was proved, on the instances of section 3 and some larger ones. There is one lemma for each action,
or for each group of them that changes the same things.

**Api.** `TypeCorrect`, `LossIsReported`, `QuietAfterDisconnect`, `OutcomeIsTruthful`, `WaitIsReachable`,
`FuturesSettleOnce`, `AbandonedSendIsCancelled`. First `Sorted` regroups `Next` by what the actions change: a
task moves on (`Moves`) or ends (`Ends`), and a frame is handled; this makes the case splits short.
The loss needs only `LossRemembered`: `_closing` remembers exactly that a loss was
reported or a disconnect asked for. Truthful outcomes need all of

    Inv == TypeOK /\ Stations /\ Blank /\ Entries /\ IdsApart /\ DeviceOwes
             /\ FuturesTrue /\ NoOrphanWait /\ TruthfulOutcome

`TruthfulOutcome` follows from `FuturesTrue` (a settled future holds what the device said), as a task ends
with what it reads there. `FuturesTrue` is kept because a frame about a call settles the future of that
very call, which is `IdsApart`: two calls share an id only if one of them is gone, with its entry, its
frame and everything the device owes it. Without it, a late answer to a call that timed out could settle the next
call with its id, and the invariant would not be inductive. `DeviceOwes` says that the device says
nothing twice, `Entries` that an entry belongs to the call with its id, and `Blank` that calls start without
results.

`ApiStreamProofs` adds `NoEntryIsStale` and `StreamIsExact`, from two invariants that need `Inv`. `Tables` holds even
when ids are reused in use: each end of a call pops its own entry, unless it is a stream that ends at `send_frame`;
such a stream has ended by an exception, was never handed an item, and never ends again (`LeftBehind`); an id enters
`_awaiting_aps_ack` with an entry and leaves with it or before. `Flows` says that the queue goes on
where the consumer stands (`QueueGoesOn`): its items are the next events by number, and the `None`
that ends it comes last and only after all that the device emitted. While the device has yet to respond and the
entry is there, what was seen and what is queued make up all that was emitted; that is
what an event or the response is added to. An event reaches no queue but that of its stream because of `IdsApart`
(`UnansweredLookup`), and the answer to a `CancelRequest` reaches none (`CancelLookup`).

With these, `ApiKeepsPromise` shows that `Api` implements `Exchange`. What is missing is `Reasons`: a future is lost only
when `_closing` is set, and a send that goes on to `_cancel_send` neither succeeded nor failed. There is one lemma for each
step of `Exchange`. A call that ends (`EndsStep`) is justified by `FuturesTrue` for what the device said, by
`Reasons` for a loss, and by `Flows` for a stream that was seen to its end: the `None` at the head of the queue is
behind all events (`FirstItem`). The steps inside the multiplexer, and what the device says of a call that is over,
change nothing there (`Stutter`).

**Session.** `TypeCorrect`, `EverythingReleased`, `OwnSessionSpeaks` and the refinement
`SessionKeepsLink`, all from

    Inv == TypeOK /\ Stages /\ Fitting /\ Told /\ Owned

`Stages`: nothing precedes its stage, and one `connect` at a time stands before adoption. `Fitting`: a serial
port has no receiver and no client session. `Told`: a link's loss is told exactly when its receiver is over or
its driver done, which makes every further loss impossible. `Owned`: an open resource has somebody
who will close it or is marked `left`; a receiver that runs is that of the session in use, because
`disconnect` cancels it before its first await. `LinkStep` maps each action to `Open`, `Frame`,
`Lose` or a stutter of `Link`; `MaySpeak` is the right side of `OnlyOwnSessionSpeaks`.

**Wire.** `HeaderRoundTrip`: for each of the 0x3FFF ids, 0, and each type, the header fits its two bytes and is
read back as it was written. It rests on the arithmetic of a word: that it has two bytes which make it up
again (`LowIsByte`, `HighIsByte`, `TwoBytes`), and that its last two bits are the type (`TypeAndId`). Nothing is
assumed.

**Packets.** `TypeCorrect`, `PlacesAreKept`, `SecurityIsKept`, `AnswersAsAsked` and the action property
`OneDeviceNamed`, from

    Inv == TypeOK /\ Stations /\ LookedUp /\ Owed
             /\ NoPlaceLost /\ SecurityKept /\ AnsweredAsAsked

A task looks its device up before it waits for a place and uses what it found after. `LookedUp` says what of it
still holds then: the EUI64 is that of the device; the device is in the registry, or `former` has it as it was; and it is
still the one at its address, unless that changed hands (`stale`). `Owed` is the same for an answer, which is to go
to the address that asked. `Reversed` is the lemma about routes of any length: the source route is the relays from the last
to the first. `NoPlaceLost` needs `Stations` only.
`UnderstoodAsBuilt` is the lemma about the payloads: what the device understands of `Build(r)` is `r`, for
each way to name a device and each route.

**Joins.** `TypeCorrect`, `AddressIsCurrent` and the action properties `InterviewIsUndisturbed` and
`LeaverWasRight`, from

    Inv == TypeOK /\ Apart /\ AnnouncedKnown /\ TimersCurrent /\ AddressCurrent

The timer that makes a device known writes the address it was set with. `TimersCurrent` says that all
timers of a device still to become known hold its present address; the two ways in which they need not are `again`.
A leave without an EUI64 is put down to whoever the registry has at the address. By `AddressCurrent` that is nobody
who is at another one, and by `Apart` (two devices on the network never share an address) nobody else who is at this one.

**NetworkState.** `TypeCorrect`, `CountersAreFresh`, `KeysDoSurvive`, `BeaconsAreCurrent` and the action property
`ChannelIsKept`, for any margin, batch size, counters and devices, from

    Inv == TypeOK /\ Control /\ Answered /\ Channels /\ Flow /\ KeysKept /\ CountersKept

* `Control` and `Answered`: which operation stands at which request, and what an answer tells of the device:
  between `Configure` and `StartNetwork` it is configured and not in a backup (`unrecorded`), for example.
  The windows `torn` and `mixed` are bounded by these.
* `Channels`: `chan <= uid` in each copy of the settings, with what a move in progress adds: the update id of
  the device is the next one after the state's (`SetNwkUpdateId` comes first). Needs no flag.
* `Flow`: there is at most one awaited answer in the pipe; as it is FIFO, whatever the device reported before the
  answer is handled before the task resumes (`Settled`). This is what makes the copy that
  `GetNetworkInfo` answers with as new as the state at the time it replaces it, or the step was `overtaken`.
* `KeysKept`: what `learned` has is in the backup, in the state and, when the network runs, in the device; during a
  write it is in what is loaded already or still `todo` (`Loads`), batch by batch. That the batches exhaust the
  keys, for any `BatchSize`, is `NoBatches`, over the cardinality of sets.
* `CountersKept`: per counter, the device is past what was used (`CounterAhead`). A reboot takes that away, and the
  restore gives it back: each value the host has or is about to have, in the state, the backup or the pipe,
  *covers* what was used once the unreported frames, or the margin after a reboot, are added (`Covered`).
  Reports come in order (`InOrder`), so that a later one never takes cover away, and what `start_network` writes
  does not run ahead of the device (`NotAhead`).

`TypeCorrect`, `BeaconsAreCurrent` and `ChannelIsKept` hold in all states; the two about counters and keys outside the
windows of section 2, which the violated runs show to be real.

**Radio.** `TypeCorrect`, `OwnEvents`, `SessionStartsIdle`, `ScanIsComplete`, `KeyComesFirst`, `PermitIsTruthful`,
for any tasks, channels, scans, sessions and ids, from

    Inv == TypeOK /\ Stations /\ Entries /\ Sessions /\ Frames /\ Streams /\ Endings
             /\ Labels /\ Granted /\ Keys /\ Scans
             /\ OwnEventsOnly /\ KeyBeforeWindow /\ PermitTruthful /\ ScanComplete

The difficulty is that each session counts its ids from 1 while the device may still speak of the last one.
`Sessions` says which tasks can be met in a session not yet ready: one that awaits a router or a place (`Elsewhere`), one that a stream
keeps from seeing the loss, or an `early` permit. A frame or stream is *current* if its id is below `nextId` and
registered for its owner or for nobody; `Frames` and `Streams` say that everything behind the OK of `Reset` in the pipe
is current, which makes everything current when the host has read that far, as the pipe is FIFO.
From there on what a task is given is its own (`Addressee`).

`Endings` and `Labels` give the order of a stream: its frames carry the id that its task awaits, and the response is the
last. With it, `Scans` counts: the readings taken and not yet entered are exactly those in the pipe, at most one of
each channel, so that when the last scan is answered nothing is missing. `Granted` says that an OK in the pipe for a
permit or a key was preceded by the device doing it, and `Keys` that a task past its first request has its key
there, as long as the session lasts; a reboot takes key and window away together.

A task ends (`Ends`) or sends the request that its script has next (`Sends`): `Steps` reduces all that a task does to these
two, and `Scripts` says what each request of each script is.

**Only model-checked.** Liveness (`SendsEnd`, `RequestsEndAfterLoss`, `ResetEndsWithSession`, `LossHeard`,
`JoinedIsKnown`), which is beyond the prover. Every safety invariant and every action property of a run that passes is
stated by a theorem above.

## 6. Not modelled

* *External*, and taken as the code uses them: zigpy (registry, `handle_join`, backups, reconnecting), aiohttp,
  the serial driver and the Spinel protocol, the device. A `connect` starts only while zigpy is
  disconnected and not connecting.
* Exceptions are told apart only by how they leave the model's state: which of two exceptions a caller sees
  when `_cancel_send` raises too, or that a body fails to decode, is not.
* Network settings that only the user changes, and restoring a backup other than the latest.
* `_watchdog_feed` and `set_tunable` by hand: each is one `request` of `Api`. Durations and counts of energy scans are
  not numbers in `Radio`; a `duration_exp` of 13 or 14 does not fit the uint16 of the request and raises.
* The translation of received notifications into packets (Green Power frames among them) and the content of
  descriptors: no state, and no other code reads what they produce.
* protocol.py and wire.py beyond the header and the payloads of sends, config.py: declarations and generated code.

## 7. Plan

Done: every module of section 2, and the proofs of section 5. What may follow is to read `Session` and `Radio` over
`Exchange` instead of over calls of their own, so that the layers meet at their contracts.
