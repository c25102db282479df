# TLA+ models of ha-amaran-ble

`ha-amaran-ble` is a Home Assistant integration that controls amaran light
fixtures over a private Bluetooth Mesh: one mesh per fixture, reached through a
BLE GATT proxy. This directory models the parts of it whose correctness depends
on order, failure and concurrency, checks the models with TLC and proves the
most important results with TLAPS. Paths below are relative to
`src/custom_components/amaran_ble/`.

## 1. The system

| Component (source) | State it keeps | Operations | What makes it correct |
|---|---|---|---|
| Sequence reservation (`amaranble/sequence.py`, stores in `device.py:333-410`) | next number, reserved mark, two store files | create, ensure_reserved, mark_next, save and verify | no number is ever used twice, whatever crashes or fails |
| Proxy client, outbound (`amaranble/proxy.py:120-385`) | `_seq`, pending acknowledgments, locks | send (un)segmented, request, filter set-up, stop | numbers leave in order; an acknowledgment is credited to its own message |
| Proxy client, inbound (`proxy.py:389-638`, `amaranble/network.py:343-611`) | replay list, pending, completed and discarded transactions | handle network PDU, reassemble, expire, acknowledge | each message is dispatched at most once and never spliced |
| GATT transport (`amaranble/gatt.py`) | write lock, SAR buffer and timer | start, send, notification, timeout, fail, stop | whole proxy PDUs, in order, at most once |
| Light operations (`device.py:587-634`, `935-2600`) | reports, assumed Boost, snapshot, pending slider request, operation lock | turn on/off, sliders, effects, effect parameters, Boost, fan, green-magenta | the fixture ends up as the calls asked; the hidden output comes back |
| Connection life cycle (`device.py:856-933`, `2747-3135`) | client, proxy, reconnect and poll task, missed polls, membership episode | start, connect, disconnect, drop, reconnect loop, poll loop, stop | one proxy at a time, none after teardown, always reconnecting |
| Provisioning (`amaranble/provisioning.py`) | queued PDUs, exchange step | provision, exchange, expect | credentials are durable before the irreversible PDU |
| Provisioning recovery (`pending.py`, `config_flow.py:544-960`, `reconfiguration.py`, `repairs.py`, `__init__.py:83-149`) | pending records, config entry | save, recover, reprovision, reconcile, remove | keys of a fixture in our mesh are never lost, stale ones never used |
| Node configuration (`amaranble/config_client.py`, `device.py:3396-3647`) | none | composition, app key, binding, TTL, reset | sequence numbers handed on to the runtime |
| Config entry life cycle (`__init__.py`) | entry data, delayed writes | migrate, setup, unload, reload, remove | order of configuration, start and hand-over |
| Address resolution (`resolver.py`) | none | candidates | the right proxy, deterministic order |
| Config, options and repair flows (`config_flow.py`, `repairs.py`) | form state | user steps | one flow per fixture |
| Entities (`light.py`, `switch.py`, `number.py`, `select.py`, `sensor.py`) | none | attribute translation | thin wrappers |
| Effect state (`device.py:60-330`, `935-1420`, `3190-3300`) with its codecs (`telink.py`, `systemfx2.py`, `pixelfx.py`) | the effect shown, page by page | report, merge, rebuild, confirm | changing one parameter changes nothing else |
| Other codecs (`manualfx.py`, `multipixel.py`, `partition.py`, `steady_modes.py`, `highspeed.py`, `motion.py`), `crypto.py`, `profiles.py`, `const.py`, `diagnostics.py` | none | pure functions and tables | byte vectors in `tests/` |

How they interact: Home Assistant calls entity methods, which call `AmaranLight`
operations. Those queue for one `asyncio.Lock` (`_operation_lock`) shared with
the poll loop, the reconnect loop and unload. An operation sends access
messages through the `ProxyClient` of the current connection, which draws
sequence numbers from the `SequenceReservation` of the session and writes PDUs
to the `MeshGattTransport`. Notifications come back through the transport to
`ProxyClient._handle_network`, which schedules acknowledgment tasks of its own
(they draw numbers too, concurrently with the operation) and calls
`AmaranLight._on_access_message`, which updates the report pages an operation
is waiting on. The stores, the replay list and the reassembler outlive a
connection; the reports do not.

What is hard: the process may die at any instruction, files and config entries
reach the disk at different times, writes can fail silently, every `await` can
be cancelled, several service calls overlap, the mesh loses, repeats and
reorders, links break with or without a callback, reports come page by page,
and Boost is a write-only mode the fixture never reports.

## 2. Modules

| Module | Models | Composes |
|---|---|---|
| `ReplaySafeWire` | the promise to the mesh: each PDU carries a larger number than all before it | - |
| `SequenceReservation` | reservation, stores, sessions, drawing and writing numbers | implements `ReplaySafeWire` |
| `PduFifo` | the promise of a GATT bearer: each PDU whole, at most once, in order, or not at all | - |
| `GattSar` | segmentation under the write lock, reassembly, broken links | implements `PduFifo` |
| `SegmentedSend` | block-acknowledged messages and background acknowledgments | instance of `GattSar` |
| `MeshReceive` | replay list and reassembler over an unreliable mesh | - |
| `ConnectionLifecycle` | every task that makes, uses or drops the BLE link | - |
| `LightRequests` | light calls, merging, Boost and its snapshot | - |
| `EffectPackets` | builders, decoders, defaults and page merging of commands 1, 2, 7, 33 and 34 | - |
| `EffectUpdates` | the effect shown: reports, rebuilt packets, confirmation | extends `EffectPackets` |
| `ProvisioningRecovery` | one fixture's credentials: pending record, provisioning flows, config entry, setup, removal | - |
| `*_proofs` | theorems of the module of the same name | `SegmentedSend_proofs` takes `GattSar_proofs` by INSTANCE |
| `MC*` | symmetry sets, inputs and instances for TLC | the module of the same name |

A definition whose comment begins with "Mutant:" is not part of a model. It is
the definition after it with a plausible bug, and shows that the property named
with it in `PROJECT.json` would notice.

### SequenceReservation

`stable`, `compat` are the two store files (record formats "sequence" of
version 0.1 and "reserved" of today), `initial`/`savedInitial` the entry's
`CONF_INITIAL_SEQUENCE` in memory and on disk, `next`/`reserved` the
reservation, `seq` the proxy's counter, `pc`/`pdu`/`turn` what each task holds,
`frontier` one above the highest number ever put on the wire. `Draw`,
`BeginReserve`, `SaveStable`, `SaveLast`, `SaveFails`, `Exhausted` are
`_next_seq` over `ensure_reserved`; each `await` is a boundary between two
actions, so a crash, a cancellation or a dropped link falls between them.
`Abandon` is what cancelling tasks does, including a store write that was
awaited and has landed. `StartSession`, `StopSession`, `FlushEntry`, `Crash`
are the session life cycle.

Assumption on prior state: before this version ran, an old record
`{"sequence": s}` vouches for at most one block beyond `s`, which is the
migration rule in `sequence.py:48-58`.

Simplification: `Connect` waits for the foreground operation of the previous
proxy. The operation lock ensures that for every reconnection; for the first
connection of `async_start` (`device.py:872`), which runs outside it, that no
two sessions send is `OneSessionSends` of `ConnectionLifecycle`.

### GattSar and PduFifo

One direction of the bearer; both ends follow the same rules. `writer` is the
holder of `_write_lock` and its progress, `wire` the writes in flight, `rx`
`_rx_buf` as the writes it was joined from, `failed` `_protocol_failed`.
`Begin` and `Write` are `send`, `Abandon` a write that fails, times out or is
cancelled, before or after its bytes left; `Notify` is `_notification_handler`
with every misfit it detects, `SarTimesOut` the reassembly timer, `Break` and
`Connect` the link. A link delivers in order until it breaks, which is what ATT
guarantees; nothing ensures that a sender finishes.

### SegmentedSend

`_send_segmented` over `GattSar`: `call` is the holder of `_send_lock`, `pend`
its entry of `_pending_ack`, `rpl` the destination's entry of `_replay_list`.
`StartCall`, `BeginSegment`, `RoundEnds`, `Answered`, `AckTimesOut` and
`CallFails` are the call, `BeginReply` and `ReplyFails` the tasks
`_send_segment_ack`, `ReceiveAck` the acknowledgment branch of
`_handle_network`. Behind the proxy the mesh loses segments and loses, repeats,
delays and reorders acknowledgments, except that one older than the SeqZero
space is gone for good. The destination (`node`, `arrived`, `acks`,
`Acknowledge`, `Relay`) is external.

### MeshReceive

`sent` holds every PDU a fixture ever sent; a delivery picks any of them, so
loss, duplication, delay and reordering are all there. `rpl`, `pending`,
`completed`, `discarded` are the code's tables. Time is abstracted: on each
call any set of pending transactions may be expired. The fixture's side
(`Transmit`, `SendUnsegmented`, `OpenTransaction`, `SendSegment`) is external,
modelled from the rules the code relies on: one open transaction per
destination, fresh SEQ for every PDU, SeqZero within 2^13 of SEQ.

A behaviour the model contains and no document rules out: when a later
unsegmented message of a node arrives before the last missing segment of an
earlier segmented one, the segmented message is acknowledged in full and then
dropped as a replay (`proxy.py:498-512`): acknowledged, never delivered.

### ConnectionLifecycle

`bearer` says how the fixture is reachable (in the mesh, reset, gone), `link`
what became of each BLE client, `client` and `proxy` are `_client` and
`_proxy`, `page` whose reports the pages hold. `pc` and `local` say where each
task is and which client or proxy it holds across an `await`: the first
connection (`start`), the reconnect loop, the poll loop, service calls, and
`async_stop`. `queue` is `_operation_lock`, `connecting` `_connect_lock`.

| Actions | Code |
|---|---|
| `Setup`, `StartEnds`, `Unload` | `async_setup_entry`, `async_start`, unload |
| `Enter`, `Granted`, `CallEnds`, `LoopNext`, `PollEnds`, `WakeLoop`, `WakePoll` | the operation lock, service calls and both loops |
| `BeginSend`, `SendOk`, `SendFails`, `Dropped`, `Refreshed` | `_async_send`, `_async_drop_failed_connection`, the refresh after a connection |
| `Acquire`, `Establish`, `EstablishReset`, `EstablishFails`, `Install`, `Discard`, `StartFails`, `Unwound` | `_async_connect`, `_async_connect_candidate` |
| `BeginStop`, `Disconnect`, `Disconnected`, `Stopped` | `async_stop`, `_async_disconnect` |
| `OnDisconnected`, `CleanedUp`, `Report` | callbacks |
| `LinkBreaks`, `Leave`, `Return` | radio and fixture |

Delays and back-off have no length; whoever sleeps wakes up some time. A
message stands for all messages of an operation. Membership notices
(`notReported`, `provReported`) drive the factory-reset issue `issue`.

### LightRequests

`fixture` is what the light really shows, `steady`, `effect`, `boostPage` the
report pages, `assumed` and `snapshot` the Boost session, `queue` the FIFO of
`_operation_lock`, `stage` and `plan` where its owner is, `pending` the slider
request later ones merge with. A call of the user is `Slide`, `TurnOn`,
`TurnOff`, `SelectEffect`, `EffectOff`, `BoostOn`, `BoostOff` or `Stop`; the
owner proceeds by `Begin`, `EnterBoost`, `LeaveBoost`, `Send`, `Confirm`, or
`SendFails`, `Unconfirmed`, `GiveWay`; the environment disconnects, reports,
cancels calls and restarts the entry. `desired` is a history variable: the
looks that the calls made so far, taken in order, may leave.

Abstractions: the three multi-packet effect families behave like the legacy
one here (their packets are in `EffectUpdates`); hue, kelvin and green-magenta
are one "colour"; command 70 ON shows `Glare` and OFF leaves the fixture as it
is, which is the reason the code restores at all (`device.py:1829-1834`). A
disconnection clears the reports at once; who reconnects is
`ConnectionLifecycle`.

Two cases `Converges` leaves open because the source documents no promise: a
slider without brightness whose link drops before it gets the lock uses the
level captured at the call (`device.py:634`), and a superseded call has already
returned success when the call that took its fields over fails
(`device.py:2241`).

### EffectPackets and EffectUpdates

A packet is its command and the set of its bits that are one; a layout is a set
of fields with their place and width, one for the builder and one for the
decoder, since the code has both. `EffectPackets` translates the layouts,
quantizations, clamps and defaults of `telink.py` (commands 1, 2, 7),
`systemfx2.py` (34) and `pixelfx.py` (33), and `merge_effect2_states`. What
`effect()` makes of its parameters is `EffectWire`, apart from the layout they
are packed into.

In `EffectUpdates` the fixture runs a program: packets by page, all of one
effect, each under its own number and none that the decoder refuses
(`WellFormed`). `_decode_pixel_sequence` is in closed form: of the pages of one
effect merged in turn, the last under each key stays (`PixelProgram`). `steady`,
`preferredGm` and `shown` are what the device keeps of its reports. `SetEffect`
and `SetEffect2` are the setters of one parameter, `ApplyEffect`,
`ApplyEffect2`, `ApplyPixel` and `ExitEffect` are `async_apply_effect` per
family; the packets go out one by one (`Deliver`, `Lose`, `SendFails`), and the
call waits for a report (`Report`) that matches (`Confirmed`) or gives up
(`Unconfirmed`). The fixture's panel may be turned in between (`PanelTurns`).
`told` and the fields `clean`, `base`, `before` of a call are history. The
setters clamp what they are asked for (`Target`), as the code does before it
rebuilds a packet (`device.py:1642, 1671, 1696-1720`). `InRange` says what the
fixture may report: values that the builders send as they are (`EffectRange`).

`KeepsTheRest` is about a call for the effect that runs, once the app has heard
all of it, no packet was lost and the panel was not touched: after the last
packet the fixture still runs that effect, its output is on, every parameter
that was asked for is as asked and every other as it was. It says so of each
page that is sent again (`Rebuilt`): all pages of commands 7 and 34, and of a
pixel effect those its control page calls for, where none of them is missing. A
change of colour mode brings in the other mode's parameters, so there it speaks
of those that both modes have.

### ProvisioningRecovery

`fixture` is what the light accepts, `record` its pending record on disk,
`entry`/`savedEntry` the config entry in memory and on disk, `job` each flow's
place in `async_provision_fixture`, `setup` and `reload` the entry's setup,
`removing` its removal. A flow starts by `StartAdd` (discovery, or recovery of
an orphaned record) or `StartRepair` (repair issue or reconfiguration) and goes
through `Probe`, `Downgrade` or `Identify`/`Adopt`, `PreData`, `Data`,
`Complete`, `Finish`; `FlowFails` is every exception and timeout on the way.
`SetupRead`, `Reconcile`, `Configure`, `ConfigureFails` are `async_setup_entry`,
`StartRemove`, `Release`, `Forget`, `Remove` are `async_remove_entry`. Each
`await` is a boundary, and `Crash` may fall on any of them; `FlushEntry` is Home
Assistant's delayed write of the entry. The environment also resets the fixture
or lets another app adopt it.

Abstractions: credentials are numbers of exchanges; there is one fixture with
one stable address, so neither the matching of advertisements to records nor
transport addresses are modelled; a save is atomic, it lands or raises (a
failed verification of a save that did land is `FlowFails` one step later).
That Home Assistant runs one config flow per unique id, and none for a
configured one, is taken from `async_set_unique_id` and
`_abort_if_unique_id_configured` (`config_flow.py:1060-1061`). Nothing of that
kind keeps a repair flow and a reconfiguration of one entry apart. Two flows
never share the fixture's one link (`LinkFree`).

`KeysNeverLost` stops holding the user to account once the entry was removed:
`async_remove_entry` forgets the keys even of a fixture it could not reset, by
design (`__init__.py:299-305`).

## 3. Runs

| Run | Question | Bounds | Result |
|---|---|---|---|
| `sequence_reservation` | type, durability, restart, order, monotone stores, implementation of `ReplaySafeWire` | Space 6, Block 2, foreground and two acknowledgment tasks | passes, 444,252 states |
| `transport` | `CreditedWhereDue`, `PdusStayWhole` (implementation of `PduFifo`), `SendsReturn` | two segments, two rounds, two messages, two acknowledgments, SeqZero of range 6, one write in flight, one mishap | passes, 803,043 states |
| `receive` | `TypeOK`, `AtMostOnce`, `NothingSpliced`, `NeverResurrected`, `GivenUpKnowingly` | one node, three destinations, 4 SEQ values, SeqZero of range 3 so that it wraps, two segments, room for two pending and two tracked | passes, 362,789 states |
| `connection` | `TypeOK`, `NoStrayLink`, `OneSessionSends`, `NothingAfterStop`, `AlwaysReconnects`, `MembershipShown` | three clients, one service call at a time, two routes, two missed polls, two mishaps | passes, 382,537 states |
| `stale_reports` | `FreshPages` | the same | violated, see 6 |
| `light_sliders` | `Converges`, `PendingIsTheLiveSlider` | 3 calls of slide, on, off, effect, effect off; two colours, two levels | passes, 957,626 states |
| `light_boost` | `TypeOK`, `Converges`, `SwitchShowsSession`, `SnapshotDischarged`, `CallsReturn` | 3 calls of slide, off, Boost on/off, unload | passes, 554,628 states |
| `effect_leak` | `EffectSupersedesSnapshot` | 3 calls of slide, effect, Boost on | violated, see 6 |
| `effects` | `KeepsTheRest`, `ShownIsReported`, `PixelProgramWhole` | a program of every family and layout; every parameter changed once, or another effect applied; one panel turn or loss among programs of several pages | passes, 267,993 states |
| `effect_modes` | `OfferedIsCarried` | a dual-page effect in two colour modes, one panel turn | violated, see 6 |
| `provisioning` | `TypeOK`, `KeysNeverLost`, `OnlyAcceptedKeys`, `RepairReachesEntry` | one flow at a time, 4 exchanges, 3 mishaps | passes, 346,585 states |
| `concurrent_repairs` | `OnlyAcceptedKeys` with two flows | 3 exchanges, 2 mishaps | violated, see 6 |

Why the bounds are enough.

- Sequence numbers matter only through their order and their distance to a
  block boundary; three blocks contain the first, an inner and the clamped last
  one, and two acknowledgment tasks plus the foreground give every order of
  three contenders.
- Two messages of two segments are the least at which an acknowledgment of an
  earlier message meets a later one; a segment of two writes and a second PDU
  are the least that could be spliced; two rounds are a retry and the last
  round. The SeqZero space of six is small enough that numbers wrap within one
  behaviour.
- Two segments and one wrap of SeqZero are the least at which a splice, an
  overtaking retransmission and an expiry between two segments exist; with room
  for two, the third destination is refused or evicts.
- Three clients are the one in use, the one an earlier task still closes and
  the one whose callback is late. Two mishaps are a broken link and a second
  failure during its recovery; two missed polls are one that is forgiven and
  one that is not. One service call at a time is the second contender beside
  the loops, start and stop.
- Three light calls are one in progress, one waiting and one superseding; a
  fourth only repeats one of these roles.
- The programs of `MCEffectUpdates` are each effect of commands 7 and 34 (of
  those, the ones with app defaults) in each colour mode it has, and a pixel
  effect of every layout, with values on both sides of the boundaries of the
  encodings (a kelvin above and below the 10-bit field, green-magenta on both
  sides of its high bit, hue 0 and 300).
- Four exchanges allow a first provisioning and three repairs, one more than an
  interrupted repair followed by its retry needs; three mishaps allow a crash
  between two resets. Exchanges bound only handshakes and mishaps only the
  environment, so the system still runs, recovers and fails without limit.

Deadlock is checked where the bounds leave the system going
(`sequence_reservation`, `connection`, `provisioning`); where calls, messages
or numbers are bounded, a behaviour ends when they are used up and the cfg
switches the check off.

Fairness.

- `transport`: the sending task runs, a wait for an acknowledgment ends
  (`proxy.py:284-290`), a write on a broken link fails, GATT writes go on (each
  runs under `GATT_OPERATION_TIMEOUT`, `gatt.py:131-134`) and the fixture reads
  what was written. Nothing is assumed of acknowledgments.
- `connection`: each task goes on, because GATT calls and connects have
  timeouts and `asyncio.Lock` wakes its waiters in order; cleanup tasks end; a
  fixture that is there answers on the installed link. Nothing is assumed of
  callbacks, which bleak may omit, nor of the fixture coming back.
  `AlwaysReconnects` says that a running entry is never for ever without a
  connection while the fixture is in range, `MembershipShown` that the issue is
  never for ever wrong.
- `light_boost`: weak fairness of `Progress`, the steps of the lock's owner. A
  confirmation is a bounded number of bounded waits (`device.py:2623-2687`).
  Nothing is assumed of the fixture, of reports or of the user.
- `provisioning`: weak fairness of `Setup`, because Home Assistant retries an
  entry whose setup raised `ConfigEntryNotReady`, of `Finish`, because nothing
  is awaited between a provisioned result and the entry update
  (`repairs.py:136-162`), and of `Removal`, because a release is bounded by
  `RELEASE_TIMEOUT` (`__init__.py:309`). No flow has to make progress and no
  configuration has to succeed.

## 4. Proofs

All theorems are about the specifications the runs check, from the named
assumptions of their modules, for every value of the constants. Each proof has
the same shape: an invariant that is inductive, a lemma per action that keeps
it, and a temporal step at the end.

`SequenceReservation_proofs` (`TypeCorrect`, `DurableUse`, `OrderedWrites`,
`SafeRestart`, `MonotoneStores`, `Refinement`). None of the invariants is
inductive alone. The strengthening adds: while a session runs, the reserved
mark in memory never exceeds what every store on disk vouches for and `next`
never falls below `frontier`; a linked proxy's counter equals `next`; queued
numbers lie between `frontier` and `seq`, are ordered like their turns and stay
below every mark; at most one task is inside the save; and what the stores and
the entry hold is enough to start above `frontier` when no session runs. Crash
and restart are where it is needed: the successor state knows only the disk, so
"the disk vouches for everything used" is carried through every step between.

`GattSar_proofs` (`PdusWhole`, `StreamInOrder`). The writes in flight, taken in
order, either continue the transfer in `rx` or begin a later PDU: the write
lock serializes senders, and one that gives up halfway never continues. A write
that is neither first nor misfit is therefore the successor of the last one
joined, and what is passed up is one whole PDU, later than every one before it.
This is the refinement of `PduFifo`.

`SegmentedSend_proofs` (`PdusWhole`, `CreditDue`). Every step of the
composition is a step of the bearer or leaves it alone, so the theorem of
`GattSar_proofs` holds inside it. For `CreditDue`: an acknowledgment under way
is for a message that is not later than the pending one and no older than the
SeqZero space, so one that agrees in SeqZero is for it, and what it lists has
arrived.

`EffectUpdates_proofs` (`ReportedIsShown`, `ProgramSentWhole`, `RestKept`). One
invariant carries the first two. Of what is shown it says page by page what
`ShownIsReported` says of all pages: what a page that was reported says is still
shown until the page changes (`Shows`). Three facts carry it. The two pages of a
dual-page effect have no parameter in common, in any colour mode, so merging one
leaves what the other said (`PageNames`, `MergeKeeps`). A report
says which page it is, and an effect of one page has no other, so a report
replaces just what was shown of its own page (`Effect2Pages`, `PixelPagesOf`).
And while a pixel call is in progress every page that counts as
reported was reported since it began, so its confirmation, which puts the pages
sent under the fresh ones, hides none of them (`ConfirmedStep`).

For `PixelProgramWhole` the invariant adds that all that is shown of a pixel
effect are pages of it, each under its own key (`ShownGood`), and that a call of
one sends a whole program and keeps those pages in `want` for the confirmation
to show (`CallWhole`). Below it lie what the codecs do with every value of every
field. A number that fits a field is read back from the bits it was packed into
(`ValueOf`, by cases of the width, which is at most ten); in each of the eight
layouts of a pixel page the fields lie apart (`ControlApart`, `ColorApart`); so
a page whose playback and brightness are replaced, encoded and decoded, is the
page but for those two (`RoundTrip`). The pages a control page calls for depend
on neither (`ChangedSame`), and the app's defaults of all seven effects have the
pages their own control page calls for (`DefaultProgram`), so what is sent when
a page is missing is whole as well.

Those two rest on `ProgramsAssumption` alone, which is about the fixture: it
runs one effect at a time, each page under its own number, and sends no pixel
page that the decoder refuses (`PixelReadable`; the code ignores such a report,
`pixelfx.py:724-785, 812-855`). The defaults are given as the states their packets decode
to, as in the runs.

`RestKept` states `KeepsTheRest`. Its invariant (`Values`) adds what the values
are. Those of the fixture's pages, of what is shown, of the steady look and of
the packets of a call are in range, and the packets of a clean call for the
running effect are pages of the program that runs, every page of it once and
each as asked (`Rebuilds`), the first `sent` of them on the fixture already
(`CallRebuilds`). A report can only bring in values in range, the panel or a lost packet
ends a clean call, so the weight lies on the beginning of a call. There the
proof follows a parameter from the packet the fixture runs to the one it gets:

- decoded: a packet in range says values each of which can be sent again
  unchanged (`Read7`, `Legal2Read`): a temperature of command 7 is a multiple
  of ten, one of command 34 a multiple of fifty, a shift without the
  green-magenta flag a multiple of ten;
- changed: what a setter adds can be sent as well (`PatchLegal`, `FitLegal2`),
  the colour of the mode it changes to included, which comes from the steady
  look or the profile (`DefaultTens`, `Shifts`);
- rebuilt: `effect()` and `effect2()` clamp and quantize such a value to itself
  (`WirePlain`, `WireColor`, `SentFits`), with nothing left to a default
  (`Keep7`, `Keep2`); a `speed` of 0, which the code drops, is not in range;
- packed: in every layout the fields lie apart and are wide enough for what is
  sent, and the builder and the decoder agree on them (`Layouts7`, `Layouts2`),
  so the fixture decodes what was sent (`Heard7`, `Heard2`).

The brightness of a pixel effect goes the same way, from `RoundTrip`
(`Rebuild33`). `RestKept` assumes more than the other two. `RangesAssumption`:
the fixture's values are in range, since others the builders would clamp (an
identifier of no effect is one the decoder refuses, `telink.py:834-860`).
`ProfileAssumption`: a profile's temperatures are multiples of 100 from 1,800
to 20,000 (`profiles.py:348-410`), here any from 800. `AskedAssumption`: what the
user interface can ask for; a colour mode, a brightness and a variant of its
options, and of the rest any integer, since those are clamped.

`MeshReceive_proofs` (`TypeCorrect`, `DispatchedOnce`, `Unspliced`,
`OverStaysOver`, `NoneDroppedSilently`). SEQ and SeqZero together determine the
SeqAuth the sender used, and a SEQ is used once, so what is joined under one
SeqAuth are PDUs of one message. A message that was dispatched lies behind the
replay list if it was one PDU and behind its pair's watermark if it was
segmented, and neither moves back. The capacities hold because room for a
watermark is reserved when a transaction opens, not when it completes.

`ConnectionLifecycle_proofs` (`TypeCorrect`, `NoStray`, `OneSession`,
`StoppedClean`). None of the three is inductive alone: each needs to know where
every task can be. Of all tasks at most two are inside `_async_send` or
`_async_connect`, the owner of the operation lock and the first connection,
which runs without it (`device.py:872`); `InQueue` and `Placed` say so, and
`Connects` that at most one of them sets a link up. `Closes` says what
`async_stop` has already ended once `_closing` is set. With that, `Answerable`
can name who answers for every link: an open one is `_client` or held by the
task that will close it, and one still sent on after it was taken out of use is
being closed by the only other task there is, so nobody is left to set a second
one up. Assumed are only that bounds are numbers and that tasks and clients have
different names (`BoundsAssumption`, `NamesAssumption`).

`LightRequests_proofs` (`TypeCorrect`, `PendingIsLive`, `SwitchIsTrue`,
`SnapshotKept`, `FixtureConverges`). The calls in the queue are different and none of them is over,
so what the owner decided when its stage began still belongs to it when the
stage ends, whatever is queued, superseded or cancelled meanwhile; the look a
restore is confirming is the snapshot, and the look a slider is confirming has
the program it asked for.

`FixtureConverges` states `Converges` and is argued field by field. The last
call of the queue that sets a field decides what is desired of it, where a
superseded slider call counts for nothing because its fields went to the call
that overtook it (`Book`). A field that no queued call sets is settled: on the
fixture, in what the app shows, in the snapshot, and in what the owner is
writing or waiting for, except that while Boost covers the output, or a call
that will bring it back is queued, only the snapshot has to be right
(`Settled`). `Serves` says which calls reach which stage with a session open.
The queue empty, every field is settled. The hypothesis `BoostAlone` is about
`Kinds`: either no call enters Boost, or none of them is on, effect or effect
off. It excludes no call the code would refuse; those three keep or restore a
snapshot without a session (`effect_leak`, the hazard at `device.py:2292`, the
effect-off case of section 6), and with Boost `Converges` is false for them. The
runs `light_sliders` and `light_boost` are the two sides of it.
`NamesAssumption` only keeps the markers for "no look" and "unchanged" apart
from values.

`ProvisioningRecovery_proofs` (`TypeCorrect`, `NeverLost`, `AcceptedOnly`).
Types hold for any number of flows. The other two assume one flow at a time:
whenever there is a record and the fixture is in our mesh, the record holds its
very keys, because a flow overwrites the record only while the fixture is fresh
or foreign, or with keys it has proved; where nothing was ever written, the
entry describes it. For two flows both properties fail (section 6).

Only model-checked: liveness (`SendsReturn`, `AlwaysReconnects`,
`MembershipShown`, `CallsReturn`, `RepairReachesEntry`), which is out of the
prover's reach. Every safety property of a passing run is stated by a theorem,
`Converges` with Boost under the hypothesis above.

## 5. Not modelled, and why

- Cryptography and timing values. PDUs are taken to be authentic, timers to
  fire at any time.
- The PDU exchange of provisioning before Provisioning Data, node configuration
  and the request/response matching of `proxy.py:308-385`: sequential exchanges
  that raise on the first surprise; what they leave behind (numbers used,
  records saved, an entry that needs configuration) is in the models. The proxy
  filter set-up is part of `Install`/`StartFails`.
- Address resolution and the form steps of the flows: their outcome is the
  route tried next (`Acquire`) or the flow started. The rule by which two
  fixtures share the one pending file, whose read-modify-write awaits, is not
  in `ProvisioningRecovery`, which has one fixture.
- Removal composed with the sequence stores: `ProvisioningRecovery` has no
  stores and `SequenceReservation` no removal.
- Green-magenta, fan, high-speed and Boost parameters, and the codecs no device
  class uses (`manualfx.py`, `multipixel.py`, `partition.py`,
  `steady_modes.py`, `motion.py`).
- Entity wrappers, diagnostics and profile tables have no state of their own.

## 6. Findings

- `effect_leak` (`device.py:1977`): an effect selected while a snapshot is
  retained but Boost is no longer active (an earlier slider call or OFF could
  not restore it) leaves the snapshot behind; a later brightness, effect off or
  Boost OFF restores the old look over the effect. The test docstring at
  `tests/test_ha_device.py:3740` says a new primary request supersedes it.
- `concurrent_repairs` (`config_flow.py:758`, `810-823`): a repair reads the
  pending record, probes, verifies the NetKey and writes that record back as
  committed. If a second flow for the same entry (a repair and a
  reconfiguration, or two browser tabs) completes an exchange in between, the
  stale DeviceKey replaces the accepted one in the record and in the entry: the
  NetKey is the same for both, so the identity check cannot tell them apart,
  although `config_flow.py:815-816` says it proves the credentials. It takes an
  earlier repair interrupted before Provisioning Data. With two flows
  `KeysNeverLost` fails for the same reason: the write-back can cover a record
  another flow has just saved, and a crash before that flow's own commit leaves
  the keys nowhere.
- `stale_reports` (`device.py:2879`): a link delivers reports from the moment
  its notifications start until `proxy.stop()` has returned. A link whose set-up
  fails is given up without clearing what it reported, and a dropped one clears
  before `proxy.stop()` is awaited; a report that arrives then is shown as the
  state of the next connection if its refresh gets no answer, although
  `device.py:2808` says that without a report the entity stays unavailable.
- `effect_modes` (`systemfx2.py:1149`): when the colour mode of a dual-page
  effect changes, the merged state keeps the parameters of the old mode, so
  they are still offered and accepted, and the call that sets one cannot be
  confirmed; `device.py:754` says that only what the effect carries is offered.

Observed while modelling, and in no run:

- Effect off during Boost restores the snapshot with power on even if the
  snapshot is an effect, so an effect runs after "off" (`device.py:1178`;
  `541-543` says off returns to the previous CCT look).
- Boost on after a failed restore captures again. After a slider call closed
  Boost and could not restore what it hid, no session is open but the snapshot is
  kept for the retry (`device.py:2290` counts it as one); Boost on decides by the
  session alone (`device.py:1995`) and replaces the snapshot by the look shown
  then, which is Boost's own, or by none if the link was lost meanwhile, although
  `1991-1994` says the output is captured on first entry only. `EnterBoost`
  leaves everything open in `desired` then, and `SnapshotDischarged` exempts this
  call and the selection of an effect.
- Effects of the third generation without app defaults are reported and shown,
  but their setters raise before anything is sent (`SetEffect2` models only the
  others).
- A dual-page effect can be confirmed by one fresh page merged with a companion
  known from before, and a pixel effect by its control page alone: a colour
  page that was lost is then shown as sent until the fixture reports it.

## 7. Plan

Done: the modules of section 2, the runs of section 3, the theorems of
section 4. Next: two fixtures over the one pending file, and removal with
sequence stores.
