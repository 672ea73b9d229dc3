# Specifications of VRMC

VRMC turns a headset into MIDI hardware. A WebXR page (`apps/xr-client`) draws
instruments, turns finger movements into events and sends them over a WebRTC
data channel or a WebSocket to a bridge on the desktop (`apps/desktop-bridge`),
which opens virtual MIDI ports, or the ports of a CoreMIDI driver
(`native/coremidi-driver`), so that a DAW sees a Launchpad, a Launchkey or a
plain keyboard. A small web service (`apps/web`) lets the two find each other.

This directory holds TLA+ models of the parts of it in which order matters,
configurations that check them with TLC, and proofs about them for TLAPS.

    tlc -workers 2 -config MCBridge.cfg MCBridge      # one run
    tlapm BridgeProofs.tla                            # one module's proofs

`PROJECT.json` lists the runs, the lines of source that each definition stands
for, the mutants (each property with a change of the model that breaks it), the
findings, the hazards and the theorems. A part has a module of its own, a
`...Props` module with its properties. Theorems are in eight `...Proofs` modules,
each about one component or about some that belong together. An `MC*.cfg` without an `MC*.tla` is for the `...Props` module
of that name (`tlc -config MCRoom.cfg RoomProps`).

## 1. The system

| Part | State it keeps | Operations | Talks to |
|---|---|---|---|
| Presence gate `core/PresenceGate.ts` | open or not, an open in flight, a grace timer | `update(n)`, `dispose` | opens and closes the session's devices |
| Device manager `devices/DeviceManager.ts` | map of devices, each with ports, status, emulator, note tracker | `add` (async), `remove`, `removeAll`, `panicAll`, `handleEvent` | MIDI backend, driver ports, roster |
| Emulator, note tracker `packages/devices`, `midi/NoteTracker.ts` | pressed controls, held notes, LEDs | `press`, `release`, `releaseAll`, `panic` | the DAW, through a port |
| Router, transports `core/Router.ts`, `net/*.ts` | connected clients, WebRTC peers | a packet, a connection, a loss | gate, manager, workspace |
| Headset link `xr-client/src/net/BridgeLink.ts` | a transport, timers, a generation | `connect`, `disconnect`, callbacks | transports |
| CoreMIDI driver `midi/DriverLink.ts`, `midi/DriverPort.ts`, `native/` | a socket, port counts; threads, wanted devices | accept, open, close; start, stop, send | MIDIServer, DAWs |
| Signalling `apps/web/src/SignalStore.ts`, `net/SignalClient.ts`, `net/RtcTransport.ts` | offers, answers, waiters, peers | offer, poll, answer | headset, bridge |
| Pairing `setup/pairing.ts`, `apps/web/src/PairingStore.ts` | code, registration, timers | publish, refresh, withdraw | web service |
| Engine `xr-client/src/Engine.ts` | instances, grips, roster, layouts | add, remove, adopt, frame | link, scene |
| Workspace `core/Workspace.ts` | placements, layouts, current one | place, save, delete, apply, load | file, roster |
| Interaction `packages/interaction`, `xr/SurfaceAnchor.ts` | fingers on surfaces, grabs, knobs, anchors | one frame of hand positions; drop, pin | engine |
| Surfaces `packages/layout`, `packages/devices` | tables | place, locate | interaction, drawing |
| LEDs `net/Broadcaster.ts`, `devices/LedState.ts` | pending updates, what is lit | queue, flush, replay, draw | DAW to headset |
| Wire `packages/protocol`, `core/Stats.ts` | a packet's sequence; counters of loss and jitter | write, read, count | every part that sends |
| Set-up `midi/driverInstall.ts`, `setup/*.ts` | bundles, login items, certificates on disk | install, remove, toggle, ensure | operating system |

What makes these hard to get right:

* **Opening ports is asynchronous and everything else is not.** The gate and the
  device manager await calls into the MIDI backend while clients arrive, leave,
  remove devices and play.
* **Presence is counted, delayed and retried.** Clients vanish and come back;
  departures have a grace period; the link reconnects with a back-off.
* **A note is a promise.** Whatever was switched on in the DAW has to be switched
  off, though the client that would do it may be gone, the device removed and the
  port closed.
* **State is kept twice or three times.** A device is in the headset's scene and in
  the bridge's map, its pose in the scene, in a grab target, in an anchor and in the
  workspace, its lights in an emulator, in a queue and on a surface. Each copy is
  changed by its own side while messages about the others are under way.
* **The driver lives in somebody else's process**, which the system starts and
  stops at will, and shares a thread with everything else that is MIDI.
* **Byte streams stop anywhere.** Reads end inside a frame, a full socket takes a
  part of one, and a body is cut short.

## 2. Modules

| Module | What it is |
|---|---|
| `PresenceGate` | the gate: `Arrive`, `Depart`, `OpenSucceeds`, `OpenFails`, `GraceExpires`, `Dispose`, and the clients around it |
| `SessionPorts` | what the gate promises, abstractly: one session that is closed, opening, open or closing |
| `PresenceGateProps`, `PresenceGateProofs` | its properties, among them the refinement of `SessionPorts`, and their proofs |
| `DeviceManager` | the manager with the emulator and the note tracker of each device |
| `DeviceManagerProps` | its properties, proved in `BridgeProofs` |
| `Bridge` | extends `DeviceManager` and instantiates `PresenceGate`: each handler of the bridge takes a step of one or of both, and sends rosters |
| `BridgeProps`, `BridgeProofs` | its properties; the proofs about the manager and the bridge, among them that the bridge runs the manager and the gate as specified |
| `BridgeLink`, `BridgeLinkProps` | the headset's link |
| `Driver`, `DriverProps` | the CoreMIDI driver, its link, and the bridge's driver ports |
| `Signalling`, `SignallingProps`, `SignallingProofs` | the hand-shake of headset and bridge through the pairing service |
| `Scene`, `SceneProps` | devices, rosters and arrangements between headset and bridge, with the workspace and its file |
| `BooksProofs` | proofs about `Driver` and about `Scene`: what the bridge keeps of what is elsewhere, and that the two sides of the scene come to agree |
| `Room`, `RoomProps` | hands, grab targets and anchors: what moves a device in the headset |
| `HeadsetProofs` | proofs about `BridgeLink` and `Room` |
| `Surface` | the tables of the models, and how a point on them is found |
| `Placement` | the transform of a surface and its inverse |
| `Touch`, `TouchProps` | extends `Surface`: fingertips that poke and pinch; `TouchProps` also extends `Placement` |
| `Emulator` | extends `Surface`: what a Launchpad is to its host, and a touch's way to the DAW |
| `Leds`, `LedsProps` | extends `Emulator`: lights from the DAW to what is drawn |
| `SurfaceProofs` | proofs about `Touch` and `Leds` |
| `Pairing`, `PairingProps`, `PairingProofs` | the code: publisher, service, page |
| `Framing`, `FramingProps` | the bytes of the driver's link, and SysEx out of packets |
| `Setup`, `SetupProps` | driver installation, login items, certificates |
| `Wire`, `WireProps` | bodies of rosters and texts, packet sequences, statistics |
| `HostProofs` | proofs about `Setup`, about the bodies and the statistics of `Wire`, and about `Framing` |
| `MC*` | instances for TLC; `MCHost` extends `SetupProps`, `WireProps` and `FramingProps`, which share nothing and run one at a time |

### PresenceGate

`opened`, `opening` and `timer` are the fields `opened`, `opening # null` and
`pendingClose # null`; `deferred` says that a `depart()` waits behind the open
in flight (`this.opening.then(() => this.depart())`, as many as you like: the
second finds the timer armed). `inFlight` counts the `onOpen()` calls that run
and `sets` the sets of ports they left behind: the outside world, which the
class does not record. `ClientConnects`, `ClientLeaves` and `Renotify` are the
transports' calls of `clientsChanged`; the order inside `OpenSucceeds` is that
of the promise chain: `finally` first, then the queued departures. The grace
period is not a number: an armed timer may fire at any time.

### DeviceManager

A device is an *instance*, numbered in the order of creation, that the map
`devices` points at; `add()` keeps working on its instance whether or not the
map still does, which is why the two are apart. `step` is the port an `add()`
awaits, `ports` what became of each, `daw` the port that carries the events.
`pressed` is the emulator's array, `held` the tracker's. `sounding` and
`latched` are what the DAW has on. `Release` is `releaseAll()` followed by
`panic()` of any number of instances. Left out because nothing has to be undone
for them: pitch bend, aftertouch, SysEx, LEDs and MIDI from the DAW. The
controllers 120 and 123 which `panic()` sends after the explicit releases are
ignored, as some synthesizers do.

### Bridge

`clients` are the open WebSockets and data channels, over both transports, as
`bus.clientCount` has them. `stage` and `awaited` are the program counter of
`openSessionDevices()`; while a continuation of it is `Due` no handler runs, as
on the JavaScript thread. `seen` is the roster that each client was last sent;
rosters are taken to arrive (the channel may lose one; the next one repairs
it). `evicted` is history: the gate closed under a client. With `UdpEnabled`
packets come from senders that no transport counts. `Leave` is the loss of a
client in `WsServer` and in `RtcTransport` alike: both report the count and
release every device's notes, in one synchronous handler.

### BridgeLink

An attempt is one run of the transport factory. The code's generation counter
becomes `current`: the attempt whose callbacks are listened to. `conn` is the
world outside: whether an attempt's promise is pending and its connection open,
lost (the close event is on its way) or over. `adrift` are the open ones whose end has
been reported already: a data channel says so when its peer connection is
"disconnected" for a while (`Falters`), and neither it nor the link closes anything.
`NoOrphan` excepts these, and only these; that they exist is a finding. Names of
attempts are used again, so the counter needs no bound.

### Driver

`handles`, `sources` and `openPorts` are `DriverPorts`; `socket` is
`DriverLink.socket`; `ends` and `wire` are the connections, whose frames can be
read after the writer has closed and are lost with the reader. `thread` is the
program counter of `Link::Loop()`, with the test of `running_`, `connect()` and
the store of `fd_` as three steps; `main` is MIDIServer's main thread. `missed`
is history: the devices of which a change was lost with a connection or a
process. MIDI frames are left out.

### Signalling

`store` is the `Map` of one pairing code in insertion order, with `answer` beside
it; `sweep()` removes a prefix of it, as sessions expire in the order they came.
`answerWaiters` are the requests of headsets that the service holds, which stay
when the headset has gone; the bridge's one held request is `client = "held"`
(one that was cut short leaves a waiter that does nothing, since an offer stays
in the store after it was handed out). `client` is the program counter of
`SignalClient.loop()`, `job` and `work` its locals. `peers` maps session ids to
peer connections as `RtcTransport` does, and the library's callbacks name a
session id: `PeerLost` of a peer that was closed before drops the one that took
its place. `headset` and `got` are an attempt of `rtcTransport()`: which answer
it was given. A request under a code whose registration has lapsed fails like one
that is lost. Not modelled: `stop()` of the loop and `close()` of the transport,
after which the process ends.

### Scene

`room` is `Engine.launchpads`, `nextId`, `stored` and `applied` the engine's ids and
arrangements; `devices` and `opening` the manager's map and the `add()` calls in
flight; `placements`, `layouts`, `current` and `file` the workspace and what of it
is on disk; `saving` is `armed` while the second's debounce runs, else how the last
write ended. `up` and `down` are messages under way. A WebSocket delivers them all
in order; on the headset's data channel (`ordered: false, maxRetransmits: 0`) any of
them may `Stray`: be lost, or overtake those before it. The history `strayed` says
that this happened on the present link, and starts anew with the next. `Hear` and `Route` are the two sides'
handlers, each with every answer it sends: a `Route` that changes the workspace
pushes the layouts, one that changes devices a roster, as `index.ts` does. `Match`
is `matchLayout()`, `Pass` one of its two loops, and `Arrange` what the engine makes of it; `Missing` is
`reconcile()`. A pose stands for a placement. What a port does while it opens is
in `DeviceManager`; here it opens or not.

### Room

The engine's other half: what moves a device between two messages. `room` holds
the devices, their grab targets and the hands as one record, since the code's
functions change all three; the operators of `Grabbable` (`Register`, `Unregister`,
`TryGrab`, `MoveTarget`, `ReleaseHand`) are functions on it, and `Frame` is one
animation frame: motion, grabs, the anchors' drift, and the requests for a drop,
in the order of the code. A device gets its pose, its flags, its target and its report
one after the other within a handler, and so do these operators. A hand holds an *index* of the target list, which moves
when an earlier target is removed. `pending`, `deadline`, `anchors` and `creating` are
`SurfaceAnchor`, with the promises of `createAnchor()` that settle between frames,
or not. Places are points of a line, a surface under a device is an input.

### Surface, Placement and Touch

Lengths are in steps of 5 micrometres, in which every length of the source is an
integer; each region has its own way of finding a point (a division for pads and
strips, keys by their octave), and `Locate` is the composite over regions.
`Placement` takes half angles whose sine and cosine are fifths, so that rotations
are exact. `Touch` is a hand: the detector's state per finger (held zone, side,
refractory frames), `KnobControl` under a pinch, and the device that is moved
from under them. `Poke` and `Knob` are one frame of each, `SetPose`, `EndSession` and
`LinkLost` what comes between frames. `sounding` is what the bridge has had a press of
and no release. Heights are exact, velocity and pressure are left out.
`TouchProps` also looks up points: a behaviour in which `point` is an edge of some
zone and nothing happens.

### Emulator and Leds

`Emulator` is without state of its own: `Lookup`, the two numberings, the parser of
LED messages (`Writes`, which stops at what is no whole write), the palette and
modes, and `Arrives`, what the DAW is sent for a touch. `Leds` has the emulator's lights
(`emu`), the broadcaster's `queue` by key, packets `down` and `up`, and the surface with
what is lit, touched, fading and drawn. With `rtc` packets are lost and overtake each
other. `LedsProps` excuses a device whose lights were cleared, or that was opened
again under a lit surface, until the next resync (`excused`); what the code says of
those cases is a finding. Its probes are behaviours of their own too.

### Pairing

A tick is the 40 s between publications. `run`, `registered`, `awaited` and `clock` are
the publisher, `wire` its requests under way, `entries` and `limiter` the service, the
rest the page: `typed` on the keypad, `lookups` under way with what each waits for,
`busy` for all of them, `support` the cached `/api/config`. Every request is answered,
lost, or heard by the service after the sender gave up. The bridge and the headset are
behind one address, by which the service limits them. `session`, `forced`, `open` and
`busy` are what React has; `shown` and `locked` what the keypad has been told by the
effect that follows a drawing (`Draw`), which comes whenever it comes: keys are
pressed before it. A code that is submitted on the page itself locks at once, as React
draws a submission before anything else happens.

### Framing, Setup and Wire

`Framing` follows the bytes of the driver's socket. `waiting` are the writes that found
no room, as ranges of the one `scratch`; `reader` and `held` are what the two ends keep of a
frame; `dec` is the driver's decoder of SysEx packets. A read gets any part of what is
there. `Setup` is a bridge that does one thing at a time, a `task` with its step: a
crash leaves what was done. MIDIServer starts whenever it likes and loads a whole
bundle. `Wire` writes and reads bodies as sequences of fields whose counts are kept
`% Byte`, and counts packets as `LinkStats` does, one for all clients; sequence numbers
do not wrap there (they are 32 bits wide in the code). A text is a sequence of UTF-16
units, which is what its limits count: a cut may leave half of a pair, and that is
encoded as the replacement character. A model's name has its own limit, in bytes.

The loops of the two frame readers are recursive functions. What `Framing` asks
of its constants is what the code and its surroundings have: a length takes two
bytes (`MAX_PAYLOAD_BYTES` is 8192); a socket takes a hello whole, and holds no more than
seven frames, where the bridge's reader is full at eight (a local socket of macOS
holds 8 KiB, a frame has at most 8196 bytes); notes go to ports the driver has; what a
DAW plays is whole MIDI messages.

## 3. Runs

| Run | Instance | What it shows |
|---|---|---|
| `gate` | five clients | a close never lands on an open, and the gate implements `SessionPorts`, progress included |
| `devices` | two ids, a plain model with one port and an emulated one with two of which the second carries events, a ceiling of one, three instances | no stranded voice or button, records that agree, no leaked port but by an interrupted `add()` |
| `bridge` | two clients, a session of two devices, four instances, no UDP | silence when alone, current rosters, devices that go when everybody has gone |
| `link` | four attempts at a time, one of them adrift | no connection is forgotten but one that reported its own end, goodbyes are final, the link opens |
| `driver` | two devices with one port each, two port objects, two connections, two frames under way | the port books, presence as far as it was told, a link that comes back |
| `signalling` | two attempts, a ceiling of two, three peer connections | no orphaned peer, current answers, offers that are answered |
| `scene` | one model, which is also opened at start, two ids, one pose besides the default, two names of arrangements with room for one, four acts | once quiet both sides agree on devices and on places, if nothing of the link was lost or overtaken, and whatever was on the links before it; an orderly end keeps the workspace unless its last write had failed |
| `room` | two devices, two hands in two spots, three frames, three acts | copies of a pose agree, hands keep what they hold, drops are answered |
| `touch` | two fingertips over a Launchkey's keys and first fader at several heights, four frames, two moves; every edge of every zone of the four models and two panels | points are found where they are drawn, nothing sounds that is not held, no strike by trembling |
| `leds` | a device with a pad and a button that send one number, five host messages, four acts; LED messages cut anywhere; every control of the emulated models | lights agree once told, what is drawn is current, the emulator speaks as the hardware |
| `pairing` | codes of two keys, one stranger, room for one, two requests in a window of two ticks, registrations of three, two look-ups at a time; the keypad is used while the code is registered | found while running, forgotten once gone, the panel shows what is looked up until somebody is quicker than the lock |
| `host` | payloads of at most 5 bytes over a socket of 8, three sends, two connections; four menu acts; bodies of 20 bytes whose bytes count to 8; three packets | frames whole and in order but for the two findings, SysEx whole, removals and choices that stick, bodies read in part or not at all, loss counted |

A `...Props` module states more than its cfg lists, so that each run is about few
things: type invariants; what the listed properties rest on and the proofs of
section 4 show (`OneSet`, `AbsenceIsScheduled`, `StatusMatchesPorts`,
`GateCoversDevices`, `NeverWedged`, `StateIsTrue`, `NoLostWakeup`,
`HeldIsLeftAlone`); weaker or simpler statements (`LatchedIsPressed`,
`ActiveWithinLimit`, `ControlsAreToldApart`, `KnobsAreTold`, `KnobsFollowTheHand`;
and of liveness `PortsFollowTheLastClient`, `PendingSettles`, `OpenedIsShown`,
`DeadPeersGo`). Those hold on the same instances and can be put into a cfg as they
are. The statements headed as what comments say, or named under a finding, do *not*
hold: a cfg that has one in place of its own properties ends in a counterexample.

Why the bounds are enough. The gate's state is flags and the set of clients, of
which only emptiness matters, so that two clients would do. In the manager two
ids suffice for one device to be refused, removed or added again next to
another; three instances let an id be removed during its `add()` and be added
twice again, and a port count of two is the smallest with a port that is not
the one events go through. `MaxInstances` is the only counter that is cut off.
In the bridge four instances cover a session, its removal and its return. The
link can have an attempt in use, one superseded, one pending and one adrift at once,
which takes four names. In the driver two connections are a dead one that the bridge
has not seen end and its successor, and two port objects on one address the case
of two devices of one model. In the signalling two attempts compete for the
bridge and fill the store, and three peer connections are a peer of each and a
replacement of one. In the scene two ids are the one that the bridge opens by
itself and one of the headset's, and four acts an add, its removal, and a
reconnection or an arrangement between any two messages about them; an
arrangement that does not fit needs two names. In the room three frames are a grab,
a release and what answers a drop; the third act is a removal, a pin or a second drop
between them. A finger needs four frames to strike, tremble, leave and strike
again. In the LEDs a pad and a button with one number are what the two tables of
the emulator are for. In the pairing three ticks of a registration are two
publications that may fail; the keypad meets the bridge in two things only, whether its
code is known and how many requests are left, so that it is looked at while the bridge
rests (`MCBound`, a constraint). The sizes of the wire are chosen so that each
limit lies between two inputs: a payload that fits and one that does not, a frame
longer than the room that is left, a count that wraps.

Deadlock is checked for the manager, the link, the driver and the signalling. The gate
and the bridge may stop after a shutdown, and the runs with a bound on acts, frames or
time come to it; those are run without that check.

**Fairness.** Weak fairness for promise continuations, calls into the MIDI
backend (one condition for each instance: they are independent), armed timers,
close events and running threads: event loops and threads go on, and the code
gives each of its waits a timer of its own. Nothing is assumed of clients,
users, the network or the lives of processes, with two exceptions, both of
which say that what is tried again and again succeeds in the end: `LinkOpens`
assumes strong fairness of a current attempt's success, and `OfferIsAnswered` of
the bridge's polls, posts and answers. Modules from `Scene` on state no fairness:
what has to happen there is stated of quiet states (nothing under way), and of the
step that ends a wait.

## 4. Proofs

Every theorem holds for all values of the constants (any clients, ids, models,
ports, notes and limits), under the named assumptions beside the constants.

* **PresenceGateProofs.** `GateInv`, the inductive invariant, ties the flags to
  the work in flight: an open in flight is exactly one call of `onOpen()`, sets
  of ports exist only under `opened`, and the timer is armed only over an open
  that is over. `OneSet`, `AbsenceIsScheduled` and `NeverClosesAnOpening` follow.
  `Flags` adds the types. `GateImplementsSession` shows step by step that each
  action is a step of `SessionPorts` or a stutter, under the mapping
  `SessionState`; the `gate` run checks the refinement with its fairness.
* **BridgeProofs**, first about the manager. `PortInv` relates the map, the programs
  of the `add()` calls and the ports: instances beyond `fresh` are untouched, an
  `add()` that is over has its status from its ports, an instance outside the map
  is either over and closed or orphaned. `NoteInv` relates the DAW to the tracker
  and the emulator. Neither can be dropped: that a release reaches the DAW needs the
  port to be open, and that the port is open needs the map. `NextShapes` first
  reduces the actions to a few shapes, so that each conjunct is shown once a shape.
  `Ceiling` (`ActiveWithinLimit`) counts: each instance of the map has an entry of its
  own (`RegisteredAreCounted`), so an `add()` below the ceiling makes room for one more,
  and no other step makes an instance active that was not (`ActiveStep`).
  Then the bridge: `BridgeRunsTheManager` and `BridgeRunsTheGate` show that each step
  is a step of the manager and of the gate or leaves it alone, so that everything
  proved about those holds in the bridge. On top of it `Silence` (notes only while
  somebody is connected), `Cover` (devices only while the gate stands open, with its
  exceptions) and `RosterTold` (whoever is connected was sent the roster as it is).
* **HeadsetProofs**, the link: `IInv` is the conjunction of the types, the four
  invariants and two facts: the transport in use is neither closed nor adrift (`InUse`),
  and there is neither a timer nor an attempt before `connect()` has set a target
  (`Aimed`). The invariants hold up each other, so none is shown alone. The room:
  `Sound(r, stale, due)` is a room in the middle of a handler, which still owes the
  devices `stale` a grab target that is up to date and the devices `due` a report
  to the bridge. Each operation of the engine is a lemma on what it adds to the two
  sets and what it clears, and `RoomInv` says that between handlers both are empty.
  `Keeps` goes with it through every operation: what a hand holds afterwards it held
  before, by name and not by index. The loops over anchors and requests are
  recursive functions; that they are defined, and what is true after each pass, is
  an argument by least counterexample (`LeastOf`, from the well-foundedness of the
  finite subsets of the naturals).
* **BooksProofs.** `DriverInv` is the types, the books, the view of the devices
  (`Presence`, which is `PresenceIsTrue` extended to the time between two lives of
  the driver) and `LinkInv`: the one connection that carries frames is the one the
  link's thread holds, and reads are cut short only for `Stop()`. The devices that
  frames under way amount to are reasoned about in two lemmas on queues, for the
  frame that is added (`HeldAppend`) and the one that is read (`HeldTail`). For the
  workspace, `FileInv` says that the workspace and the file are both ones that
  `fromJSON()` takes as they are, and that the file is the workspace unless a save is
  due or the last one failed; `QuittingKeeps` needs both, since what is loaded again is
  what was accepted.
  For the scene, `SceneInv` says of every moment what `DevicesAgree` and
  `PlacementsAgree` say of a quiet one, and holds unless something of the link `strayed`;
  a new link starts from nothing, so that what was lost on an older one does not count
  (`StepScene`). `LastIsTrue`: the last roster under way has the
  bridge's devices and their places, whatever the earlier ones say.
  `DifferencesAreAsked`: with no roster under way, a device only one side has is in a
  request to the bridge. `StandsUnlessDue`: unless the bridge has a roster to push, or
  will have one for what it is asked, every device that no hand holds stands where the
  bridge has it. What makes this hard is an arrangement that the headset puts into effect
  and the bridge no longer has: the bridge ignores the request, and no roster would come.
  `NamesAreKnown` and `ListsAreKnown` say why this mends itself: a name the bridge does
  not have was deleted, or is from another life of the bridge, and a list and a roster
  behind it are on their way, or will be when the hello is answered and the ports are
  open. `PushFacts` and `TakeFacts` carry the claims about the queue over a push and a
  read; `AdoptedFacts` and `WithoutElements` are the loops, which are recursive functions,
  by the induction on sets of numbers in `Induction`. Nothing is assumed of `Match`: the
  two theorems hold for any matching of an arrangement to the devices of the room.
  `SceneTyped` are the types, of the messages under way as well, with two things that
  are more than types: no two devices of a room share an id (`Apart`), and a hand holds
  what is in the room. `HeldStays` needs these and the types of arrangements: the loops
  of `matchLayout()` (`TakeMatches`, `PassMatches`, again recursive functions) give poses
  to none but the devices they are given, `Arrange` gives them what no hand holds, so
  that a device in a hand is in the room as it was (`Keeps`); and since ids are
  distinct, it is the device that its id finds. That the number of the next device stays
  within the ids, for any roster, is `NextTyped`.
* **SignallingProofs.** `StoreInv`: a session is kept once, and an answer only with its
  session. `PeersInv`: a peer is found under its session until it is closed. `JobInv`:
  nobody has an answer for what the bridge works on, and the peer connection it works
  with is the session's latest, if it is not closed. `AnswerInv`: answers come from
  a peer connection of their session, and once a headset has one the service has
  forgotten the session; this is what makes a session that is stored again start
  afresh. With `NoLostWakeup` they are inductive together.
* **PairingProofs.** `Left` is how long the service will still know the bridge's code.
  `FoundInv` bounds it from below, by the publications that failed since and the one
  that is due; `GoneInv` from above, by the time since the bridge was up, requests
  that are heard late included. `PanelInv` says that the keypad is empty while it is
  away, that the page is busy only while something is looked up, and that this is one
  code, unless somebody was `hasty`: a key or a code between a submission and the drawing
  that locks the keypad. The assumption that a registration outlives three ticks, `Ttl >= 3`, is the
  code's 120 s against 40 s (`setup/pairing.ts:72`); without it one failure
  loses the code.
* **HostProofs.** `UninstallInv`, `LoginInv` and `CertificateInv` say at each step of a
  task what it has done by then, with MIDIServer starting in between and the bridge
  stopped anywhere. For the statistics, `CountInv` says that the packet which counts as
  the last was heard and is the latest of those heard, and bounds what is counted as
  lost by what is missing; `OrderInv` that on a channel that keeps order nothing is
  counted, since what is under way is what the page has sent since, each packet once.
  For bodies, `LaidOut` says where each device of a roster ends in the bytes that
  `writeDeviceState()` leaves, by induction over the devices; `EntryRead` that the reader,
  at the first byte of a device, finds that device if all of it is there and stops if
  not; so that what is left after k devices (`EntriesRead`) is where the writer was, or
  nothing. The hypothesis `WireTypes` is what the code has: bytes that tell 256 values
  apart, texts to show cut to 200 of them, and at most 255 devices to a roster, which a
  one-byte count needs. The properties of a text, a message and a model's name are of
  the same kind, with one thing in the body.
  For the driver's link, `Carries(s, G)`: the bytes s are the frames G on end, each at
  the offset where the one before ends. `OwedInv` says of each end that what it keeps
  of a frame (`reader`, `held`), what is in the socket and, towards the driver, what the
  scratch buffer still has to give (`Pending`) together carry some frames, and that
  those of them the end acts on (`ActedOn`) are the ones that history says it is
  owed. It claims this of a connection until a frame is written over one that waits,
  goes in part, or follows bytes of the connection before, which is what the three
  properties except. That a read may end anywhere is `Split`: parsing a prefix of such
  bytes gives the first of the frames, and what is left, with the rest of the bytes,
  carries the others; it is shown for one visit of the loop, for the loop by
  induction over its passes, and for the driver's buffer, filled as often as a read
  needs, by an induction over that. `SongInv`: what the DAW still has to send is the end of
  its message's packets, and the decoder has the data of those before, as long as they
  fit and one driver was given all of them. That the packets of a message, put
  together, are the message (`PacketsOf` against `DecodeSysEx7`) is arithmetic on
  `PacketBytes`, for every length and size.
* **SurfaceProofs.** `UnderFingers`: what is lit and what sounds is under a finger that
  holds it. `RestInv`: a finger that rests where it struck holds that zone; `JitterIsQuiet`,
  a property of steps, follows. `LedsInv`: a surface that is not marked dirty was
  drawn as it is. `LightsArrive` is about the lights on their way. `Told` says of one LED
  where the last word of it is: in the Broadcaster's queue, in a packet under way that
  finds a surface when it comes, or on the surface; and that this word is the emulator's
  colour. `IsTold` claims this of every running device that is not excused and for
  which no hello is to come (the resync repeats all) and no removal. `HasSurface`: a
  roster that makes a surface is under way before the lights are; `OpensDark`: of a
  device that is still opening nothing is shown, queued or under way; `Grounds`: what is
  not running is dark. `HostTells` (what the emulator tells while it handles a
  message ends in the colours that it then has), `Queued`, `Packed` and `Resynced` say
  what the loops of `LaunchpadEmulator.ts`, `Broadcaster.ts` and `index.ts` leave, each by
  its own induction over the sequence. The hypothesis `Small` (ids of LEDs below 256)
  holds of both Launchpads; not of the Launchkey, whose faders begin at 300 and take the
  next device's keys in the queue: that is a finding (`KeysAreApart`), and the theorem
  says nothing of it.

Left to TLC, and why:

* Liveness (`PortsFollowTheLastClient`, `PendingSettles`, `AbsenceUnplugs`,
  `LinkOpens`, `OpenedIsShown`, `LinkComesBack`, `OfferIsAnswered`, `DeadPeersGo`, and the fairness part of
  `SessionPorts`): the prover does not reason about fairness.
* `SpeaksAsHardware`, `TouchFindsWhatIsDrawn` and the places of controls: facts about
  tables, which TLC looks at entry by entry and a proof could do no better.

## 5. What the checks found

Each is in `PROJECT.json` with the line of code and the words it disagrees with,
under the run whose instance shows it; here by the statement that fails.

*The bridge*
* The gate closes ports under a client that came back while they were opening
  (`ClosesOnlyWhenAway`). The client's own devices then stay outside the
  gate until somebody else arrives; `GateCoversDevices` and `AbsenceUnplugs` name
  this case as `evicted`.
* Removing a device while it is being added leaks the ports opened afterwards
  (`PortsBelongToDevices`), and adding it again publishes its names twice.
* UDP senders are invisible to the gate: the properties of `Bridge` except
  `UdpEnabled`.

*The headset's link and the hand-shake*
* `connect()` does not cancel a pending reconnection (`KeepsItThere`). A data channel
  that is disconnected for a while is forgotten without being closed
  (`NothingIsLeftOpen`), and goes on delivering when it recovers.
* An offer that cannot be answered hides those behind it (`GoodOfferIsAnswered`). A
  late callback of a superseded peer drops its successor (`PeerLost`); no peer is
  orphaned by that, and the attempt starts over.
* A code stays registered after some orderly ends (`ClosedIsGone`), an address entered
  during a look-up is overridden (`AddressStands`), and one `/api/config` that failed
  ends pairing until the page is loaded again (`PairsAgain`). The keypad is locked by
  the next drawing, and unlocked by the first of several answers: who is quicker
  changes the code under the look-up (`LockedWhileLookingUp`).

*The driver*
* `Link::Stop()` can wait for the bridge (`JoinIsWoken`); the driver's devices do not
  follow the link (`DevicesFollowTheLink`).
* The scratch buffer is written again under a socket that still has to send from
  it (`ScratchIsSafe`); frames go in part into a full socket (`FramesGoWhole`); the
  bridge's reader carries bytes, or an unreadable header, into the next connection
  (`ConnectionsStartAfresh`, `ReaderCanRead`).

*Scene and room*
* A headset that spawns a device before the first roster shares its id with a
  device of another model (`ModelsAgree`, with two models).
* A device that was removed comes back by a roster under way (`RemovalSticks`), and one
  moved after a save jumps back (`MovesSurviveSaving`).
* A request, a roster or a pose that the data channel loses is not sent again: both
  sides have said all and disagree, until something changes or the link is made anew
  (`DevicesAgreeAnyway`, `PlacementsAgreeAnyway`).
* After a write of the workspace that failed, an orderly end has nothing to flush and
  loses it (`QuitAlwaysKeeps`).
* A late anchor takes the next drop's request with it (`EveryDropIsAnswered`), outlives
  its device (`AnchorsBelongToDevices`), and moves a device that was carried away
  (`CarriedStaysPut`).

*Hands and lights*
* Two fingers on a control: the first to lift makes it dark and silent under the
  other (`HeldLooksHeld`). On the VRMC surface the third and fourth knob lie on the
  pads (`RegionsAreApart`).
* Lights are not repeated after a session ends, after a device is opened again, or
  when a packet was lost (`LightsAgreeAnyway`); a Launchkey's knobs and faders, and the
  VRMC surface's notes, do not reach the DAW as their tables say
  (`EveryControlArrives`); a fader's LED is another device's (`KeysAreApart`).

*Wire and set-up*
* A text that is cut inside a pair of surrogates ends in a replacement character
  (`CharactersStayWhole`).
* A detail of many bytes puts a roster out of step (`RostersAreTrue`); a reloaded page
  counts as late packets and as jitter (`ReorderedIsLate`, `SenderClockCancels`).
* A failed copy is reported as installed (`InstalledIsThere`), refused removals as none
  needed (`NothingWasLeft`), an item that stays as off (`OffMeansOff`); a crash can
  pair a certificate with another's key (`KeyFits`).

Read and not modelled: `openPort.ts` gives its two endpoints each other's names; no end
of the driver's link ever sends the PING both answer; a roster that does not fit a
packet is dropped without a word.

## 6. Not modelled, and what is left

* **MIDI backends** are calls into the operating system: a port that opens or does not
  is an input of the manager. **Rendering, sound and hand tracking** keep nothing
  from frame to frame but caches. **Tray icon, dashboard and downloads** are user
  interface over what `Setup` has.
* **Velocity and pressure**: nothing that has to be let go depends on them, and the
  peak speed is real arithmetic. One consequence of reading it is among the findings.
* **UDP senders**: their notes are released by nobody, since no connection ends; with
  `UdpEnabled` they are in `Bridge` as far as devices go.
* **The driver's I/O thread** loads a descriptor that the link's thread may have closed;
  which descriptor it then names is outside the model.
* **Identity replies and scrolling text** of the emulator; the bodies of packets other
  than rosters and texts, which are the messages of `Scene` and `Leds`.

What is left for proofs: the simpler statements no run lists (`KnobsAreTold`, `KnobsFollowTheHand`, `ControlsAreToldApart`).
