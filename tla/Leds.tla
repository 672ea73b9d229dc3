--------------------------------- MODULE Leds --------------------------------
(***************************************************************************)
(* The lights of one device, from the DAW to what is drawn: the emulator   *)
(* on the bridge (Emulator), the queue and the packets of net/             *)
(* Broadcaster.ts, the resync of index.ts, the link, and in the headset    *)
(* Engine.onLed and devices/LedState.ts.                                   *)
(*                                                                         *)
(* Devices come and go as in Scene and DeviceManager, of which only what   *)
(* the lights depend on is here.  A colour change is told once: what is    *)
(* lost is not sent again before the next resync.                          *)
(***************************************************************************)
EXTENDS Emulator

CONSTANTS
    Devices,        \* device ids
    Session,        \* those the bridge opens for a session by itself
    Spec,           \* the controls of each of them
    Messages,       \* what the host sends
    Touched,        \* LEDs of controls that fingers press
    Fade,           \* TOUCH_FADE, in frames
    MaxQueue,       \* bound: packets under way in a direction
    MaxActs         \* bound: things the host, the user and the network do

Leds == {Spec[i].id : i \in DOMAIN Spec}

ASSUME LedsAssumption ==
    /\ Session \subseteq Devices /\ Devices \subseteq 0..255
    /\ {Fade, MaxQueue, MaxActs} \subseteq Nat
    /\ Len(Spec) \in Nat /\ DOMAIN Spec = 1..Len(Spec) /\ Leds \subseteq Nat
    /\ \A m \in Messages : m.is = "leds" => m.body \in Seq(0..127)

VARIABLES
    devices,    \* DeviceManager.devices: "none", "pending" or "ready"
    emu,        \* their emulators
    queue,      \* Broadcaster.pendingLeds: key -> cell
    down, up,   \* packets under way
    online, rtc,    \* a client is connected; over a data channel
    surface,    \* Engine.launchpads: a LedState, or NoSurface
    claimed,    \* ids below Engine.nextDeviceId
    acts

bridgeVars == <<devices, emu, queue>>
linkVars == <<down, up, online, rtc>>
headsetVars == <<surface, claimed>>
vars == <<bridgeVars, linkVars, headsetVars, acts>>

Empty == <<>>
NoSurface == [there |-> FALSE]

\* new LedState(): nothing lit, and nothing drawn yet.
NewSurface ==
    [there |-> TRUE, base |-> [l \in Leds |-> Dark], press |-> [l \in Leds |-> 0], held |-> {}, dirty |-> TRUE,
     drawn |-> [l \in Leds |-> [cell |-> Dark, off |-> FALSE, press |-> 0]]]

LedsInit ==
    /\ devices = [d \in Devices |-> "none"]
    /\ emu = [d \in Devices |-> NewEmulator(Leds)]
    /\ queue = Empty
    /\ down = <<>> /\ up = <<>> /\ online = FALSE
    /\ rtc \in BOOLEAN
    /\ surface = [d \in Devices |-> NoSurface] /\ claimed = {}
    /\ acts = 0

Act == acts < MaxActs /\ acts' = acts + 1

-----------------------------------------------------------------------------
\* Broadcaster.

Key(d, led) == d * 256 + led

\* queueLed(), of one write after another: the last one of an LED stays.
QueueLeds(q, d, told) ==
    LET At(k) == {i \in DOMAIN told : Key(d, told[i][1]) = k}
        Latest(k) == CHOOSE i \in At(k) : \A j \in At(k) : j <= i
    IN  [k \in DOMAIN q \cup {Key(d, told[i][1]) : i \in DOMAIN told} |-> IF At(k) = {} THEN q[k] ELSE told[Latest(k)][2]]

\* flushLeds(): a packet for each device.
Packets(q) ==
    LET ds == SetToSeq({k \div 256 : k \in DOMAIN q})
        Of(d) == [kind |-> "leds", id |-> d,
                  cells |-> [l \in {k % 256 : k \in {j \in DOMAIN q : j \div 256 = d}} |-> q[Key(d, l)]]]
    IN  [i \in DOMAIN ds |-> Of(ds[i])]

Roster(ds) == [kind |-> "roster", ids |-> {d \in Devices : ds[d] # "none"}]

\* Broadcaster.send(): nobody is there, nothing is sent.
Push(ms) == down' = IF online THEN down \o ms ELSE down

\* forEachLed(): every LED, the dark ones too.
Replay(q, d) == QueueLeds(q, d, [i \in DOMAIN Spec |-> <<Spec[i].id, emu'[d].leds[Spec[i].id]>>])

\* Mutant: the roster is all that a headset is told when it arrives.
ResyncDark == Push(<<Roster(devices')>>) /\ UNCHANGED queue

\* resyncHeadset(): only emulators have lights.
Resync ==
    /\ Push(<<Roster(devices')>>)
    /\ LET ds == SetToSeq({d \in Devices : devices'[d] = "ready"})
           after[i \in 0..Len(ds)] == IF i = 0 THEN queue ELSE Replay(after[i - 1], ds[i])
       IN  queue' = after[Len(ds)]

Host(d, m) ==
    /\ Act
    /\ devices[d] = "ready"
    /\ LET e == HandleHostMessage(Spec, emu[d], m)
       IN  /\ emu' = [emu EXCEPT ![d] = Heard(e)]
           /\ queue' = IF online THEN QueueLeds(queue, d, e.told) ELSE queue
    /\ UNCHANGED <<devices, linkVars, headsetVars>>

\* The end of the turn.
FlushLeds ==
    /\ queue # Empty
    /\ queue' = Empty
    /\ Push(Packets(queue))
    /\ Len(down') <= MaxQueue
    /\ UNCHANGED <<devices, emu, up, online, rtc, headsetVars, acts>>

-----------------------------------------------------------------------------
\* The bridge's devices: requests, ports, the session.

Route ==
    /\ up # <<>>
    /\ up' = Tail(up)
    /\ LET m == Head(up)
           again == devices[m.id] # "none"
       IN  CASE m.kind = "hello" -> UNCHANGED <<devices, emu>> /\ Resync
             [] m.kind = "add" ->
                    /\ devices' = IF again THEN devices ELSE [devices EXCEPT ![m.id] = "pending"]
                    /\ UNCHANGED <<emu, queue>>
                    /\ Push(<<Roster(devices')>>)
             [] m.kind = "remove" ->
                    /\ devices' = [devices EXCEPT ![m.id] = "none"]
                    /\ emu' = [emu EXCEPT ![m.id] = NewEmulator(Leds)]
                    /\ UNCHANGED queue
                    /\ IF again THEN Push(<<Roster(devices')>>) ELSE UNCHANGED down
    /\ Len(down') <= MaxQueue
    /\ UNCHANGED <<online, rtc, headsetVars, acts>>

\* A device's ports are open.  The session's own are followed by the resync.
PortsOpen(d) ==
    /\ devices[d] = "pending"
    /\ devices' = [devices EXCEPT ![d] = "ready"]
    /\ UNCHANGED emu
    /\ IF d \in Session THEN Resync ELSE Push(<<Roster(devices')>>) /\ UNCHANGED queue
    /\ Len(down') <= MaxQueue
    /\ UNCHANGED <<up, online, rtc, headsetVars, acts>>

\* A client arrives and says hello; the gate has the session's devices opened
\* when there is nothing left of the session before.
Connect ==
    /\ Act
    /\ ~online
    /\ online' = TRUE
    /\ up' = <<[kind |-> "hello", id |-> CHOOSE d \in Devices : TRUE]>>
    /\ devices' = IF \A d \in Devices : devices[d] = "none"
                  THEN [d \in Devices |-> IF d \in Session THEN "pending" ELSE "none"] ELSE devices
    /\ down' = <<Roster(devices')>>
    /\ UNCHANGED <<emu, queue, rtc, headsetVars>>

Disconnect ==
    /\ online
    /\ online' = FALSE
    /\ down' = <<>> /\ up' = <<>>
    /\ UNCHANGED <<bridgeVars, rtc, headsetVars, acts>>

\* The grace period is over: removeAll().
GraceOver ==
    /\ ~online
    /\ \E d \in Devices : devices[d] # "none"
    /\ devices' = [d \in Devices |-> "none"]
    /\ emu' = [d \in Devices |-> NewEmulator(Leds)]
    /\ UNCHANGED <<queue, linkVars, headsetVars, acts>>

-----------------------------------------------------------------------------
\* The headset.

There(d) == surface[d].there
Ask(ms) == up' = IF online THEN up \o ms ELSE up

\* addDevice()
AddDevice(d) ==
    /\ Act
    /\ d \notin claimed
    /\ claimed' = claimed \cup {d}
    /\ surface' = [surface EXCEPT ![d] = NewSurface]
    /\ Ask(<<[kind |-> "add", id |-> d]>>)
    /\ UNCHANGED <<bridgeVars, down, online, rtc>>

\* removeDevice()
RemoveDevice(d) ==
    /\ Act
    /\ There(d)
    /\ surface' = [surface EXCEPT ![d] = NoSurface]
    /\ Ask(<<[kind |-> "remove", id |-> d]>>)
    /\ UNCHANGED <<claimed, bridgeVars, down, online, rtc>>

\* Mutant: a change alone does not have the surface drawn.
SetLedsQuietly(s, cells) == [s EXCEPT !.base = [l \in Leds |-> IF l \in DOMAIN cells THEN cells[l] ELSE s.base[l]]]

\* LedState.setLed(), of every LED of a packet.
SetLeds(s, cells) ==
    [s EXCEPT !.base = [l \in Leds |-> IF l \in DOMAIN cells THEN cells[l] ELSE s.base[l]], !.dirty = TRUE]

\* applyRoster(), as far as it makes surfaces: none is taken away, and what
\* the bridge has forgotten is asked for again.
HearRoster(m) ==
    /\ surface' = [d \in Devices |-> IF d \in m.ids /\ ~There(d) THEN NewSurface ELSE surface[d]]
    /\ LET lost == SetToSeq({d \in Devices \ m.ids : There(d)})
       IN  up' = up \o [i \in DOMAIN lost |-> [kind |-> "add", id |-> lost[i]]]
    /\ claimed' = claimed \cup m.ids

\* Engine.onLed: a device that is not there has no lights.
HearLeds(m) ==
    /\ surface' = IF m.id \in Devices /\ There(m.id)
                  THEN [surface EXCEPT ![m.id] = SetLeds(@, m.cells)] ELSE surface
    /\ UNCHANGED <<up, claimed>>

\* A WebSocket keeps the order, the data channel does not.
Hear(i) ==
    /\ i \in DOMAIN down
    /\ rtc \/ i = 1
    /\ IF down[i].kind = "roster" THEN HearRoster(down[i]) ELSE HearLeds(down[i])
    /\ down' = RemoveAt(down, i)
    /\ Len(up') <= MaxQueue
    /\ UNCHANGED <<bridgeVars, online, rtc, acts>>

\* And it sends nothing again.
Lose(i) ==
    /\ Act
    /\ rtc /\ i \in DOMAIN down
    /\ down' = RemoveAt(down, i)
    /\ UNCHANGED <<bridgeVars, up, online, rtc, headsetVars>>

\* LedState.touch() and release()
Touch(d, l) ==
    /\ Act
    /\ There(d) /\ l \notin surface[d].held
    /\ surface' = [surface EXCEPT ![d].held = @ \cup {l}, ![d].press[l] = Fade, ![d].dirty = TRUE]
    /\ UNCHANGED <<claimed, bridgeVars, linkVars>>

Lift(d, l) ==
    /\ There(d) /\ l \in surface[d].held
    /\ surface' = [surface EXCEPT ![d].held = @ \ {l}, ![d].press[l] = Fade, ![d].dirty = TRUE]
    /\ UNCHANGED <<claimed, bridgeVars, linkVars, acts>>

\* LedState.clear()
Clear(s) == [s EXCEPT !.base = [l \in Leds |-> Dark], !.press = [l \in Leds |-> 0], !.held = {}, !.dirty = TRUE]

\* Engine.allNotesOff(): the session ends, or the user panics.
AllNotesOff ==
    /\ Act
    /\ \E d \in Devices : There(d)
    /\ surface' = [d \in Devices |-> IF There(d) THEN Clear(surface[d]) ELSE surface[d]]
    /\ UNCHANGED <<claimed, bridgeVars, linkVars>>

Fading(s) == {l \in Leds : l \notin s.held /\ s.press[l] > 0}

\* LedState.update(): nothing is written while nothing changes.
Draw(d, flashOn) ==
    LET s == surface[d]
        press == [l \in Leds |-> IF l \in Fading(s) THEN s.press[l] - 1 ELSE s.press[l]]
        animating == s.held # {} \/ (\E l \in Fading(s) : press[l] > 0) \/ \E l \in Leds : s.base[l].blink # Static
        dirty == s.dirty \/ Fading(s) # {}
        Drawn(l) == [cell |-> s.base[l], off |-> s.base[l].blink = Flashing /\ ~flashOn,
                     press |-> IF l \in s.held THEN Fade ELSE press[l]]
    IN  /\ There(d)
        /\ surface' = [surface EXCEPT ![d] =
                [s EXCEPT !.press = press, !.dirty = FALSE,
                          !.drawn = IF dirty \/ animating THEN [l \in Leds |-> Drawn(l)] ELSE s.drawn]]
        /\ UNCHANGED <<claimed, bridgeVars, linkVars, acts>>
=============================================================================
