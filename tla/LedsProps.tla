------------------------------ MODULE LedsProps ------------------------------
(***************************************************************************)
(* What the lights promise; and the tables of the emulator, message by     *)
(* message and control by control.                                         *)
(***************************************************************************)
EXTENDS Leds

CONSTANTS
    Samples,        \* LED writes, as bytes
    Unknown         \* bytes that are no lighting type and what follows

VARIABLES
    probe,      \* a message or a control that is looked up, or NoProbe
    excused     \* history: devices whose lights the code does not repeat

NoProbe == [of |-> "nothing"]

\* What may follow the last whole write of a message.
Broken == Unknown \cup (UNION {Prefixes(s) : s \in Samples} \ Samples)

Probes ==
    {[of |-> "message", writes |-> ws, tail |-> t] : ws \in SeqOf(Samples, 2), t \in Broken}
    \cup UNION {{[of |-> "control", model |-> m, zone |-> z] : z \in DOMAIN Zones[m]} : m \in Models}

\* A new emulator is dark; a surface of its id, or a packet, may not be.
Fresh == {d \in Devices : devices[d] = "none" /\ devices'[d] # "none"}
Remembered(d) ==
    \/ There(d) /\ \E l \in Leds : surface[d].base[l] # Dark
    \/ \E k \in DOMAIN queue : k \div 256 = d
    \/ \E i \in DOMAIN down : down[i].kind = "leds" /\ down[i].id = d
OneStep(A, sorry, forgiven) == A /\ excused' = (excused \cup sorry \cup {d \in Fresh : Remembered(d)}) \ forgiven
Ready == {d \in Devices : devices'[d] = "ready"}

PropsInit ==
    /\ LedsInit
    /\ excused = {}
    /\ probe \in Probes \cup {NoProbe}

\* What is looked up is a behaviour of its own, in which nothing happens.
PropsNext ==
    /\ probe = NoProbe /\ UNCHANGED probe
    /\ \/ \E d \in Devices, m \in Messages : OneStep(Host(d, m), {}, {})
       \/ OneStep(FlushLeds, {}, {})
       \/ OneStep(Route, {}, IF Head(up).kind = "hello" THEN Ready ELSE {})
       \/ \E d \in Devices : OneStep(PortsOpen(d), {}, IF d \in Session THEN Ready ELSE {})
       \/ OneStep(Connect, {}, {})
       \/ OneStep(Disconnect, {}, {})
       \/ OneStep(GraceOver, {}, {})
       \/ \E d \in Devices : OneStep(AddDevice(d) \/ RemoveDevice(d), {}, {})
       \/ \E i \in 1..MaxQueue : OneStep(Hear(i) \/ Lose(i), {}, {})
       \/ \E d \in Devices, l \in Touched : OneStep(Touch(d, l) \/ Lift(d, l), {}, {})
       \/ OneStep(AllNotesOff, {d \in Devices : There(d)}, {})
       \/ \E d \in Devices, on \in BOOLEAN : OneStep(Draw(d, on), {}, {})

PropsSpec == PropsInit /\ [][PropsNext]_<<vars, probe, excused>>

-----------------------------------------------------------------------------
Quiet == online /\ down = <<>> /\ up = <<>> /\ queue = Empty /\ \A d \in Devices : devices[d] # "pending"

\* Once everything is told, a device shows the lights that the DAW gave it,
\* whenever it was lit: before the headset came, while it was away, in the
\* turn of a resync or twice in one turn.  Except for a device that was
\* cleared, or opened again under a lit surface, since the last resync.
LightsAgree ==
    ~rtc /\ Quiet => \A d \in Devices \ excused :
        devices[d] = "ready" /\ There(d) => surface[d].base = emu[d].leds

\* The same over a data channel, as index.ts says of the replay: "Without
\* replaying them the user puts the headset on and finds a dark grid".
LightsAgreeAnyway ==
    Quiet => \A d \in Devices : devices[d] = "ready" /\ There(d) => surface[d].base = emu[d].leds

\* A surface that is not to be drawn again shows its state: the last step of
\* a fade, a light that stops blinking and a finger that rests are on it.
DrawnIsCurrent ==
    \A d \in Devices : There(d) /\ ~surface[d].dirty =>
        \A l \in Leds : LET s == surface[d]
                        IN  /\ s.drawn[l].cell = s.base[l]
                            /\ s.drawn[l].press = IF l \in s.held THEN Fade ELSE s.press[l]
                            /\ s.drawn[l].off => s.base[l].blink = Flashing

\* A message that is cut short anywhere, or goes on in a way nobody knows,
\* still lights what was whole, in its order, and nothing else.
TailIsHarmless ==
    probe.of = "message" =>
        LET ws == Writes(FlattenSeq(probe.writes) \o probe.tail)
        IN  /\ Len(ws) = Len(probe.writes)
            /\ \A i \in DOMAIN ws : <<ws[i].type, ws[i].led>> \o ws[i].args = probe.writes[i]

Strikable(m, z) == m \in Hardware /\ ~Zones[m][z].continuous

\* A touch of any control of emulated hardware reaches the DAW as the one
\* message the hardware would send, and the DAW lights that control, and no
\* other, by sending the message back: through two numberings and back.
StrikesArrive ==
    probe.of = "control" /\ Strikable(probe.model, probe.zone) =>
        LET zone == Zones[probe.model][probe.zone]
            out == Arrives(probe.model, zone, 100)
            lit == HandleHostMessage(Zones[probe.model],
                       NewEmulator({c.id : c \in ToSet(Zones[probe.model])}), out[1] @@ [channel |-> 0]).told
        IN  /\ Len(out) = 1
            /\ out[1].is = zone.kind /\ out[1].data1 = zone.data
            /\ Len(lit) = 1 /\ lit[1][1] = zone.id

\* The emulator speaks as the hardware does, both ways: no message of the DAW
\* lights anything else than it says, and no touch is told as anything else
\* than that control's message.
SpeaksAsHardware == TailIsHarmless /\ StrikesArrive

\* Every control of every model does what its specification says it sends
\* (launchkeyMk3.ts: "so the faders reach the mixer"; vrmc.ts: "Two octaves
\* from C3, which is where the surface has always started").
EveryControlArrives ==
    probe.of = "control" =>
        LET zone == Zones[probe.model][probe.zone]
            out == Arrives(probe.model, zone, 100)
        IN  out # <<>> /\ out[1].is = zone.kind /\ out[1].data1 = zone.data

\* "Keyed by deviceId * 256 + ledIndex so a later write to the same LED
\* replaces the earlier one" (Broadcaster.ts): and no other LED's.
KeysAreApart ==
    probe.of = "control" /\ probe.model \in Hardware => Key(1, Zones[probe.model][probe.zone].id) \div 256 = 1
=============================================================================
