---------------------------- MODULE DeviceManager ----------------------------
(***************************************************************************)
(* The virtual MIDI devices of the desktop bridge                          *)
(* (apps/desktop-bridge/src/devices/DeviceManager.ts), with the emulator   *)
(* (packages/devices/src/LaunchpadEmulator.ts) and the note tracker        *)
(* (apps/desktop-bridge/src/midi/NoteTracker.ts) each of them owns.        *)
(*                                                                         *)
(* A device is an object on the heap, an instance, that the manager's map  *)
(* points at.  add() awaits one port after another while the packets       *)
(* behind it are handled, so an instance can be dropped from the map while *)
(* its add() goes on: instances are kept apart from the map here.  Every   *)
(* other operation runs to completion and is one action.                   *)
(*                                                                         *)
(* `sounding` and `latched` are the DAW's side: what has been switched on  *)
(* through an open port and not off again.  A note stands for a (channel,  *)
(* number) pair; on emulated hardware it is also the control that sends it.*)
(***************************************************************************)
EXTENDS Naturals, FiniteSets

CONSTANTS
    Ids,            \* device instance ids
    Models,         \* model names a DEVICE_ADD may carry
    Hardware,       \* the models that are emulated (isHardwareModel)
    PortsOf,        \* how many ports each model opens
    DawPort,        \* which of them carries the device's events
    Notes,          \* notes, or the controls that send them
    Switches,       \* controls that send a control change
    Limit,          \* MAX_ACTIVE_DEVICES
    MaxInstances    \* bound on the instances created in a behaviour

MaxPorts == CHOOSE n \in {PortsOf[m] : m \in Models} :
                \A m \in Models : PortsOf[m] <= n
Slots == 1..MaxPorts
Inst == 1..MaxInstances
Controls == Notes \cup Switches

ASSUME ModelsAssumption ==
    /\ Models # {} /\ Hardware \subseteq Models
    /\ PortsOf \in [Models -> Nat \ {0}]
    /\ DawPort \in [Models -> Nat \ {0}]
    /\ \A m \in Models : DawPort[m] <= PortsOf[m]
    /\ MaxPorts \in Nat
    /\ \A m \in Models : PortsOf[m] <= MaxPorts
ASSUME ControlsAssumption == Notes \cap Switches = {}
ASSUME IdsAssumption == Ids # {} /\ IsFiniteSet(Ids)
ASSUME BoundsAssumption == Limit \in Nat /\ MaxInstances \in Nat

\* An id the map has no entry for.
NoInst == 0

VARIABLES
    devices,    \* the map: id -> instance, or NoInst
    fresh,      \* how many instances have been created
    model,      \* instance -> its model
    status,     \* instance -> "pending", "ready" or "failed"
    step,       \* instance -> the port its add() awaits, 0 when it is over
    ports,      \* instance -> slot -> "none", "open", "null" or "closed"
    daw,        \* instance -> the slot of dawPort, 0 while it is null
    pressed,    \* instance -> LaunchpadEmulator.pressed
    held,       \* instance -> NoteTracker.held
    sounding,   \* notes the DAW has on, each with the instance that sent it
    latched,    \* switches the DAW has down
    orphaned    \* instances that were removed while their add() was running

addVars == <<fresh, model, status, step, daw>>
noteVars == <<pressed, held, sounding, latched>>
vars == <<devices, addVars, ports, noteVars, orphaned>>

TypeOK ==
    /\ devices \in [Ids -> Inst \cup {NoInst}]
    /\ fresh \in 0..MaxInstances
    /\ model \in [Inst -> Models]
    /\ status \in [Inst -> {"pending", "ready", "failed"}]
    /\ step \in [Inst -> 0..MaxPorts]
    /\ ports \in [Inst -> [Slots -> {"none", "open", "null", "closed"}]]
    /\ daw \in [Inst -> 0..MaxPorts]
    /\ pressed \in [Inst -> SUBSET Controls]
    /\ held \in [Inst -> SUBSET Notes]
    /\ sounding \subseteq Inst \X Notes
    /\ latched \subseteq Inst \X Switches
    /\ orphaned \subseteq Inst

Init ==
    /\ devices = [d \in Ids |-> NoInst]
    /\ fresh = 0
    /\ model = [i \in Inst |-> CHOOSE m \in Models : TRUE]
    /\ status = [i \in Inst |-> "pending"]
    /\ step = [i \in Inst |-> 0]
    /\ ports = [i \in Inst |-> [k \in Slots |-> "none"]]
    /\ daw = [i \in Inst |-> 0]
    /\ pressed = [i \in Inst |-> {}]
    /\ held = [i \in Inst |-> {}]
    /\ sounding = {}
    /\ latched = {}
    /\ orphaned = {}

-----------------------------------------------------------------------------

Registered(i) == \E d \in Ids : devices[d] = i
RegisteredSet == {i \in Inst : Registered(i)}

\* The emulator exists once add() has assigned it, for hardware only.
Emulated(i) == daw[i] # 0 /\ model[i] \in Hardware
Plain(i) == daw[i] # 0 /\ model[i] \notin Hardware

\* Messages reach the DAW through an open port; a port that could not be
\* opened is a sink that swallows them.
Carries(i) == daw[i] # 0 /\ ports[i][daw[i]] = "open"

\* The new entry of the map, as both branches of add() write it.
NewInstance(d, m, st, first) ==
    LET i == fresh + 1 IN
    /\ fresh < MaxInstances
    /\ fresh' = i
    /\ devices' = [devices EXCEPT ![d] = i]
    /\ model' = [model EXCEPT ![i] = m]
    /\ status' = [status EXCEPT ![i] = st]
    /\ step' = [step EXCEPT ![i] = first]

AtLimit == Cardinality({d \in Ids : devices[d] # NoInst}) >= Limit

\* add() at the ceiling: an entry that only says why it failed.
AddRefused(d, m) ==
    /\ devices[d] = NoInst
    /\ AtLimit
    /\ NewInstance(d, m, "failed", 0)
    /\ UNCHANGED <<daw, ports, noteVars, orphaned>>

\* add() up to its first await.
AddBegins(d, m) ==
    /\ devices[d] = NoInst
    /\ ~AtLimit
    /\ NewInstance(d, m, "pending", 1)
    /\ UNCHANGED <<daw, ports, noteVars, orphaned>>

\* An openPort() settles, with a port or with a sink in its place, and add()
\* runs on: to the next port, or, after the last, through the assignment of
\* dawPort, the emulator and the status.  Whether the instance is still in
\* the map is not asked.
PortSettles(i, ok) ==
    LET k == step[i]
        now == [ports[i] EXCEPT ![k] = IF ok THEN "open" ELSE "null"]
        last == k = PortsOf[model[i]]
    IN
    /\ k # 0
    /\ ports' = [ports EXCEPT ![i] = now]
    /\ step' = [step EXCEPT ![i] = IF last THEN 0 ELSE k + 1]
    /\ daw' = [daw EXCEPT ![i] = IF last THEN DawPort[model[i]] ELSE @]
    /\ status' = [status EXCEPT ![i] =
            IF ~last THEN @
            ELSE IF \E s \in Slots : now[s] = "open" THEN "ready"
            ELSE "failed"]
    /\ UNCHANGED <<devices, fresh, model, noteVars, orphaned>>

-----------------------------------------------------------------------------
(* Releasing: emulator.releaseAll() and then notes.panic(), for each of    *)
(* `gone`.  Only the explicit offs are counted on - the controllers that   *)
(* panic() sends after them are ignored by some synths.                    *)

Release(gone) ==
    /\ pressed' = [i \in Inst |-> IF i \in gone /\ daw[i] # 0 THEN {} ELSE pressed[i]]
    /\ held' = [i \in Inst |-> IF i \in gone /\ daw[i] # 0 THEN {} ELSE held[i]]
    /\ sounding' = {s \in sounding :
            ~(s[1] \in gone /\ Carries(s[1]) /\ s[2] \in held[s[1]] \cup pressed[s[1]])}
    /\ latched' = {s \in latched :
            ~(s[1] \in gone /\ Carries(s[1]) /\ s[2] \in pressed[s[1]])}

\* Mutant: only the ports that carry events are closed.
ClosePortsOfTheDaw(gone) ==
    ports' = [i \in Inst |-> [k \in Slots |->
                IF i \in gone /\ ports[i][k] = "open" /\ daw[i] = k
                THEN "closed" ELSE ports[i][k]]]

ClosePorts(gone) ==
    ports' = [i \in Inst |-> [k \in Slots |->
                IF i \in gone /\ ports[i][k] = "open" THEN "closed" ELSE ports[i][k]]]

\* remove() for every id of `ds`: release, close, forget.
Drop(ds) ==
    LET gone == {devices[d] : d \in ds} IN
    /\ Release(gone)
    /\ ClosePorts(gone)
    /\ devices' = [d \in Ids |-> IF d \in ds THEN NoInst ELSE devices[d]]
    /\ orphaned' = orphaned \cup {i \in gone : i # NoInst /\ step[i] # 0}
    /\ UNCHANGED addVars

Remove(d) == devices[d] # NoInst /\ Drop({d})

RemoveAll == Drop({d \in Ids : devices[d] # NoInst})

\* panicAll(): a PANIC or BYE packet, or a client that disconnects.
PanicAll ==
    /\ Release(RegisteredSet)
    /\ UNCHANGED <<devices, addVars, ports, orphaned>>

-----------------------------------------------------------------------------
(* handleEvent().  An id with no instance, and an instance whose dawPort   *)
(* is still null, drop the event.                                          *)

Switched(i, c, on, set) ==
    IF ~Carries(i) THEN set
    ELSE IF on THEN set \cup {<<i, c>>} ELSE set \ {<<i, c>>}

\* NOTE_ON on emulated hardware: press(), and the tracker sees what it emits.
\* The velocity is clamped to at least 1, so a press never reads as a release.
Press(d, c) ==
    LET i == devices[d] IN
    /\ i # NoInst
    /\ Emulated(i)
    /\ pressed' = [pressed EXCEPT ![i] = @ \cup {c}]
    /\ held' = [held EXCEPT ![i] = IF c \in Notes THEN @ \cup {c} ELSE @]
    /\ sounding' = IF c \in Notes THEN Switched(i, c, TRUE, sounding) ELSE sounding
    /\ latched' = IF c \in Switches THEN Switched(i, c, TRUE, latched) ELSE latched
    /\ UNCHANGED <<devices, addVars, ports, orphaned>>

\* Mutant: what the emulator emits on a release does not pass the tracker.
LiftUntracked(d, c) ==
    LET i == devices[d] IN
    /\ i # NoInst
    /\ Emulated(i)
    /\ c \in pressed[i]
    /\ pressed' = [pressed EXCEPT ![i] = @ \ {c}]
    /\ sounding' = IF c \in Notes THEN Switched(i, c, FALSE, sounding) ELSE sounding
    /\ latched' = IF c \in Switches THEN Switched(i, c, FALSE, latched) ELSE latched
    /\ UNCHANGED <<devices, addVars, ports, held, orphaned>>

\* NOTE_OFF on emulated hardware: release(), which ignores a control that is
\* not pressed.
Lift(d, c) ==
    LET i == devices[d] IN
    /\ i # NoInst
    /\ Emulated(i)
    /\ c \in pressed[i]
    /\ pressed' = [pressed EXCEPT ![i] = @ \ {c}]
    /\ held' = [held EXCEPT ![i] = @ \ {c}]
    /\ sounding' = IF c \in Notes THEN Switched(i, c, FALSE, sounding) ELSE sounding
    /\ latched' = IF c \in Switches THEN Switched(i, c, FALSE, latched) ELSE latched
    /\ UNCHANGED <<devices, addVars, ports, orphaned>>

\* Mutant: a note is sent without being tracked.
PlainNoteUntracked(d, n, on) ==
    LET i == devices[d] IN
    /\ i # NoInst
    /\ Plain(i)
    /\ sounding' = Switched(i, n, on, sounding)
    /\ UNCHANGED <<devices, addVars, ports, pressed, held, latched, orphaned>>

\* NOTE_ON and NOTE_OFF on a plain device: tracked, then sent as they are.  A
\* NOTE_ON with velocity 0 is an off, for the tracker as for the DAW.
PlainNote(d, n, on) ==
    LET i == devices[d] IN
    /\ i # NoInst
    /\ Plain(i)
    /\ held' = [held EXCEPT ![i] = IF on THEN @ \cup {n} ELSE @ \ {n}]
    /\ sounding' = Switched(i, n, on, sounding)
    /\ UNCHANGED <<devices, addVars, ports, pressed, latched, orphaned>>

Event(d) ==
    \/ \E c \in Controls : Press(d, c) \/ Lift(d, c)
    \/ \E n \in Notes, on \in BOOLEAN : PlainNote(d, n, on)

Settle == \E i \in Inst, ok \in BOOLEAN : PortSettles(i, ok)

Next ==
    \/ \E d \in Ids, m \in Models : AddRefused(d, m) \/ AddBegins(d, m)
    \/ Settle
    \/ \E d \in Ids : Remove(d)
    \/ RemoveAll
    \/ PanicAll
    \/ \E d \in Ids : Event(d)

Spec == Init /\ [][Next]_vars

\* Every call into the MIDI backend settles.
FairSpec == Spec /\ \A i \in Inst : WF_vars(\E ok \in BOOLEAN : PortSettles(i, ok))

=============================================================================
