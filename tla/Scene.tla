-------------------------------- MODULE Scene --------------------------------
(***************************************************************************)
(* Who owns which device and where it stands: the headset's scene          *)
(* (apps/xr-client/src/Engine.ts with devices/reconcile.ts and             *)
(* devices/matchLayout.ts), the workspace the bridge keeps of it           *)
(* (core/Workspace.ts, core/workspaceFile.ts, the cases of core/Router.ts  *)
(* and the handlers of index.ts that push it back), and the link between.  *)
(*                                                                         *)
(* The headset makes devices and places them; the bridge opens ports for   *)
(* them, remembers placements and named arrangements, and answers every    *)
(* change with its whole state.  Messages under way cross, and on a data   *)
(* channel stray: each side acts on what the other one was.                *)
(*                                                                         *)
(* A pose stands for a whole placement (centre, yaw, tilt, flags).  Hands  *)
(* and surfaces are in Room, ports and statuses in DeviceManager.          *)
(***************************************************************************)
EXTENDS Integers, FiniteSets, SequencesExt

CONSTANTS
    Models,         \* models a headset can add
    Startup,        \* --startup-device: a model, or "none"
    MaxId,          \* MAX_DEVICE_ID
    Poses,          \* where devices are put
    Names,          \* names of arrangements
    MaxLayouts,     \* MAX_LAYOUTS
    Fits,           \* how many of them fit in one LAYOUT_STATE packet
    MaxQueue,       \* bound: messages under way in a direction
    MaxActs         \* bound: things a user does

ASSUME SceneAssumption ==
    /\ {MaxId, MaxLayouts, Fits, MaxQueue, MaxActs} \subseteq Nat /\ MaxId > 0
    /\ Startup \in Models \cup {"none"}
    /\ "" \notin Names /\ "none" \notin Models /\ {"home", "none"} \cap Poses = {}

VARIABLES
    room,       \* Engine.launchpads: a sequence of [id, model, pose]
    nextId,     \* Engine.nextDeviceId
    held,       \* ids of the devices in somebody's hand
    stored,     \* Engine.layouts: [layouts, current] as last told
    applied,    \* Engine.appliedLayout
    connected, up, down,    \* the link and what is under way on it
    strayed,    \* history: of what was sent on this link, something was lost or overtaken
    devices,    \* DeviceManager.devices: a sequence of [id, model]
    opening,    \* ids whose add() has not settled
    placements, layouts, current,   \* Workspace
    file,       \* workspace.json
    saving,     \* "armed" while saveTimer is; else how the last write ended: "done" or "failed"
    acts

headsetVars == <<room, nextId, held, stored, applied>>
workspaceVars == <<placements, layouts, current>>
bridgeVars == <<devices, opening, workspaceVars, file, saving>>
sceneVars == <<headsetVars, connected, strayed, up, down, bridgeVars, acts>>

Surface == 0        \* DeviceId.PADS, the id of the VRMC surface
First == 1          \* FIRST_DYNAMIC_DEVICE_ID
Ids == 0..MaxId
SomePose == Poses \cup {"home"}
SessionModel(id) == IF id = Surface THEN "vrmc" ELSE Startup

IdsOf(seq) == {seq[i].id : i \in DOMAIN seq}
NamesOf(ls) == {ls[i].name : i \in DOMAIN ls}
Named(ls, n) == CHOOSE l \in ToSet(ls) : l.name = n
\* The devices of seq but those of the ids.
Without(seq, ids) ==
    LET kept[n \in 0..Len(seq)] ==
            IF n = 0 THEN <<>>
            ELSE IF seq[n].id \in ids THEN kept[n - 1] ELSE Append(kept[n - 1], seq[n])
    IN  kept[Len(seq)]
Entries == [i \in DOMAIN room |-> room[i]]      \* placement() and model of each

Empty == [placements |-> [d \in Ids |-> "none"], layouts |-> <<>>, current |-> ""]
Workspace == [placements |-> placements, layouts |-> layouts, current |-> current]

SceneInit ==
    /\ room = <<[id |-> Surface, model |-> "vrmc", pose |-> "home"]>>
    /\ nextId = First
    /\ held = {}
    /\ stored = [layouts |-> <<>>, current |-> ""]
    /\ applied = ""
    /\ connected = FALSE /\ strayed = FALSE /\ up = <<>> /\ down = <<>>
    /\ devices = <<>> /\ opening = {}
    /\ placements = Empty.placements /\ layouts = <<>> /\ current = ""
    /\ file = Empty /\ saving = "done"
    /\ acts = 0

-----------------------------------------------------------------------------
\* What the bridge pushes.

Roster(ds, ps) == [kind |-> "roster",
    entries |-> [i \in DOMAIN ds |-> [id |-> ds[i].id, model |-> ds[i].model, place |-> ps[ds[i].id]]]]

\* writeLayoutState(): the tail that does not fit is dropped.
LayoutState(ls, cur) == [kind |-> "layouts",
    layouts |-> SubSeq(ls, 1, IF Len(ls) < Fits THEN Len(ls) ELSE Fits), current |-> cur]

\* Broadcaster.send(): nobody is there, nothing is sent.
Push(ms) == down' = IF connected THEN down \o ms ELSE down
PushRoster(ds) == Push(<<Roster(ds, placements)>>)

\* Workspace.onChange: the arrangements, then the roster, and the debounce.
Changed ==
    /\ Push(<<LayoutState(layouts', current'), Roster(devices', placements')>>)
    /\ saving' = "armed"

\* resyncHeadset()
Resync == Push(<<Roster(devices, placements), LayoutState(layouts, current)>>)

-----------------------------------------------------------------------------
\* What the headset does with an arrangement or a roster.

\* find(): the first of the devices that suit an entry and are not taken.
Take(match, devs, e, suits) ==
    LET free == {i \in suits : devs[i].id \notin DOMAIN match.to}
        first == CHOOSE i \in free : \A j \in free : i <= j
        taken == DOMAIN match.to \cup {devs[first].id}
    IN  IF free = {} THEN [match EXCEPT !.left = Append(@, e)]
        ELSE [match EXCEPT !.to = [d \in taken |-> IF d = devs[first].id THEN e.pose ELSE @[d]]]

\* A pass over entries, of which the n-th is suited by the devices suits[n].
Pass(match, devs, entries, suits) ==
    LET after[n \in 0..Len(entries)] ==
            IF n = 0 THEN match ELSE Take(after[n - 1], devs, entries[n], suits[n])
    IN  after[Len(entries)]

\* matchLayout(): exact id and model first, then what is left, by model in order.
\* The result maps the ids of matched devices to poses.
Match(entries, devs) ==
    LET OfModel(e) == {i \in DOMAIN devs : devs[i].model = e.model}
        Exactly(e) == {i \in OfModel(e) : devs[i].id = e.id}
        exact == Pass([to |-> <<>>, left |-> <<>>], devs, entries, [n \in DOMAIN entries |-> Exactly(entries[n])])
        pending == exact.left
    IN  Pass(exact, devs, pending, [n \in DOMAIN pending |-> OfModel(pending[n])]).to

\* Puts devices where an arrangement has them.
Placing(r, to) == [i \in DOMAIN r |-> IF r[i].id \in DOMAIN to THEN [r[i] EXCEPT !.pose = to[r[i].id]] ELSE r[i]]

\* applyLayout() on a room: devices in a hand take no part.
Arrange(r, ls, n) == Placing(r, Match(Named(ls, n).entries, Without(r, held)))

\* adopt(): an id the room does not have gets a surface at a default pose.
Claim(r, e) ==
    IF e.id \in IdsOf(r) THEN r
    ELSE Append(r, [id |-> e.id, model |-> e.model, pose |-> "home"])

\* adoptPlacement(): nobody placed it, or a hand holds it: it stays.
AdoptPlacement(r, e) ==
    [i \in DOMAIN r |-> IF r[i].id = e.id /\ e.place # "none" /\ e.id \notin held
                        THEN [r[i] EXCEPT !.pose = e.place] ELSE r[i]]

Adopt(r, e) == AdoptPlacement(Claim(r, e), e)

\* applyRoster(): one entry after the other.
Adopted(r, entries) ==
    LET after[n \in 0..Len(entries)] == IF n = 0 THEN r ELSE Adopt(after[n - 1], entries[n])
    IN  after[Len(entries)]

\* Mutant: nothing is asked for again.
MissingNothing(r, entries) == <<>>

\* devicesMissingFromRoster(): what the bridge has forgotten is asked for again.
Missing(r, entries) ==
    LET lost == Without(r, IdsOf(entries))
    IN  [i \in DOMAIN lost |-> [kind |-> "add", id |-> lost[i].id, model |-> lost[i].model]]

-----------------------------------------------------------------------------
\* The headset's user.

Send(ms) == up' = IF connected THEN up \o ms ELSE up
Act == acts < MaxActs /\ acts' = acts + 1
There(d) == d \in IdsOf(room)
DeviceAt(d) == CHOOSE x \in ToSet(room) : x.id = d
PoseMsg(d, p) == [kind |-> "pose", id |-> d, pose |-> p]
PutAt(d, p) == room' = [i \in DOMAIN room |-> IF room[i].id = d THEN [room[i] EXCEPT !.pose = p] ELSE room[i]]

AddDevice(m) ==
    \E id \in nextId..MaxId :
        /\ Act
        /\ ~There(id) /\ \A i \in nextId..id - 1 : There(i)
        /\ room' = Append(room, [id |-> id, model |-> m, pose |-> "home"])
        /\ nextId' = id + 1
        /\ Send(<<[kind |-> "add", id |-> id, model |-> m]>>)
        /\ UNCHANGED <<held, stored, applied, connected, strayed, down, bridgeVars>>

RemoveDevice(d) ==
    /\ Act
    /\ There(d)
    /\ room' = Without(room, {d})
    /\ held' = held \ {d}
    /\ Send(<<[kind |-> "remove", id |-> d]>>)
    /\ UNCHANGED <<nextId, stored, applied, connected, strayed, down, bridgeVars>>

\* A hand takes hold of it, carries it, and lets go: only then is the bridge told.
Grab(d) ==
    /\ Act
    /\ There(d) /\ d \notin held
    /\ held' = held \cup {d}
    /\ UNCHANGED <<room, nextId, stored, applied, connected, strayed, up, down, bridgeVars>>

Carry(d, p) ==
    /\ d \in held
    /\ PutAt(d, p)
    /\ UNCHANGED <<nextId, held, stored, applied, connected, strayed, up, down, bridgeVars, acts>>

\* Mutant: a device that is let go is not reported.
LetGoSilently(d) ==
    /\ d \in held
    /\ held' = held \ {d}
    /\ UNCHANGED <<room, nextId, stored, applied, connected, strayed, up, down, bridgeVars, acts>>

LetGo(d) ==
    /\ d \in held
    /\ held' = held \ {d}
    /\ Send(<<PoseMsg(d, DeviceAt(d).pose)>>)
    /\ UNCHANGED <<room, nextId, stored, applied, connected, strayed, down, bridgeVars, acts>>

\* surfaces.onPlaced: a real surface was found under it, or its anchor moved.
Placed(d, p) ==
    /\ Act
    /\ There(d) /\ d \notin held
    /\ PutAt(d, p)
    /\ Send(<<PoseMsg(d, p)>>)
    /\ UNCHANGED <<nextId, held, stored, applied, connected, strayed, down, bridgeVars>>

SaveLayout(n) ==
    /\ Act
    /\ connected
    /\ Send(<<[kind |-> "save", name |-> n, entries |-> Entries]>>)
    /\ UNCHANGED <<headsetVars, connected, strayed, down, bridgeVars>>

DeleteLayout(n) ==
    /\ Act
    /\ connected
    /\ Send(<<[kind |-> "delete", name |-> n]>>)
    /\ UNCHANGED <<headsetVars, connected, strayed, down, bridgeVars>>

ApplyLayout(n) ==
    /\ Act
    /\ n \in NamesOf(stored.layouts)
    /\ room' = Arrange(room, stored.layouts, n)
    /\ applied' = n
    /\ stored' = [stored EXCEPT !.current = n]
    /\ Send(<<[kind |-> "apply", name |-> n]>>)
    /\ UNCHANGED <<nextId, held, connected, strayed, down, bridgeVars>>

-----------------------------------------------------------------------------
\* What the headset is told.

\* applyRoster()
HearRoster(m) ==
    /\ room' = Adopted(room, m.entries)
    /\ nextId' = LET ids == IdsOf(m.entries) \ IdsOf(room)
                 IN  CHOOSE n \in {nextId} \cup {i + 1 : i \in ids} :
                        n >= nextId /\ \A i \in ids : i < n
    /\ up' = up \o Missing(room', m.entries)
    /\ UNCHANGED <<held, stored, applied>>

\* receiveLayouts(): the arrangement in use is put into effect, once.
HearLayouts(m) ==
    LET state == [layouts |-> m.layouts, current |-> m.current]
        due == m.current # "" /\ m.current # applied /\ m.current \in NamesOf(m.layouts)
    IN  /\ stored' = state
        /\ room' = IF due THEN Arrange(room, m.layouts, m.current) ELSE room
        /\ applied' = IF due THEN m.current ELSE applied
        /\ up' = IF due THEN Append(up, [kind |-> "apply", name |-> m.current]) ELSE up
        /\ UNCHANGED <<nextId, held>>

Hear ==
    /\ down # <<>>
    /\ down' = Tail(down)
    /\ IF Head(down).kind = "roster" THEN HearRoster(Head(down)) ELSE HearLayouts(Head(down))
    /\ Len(up') <= MaxQueue
    /\ UNCHANGED <<connected, strayed, bridgeVars, acts>>

-----------------------------------------------------------------------------
\* What the bridge is told: the cases of Router.handlePacket().

\* The map takes the device at once; its ports, and the roster behind
\* .then(), come later.  An id that is there already only gets the roster.
RouteAdd(m) ==
    /\ IF m.id \in IdsOf(devices) THEN UNCHANGED <<devices, opening>>
       ELSE /\ devices' = Append(devices, [id |-> m.id, model |-> m.model])
            /\ opening' = opening \cup {m.id}
    /\ UNCHANGED <<workspaceVars, saving>>
    /\ PushRoster(devices')

RouteRemove(m) ==
    /\ devices' = Without(devices, {m.id})
    /\ UNCHANGED <<opening, workspaceVars, saving>>
    /\ IF m.id \in IdsOf(devices) THEN PushRoster(devices') ELSE UNCHANGED down

\* Workspace.place(), of a plausible placement.
RoutePose(m) ==
    /\ placements' = [placements EXCEPT ![m.id] = m.pose]
    /\ UNCHANGED <<devices, opening, layouts, current>>
    /\ Changed

\* Workspace.save(): one of the same name is replaced where it stands.
RouteSave(m) ==
    LET new == [name |-> m.name, entries |-> m.entries]
        known == m.name \in NamesOf(layouts)
    IN  IF ~known /\ Len(layouts) >= MaxLayouts
        THEN UNCHANGED <<devices, opening, workspaceVars, saving, down>>
        ELSE /\ layouts' = IF ~known THEN Append(layouts, new)
                           ELSE [i \in DOMAIN layouts |-> IF layouts[i].name = m.name THEN new ELSE layouts[i]]
             /\ current' = m.name
             /\ UNCHANGED <<devices, opening, placements>>
             /\ Changed

\* Workspace.delete(), of the one that has the name.
RouteDelete(m) ==
    IF m.name \notin NamesOf(layouts) THEN UNCHANGED <<devices, opening, workspaceVars, saving, down>>
    ELSE /\ layouts' = RemoveAt(layouts, CHOOSE i \in DOMAIN layouts : layouts[i].name = m.name)
         /\ current' = IF current = m.name THEN "" ELSE current
         /\ UNCHANGED <<devices, opening, placements>>
         /\ Changed

\* Workspace.apply(): the placements follow the arrangement, by id.
RouteApply(m) ==
    IF m.name \notin NamesOf(layouts) THEN UNCHANGED <<devices, opening, workspaceVars, saving, down>>
    ELSE /\ current' = m.name
         /\ placements' = LET es == ToSet(Named(layouts, m.name).entries)
                          IN  [d \in Ids |-> IF \E e \in es : e.id = d
                                             THEN (CHOOSE e \in es : e.id = d).pose ELSE placements[d]]
         /\ UNCHANGED <<devices, opening, layouts>>
         /\ Changed

Route ==
    /\ up # <<>>
    /\ LET m == Head(up)
       IN  \/ m.kind = "add" /\ RouteAdd(m)
           \/ m.kind = "remove" /\ RouteRemove(m)
           \/ m.kind = "pose" /\ RoutePose(m)
           \/ m.kind = "save" /\ RouteSave(m)
           \/ m.kind = "delete" /\ RouteDelete(m)
           \/ m.kind = "apply" /\ RouteApply(m)
           \/ m.kind = "hello" /\ Resync /\ UNCHANGED <<devices, opening, workspaceVars, saving>>
    /\ up' = Tail(up)
    /\ Len(down') <= MaxQueue
    /\ UNCHANGED <<headsetVars, connected, strayed, file, acts>>

-----------------------------------------------------------------------------
\* Ports, clients and processes.

\* A device's ports are open, or are not to be: the roster is sent again.  The
\* session's own devices are followed by the next one, and by the resync.
Settle(d) ==
    /\ d \in opening
    /\ IF d = Surface /\ Startup # "none" /\ First \notin IdsOf(devices)
       THEN /\ devices' = Append(devices, [id |-> First, model |-> Startup])
            /\ opening' = (opening \ {d}) \cup {First}
            /\ PushRoster(devices')
       ELSE /\ opening' = opening \ {d}
            /\ UNCHANGED devices
            /\ IF d \in {Surface, First}
               THEN Resync
               ELSE PushRoster(devices)
    /\ Len(down') <= MaxQueue
    /\ UNCHANGED <<headsetVars, connected, strayed, up, workspaceVars, file, saving, acts>>

\* A client connects and says hello; the gate opens the session's devices.
Connect ==
    /\ Act
    /\ ~connected
    /\ connected' = TRUE /\ strayed' = FALSE
    /\ up' = <<[kind |-> "hello"]>>
    /\ IF devices = <<>>
       THEN /\ devices' = <<[id |-> Surface, model |-> SessionModel(Surface)]>>
            /\ opening' = opening \cup {Surface}
            /\ down' = <<Roster(devices', placements)>>
       ELSE /\ UNCHANGED <<devices, opening>>
            /\ down' = <<Roster(devices, placements), LayoutState(layouts, current)>>
    /\ UNCHANGED <<headsetVars, workspaceVars, file, saving>>

\* The link is lost, and what is under way on it.
Disconnect ==
    /\ connected
    /\ connected' = FALSE /\ strayed' = FALSE
    /\ up' = <<>> /\ down' = <<>>
    /\ UNCHANGED <<headsetVars, bridgeVars, acts>>

\* A WebSocket keeps what it is given, in order.  The headset's data channel
\* (ordered: false, maxRetransmits: 0) may lose any message, or have it overtake
\* those before it.  Neither side is told, and nothing is sent again.
Strays(q) == {RemoveAt(q, i) : i \in DOMAIN q} \cup {<<q[i]>> \o RemoveAt(q, i) : i \in DOMAIN q}

Stray ==
    /\ Act
    /\ strayed' = TRUE
    /\ \/ up' \in Strays(up) /\ UNCHANGED down
       \/ down' \in Strays(down) /\ UNCHANGED up
    /\ UNCHANGED <<headsetVars, connected, bridgeVars>>

\* The grace period is over: removeAll().
GraceOver ==
    /\ ~connected /\ opening = {} /\ devices # <<>>
    /\ devices' = <<>>
    /\ UNCHANGED <<headsetVars, connected, strayed, up, down, opening, workspaceVars, file, saving, acts>>

\* The debounce of workspace.onChange runs out; saveWorkspace() renames a whole file.
SaveTimer ==
    /\ saving = "armed"
    /\ saving' = "done"
    /\ file' = Workspace
    /\ UNCHANGED <<headsetVars, connected, strayed, up, down, devices, opening, workspaceVars, acts>>

\* The write fails: the timer has run, and it is only logged.
SaveFails ==
    /\ Act
    /\ saving = "armed"
    /\ saving' = "failed"
    /\ UNCHANGED <<headsetVars, connected, strayed, up, down, devices, opening, workspaceVars, file>>

\* Workspace.fromJSON(): what a file must earn its way back in with.
Accepted(f) ==
    LET ls == SubSeq(f.layouts, 1, IF Len(f.layouts) < MaxLayouts THEN Len(f.layouts) ELSE MaxLayouts)
    IN  [placements |-> f.placements, layouts |-> ls,
         current |-> IF f.current \in NamesOf(ls) THEN f.current ELSE ""]

Restarted(f) ==
    /\ connected' = FALSE /\ strayed' = FALSE /\ up' = <<>> /\ down' = <<>>
    /\ devices' = <<>> /\ opening' = {} /\ saving' = "done"
    /\ file' = f
    /\ placements' = Accepted(f).placements
    /\ layouts' = Accepted(f).layouts
    /\ current' = Accepted(f).current
    /\ UNCHANGED headsetVars

\* Mutant: an orderly end forgets what the debounce holds.
QuitUnflushed == Act /\ Restarted(file)

\* An orderly end flushes what the debounce holds, and nothing else.  A crash does
\* not, nor does an end whose flush fails: its result is not looked at.
Quit == Act /\ Restarted(IF saving = "armed" THEN Workspace ELSE file)
Crash == Act /\ Restarted(file)

-----------------------------------------------------------------------------
User ==
    \/ \E m \in Models : AddDevice(m)
    \/ \E d \in Ids : RemoveDevice(d) \/ Grab(d) \/ LetGo(d)
    \/ \E d \in Ids, p \in Poses : Carry(d, p) \/ Placed(d, p)
    \/ \E n \in Names : SaveLayout(n) \/ DeleteLayout(n) \/ ApplyLayout(n)

SceneNext ==
    \/ User /\ Len(up') <= MaxQueue
    \/ Hear \/ Route
    \/ \E d \in Ids : Settle(d)
    \/ Connect \/ Disconnect \/ Stray \/ GraceOver
    \/ SaveTimer \/ SaveFails \/ Quit \/ Crash

SceneSpec == SceneInit /\ [][SceneNext]_sceneVars

=============================================================================
