-------------------------------- MODULE Room --------------------------------
(***************************************************************************)
(* Hands, grab targets and real surfaces: what can move a device in the    *)
(* headset (packages/interaction/src/Grabbable.ts, xr/SurfaceAnchor.ts and *)
(* the parts of Engine.ts that tie them to the devices).                   *)
(*                                                                         *)
(* A grab target is a copy of its device's pose, found by its place in a   *)
(* list that changes under the hands that hold its members; an anchor is   *)
(* another copy, that arrives when a promise settles and moves its device  *)
(* when the runtime says so.                                               *)
(*                                                                         *)
(* A place is an integer along one axis, the midpoint of two hands rounded *)
(* down.  Yaw, tilt and heights are left out; whether a surface is under a *)
(* device is an input of the frame.                                        *)
(***************************************************************************)
EXTENDS Integers, FiniteSets, SequencesExt

CONSTANTS
    MaxId,          \* bound: ids of devices; device i first stands at Home(i)
    Spots,          \* where the hands are
    Reach,          \* how far from a device's centre a pinch takes it
    MaxFrames,      \* bound: frames of the session
    MaxActs         \* bound: what the user, the bridge and drift do

ASSUME RoomAssumption ==
    Spots \subseteq Int /\ {MaxId, Reach, MaxFrames, MaxActs} \subseteq Nat

VARIABLES
    room,           \* Engine.launchpads, with the target list, the hands and
                    \* what the bridge was told: see Fresh
    pending,        \* SurfaceAnchor.pending: a sequence of [id, x]
    deadline,       \* dropRequestedAt # 0
    anchors,        \* SurfaceAnchor.anchors: a sequence of [id, x]
    creating,       \* promises of createAnchor() that have not settled
    failed,         \* ids the last step called onFailed() for
    session,        \* frames are delivered
    frames, acts

surfaces == <<pending, deadline, anchors, creating>>
roomVars == <<room, surfaces, failed, session, frames, acts>>

Hands == {1, 2}
Ids == 1..MaxId
Home(i) == 2 * (i - 1)
\* What a frame says of a hand: fingers apart or not tracked, which come to the
\* same, or a gap below pinchClose or between it and pinchOpen, and where.
HandInput == {[gap |-> "open"]} \cup [gap : {"near", "mid"}, at : Spots]

Device(d) == [id |-> d, x |-> Home(d), pinned |-> FALSE, anchored |-> FALSE, placed |-> FALSE]
Target(dev) == [id |-> dev.id, x |-> dev.x, pinned |-> dev.pinned]
Placement(dev) == [x |-> dev.x, pinned |-> dev.pinned, anchored |-> dev.anchored]
Fresh == [devices |-> <<>>, targets |-> <<>>,
          hands |-> [h \in Hands |-> [pinching |-> FALSE, held |-> 0, offset |-> 0]],
          reported |-> [d \in {} |-> 0]]

IdsOf(seq) == {seq[i].id : i \in DOMAIN seq}
Find(seq, d) == CHOOSE x \in ToSet(seq) : x.id = d
IndexOf(seq, d) == CHOOSE i \in DOMAIN seq : seq[i].id = d
Without(seq, d) == IF d \in IdsOf(seq) THEN RemoveAt(seq, IndexOf(seq, d)) ELSE seq

-----------------------------------------------------------------------------
\* Grabbable, as functions on the room.

\* isHeld()
Held(r, d) == d \in IdsOf(r.targets) /\ \E h \in Hands : r.hands[h].held = IndexOf(r.targets, d)

\* link.sendDevicePose(device.placement()), of a device that is there.
Report(r, d) ==
    IF d \in IdsOf(r.devices)
    THEN [r EXCEPT !.reported = [e \in DOMAIN @ \cup {d} |->
                                    IF e = d THEN Placement(Find(r.devices, d)) ELSE @[e]]]
    ELSE r

\* releaseHand(): only the last hand off announces the release.
ReleaseHand(r, h) ==
    LET at == r.hands[h].held
        let == [r EXCEPT !.hands[h].held = 0]
    IN  IF at = 0 THEN r
        ELSE IF \E o \in Hands : let.hands[o].held = at THEN let
        ELSE Report(let, r.targets[at].id)

\* registerGrab(): a target that copies the device.
Register(r, d) ==
    LET dev == Find(r.devices, d)
    IN  [r EXCEPT !.targets = Append(@, Target(dev))]

\* A hand that holds the target lets go of it.
LetGo(r, h, at) == IF r.hands[h].held = at THEN ReleaseHand(r, h) ELSE r

\* Mutant: the hands keep the indices they had.
UnregisterUnshifted(r, d) ==
    LET at == IndexOf(r.targets, d)
        free == LetGo(LetGo(r, 1, at), 2, at)
    IN  IF d \notin IdsOf(r.targets) THEN r ELSE [free EXCEPT !.targets = Without(@, d)]

\* Grabbable.remove(): hands on it let go, indices above it shift down.
Unregister(r, d) ==
    LET at == IndexOf(r.targets, d)
        free == LetGo(LetGo(r, 1, at), 2, at)
    IN  IF d \notin IdsOf(r.targets) THEN r
        ELSE [free EXCEPT !.targets = Without(@, d),
                          !.hands = [h \in Hands |-> LET hand == free.hands[h] IN
                                        IF hand.held > at THEN [hand EXCEPT !.held = @ - 1] ELSE hand]]

\* Mutant: the target stays where it was.
SyncNothing(r, d) == r

\* syncGrabTarget()
Sync(r, d) == Register(Unregister(r, d), d)

SetPose(r, d, x) ==
    [r EXCEPT !.devices = [i \in DOMAIN @ |-> IF @[i].id = d THEN [@[i] EXCEPT !.x = x, !.placed = TRUE] ELSE @[i]]]
SetAnchored(r, d, b) ==
    [r EXCEPT !.devices = [i \in DOMAIN @ |-> IF @[i].id = d THEN [@[i] EXCEPT !.anchored = b] ELSE @[i]]]
SetPinned(r, d, b) ==
    [r EXCEPT !.devices = [i \in DOMAIN @ |-> IF @[i].id = d THEN [@[i] EXCEPT !.pinned = b] ELSE @[i]]]

\* readPinches(): closes below one distance, opens above a larger one.
Pinches(hand, in) ==
    in.gap = "near" \/ (in.gap = "mid" /\ hand.pinching)

Distance(x, y) == IF x < y THEN y - x ELSE x - y

\* tryGrab(): the nearest target in reach that is not pinned, the first of equals.
TryGrab(r, h, in) ==
    LET near == {i \in DOMAIN r.targets : ~r.targets[i].pinned /\ Distance(r.targets[i].x, in.at) <= Reach}
        Better(i, j) == LET di == Distance(r.targets[i].x, in.at)
                            dj == Distance(r.targets[j].x, in.at)
                        IN  di < dj \/ (di = dj /\ i <= j)
        best == CHOOSE i \in near : \A j \in near : Better(i, j)
    IN  IF near = {} THEN r
        ELSE [r EXCEPT !.hands[h] = [@ EXCEPT !.held = best, !.offset = r.targets[best].x - in.at]]

\* onMove(): the target, the device, and the device is on no surface any more.
MoveTarget(r, at, x) ==
    SetAnchored(SetPose([r EXCEPT !.targets[at].x = x], r.targets[at].id, x), r.targets[at].id, FALSE)

\* applyMotion(): two hands on one device carry it by their midpoint.
Motion(r, in) ==
    LET Pull(h) == in[h].at + r.hands[h].offset
        Carry(q, h) == IF q.hands[h].held = 0 THEN q ELSE MoveTarget(q, q.hands[h].held, Pull(h))
    IN  IF r.hands[1].held # 0 /\ r.hands[1].held = r.hands[2].held
        THEN MoveTarget(r, r.hands[1].held, (Pull(1) + Pull(2)) \div 2)
        ELSE Carry(Carry(r, 1), 2)

\* Grabbable.update(): let go or take hold, hand by hand; then what is pinned.
ReadPinches(r, in) == [r EXCEPT !.hands = [h \in Hands |-> [@[h] EXCEPT !.pinching = Pinches(r.hands[h], in[h])]]]
Grasp(r, h, in) ==
    IF ~r.hands[h].pinching THEN ReleaseHand(r, h)
    ELSE IF r.hands[h].held = 0 THEN TryGrab(r, h, in[h]) ELSE r
LeavePinned(r, h) ==
    IF r.hands[h].held # 0 /\ r.targets[r.hands[h].held].pinned THEN ReleaseHand(r, h) ELSE r
Grabs(r, in) ==
    LET grasped == Grasp(Grasp(ReadPinches(r, in), 1, in), 2, in)
    IN  Motion(LeavePinned(LeavePinned(grasped, 1), 2), in)

-----------------------------------------------------------------------------
\* SurfaceAnchor, as functions on the room.

\* onPlaced()
OnPlaced(r, d, x) ==
    IF d \in IdsOf(r.devices) THEN Report(Sync(SetAnchored(SetPose(r, d, x), d, TRUE), d), d) ELSE r

\* onPlaced() of one after the other: of those of s that are in `which`.
PlaceAll(r, s, which) ==
    LET after[i \in 0..Len(s)] ==
            IF i = 0 THEN r
            ELSE IF i \in which THEN OnPlaced(after[i - 1], s[i].id, s[i].x) ELSE after[i - 1]
    IN  after[Len(s)]

\* followAnchors(): those the runtime has moved, unless a hand has the device.
Moved(r, drift) == {i \in DOMAIN drift : ~Held(r, anchors[i].id)}
Drifted(r, drift) ==
    [i \in DOMAIN anchors |-> IF i \in Moved(r, drift) THEN [anchors[i] EXCEPT !.x = drift[i]] ELSE anchors[i]]
Follow(r, drift) == PlaceAll(r, Drifted(r, drift), Moved(r, drift))

\* The requests that a surface was found for, none of them in a hand.
Resolve(r, found) == PlaceAll(r, pending, {i \in DOMAIN pending : pending[i].id \in found})

-----------------------------------------------------------------------------
\* Actions.

Silent == failed' = {}
Act == acts < MaxActs /\ acts' = acts + 1 /\ UNCHANGED frames /\ Silent

\* The requests that are not in `answered`, in their order.
Rest(answered) ==
    LET kept[i \in 0..Len(pending)] ==
            IF i = 0 THEN <<>>
            ELSE IF pending[i].id \in answered THEN kept[i - 1] ELSE Append(kept[i - 1], pending[i])
    IN  kept[Len(pending)]

\* Mutant: a request whose device is in a hand is dropped.
WaitingUnheld(r, found) == Rest(found \cup {d \in IdsOf(pending) : Held(r, d)})

\* What goes on waiting: no surface yet, or the device is in a hand.
Waiting(r, found) == Rest(found)

\* Engine.update(): grabs, then surfaces, then the deadline.  At most one
\* anchor drifts in a frame.
Frame(in, drift, found, late) ==
    /\ session /\ frames < MaxFrames /\ frames' = frames + 1
    /\ LET r == Grabs(room, in)
           f == Follow(r, drift)
           left == Waiting(r, found)
       IN  /\ \A d \in found : ~Held(r, d)
           /\ room' = Resolve(f, found)
           /\ anchors' = Drifted(r, drift)
           /\ creating' = creating \cup {p \in ToSet(pending) : p.id \in found}
           /\ late => left # <<>> /\ deadline
           /\ pending' = IF late THEN <<>> ELSE left
           /\ failed' = IF late THEN IdsOf(left) ELSE {}
           /\ deadline' = (left # <<>> /\ deadline /\ ~late)
    /\ acts' = acts + Cardinality(DOMAIN drift) /\ acts' <= MaxActs
    /\ UNCHANGED session

\* createAnchor().then(): forget(), which drops a request too, and push.
AnchorArrives(a) ==
    /\ creating' = creating \ {a}
    /\ pending' = Without(pending, a.id)
    /\ anchors' = Append(Without(anchors, a.id), a)
    /\ Silent
    /\ UNCHANGED <<room, deadline, session, frames, acts>>

AnchorFails(a) ==
    /\ creating' = creating \ {a}
    /\ Silent
    /\ UNCHANGED <<room, pending, deadline, anchors, session, frames, acts>>

\* addDevice(), or a roster names a device that is not here.
Appear(d) ==
    /\ Act
    /\ d \notin IdsOf(room.devices)
    /\ room' = Register([room EXCEPT !.devices = Append(@, Device(d))], d)
    /\ UNCHANGED <<surfaces, session>>

\* removeDevice(): the device first, so that the release has nothing to report.
RemoveDevice(d) ==
    /\ Act
    /\ d \in IdsOf(room.devices)
    /\ room' = Unregister([room EXCEPT !.devices = Without(@, d),
                                       !.reported = [e \in DOMAIN @ \ {d} |-> @[e]]], d)
    /\ pending' = Without(pending, d)
    /\ anchors' = Without(anchors, d)
    /\ UNCHANGED <<deadline, creating, session>>

\* pinDevice() from the wrist's button, of a device a hand may be holding.
PinDevice(d) ==
    /\ Act
    /\ d \in IdsOf(room.devices)
    /\ room' = Report(Sync(SetPinned(room, d, ~Find(room.devices, d).pinned), d), d)
    /\ UNCHANGED <<surfaces, session>>

\* adoptPlacement() and applyLayout(): the bridge moves what no hand holds.
Adopt(d, x, pinned) ==
    /\ Act
    /\ d \in IdsOf(room.devices) /\ ~Held(room, d)
    /\ room' = Report(Sync(SetAnchored(SetPinned(SetPose(room, d, x), d, pinned), d, FALSE), d), d)
    /\ UNCHANGED <<surfaces, session>>

\* dropToSurface(): with the pose it has now.
DropToSurface(d) ==
    /\ Act
    /\ d \in IdsOf(room.devices)
    /\ LET p == [id |-> d, x |-> Find(room.devices, d).x]
       IN  pending' = IF d \in IdsOf(pending)
                      THEN [i \in DOMAIN pending |-> IF pending[i].id = d THEN p ELSE pending[i]]
                      ELSE Append(pending, p)
    /\ deadline' = TRUE
    /\ UNCHANGED <<room, anchors, creating, session>>

\* onSessionStart(): surfaces.reset().
SessionStarts ==
    /\ ~session
    /\ session' = TRUE
    /\ anchors' = <<>> /\ pending' = <<>>
    /\ Silent
    /\ UNCHANGED <<room, deadline, creating, frames, acts>>

\* No frame comes any more; allNotesOff() leaves the hands as they are.
SessionEnds ==
    /\ Act
    /\ session
    /\ session' = FALSE
    /\ UNCHANGED <<room, surfaces>>

RoomInit ==
    /\ room = [Fresh EXCEPT !.devices = [d \in Ids |-> Device(d)],
                            !.targets = [d \in Ids |-> Target(Device(d))]]
    /\ pending = <<>> /\ deadline = FALSE /\ anchors = <<>> /\ creating = {}
    /\ failed = {} /\ session = TRUE /\ frames = 0 /\ acts = 0

Drifts == UNION {[J -> Spots] : J \in {{}} \cup {{j} : j \in DOMAIN anchors}}

\* A gap between the two distances says something of a hand that pinches only.
Inputs(h) == {in \in HandInput : in.gap = "mid" => room.hands[h].pinching}

Frames ==
    \E one \in Inputs(1), two \in Inputs(2), drift \in Drifts, found \in SUBSET IdsOf(pending),
       late \in {FALSE, pending # <<>>} :
        Frame(<<one, two>>, drift, found, late)

RoomNext ==
    \/ Frames
    \/ \E a \in creating : AnchorArrives(a) \/ AnchorFails(a)
    \/ \E d \in Ids :
        \/ Appear(d) \/ RemoveDevice(d) \/ DropToSurface(d)
        \/ PinDevice(d)
        \/ \E x \in Spots, pinned \in BOOLEAN : Adopt(d, x, pinned)
    \/ SessionStarts \/ SessionEnds

RoomSpec == RoomInit /\ [][RoomNext]_roomVars
=============================================================================
