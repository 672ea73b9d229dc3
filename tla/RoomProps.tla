----------------------------- MODULE RoomProps ------------------------------
(***************************************************************************)
(* What the room promises.                                                 *)
(***************************************************************************)
EXTENDS Room

HoldsId(r, h) == LET at == r.hands[h].held IN IF at \in DOMAIN r.targets THEN r.targets[at].id ELSE 0
There == IdsOf(room.devices)

\* In this step: placed, refused, or gone with its device or its session.
Answered(d) ==
    \/ Find(pending, d) \in creating' \/ d \in failed'
    \/ d \notin There' \/ session' # session

\* Types: one device and one target for an id, hands that hold what is there,
\* one request and one anchor for a device, a deadline over every request.
RoomTypeOK ==
    /\ IsInjective([i \in DOMAIN room.devices |-> room.devices[i].id])
    /\ IsInjective([i \in DOMAIN room.targets |-> room.targets[i].id])
    /\ \A h \in Hands : room.hands[h].held \in 0..Len(room.targets)
    /\ IsInjective([i \in DOMAIN pending |-> pending[i].id]) /\ IdsOf(pending) \subseteq There
    /\ IsInjective([i \in DOMAIN anchors |-> anchors[i].id])
    /\ pending # <<>> => deadline

\* A hand that holds before and after a step holds the same device, whatever
\* was removed from the list, pinned, or put back at its end meanwhile.
HandsKeepTheirDevice ==
    [][\A h \in Hands : room.hands[h].held # 0 /\ room.hands[h].held' # 0
            => HoldsId(room, h)' = HoldsId(room, h)]_roomVars

\* The grab test looks for every device where it is drawn, and knows which
\* ones are pinned: no copy of a pose is stale.
TargetsFollowDevices ==
    {Target(v) : v \in ToSet(room.devices)} = ToSet(room.targets)

\* A device that was placed and that no hand holds is where the bridge was
\* told it is, with the same flags: every way of letting go reports.
ReleasedIsReported ==
    \A v \in ToSet(room.devices) : v.placed /\ ~Held(room, v.id) =>
        v.id \in DOMAIN room.reported /\ room.reported[v.id] = Placement(v)

\* A pose is kept by the device, by its grab target and by the bridge, and the
\* three agree whichever of them was changed.
PosesAgree == TargetsFollowDevices /\ ReleasedIsReported

\* Somebody who asked for a drop gets an answer: the request ends with the
\* device placed or the time-out, unless the device or the session went, or an
\* anchor made for an earlier drop arrived, which takes the request with it.
DropsAreAnswered ==
    [][\A d \in IdsOf(pending) \ IdsOf(pending') :
        \/ Answered(d)
        \/ \E a \in creating \ creating' : a.id = d]_roomVars

\* As the comments have it: nothing but an answer ends a request.
EveryDropIsAnswered ==
    [][\A d \in IdsOf(pending) \ IdsOf(pending') : Answered(d)]_roomVars

\* "a runtime keeps a small, fixed number of them, and one held for a device
\* that no longer exists is one the next device cannot have"
AnchorsBelongToDevices == IdsOf(anchors) \subseteq There

\* "Moved by hand, so it is no longer sitting on whatever real surface it was
\* dropped onto": the anchor left behind does not move it again.
CarriedStaysPut ==
    [][\A v \in ToSet(room.devices), w \in ToSet(room'.devices) :
        (v.id = w.id /\ v.x # w.x /\ \A h \in Hands : ~room.hands'[h].pinching) =>
            v.anchored \/ v.id \in IdsOf(pending) \/ frames' = frames]_roomVars
=============================================================================
