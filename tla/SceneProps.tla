----------------------------- MODULE SceneProps -----------------------------
(***************************************************************************)
(* What the scene promises.                                                *)
(***************************************************************************)
EXTENDS Scene

Entry == [id : Ids, model : Models \cup {"vrmc"}, pose : SomePose]
LayoutSet == [name : Names, entries : Seq(Entry)]

\* Types.
SceneTypeOK ==
    /\ room \in Seq(Entry)
    /\ nextId \in First..MaxId + 1
    /\ held \subseteq IdsOf(room)
    /\ stored.layouts \in Seq(LayoutSet) /\ stored.current \in Names \cup {""}
    /\ applied \in Names \cup {""}
    /\ devices \in Seq([id : Ids, model : Models \cup {"vrmc"}])
    /\ opening \subseteq Ids
    /\ placements \in [Ids -> SomePose \cup {"none"}]
    /\ layouts \in Seq(LayoutSet) /\ Len(layouts) <= MaxLayouts
    /\ current \in Names \cup {""}
    /\ {connected, strayed} \subseteq BOOLEAN /\ saving \in {"done", "armed", "failed"}
    /\ IsInjective([i \in DOMAIN room |-> room[i].id])
    /\ IsInjective([i \in DOMAIN devices |-> devices[i].id])

\* Both sides have heard everything the other one had to say, and of what they said on
\* this link nothing was lost and nothing overtook: so it is over a WebSocket, over
\* a data channel as long as it happens to be so, and again from the next
\* connection on, whatever was lost on the one before.
AllSaid == connected /\ up = <<>> /\ down = <<>> /\ opening = {}
Quiet == AllSaid /\ ~strayed

\* Once quiet, the headset shows the devices the bridge has open and no other:
\* a device the headset drew and the bridge had forgotten, or was never told of,
\* has been asked for again (reconcile.ts), one that only the bridge knew has
\* been adopted.
DevicesAgree == Quiet => IdsOf(room) = IdsOf(devices)

\* Once quiet, a device that no hand holds stands where the bridge remembers
\* it, so that the next connection finds the room as it was left.
PlacementsAgree ==
    Quiet => \A d \in IdsOf(room) \ held : placements[d] \in {"none", DeviceAt(d).pose}

\* The two without that limit: a request or a pose that is lost is not sent again,
\* so that both sides may have said all and disagree until the link is lost.
DevicesAgreeAnyway == AllSaid => IdsOf(room) = IdsOf(devices)
PlacementsAgreeAnyway ==
    AllSaid => \A d \in IdsOf(room) \ held : placements[d] \in {"none", DeviceAt(d).pose}

\* Whatever the bridge pushes, and whichever arrangement is put into effect, a
\* device in somebody's hand stays where the hand has it.
HeldIsLeftAlone ==
    [][\A d \in held \cap held' : DeviceAt(d)'.pose = DeviceAt(d).pose \/ \E p \in Poses : Carry(d, p)]_sceneVars

\* An orderly end (its flush, where one is due, written) and a restart give back the
\* workspace as it was, down to the arrangement in use: what was written is what
\* fromJSON() accepts.  Not so after a write that failed, until something is
\* changed again: the timer has run, and the end has nothing to flush.
QuitKeepsTheWorkspace == [][Quit => Workspace' = Workspace \/ saving = "failed"]_sceneVars

\* The same without the exception: whatever happened before, an orderly end keeps
\* what was done last, as the comment at the flush says.
QuitAlwaysKeeps == [][Quit => Workspace' = Workspace]_sceneVars

\* Engine.addDevice() keeps clear of the bridge's own device, as its comment
\* says: once quiet, the two sides mean the same instrument by an id.
ModelsAgree ==
    Quiet => \A i \in DOMAIN devices :
        There(devices[i].id) => DeviceAt(devices[i].id).model = devices[i].model

\* A device that was removed does not come back by itself: what appears in the
\* room has an id that was never handed out.
RemovalSticks == [][\A d \in IdsOf(room') \ IdsOf(room) : d >= nextId]_sceneVars

\* An arrangement is put into effect once, and what is moved after it was
\* saved or applied is not moved back by the bridge's next push.
MovesSurviveSaving ==
    [][Hear /\ Head(down).kind = "layouts" /\ placements # Empty.placements => room' = room]_sceneVars

=============================================================================
