------------------------------- MODULE Touch --------------------------------
(***************************************************************************)
(* A hand on a device: the poke detector, the pinched knobs and faders and *)
(* what a device does with both (packages/interaction PokeDetector and     *)
(* KnobControl, devices/LaunchpadInstance).                                *)
(*                                                                         *)
(* The device lies flat, so that a fingertip's height is its distance from *)
(* the surface once the device's own height is taken off.  Two fingertips, *)
(* the thumb and the index of one hand, both poke and together pinch.      *)
(* Velocity, the instant of a crossing within its frame and pressure are   *)
(* left out: nothing that has to be let go depends on them.                *)
(***************************************************************************)
EXTENDS Surface

CONSTANTS
    Model,          \* the device's model
    Tips,           \* where a frame may see each finger: sets of <<x, y, z>>
    Heights,        \* heights the device may be moved to
    Refractory,     \* frames between two strikes of one finger
    Travel,         \* how far a hand moves to sweep a knob
    MaxFrames,      \* bound: frames
    MaxMoves        \* bound: moves of the device, losses and ends of a session

ASSUME TouchAssumption == Model \in Models /\ {Refractory, Travel, MaxFrames, MaxMoves} \subseteq Nat

VARIABLES
    fingers,        \* per finger: held zone or 0, the side of the surface it was
                    \* last seen on, frames since its last strike
    knob,           \* of KnobControl: pinching, holds, grabY, grabValue
    values,         \* of each continuous zone, 0..Travel
    height,         \* of the device
    lit,            \* LedState.held: zones a finger is shown on
    sounding,       \* controls the bridge has had a press of and no release
    told,           \* of each continuous zone, what the bridge was last told
    struck,         \* <<finger, zone>> of the strikes of the last step
    moved,          \* how far the hand's pinch moved in the last step
    frames, moves

touchVars == <<fingers, knob, values, height, lit, sounding, told, struck, moved, frames, moves>>

Thumb == 1
Index == 2
Fingers == {Thumb, Index}
Lost == <<>>
ReleaseMargin == 700
PinchClose == 22 * mm
PinchOpen == 35 * mm
GrabRadius == 60 * mm

Zone(z) == Zones[Model][z]
Continuous == {z \in DOMAIN Zones[Model] : Zone(z).continuous}

-----------------------------------------------------------------------------
\* PokeDetector, as functions on s = [fingers, lit, on, struck], where on is
\* what the notes pushed so far leave sounding.

\* noteOn() and noteOff(): shown on the device at once, and pushed.
NoteOn(s, z) == [s EXCEPT !.lit = @ \cup {z}, !.on = @ \cup {Zone(z).id}]
NoteOff(s, z) == [s EXCEPT !.lit = @ \ {z}, !.on = @ \ {Zone(z).id}]

\* Mutant: the note stays when the finger has gone.
ReleaseSilently(s, f) == [s EXCEPT !.fingers[f].held = 0]

\* releaseIfHeld()
ReleaseIfHeld(s, f) ==
    IF s.fingers[f].held = 0 THEN s ELSE [NoteOff(s, s.fingers[f].held) EXCEPT !.fingers[f].held = 0]

\* strike()
Strike(s, f, z) ==
    [NoteOn(s, z) EXCEPT !.fingers[f].held = z, !.fingers[f].since = 0, !.struck = @ \cup {<<f, z>>}]

Forget(s, f) == [s EXCEPT !.fingers[f].side = "none"]

Depth(z, tip) == tip[3] - height - Zone(z).raise
Side(d) == IF d > 0 THEN "above" ELSE "in"

\* Mutant: no hysteresis.
ClearedAtSurface(d) == d > 0

\* Climbed back out past the hysteresis band.
Cleared(d) == d > ReleaseMargin

\* update() for one finger, over zone z; these devices have no glissando.
OverZone(s, f, z, d) ==
    LET v == s.fingers[f]
        crossed == d <= 0 /\ v.side = "above" /\ v.since >= Refractory
        then == IF v.held # 0
                THEN IF v.held # z \/ Cleared(d) THEN ReleaseIfHeld(s, f) ELSE s
                ELSE IF crossed THEN Strike(s, f, z) ELSE s
    IN  [then EXCEPT !.fingers[f].side = Side(d)]
PokeZone(s, f, z, tip) ==
    IF z = 0 THEN Forget(ReleaseIfHeld(s, f), f) ELSE OverZone(s, f, z, Depth(z, tip))
PokeFinger(s, f, tip) == PokeZone(s, f, IF tip = Lost THEN 0 ELSE Hit(Model, tip[1], tip[2]), tip)

Older(fs) == [f \in Fingers |-> [fs[f] EXCEPT !.since = IF @ < Refractory THEN @ + 1 ELSE @]]

PokeHand(s, tips) == PokeFinger(PokeFinger(s, Thumb, tips[Thumb]), Index, tips[Index])
Poke(tips) == PokeHand([fingers |-> Older(fingers), lit |-> lit, on |-> sounding, struck |-> {}], tips)

-----------------------------------------------------------------------------
\* KnobControl.

Abs(x) == IF x < 0 THEN -x ELSE x
\* In tenths of a millimetre, of points that are no further apart than limit
\* along an axis.
Squared(x) == x * x
SquareDistance(p, q) ==
    LET D(i) == Abs(p[i] - q[i]) \div 20 IN Squared(D(1)) + Squared(D(2)) + Squared(D(3))
Boxed(p, q, limit) == \A i \in 1..3 : Abs(p[i] - q[i]) <= limit
Near(p, q, limit) == Boxed(p, q, limit) /\ SquareDistance(p, q) < Squared(limit \div 20)
Graspable(p, q) == Boxed(p, q, GrabRadius) /\ SquareDistance(p, q) <= Squared(GrabRadius \div 20)

\* localToWorld() of a control's middle: placeKnobs() keeps it on the device.
KnobAt(z) == <<Zone(z).x + Zone(z).w \div 2, Zone(z).y + Zone(z).h \div 2, height + Zone(z).raise>>

\* nearestKnob(): the last of equals.
Nearer(dz, z, dy, y) == dz < dy \/ (dz = dy /\ y <= z)
NearestOf(near, p) ==
    IF near = {} THEN 0
    ELSE CHOOSE z \in near : \A y \in near : Nearer(SquareDistance(KnobAt(z), p), z, SquareDistance(KnobAt(y), p), y)
NearestKnob(p) == NearestOf({z \in Continuous : Graspable(KnobAt(z), p)}, p)

Pinch(tips) == [i \in 1..3 |-> (tips[Thumb][i] + tips[Index][i]) \div 2]
Free == [pinching |-> FALSE, holds |-> 0, grabY |-> 0, grabValue |-> 0]

\* A grab starts at the value the knob has.
TakeHold(k, z, p) ==
    IF z = 0 THEN k ELSE [k EXCEPT !.holds = z, !.grabY = p[3], !.grabValue = values[z]]

\* KnobControl.update() for the hand.
Knob(tips) ==
    LET tracked == Lost \notin {tips[f] : f \in Fingers}
        limit == IF knob.pinching THEN PinchOpen ELSE PinchClose
        p == Pinch(tips)
    IN  IF ~tracked \/ ~Near(tips[Thumb], tips[Index], limit)
        THEN [knob EXCEPT !.pinching = FALSE, !.holds = 0]
        ELSE LET k == [knob EXCEPT !.pinching = TRUE]
             IN  IF k.holds = 0 THEN TakeHold(k, NearestKnob(p), p) ELSE k

\* The value a held knob has when the hand is at p.
Turned(k, p) == Clamp(k.grabValue + p[3] - k.grabY, 0, Travel)

\* onValue(): a 14-bit CC for every value that is another one.
Tell(z, v) == IF z # 0 /\ v # values[z] THEN [told EXCEPT ![z] = v] ELSE told

-----------------------------------------------------------------------------
\* Actions.

\* Engine.update(): the detector, then the continuous controls.
Poked(s) == fingers' = s.fingers /\ lit' = s.lit /\ sounding' = s.on /\ struck' = s.struck
SetTo(z, v) == values' = (IF z = 0 THEN values ELSE [values EXCEPT ![z] = v]) /\ told' = Tell(z, v)
Pinched(k, p) ==
    /\ knob' = k
    /\ SetTo(k.holds, IF k.holds = 0 THEN 0 ELSE Turned(k, p))
    /\ moved' = IF k.holds = 0 THEN [last |-> 0, by |-> 0]
                ELSE [last |-> p[3], by |-> IF knob.holds = k.holds THEN Abs(p[3] - moved.last) ELSE 0]
Frame(tips) ==
    /\ frames < MaxFrames /\ frames' = frames + 1
    /\ Poked(Poke(tips))
    /\ Pinched(Knob(tips), Pinch(tips))
    /\ UNCHANGED <<height, moves>>

NothingStruck == struck' = {} /\ moved' = [moved EXCEPT !.by = 0]
Move == moves < MaxMoves /\ moves' = moves + 1 /\ UNCHANGED frames /\ NothingStruck

\* setPose(): detector and knobs follow, under whatever hand is there.
SetPose(h) ==
    /\ Move
    /\ h # height /\ height' = h
    /\ UNCHANGED <<fingers, knob, values, lit, sounding, told>>

\* Engine.allNotesOff() at the end of a session: releaseAll() and a panic.
EndSession ==
    /\ Move
    /\ fingers' = [f \in Fingers |-> [fingers[f] EXCEPT !.held = 0, !.side = "none"]]
    /\ lit' = {} /\ sounding' = {}
    /\ UNCHANGED <<knob, values, height, told>>

\* The link is lost, and what the bridge had sounding goes with it.
LinkLost ==
    /\ Move
    /\ sounding' = {}
    /\ UNCHANGED <<fingers, knob, values, height, lit, told>>

TouchInit ==
    /\ fingers = [f \in Fingers |-> [held |-> 0, side |-> "none", since |-> Refractory]]
    /\ knob = Free
    /\ values = [z \in Continuous |-> Travel \div 2] /\ told = [z \in Continuous |-> Travel \div 2]
    /\ height = 0 /\ lit = {} /\ sounding = {} /\ struck = {} /\ moved = [last |-> 0, by |-> 0]
    /\ frames = 0 /\ moves = 0

TouchNext ==
    \/ \E thumb \in Tips[Thumb], index \in Tips[Index] : Frame(<<thumb, index>>)
    \/ \E h \in Heights : SetPose(h)
    \/ EndSession
    \/ LinkLost

TouchSpec == TouchInit /\ [][TouchNext]_touchVars
=============================================================================
