----------------------------- MODULE TouchProps -----------------------------
(***************************************************************************)
(* What a surface and the hands on it promise.                             *)
(***************************************************************************)
EXTENDS Touch, Placement

CONSTANTS
    Probed          \* the models whose points are looked up

VARIABLES
    point,          \* a point on a model's surface, or Nowhere
    resting         \* history: per finger, the zone it struck and has not left

Nowhere == [model |-> "none", x |-> 0, y |-> 0]

\* Just beyond both edges of every zone.
Edges(m, at, size) == UNION {{z[at] + 1, z[at] + z[size] + 1} : z \in ToSet(Zones[m])}

Points == UNION {{[model |-> m, x |-> x, y |-> y] : x \in Edges(m, "x", "w"), y \in Edges(m, "y", "h")} : m \in Probed}

Resting(tips, s) == [f \in Fingers |->
    LET z == IF tips[f] = Lost THEN 0 ELSE Hit(Model, tips[f][1], tips[f][2])
    IN  CASE \E a \in s : a[1] = f -> z
          [] resting[f] # 0 /\ resting[f] = z /\ ~(Depth(z, tips[f]) > ReleaseMargin) -> z
          [] OTHER -> 0]

TouchPropsInit ==
    /\ TouchInit
    /\ resting = [f \in Fingers |-> 0]
    /\ point \in Points \cup {Nowhere}

\* A looked up point is a behaviour of its own, in which nothing happens.
TouchPropsNext ==
    /\ point = Nowhere /\ UNCHANGED point
    /\ \/ \E thumb \in Tips[Thumb], index \in Tips[Index] :
            Frame(<<thumb, index>>) /\ resting' = Resting(<<thumb, index>>, struck')
       \/ \E h \in Heights : SetPose(h) /\ UNCHANGED resting
       \/ EndSession /\ resting' = [f \in Fingers |-> 0]
       \/ LinkLost /\ UNCHANGED resting

TouchPropsSpec == TouchPropsInit /\ [][TouchPropsNext]_<<touchVars, point, resting>>

-----------------------------------------------------------------------------
\* The regions a point is in.
RegionsAt(m, x, y) ==
    {i \in DOMAIN Regions[m] : \E z \in DOMAIN Zones[m] :
        z \in Over(m, x, y) /\ Base(m, i) < z /\ z <= Base(m, i) + Len(Regions[m][i].shape.zones)}

\* Arithmetic finds what a search of all rectangles would: a point inside a
\* zone is on it, or on a zone that stands higher there; a point outside every
\* zone is on none.  Where two regions overlap there is no right answer.
PointsFindTheirZone ==
    point # Nowhere => LET m == point.model
                           z == Locate(m, point.x, point.y)
                       IN  Cardinality(RegionsAt(m, point.x, point.y)) <= 1 =>
                           /\ z # 0 => z \in Over(m, point.x, point.y)
                           /\ \A i \in Inside(m, point.x, point.y) :
                                  z # 0 /\ (i = z \/ Zones[m][z].raise > Zones[m][i].raise)

\* What is drawn at a place is struck there, however the device is turned.
DrawnWhereStruck ==
    point # Nowhere => \A yaw, tilt \in HalfAngles :
        LET t == SurfaceTransform(6 * Scale, 2 * Scale, [yaw |-> yaw, tilt |-> tilt, centre |-> <<Scale, -Scale, 0>>])
            p == <<(point.x % 7) * Scale, (point.y % 5) * Scale, Scale>>
        IN  ToLocal(t, LocalToWorld(t, p)) = p

\* From a place in the room to the control that is drawn there: back through
\* the surface's transform, and then by arithmetic over its regions.
TouchFindsWhatIsDrawn == PointsFindTheirZone /\ DrawnWhereStruck

\* Two controls of a device are told apart by their ids, by the message they
\* send, and by the LED that lights them.
ControlsAreToldApart ==
    point # Nowhere => \A i \in Over(point.model, point.x, point.y), j \in DOMAIN Zones[point.model] : LET a == Zones[point.model][i]
                                                                  b == Zones[point.model][j]
        IN  i # j => /\ a.id # b.id
                     /\ <<a.kind, a.channel, a.data>> # <<b.kind, b.channel, b.data>>
                     /\ a.lit => ZoneForIndex(point.model, a.id) = i

\* What the bridge has sounding is under a finger: nothing is left ringing by a
\* finger that was lost, slid away or lifted, by a device that moved from under
\* it, or by the end of the session.
SoundingIsHeld == sounding \cup {Zone(z).id : z \in lit} \subseteq {Zone(fingers[f].held).id : f \in {g \in Fingers : fingers[g].held # 0}}

\* A finger that has struck and stays within the band above the surface does
\* not strike again, however it trembles there.
JitterDoesNotRetrigger ==
    [][\A s \in struck' : resting[s[1]] # s[2]]_<<touchVars, resting>>

\* Taking hold of a knob does not make it jump, and a held one moves no
\* further than the hand.
KnobsFollowTheHand ==
    [][\A z \in Continuous : Abs(values'[z] - values[z]) <= (IF knob.holds' = z THEN moved'.by ELSE 0)]_touchVars

\* The bridge was told every value a knob has.
KnobsAreTold == told = values

\* "a control you are holding has to look held"
HeldLooksHeld == \A f \in Fingers : fingers[f].held # 0 => fingers[f].held \in lit

\* "They are not expected to overlap"
RegionsAreApart ==
    point # Nowhere => Cardinality(RegionsAt(point.model, point.x, point.y)) <= 1
=============================================================================
