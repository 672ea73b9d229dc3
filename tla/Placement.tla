----------------------------- MODULE Placement ------------------------------
(***************************************************************************)
(* Where a surface is in the room: the transform the renderer draws at     *)
(* (packages/layout/src/placement.ts) and its inverse, by which the        *)
(* detector finds fingertips (PokeDetector.toLocal), both written out by   *)
(* hand and expected to agree.                                             *)
(*                                                                         *)
(* Half angles with a sine and a cosine in fifths make every quaternion a  *)
(* vector of integers over 25, and a point in multiples of 625 keeps every *)
(* result an integer.                                                      *)
(***************************************************************************)
EXTENDS Integers, Sequences

\* <<sine, cosine>> of half an angle, in fifths: none, 74 degrees and others.
HalfAngles == {<<0, 5>>, <<3, 4>>, <<-3, 4>>, <<4, 3>>}
One == 25
Scale == 625

Plus(u, v) == <<u[1] + v[1], u[2] + v[2], u[3] + v[3]>>
Minus(u, v) == <<u[1] - v[1], u[2] - v[2], u[3] - v[3]>>

\* Hamilton product of quaternions <<x, y, z, w>>.
Multiply(a, b) ==
    << a[4] * b[1] + a[1] * b[4] + a[2] * b[3] - a[3] * b[2],
       a[4] * b[2] - a[1] * b[3] + a[2] * b[4] + a[3] * b[1],
       a[4] * b[3] + a[1] * b[2] - a[2] * b[1] + a[3] * b[4],
       a[4] * b[4] - a[1] * b[1] - a[2] * b[2] - a[3] * b[3] >>

\* v + 2 * (qv x (qv x v + w * v)), of a quaternion over 25.
Rotate(q, v) ==
    LET t == << q[2] * v[3] - q[3] * v[2] + q[4] * v[1],
                q[3] * v[1] - q[1] * v[3] + q[4] * v[2],
                q[1] * v[2] - q[2] * v[1] + q[4] * v[3] >>
        c == << q[2] * t[3] - q[3] * t[2], q[3] * t[1] - q[1] * t[3], q[1] * t[2] - q[2] * t[1] >>
    IN  Plus(v, << (2 * c[1]) \div Scale, (2 * c[2]) \div Scale, (2 * c[3]) \div Scale >>)

\* surfaceTransform(): yaw about Y, then tilt back about X; the origin is the
\* bottom left corner of a surface placed by its centre.
SurfaceTransform(width, height, pose) ==
    LET q == Multiply(<<0, pose.yaw[1], 0, pose.yaw[2]>>, <<-pose.tilt[1], 0, 0, pose.tilt[2]>>)
    IN  [quaternion |-> q,
         origin |-> Plus(pose.centre, Rotate(q, <<-(width \div 2), -(height \div 2), 0>>))]

LocalToWorld(t, v) == Plus(t.origin, Rotate(t.quaternion, v))

\* PokeDetector.toLocal(): by the conjugate.
ToLocal(t, v) ==
    LET q == t.quaternion IN Rotate(<<-q[1], -q[2], -q[3], q[4]>>, Minus(v, t.origin))
=============================================================================
