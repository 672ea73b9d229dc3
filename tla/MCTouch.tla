------------------------------ MODULE MCTouch -------------------------------
(***************************************************************************)
(* A Launchkey, and fingertips at the front of its first key, over the     *)
(* black key beside it and over its first fader, at heights that are in    *)
(* one and above another; then every edge of every zone of every model.    *)
(***************************************************************************)
EXTENDS TouchProps

At(x, y, z) == <<x * mm, y * mm, z * mm>>
MCTips == [f \in Fingers |->
    IF f = Thumb
    THEN {Lost, At(11, 60, 2), At(11, 60, 16), At(6, 170, 2), At(6, 170, 16)}
    ELSE {Lost, At(11, 60, 2), At(11, 60, 6), At(11, 60, 16), At(22, 60, 6), At(22, 60, 16),
          At(6, 170, 6), At(6, 170, 16)}]
MCProbed == Models \cup Panels
MCHeights == {0, 6 * mm}
=============================================================================
