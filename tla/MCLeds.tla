------------------------------- MODULE MCLeds --------------------------------
(***************************************************************************)
(* One device that the bridge opens for the session, with a pad and a      *)
(* button that send the same number; and every control of every model.     *)
(***************************************************************************)
EXTENDS LedsProps

MCSpec == <<[id |-> 1, kind |-> "note", data |-> 2], [id |-> 2, kind |-> "cc", data |-> 2]>>
Light(is, colour, channel) == [is |-> is, data1 |-> 2, data2 |-> colour, channel |-> channel]
MCMessages == {Light("note", 5, 0), Light("cc", 5, 1), Light("off", 0, 0),
               [is |-> "mode", data1 |-> Programmer],
               [is |-> "leds", body |-> <<Pulsing, 2, 7, Rgb, 1, 0, 64, 9, Static, 1>>]}
MCSamples == {<<Static, 5, 7>>, <<Flashing, 5, 7, 9>>, <<Pulsing, 0, 3>>, <<Rgb, 1, 2, 3, 4>>}
MCUnknown == {<<4, 1, 2>>, <<127>>}
=============================================================================
