\* Two devices, two hands, three frames and three of what the user, the bridge
\* and drift do: enough for a drop, its anchor, and a removal, a pin or a second
\* drop between any two of the frames that answer it.
CONSTANTS
    MaxId = 2
    Spots = {0, 2}
    Reach = 1
    MaxActs = 3
    MaxFrames = 3
SPECIFICATION RoomSpec
INVARIANTS PosesAgree
PROPERTIES HandsKeepTheirDevice DropsAreAnswered
CHECK_DEADLOCK FALSE
