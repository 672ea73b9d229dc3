CONSTANTS
    Model = "launchkey-mk3-49"
    Tips <- MCTips
    Heights <- MCHeights
    Probed <- MCProbed
    Refractory = 2
    Travel = 4000
    MaxFrames = 4
    MaxMoves = 2
SPECIFICATION TouchPropsSpec
INVARIANTS TouchFindsWhatIsDrawn SoundingIsHeld
PROPERTIES JitterDoesNotRetrigger
CHECK_DEADLOCK FALSE
