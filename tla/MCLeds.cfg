CONSTANTS
    Devices = {1}
    Session = {1}
    Spec <- MCSpec
    Messages <- MCMessages
    Touched = {1}
    Fade = 2
    MaxQueue = 3
    MaxActs = 4
    Samples <- MCSamples
    Unknown <- MCUnknown
SPECIFICATION PropsSpec
INVARIANTS LightsAgree DrawnIsCurrent SpeaksAsHardware
CHECK_DEADLOCK FALSE
