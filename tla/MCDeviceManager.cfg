CONSTANTS
    Ids = {d1, d2}
    Models <- MCModels
    Hardware <- MCHardware
    PortsOf <- MCPortsOf
    DawPort <- MCDawPort
    Notes = {n1}
    Switches = {s1}
    Limit = 1
    MaxInstances = 3
SPECIFICATION FairSpec
INVARIANTS SoundingIsTracked EmulatorAgreesWithTracker OnlyInterruptedAddsLeak
