CONSTANTS
    Clients = {c1, c2}
    surface = surface
    extra = extra
    Ids = {surface, extra}
    Models <- MCModels
    Hardware <- MCHardware
    PortsOf <- MCPortsOf
    DawPort <- MCDawPort
    Notes = {n1}
    Switches = {}
    Limit = 2
    MaxInstances = 4
    Session <- MCSession
    UdpEnabled = FALSE
SPECIFICATION BridgeFairSpec
INVARIANTS SilentWhenAlone RosterIsCurrent
PROPERTIES AbsenceUnplugs
CHECK_DEADLOCK FALSE
