CONSTANTS
    MaxPayload = 5  MaxSysEx = 4  PacketBytes = 1  Room = 8  Port = 1
    DeviceCount = 2  PortsPerDevice = 3
    Songs <- MCSongs  Notes <- MCNotes
    MaxSends = 3  Reads = {3}  MaxConns = 2
    Addresses = {"a"}  MaxActs = 4
    Byte = 8  Capacity = 20  MaxDetail = 2  MaxText = 3  MaxTextBytes = 4
    MaxNameBytes = 3  NameBytes = {1, 2, 3}  NameStart = {1, 2}  Replacement <- MCReplacement
    Entries <- MCEntries  Texts <- MCTexts  Names <- MCNames
    MaxDevices = 2  MaxEvents = 1  Clients = {"p"}  MaxPackets = 3  MaxTime = 1
SPECIFICATION HostSpec
INVARIANTS DriverHearsTheBridge BridgeHearsTheDriver SongsArriveWhole RemovedIsGone OffStaysOff CertificateFits
INVARIANTS BodiesArriveInPart LossIsCounted
\* Each part comes to its bound.
CHECK_DEADLOCK FALSE
