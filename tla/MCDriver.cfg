\* Two devices, and connections enough for a dead one, its successor and one
\* that waits to be accepted.
CONSTANTS
    Devices = {"x", "pro"}
    Ports = {1}
    Handles = {1, 2}
    Conns = {1, 2}
    MaxWire = 2
SPECIFICATION FairSpec
INVARIANTS BooksAreKept PresenceIsTrue
PROPERTIES LinkComesBack
