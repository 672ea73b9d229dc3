CONSTANTS
    Alphabet = {1, 2}
    CodeLength = 2
    Own <- MCOwn
    Strangers <- MCStrangers
    Ttl = 3
    Window = 2
    MaxRequests = 2
    MaxEntries = 1
    Lookups = {l1, l2}
SYMMETRY MCSymmetry
CONSTRAINT MCBound
SPECIFICATION PropsSpec
INVARIANTS FoundWhileRunning GoneIsForgotten PanelKeepsTheCode
CHECK_DEADLOCK FALSE
