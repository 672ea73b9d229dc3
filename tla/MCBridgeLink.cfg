\* Four attempts: one that is live, one it superseded, one that is adrift, and
\* one more to come.
CONSTANTS
    Attempts = {1, 2, 3, 4}
    MaxAdrift = 1
SPECIFICATION FairSpec
INVARIANTS NoOrphan GoodbyeIsFinal
PROPERTY LinkOpens
