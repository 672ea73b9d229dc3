\* Two attempts of one headset or of two, and peer connections for a session and
\* its replacement.
CONSTANTS
    Sessions = {1, 2}
    Pcs = {1, 2, 3}
    MaxPerCode = 2
    BadOffers = {}
SPECIFICATION FairSpec
INVARIANTS NoPeerIsOrphaned AnswerIsCurrent
PROPERTIES OfferIsAnswered
