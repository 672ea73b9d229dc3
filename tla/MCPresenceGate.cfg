CONSTANT Clients = {c1, c2, c3, c4, c5}
SPECIFICATION FairSpec
INVARIANTS NeverClosesAnOpening
PROPERTIES SessionSpec
CHECK_DEADLOCK FALSE
