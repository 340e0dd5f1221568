\* Three threads of three rounds each, in all five programs.
CONSTANTS
    N = 3
    Rounds = 3
    Kinds <- AllKinds
SPECIFICATION Spec
INVARIANTS
    TotalExact
    RacyBounds
CHECK_DEADLOCK FALSE
