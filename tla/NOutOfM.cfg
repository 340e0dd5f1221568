\* Two out of four threads, with each of the three programs.
CONSTANTS
    Kinds <- AllKinds
    Threads = {t1, t2, t3, t4}
    N = 2
SPECIFICATION FairSpec
INVARIANTS
    CountExact
    SignalComes
PROPERTIES
    ImplementsThreshold
    ProgramEnds
CHECK_DEADLOCK FALSE
