\* Three clients for two slots: slots are reused, all slots are taken, the
\* accept loop runs past the array, and descriptors run out.
CONSTANTS
    c1 = c1
    Conns = {c1, c2, c3}
    Digits = {"d"}
    Junk = {"x"}
    MaxClients = 2
    ReplyLen = 2
    SndBuf = 1
    FdLimit = 3
    MaxAsk <- OneByteEach
    NoFd = NoFd
    Listener = Listener
SYMMETRY Symmetry
SPECIFICATION Spec
INVARIANTS
    TypeOK
    SlotOwnership
    NoLostWakeup
    ListenerKept
PROPERTIES
    HandlerProgress
CHECK_DEADLOCK FALSE
