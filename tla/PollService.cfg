\* Two clients served at once, one of which writes two bytes ahead, and a send
\* buffer smaller than a reply: partial sends, clients given up in the middle of
\* a reply, slots used again.  No symmetry, for liveness.
CONSTANTS
    c1 = c1
    Conns = {c1, c2}
    Digits = {"d"}
    Junk = {}
    MaxClients = 2
    ReplyLen = 2
    SndBuf = 1
    FdLimit = 2
    MaxAsk <- AskBound
    NoFd = NoFd
    Listener = Listener
SPECIFICATION FairSpec
INVARIANTS
    Alternation
    DroppedOnlyWhenDone
PROPERTIES
    ImplementsService
    DigitAnswered
    BacklogServed
    SlotReclaimed
CHECK_DEADLOCK FALSE
