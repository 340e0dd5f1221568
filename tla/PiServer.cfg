\* Two clients of each of the three blocking servers, one of which writes ahead.
\* A reply has two bytes and the send buffer one; the third accept fails.
CONSTANTS
    Kinds <- AllKinds
    c1 = c1
    c2 = c2
    Conns <- TwoConns
    Digits = {"d"}
    Junk = {"x"}
    ReplyLen = 2
    SndBuf = 1
    FdLimit = 2
    MaxAsk <- AskBound
SPECIFICATION FairSpec
INVARIANTS
    TypeOK
    AnswersExactly
    SessionEndsDone
PROPERTIES
    ImplementsService
    SessionAnswered
    AcceptedInTurn
CHECK_DEADLOCK FALSE
