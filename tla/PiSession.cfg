\* Two clients of pi_server.c, which ask for one or two decimals at a time.  A
\* reply has three bytes and fits the send buffer.
CONSTANTS
    Kinds = {"unix"}
    c1 = c1
    c2 = c2
    Conns <- TwoConns
    Digits <- TwoDigits
    Junk <- OtherBytes
    ReplyLen = 3
    SndBuf = 3
    FdLimit = 3
    MaxAsk <- AskBound
    MaxCount = 2
    ClientBuf = 3
SPECIFICATION SessionSpec
INVARIANTS
    ShowsDecimals
    LockStep
PROPERTIES
    CommandEnds
CHECK_DEADLOCK FALSE
