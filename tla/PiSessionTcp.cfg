\* Two clients of pi_server_tcp.c and pi_server_tcp_threaded.c: a reply has five
\* bytes, the client expects three, and the send buffer has room for four.
CONSTANTS
    Kinds = {"tcp", "threaded"}
    c1 = c1
    c2 = c2
    Conns <- TwoConns
    Digits <- TwoDigits
    Junk <- OtherBytes
    ReplyLen = 5
    SndBuf = 4
    FdLimit = 3
    MaxAsk <- AskBound
    MaxCount = 2
    ClientBuf = 3
SPECIFICATION SessionSpec
INVARIANTS
    NeverBothWait
PROPERTIES
    CommandEnds
CHECK_DEADLOCK FALSE
