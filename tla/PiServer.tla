------------------------------- MODULE PiServer --------------------------------
(***************************************************************************)
(* The PIGen servers of src/06_ipc that block in recv and send:            *)
(* pi_server.c ("unix") and pi_server_tcp.c ("tcp") serve one connection   *)
(* after the other, pi_server_tcp_threaded.c ("threaded") gives each a     *)
(* thread of its own.  All three run the same loop on a connection: receive*)
(* a byte, ignore it unless it is a digit, send the reply.  They look for  *)
(* recv's 0 and for no other failure of any call.                          *)
(*                                                                         *)
(* A server-side descriptor is the connection itself: none is ever closed. *)
(***************************************************************************)
EXTENDS Integers, FiniteSets, Sequences, SequencesExt

CONSTANTS
    Kinds,          \* the programs that may be run, of the three above
    Conns,          \* the connections clients may open
    Digits,         \* request bytes '0'..'9'
    Junk,           \* all other request bytes
    ReplyLen,       \* bytes of a reply: 3 for "unix", 5 for the others
    SndBuf,         \* bytes the kernel holds for a client that does not read
    FdLimit,        \* connections the process may hold open (RLIMIT_NOFILE)
    MaxAsk          \* bound of the model: bytes each client writes at most

ASSUME PiAssumption ==
    /\ Kinds \subseteq {"unix", "tcp", "threaded"}
    /\ ReplyLen \in Nat \ {0}
    /\ SndBuf \in Nat \ {0}
    /\ FdLimit \in Nat
    /\ MaxAsk \in [Conns -> Nat]
    /\ Digits \cap Junk = {}
    /\ IsFiniteSet(Conns)

Request == Digits \cup Junk

ReplyByte == Digits \X (1..ReplyLen)

\* What is sent for digit d.
Reply(d) == [k \in 1..ReplyLen |-> <<d, k>>]

VARIABLES
    kind,       \* the program that runs
    status,     \* "running", "exited" (SIGINT) or "killed" (SIGPIPE)
    spinning,   \* a handler loops on the descriptor -1
    handler,    \* [Conns -> where the loop is, and what send has left]
    backlog,    \* kernel: connections waiting to be accepted, in order
    open,       \* kernel: the connections accept returned
    asked,      \* bytes each client has written
    taken,      \* how many of them the server has received
    sent,       \* bytes the server has sent to each client
    got,        \* how many of them the client has read
    fin,        \* clients that closed their sending side
    rst,        \* clients that reset the connection
    told        \* connections whose ECONNRESET was reported to the server

process == <<kind, status, spinning>>
clients == <<asked, got, fin, rst>>
vars == <<kind, status, spinning, handler, backlog, open, asked, taken, sent,
          got, fin, rst, told>>

Init ==
    /\ kind \in Kinds
    /\ status = "running"
    /\ spinning = FALSE
    /\ handler = [c \in Conns |-> [pc |-> "none", rest |-> <<>>]]
    /\ backlog = <<>>
    /\ open = {}
    /\ asked = [c \in Conns |-> <<>>]
    /\ taken = [c \in Conns |-> 0]
    /\ sent = [c \in Conns |-> <<>>]
    /\ got = [c \in Conns |-> 0]
    /\ fin = {}
    /\ rst = {}
    /\ told = {}

--------------------------------------------------------------------------------
(* main: the accept loop *)

Active(c) == handler[c].pc \in {"recv", "send"}

\* Mutant: the threaded server, too, waits for the session to end.
AtAccept_AfterSession(k) == ~spinning /\ \A c \in Conns : ~Active(c)

\* Main's thread is at accept: it does not serve a connection itself.
AtAccept(k) == k = "threaded" \/ (~spinning /\ \A c \in Conns : ~Active(c))

MayAccept ==
    /\ status = "running"
    /\ AtAccept(kind)
    /\ backlog # <<>>
    /\ Cardinality(open) < FdLimit
    /\ backlog' = Tail(backlog)
    /\ open' = open \cup {Head(backlog)}
    /\ UNCHANGED <<process, taken, sent, told, clients>>

\* The connection gets its handler.
Accept ==
    /\ MayAccept
    /\ handler' = [handler EXCEPT ![Head(backlog)].pc = "recv"]

\* pthread_create fails, which is ignored: the connection stays open, unserved.
AcceptUnserved ==
    /\ kind = "threaded"
    /\ MayAccept
    /\ UNCHANGED handler

\* accept reserves a descriptor before it waits for a connection.  None is
\* left, and none will ever be: it returns -1 at once, and the loop receives
\* and sends on that, without end.
AcceptFails ==
    /\ status = "running"
    /\ AtAccept(kind)
    /\ Cardinality(open) >= FdLimit
    /\ ~spinning
    /\ spinning' = TRUE
    /\ UNCHANGED <<kind, status, handler, backlog, open, taken, sent, told, clients>>

\* cleanup, or the signal's default action.
Interrupt ==
    /\ status = "running"
    /\ status' = "exited"
    /\ UNCHANGED <<kind, spinning, handler, backlog, open, taken, sent, told, clients>>

--------------------------------------------------------------------------------
(* The loop on a connection *)

Room(c) == SndBuf - (Len(sent[c]) - got[c])

HasByte(c) == taken[c] < Len(asked[c])

At(c, pc) == status = "running" /\ handler[c].pc = pc

\* Mutant: does not take the byte off the stream.
TakenNext_Peek(c) == taken

TakenNext(c) == [taken EXCEPT ![c] = @ + 1]

\* Mutant: the comparison leaves a digit out.
IsDigit_TooFew(b) == b \in Digits \ {CHOOSE d \in Digits : TRUE}

IsDigit(b) == b \in Digits

RecvByte(c) ==
    LET b == asked[c][taken[c] + 1]
    IN  /\ At(c, "recv")
        /\ HasByte(c)
        /\ taken' = TakenNext(c)
        /\ handler' = IF IsDigit(b)
                      THEN [handler EXCEPT ![c] = [pc |-> "send", rest |-> Reply(b)]]
                      ELSE handler
        /\ UNCHANGED <<process, backlog, open, sent, told, clients>>

\* Mutant: the end of the stream overtakes what was written before it.
StreamEnds_FinFirst(c) == c \in fin

\* recv returns 0: the peer closed its side, or its reset was reported before.
StreamEnds(c) == ~HasByte(c) /\ c \in fin \cup told

RecvEof(c) ==
    /\ At(c, "recv")
    /\ StreamEnds(c)
    /\ handler' = [handler EXCEPT ![c].pc = "over"]
    /\ UNCHANGED <<process, backlog, open, taken, sent, told, clients>>

\* recv returns -1 and leaves requested_digit as it was.
RecvFails(c) == At(c, "recv") /\ ~HasByte(c) /\ c \in rst \ (fin \cup told)

\* It happens to hold no digit: the loop goes on.
RecvReset(c) ==
    /\ RecvFails(c)
    /\ told' = told \cup {c}
    /\ UNCHANGED <<process, handler, backlog, open, taken, sent, clients>>

\* It happens to hold a digit: the send that follows raises SIGPIPE.
RecvResetKills(c) ==
    /\ RecvFails(c)
    /\ status' = "killed"
    /\ told' = told \cup {c}
    /\ UNCHANGED <<kind, spinning, handler, backlog, open, taken, sent, clients>>

\* Mutant: waits until the whole reply fits.
Chunk_Whole(c) ==
    LET n == Len(handler[c].rest)
    IN  IF n <= Room(c) THEN n ELSE 0

\* The kernel takes as much of the reply as there is room for.  (On a Unix
\* socket it waits for room for all of it, which is one of the orders in which
\* the steps below and the client's can come.)
Chunk(c) ==
    LET n == Len(handler[c].rest)
    IN  IF n <= Room(c) THEN n ELSE Room(c)

\* Mutant: sends the reply from its start again.
Unsent_Same(r, n) == IF n = Len(r) THEN <<>> ELSE r

Unsent(r, n) == SubSeq(r, n + 1, Len(r))

\* send blocks until all of the reply is handed over.
SendSome(c) ==
    LET r == handler[c].rest
        n == Chunk(c)
    IN  /\ At(c, "send")
        /\ c \notin rst
        /\ n > 0
        /\ sent' = [sent EXCEPT ![c] = @ \o SubSeq(r, 1, n)]
        /\ handler' = [handler EXCEPT ![c] =
              [pc |-> IF Unsent(r, n) = <<>> THEN "recv" ELSE "send",
               rest |-> Unsent(r, n)]]
        /\ UNCHANGED <<process, backlog, open, taken, told, clients>>

Unsuccessful(c) == At(c, "send") /\ c \in rst

NothingSentYet(c) == Len(handler[c].rest) = ReplyLen

\* Mutant: what is left of the reply is kept.
SendGivesUp_Keeps(c) == handler' = [handler EXCEPT ![c].pc = "recv"]

SendGivesUp(c) == handler' = [handler EXCEPT ![c] = [pc |-> "recv", rest |-> <<>>]]

\* The reset comes in the middle of the reply: send returns a short count.
SendInterrupted(c) ==
    /\ Unsuccessful(c)
    /\ ~NothingSentYet(c)
    /\ SendGivesUp(c)
    /\ UNCHANGED <<process, backlog, open, taken, sent, told, clients>>

\* A Unix socket, or a reset after the end of the stream or after it was
\* reported, is a broken pipe.
BrokenPipe(c) == kind = "unix" \/ c \in fin \cup told

\* send returns -1, which is ignored.
SendReset(c) ==
    /\ Unsuccessful(c)
    /\ NothingSentYet(c)
    /\ ~BrokenPipe(c)
    /\ SendGivesUp(c)
    /\ told' = told \cup {c}
    /\ UNCHANGED <<process, backlog, open, taken, sent, clients>>

\* send raises SIGPIPE, which ends the process with all its connections.
SendKills(c) ==
    /\ Unsuccessful(c)
    /\ NothingSentYet(c)
    /\ BrokenPipe(c)
    /\ status' = "killed"
    /\ UNCHANGED <<kind, spinning, handler, backlog, open, taken, sent, told, clients>>

Handler(c) ==
    \/ RecvByte(c)
    \/ RecvEof(c)
    \/ RecvReset(c)
    \/ RecvResetKills(c)
    \/ SendSome(c)
    \/ SendInterrupted(c)
    \/ SendReset(c)
    \/ SendKills(c)

ServerStep ==
    \/ Accept
    \/ AcceptUnserved
    \/ AcceptFails
    \/ Interrupt
    \/ \E c \in Conns : Handler(c)

--------------------------------------------------------------------------------
(* The clients: any PIGen client, well-behaved or not. *)

server == <<kind, status, spinning, handler, taken, sent, told>>

Connected(c) == c \in open \/ c \in Range(backlog)

Connect(c) ==
    /\ status = "running"
    /\ ~Connected(c)
    /\ backlog' = Append(backlog, c)
    /\ UNCHANGED <<server, open, clients>>

ClientAsk(c, b) ==
    /\ Connected(c)
    /\ c \notin fin \cup rst
    /\ asked' = [asked EXCEPT ![c] = Append(@, b)]
    /\ UNCHANGED <<server, backlog, open, got, fin, rst>>

\* The client reads up to the n-th byte it was sent.
ClientRead(c, n) ==
    /\ c \notin rst
    /\ n \in (got[c] + 1)..Len(sent[c])
    /\ got' = [got EXCEPT ![c] = n]
    /\ UNCHANGED <<server, backlog, open, asked, fin, rst>>

ClientClose(c) ==
    /\ Connected(c)
    /\ c \notin fin \cup rst
    /\ fin' = fin \cup {c}
    /\ UNCHANGED <<server, backlog, open, asked, got, rst>>

ClientReset(c) ==
    /\ Connected(c)
    /\ c \notin rst
    /\ rst' = rst \cup {c}
    /\ UNCHANGED <<server, backlog, open, asked, got, fin>>

ClientReads(c) == \E n \in 1..Len(sent[c]) : ClientRead(c, n)

ClientStep(c) ==
    /\ status = "running"
    /\ \/ Connect(c)
       \/ \E b \in Request : Len(asked[c]) < MaxAsk[c] /\ ClientAsk(c, b)
       \/ ClientReads(c)
       \/ ClientClose(c)
       \/ ClientReset(c)

Next == ServerStep \/ \E c \in Conns : ClientStep(c)

Spec == Init /\ [][Next]_vars

(***************************************************************************)
(* Fairness.  The scheduler runs every thread that can go on: main's, and  *)
(* each handler (for the servers without threads, the same thread).  A     *)
(* client that does not reset the connection reads what it was sent.       *)
(***************************************************************************)
Fairness ==
    /\ WF_vars(Accept \/ AcceptUnserved)
    /\ \A c \in Conns : WF_vars(Handler(c))
    /\ \A c \in Conns : WF_vars(status = "running" /\ ClientReads(c))

FairSpec == Spec /\ Fairness

--------------------------------------------------------------------------------
(* Properties *)

\* The ends of replies.
RestsOf(d) == {SubSeq(Reply(d), k, ReplyLen) : k \in 1..(ReplyLen + 1)}

Rests == UNION {RestsOf(d) : d \in Digits}

Places == {"none", "recv", "send", "over"}

HandlerState == [pc : Places, rest : Rests \cup {<<>>}]

(***************************************************************************)
(* Who is served was accepted, and who waits was not and waits once.       *)
(***************************************************************************)
ServedOpen == \A c \in Conns : handler[c].pc # "none" => c \in open

BacklogFresh ==
    \A k \in 1..Len(backlog) :
        /\ backlog[k] \notin open
        /\ \A j \in 1..Len(backlog) : backlog[j] = backlog[k] => j = k

(***************************************************************************)
(* The type of the state; a handler sends as long as, and only as long as, *)
(* something of its reply is left.                                         *)
(***************************************************************************)
TypeOK ==
    /\ kind \in Kinds
    /\ status \in {"running", "exited", "killed"}
    /\ spinning \in BOOLEAN
    /\ handler \in [Conns -> HandlerState]
    /\ \A c \in Conns : handler[c].rest # <<>> <=> handler[c].pc = "send"
    /\ backlog \in Seq(Conns)
    /\ open \in SUBSET Conns
    /\ asked \in [Conns -> Seq(Request)]
    /\ taken \in [Conns -> Nat]
    /\ sent \in [Conns -> Seq(ReplyByte)]
    /\ got \in [Conns -> Nat]
    /\ fin \in SUBSET Conns
    /\ rst \in SUBSET Conns
    /\ told \in SUBSET rst

\* The connections nothing will ever be sent on again.
GivenUp ==
    {c \in open : status # "running" \/ c \in rst \/ handler[c].pc = "over"}

Owed == [c \in Conns |-> IF c \in GivenUp THEN <<>> ELSE handler[c].rest]

Service == INSTANCE PiService WITH
    owed <- Owed,
    out <- sent,
    ended <- GivenUp

(***************************************************************************)
(* Each of the servers implements the PIGen service although it ignores    *)
(* every failure of recv, send and pthread_create: a reply that is cut     *)
(* short is never followed by another, and requested_digit, when it holds  *)
(* an old byte, is never answered a second time.                           *)
(***************************************************************************)
ImplementsService == Service!Spec

(***************************************************************************)
(* What a client has been sent, and is owed, is exactly the replies to the *)
(* digits the server took from it, in order.                               *)
(***************************************************************************)
AnswersExactly == Service!AnswersExactly

Answered(c) == taken[c] = Len(asked[c]) /\ sent[c] = Service!Due(c)

(***************************************************************************)
(* A session ends (lines 46, 34 and 17: recv returned 0) only after every  *)
(* digit the client wrote before it closed its side was answered in full.  *)
(***************************************************************************)
SessionEndsDone ==
    \A c \in Conns : handler[c].pc = "over" => c \in rst \/ Answered(c)

(***************************************************************************)
(* Once a session has begun every digit is answered, however slowly the    *)
(* client reads and whatever the others do, unless one of them brings the  *)
(* process down.                                                           *)
(***************************************************************************)
SessionAnswered ==
    \A c \in Conns : Active(c) ~> Answered(c) \/ c \in rst \/ status # "running"

(***************************************************************************)
(* A waiting client is accepted as long as descriptors last: by the        *)
(* threaded server in any case, by the others if no session lasts forever. *)
(***************************************************************************)
Waiting(c) == c \in Range(backlog)

Accepted(c) == c \in open \/ Cardinality(open) >= FdLimit \/ status # "running"

AcceptedInTurn ==
    kind = "threaded" \/ (\A d \in Conns : Active(d) ~> ~Active(d))
        => \A c \in Conns : Waiting(c) ~> Accepted(c)
================================================================================
