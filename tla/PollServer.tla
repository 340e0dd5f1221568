------------------------------ MODULE PollServer -------------------------------
(***************************************************************************)
(* The poll()-based PIGen server, src/0x_parallel_io/poll.c.               *)
(*                                                                         *)
(* One thread serves up to MaxClients connections: it sleeps in poll(),    *)
(* accepts at most one connection, then walks over the client slots and    *)
(* runs client_handler for each slot poll() reported.  The kernel and the  *)
(* clients act between any two steps of the server, in particular between  *)
(* poll() and the recv() or send() that relies on its answer.              *)
(*                                                                         *)
(* Descriptors: a connection's server-side descriptor is the connection    *)
(* itself (descriptors are never closed, so none is ever reused).          *)
(***************************************************************************)
EXTENDS Integers, FiniteSets, Sequences, SequencesExt

CONSTANTS
    Conns,          \* the connections clients may open
    Digits,         \* request bytes '0'..'9'
    Junk,           \* all other request bytes
    MaxClients,     \* MAX_CLIENTS, 10 in the code
    ReplyLen,       \* bytes of a reply, 5 in the code
    SndBuf,         \* bytes the kernel holds for a client that does not read
    FdLimit,        \* connections the process may hold open (RLIMIT_NOFILE)
    MaxAsk,         \* bound of the model: bytes each client writes at most
    NoFd,           \* the -1 of a free slot
    Listener        \* sfd

ASSUME PollAssumption ==
    /\ MaxClients \in Nat \ {0}
    /\ ReplyLen \in Nat \ {0}
    /\ SndBuf \in Nat \ {0}
    /\ FdLimit \in Nat
    /\ MaxAsk \in [Conns -> Nat]
    /\ NoFd \notin Conns
    /\ Listener \notin Conns
    /\ NoFd # Listener
    /\ Digits \cap Junk = {}
    /\ IsFiniteSet(Conns)

Request == Digits \cup Junk

Slots == 0..(MaxClients - 1)

(***************************************************************************)
(* pollfds has MaxClients + 1 entries, the last one for the listener;      *)
(* client_states has MaxClients, but the accept loop indexes it up to      *)
(* MaxClients: the entry past the end is memory the program does not own.  *)
(***************************************************************************)
Phantom == MaxClients

Entries == 0..MaxClients

ReplyByte == Digits \X (1..ReplyLen)

\* The five characters client_handler writes for digit d.
Reply(d) == [k \in 1..ReplyLen |-> <<d, k>>]

VARIABLES
    pollfds,        \* [Entries -> struct pollfd]
    client_states,  \* [Entries -> struct client_state]
    pc,             \* where the thread is in main's loop
    slot,           \* the loop variable of the scan
    backlog,        \* kernel: connections waiting to be accepted, in order
    open,           \* kernel: descriptors accept4 returned
    asked,          \* bytes each client has written
    taken,          \* how many of them the server has received
    sent,           \* bytes the server has sent to each client
    got,            \* how many of them the client has read
    fin,            \* clients that closed their sending side
    rst             \* clients that reset the connection

server == <<pollfds, client_states, pc, slot>>
clients == <<asked, got, fin, rst>>
kernel == <<backlog, open, taken, sent>>
vars == <<pollfds, client_states, pc, slot, backlog, open, asked, taken, sent,
          got, fin, rst>>

--------------------------------------------------------------------------------
(* What the kernel tells the server about a descriptor. *)

Room(c) == SndBuf - (Len(sent[c]) - got[c])

Readable(c) == taken[c] < Len(asked[c]) \/ c \in fin \/ c \in rst

Writable(c) == Room(c) > 0 \/ c \in rst

\* The events that hold of descriptor fd.
Ready(fd) ==
    IF fd = NoFd THEN {}
    ELSE IF fd = Listener THEN {e \in {"POLLIN"} : backlog # <<>>}
    ELSE      {e \in {"POLLIN"} : Readable(fd)}
         \cup {e \in {"POLLOUT"} : Writable(fd)}
         \cup {e \in {"POLLERR"} : fd \in rst}

\* What poll() leaves in revents; an error is reported whether asked or not.
Revents(p) == Ready(p.fd) \cap (p.events \cup {"POLLERR"})

--------------------------------------------------------------------------------
(* client_handler, in the order of its statements. *)

CanRecv(s) == s.read_available /\ s.awaiting_read

CanSend(s) == s.write_available /\ s.n_pending_outgoing_bytes > 0

\* Mutant: counts the terminating zero of the reply.
AfterByte_Zero(s, b) ==
    IF b \in Digits
    THEN [s EXCEPT !.read_available = FALSE,
                   !.pending_outgoing_bytes = Reply(b),
                   !.outgoing_bytes_offset = 0,
                   !.n_pending_outgoing_bytes = ReplyLen + 1,
                   !.awaiting_read = FALSE]
    ELSE [s EXCEPT !.read_available = FALSE]

\* Mutant: goes on reading requests in the middle of a reply.
AfterByte_StillReading(s, b) ==
    IF b \in Digits
    THEN [s EXCEPT !.read_available = FALSE,
                   !.pending_outgoing_bytes = Reply(b),
                   !.outgoing_bytes_offset = 0,
                   !.n_pending_outgoing_bytes = ReplyLen]
    ELSE [s EXCEPT !.read_available = FALSE]

\* recv returned byte b: a digit sets up its reply, anything else is ignored.
AfterByte(s, b) ==
    IF b \in Digits
    THEN [s EXCEPT !.read_available = FALSE,
                   !.pending_outgoing_bytes = Reply(b),
                   !.outgoing_bytes_offset = 0,
                   !.n_pending_outgoing_bytes = ReplyLen,
                   !.awaiting_read = FALSE]
    ELSE [s EXCEPT !.read_available = FALSE]

\* send accepted n bytes; n = 0 stands for EAGAIN.
AfterSend(s, n) ==
    LET left == s.n_pending_outgoing_bytes - n
        t == [s EXCEPT !.write_available = FALSE,
                       !.n_pending_outgoing_bytes = left]
    IN  IF n = 0 THEN t
        ELSE IF left = 0
        THEN [t EXCEPT !.outgoing_bytes_offset = 0, !.awaiting_read = TRUE]
        ELSE [t EXCEPT !.outgoing_bytes_offset = @ + n]

\* The bytes a send of n bytes takes from the buffer.
SendChunk(s, n) ==
    SubSeq(s.pending_outgoing_bytes, s.outgoing_bytes_offset + 1,
           s.outgoing_bytes_offset + n)

\* The possible results of a send of s on c when the peer is alive.
Accepted(c, s) ==
    IF Room(c) <= 0 THEN {0}
    ELSE {n \in 1..s.n_pending_outgoing_bytes : n <= Room(c)}

--------------------------------------------------------------------------------
(* main *)

FreeState ==
    [in_use |-> FALSE, read_available |-> FALSE, write_available |-> FALSE,
     awaiting_read |-> FALSE, outgoing_bytes_offset |-> 0,
     n_pending_outgoing_bytes |-> 0, pending_outgoing_bytes |-> <<>>]

\* The value in_use happens to have in the memory past the array is open.
Init ==
    /\ pollfds = [i \in Entries |->
          IF i = MaxClients
          THEN [fd |-> Listener, events |-> {"POLLIN"}, revents |-> {}]
          ELSE [fd |-> NoFd, events |-> {}, revents |-> {}]]
    /\ \E garbage \in BOOLEAN :
          client_states = [i \in Entries |->
             IF i = Phantom THEN [FreeState EXCEPT !.in_use = garbage]
             ELSE FreeState]
    /\ pc = "poll"
    /\ slot = 0
    /\ backlog = <<>>
    /\ open = {}
    /\ asked = [c \in Conns |-> <<>>]
    /\ taken = [c \in Conns |-> 0]
    /\ sent = [c \in Conns |-> <<>>]
    /\ got = [c \in Conns |-> 0]
    /\ fin = {}
    /\ rst = {}

\* Mutant: looks at the wrong entry for the listener's events.
Poll_WrongEntry ==
    /\ pc = "poll"
    /\ \E i \in Entries : Revents(pollfds[i]) # {}
    /\ pollfds' = [i \in Entries |->
          [pollfds[i] EXCEPT !.revents = Revents(pollfds[i])]]
    /\ pc' = IF "POLLIN" \in Revents(pollfds[MaxClients - 1]) THEN "accept"
             ELSE "scan"
    /\ UNCHANGED <<client_states, slot, kernel, clients>>

\* poll() with no timeout: it returns once some entry has an event.
Poll ==
    /\ pc = "poll"
    /\ \E i \in Entries : Revents(pollfds[i]) # {}
    /\ pollfds' = [i \in Entries |->
          [pollfds[i] EXCEPT !.revents = Revents(pollfds[i])]]
    /\ pc' = IF "POLLIN" \in Revents(pollfds[MaxClients]) THEN "accept"
             ELSE "scan"
    /\ UNCHANGED <<client_states, slot, kernel, clients>>

\* What the accept loop takes for a free slot.
Unused == {i \in Entries : ~client_states[i].in_use}

\* Mutant: searches the entries from the end.
FirstUnused_Last(i) == i \in Unused /\ \A j \in Unused : i >= j

FirstUnused(i) == i \in Unused /\ \A j \in Unused : i <= j

\* Mutant: does not forget the last client's unsent bytes.
Fresh_StalePending(s) ==
    [s EXCEPT !.in_use = TRUE,
              !.awaiting_read = TRUE,
              !.read_available = FALSE,
              !.write_available = FALSE]

\* What a new client's entry is set to; the rest is the last client's.
Fresh(s) ==
    [s EXCEPT !.in_use = TRUE,
              !.awaiting_read = TRUE,
              !.n_pending_outgoing_bytes = 0,
              !.read_available = FALSE,
              !.write_available = FALSE]

\* accept4 fails: nothing to accept (EAGAIN) or no descriptor left (EMFILE).
AcceptFails ==
    /\ pc = "accept"
    /\ backlog = <<>> \/ Cardinality(open) >= FdLimit
    /\ pollfds' = [pollfds EXCEPT ![MaxClients].revents = {}]
    /\ pc' = "scan"
    /\ UNCHANGED <<client_states, slot, kernel, clients>>

\* accept4 returns a connection and the first unused entry receives it.
AcceptInto(i) ==
    /\ pc = "accept"
    /\ backlog # <<>>
    /\ Cardinality(open) < FdLimit
    /\ FirstUnused(i)
    /\ client_states' = [client_states EXCEPT ![i] = Fresh(@)]
    /\ pollfds' = [[pollfds EXCEPT ![i].fd = Head(backlog)]
                            EXCEPT ![MaxClients].revents = {}]
    /\ backlog' = Tail(backlog)
    /\ open' = open \cup {Head(backlog)}
    /\ pc' = "scan"
    /\ UNCHANGED <<slot, taken, sent, clients>>

\* accept4 returns a connection and no entry is left for it.
AcceptNoSlot ==
    /\ pc = "accept"
    /\ backlog # <<>>
    /\ Cardinality(open) < FdLimit
    /\ Unused = {}
    /\ pollfds' = [pollfds EXCEPT ![MaxClients].revents = {}]
    /\ backlog' = Tail(backlog)
    /\ open' = open \cup {Head(backlog)}
    /\ pc' = "scan"
    /\ UNCHANGED <<client_states, slot, taken, sent, clients>>

--------------------------------------------------------------------------------
(* The scan of the slots: one step per slot. *)

\* The end of an iteration of the scan.
Advance ==
    IF slot = MaxClients - 1 THEN pc' = "poll" /\ slot' = 0
    ELSE pc' = "scan" /\ slot' = slot + 1

\* Mutant: never asks for POLLOUT.
Interest_InOnly(s) == {e \in {"POLLIN"} : s.awaiting_read}

\* Mutant: always asks for both events.
Interest_Both(s) == {"POLLIN", "POLLOUT"}

Interest(s) ==
         {e \in {"POLLOUT"} : s.n_pending_outgoing_bytes > 0}
    \cup {e \in {"POLLIN"} : s.awaiting_read}

\* Slot i goes on with descriptor fd and state s.
Update(i, fd, s) ==
    /\ client_states' = [client_states EXCEPT ![i] = s]
    /\ pollfds' = [pollfds EXCEPT
          ![i] = [fd |-> fd, events |-> Interest(s), revents |-> {}]]
    /\ Advance

\* Mutant: takes a partial send for an error.
Keep_PartialFails(i, s) ==
    IF s.outgoing_bytes_offset > 0
    THEN Update(i, NoFd, [s EXCEPT !.in_use = FALSE])
    ELSE Update(i, pollfds[i].fd, s)

\* client_handler returned 0.
Keep(i, s) == Update(i, pollfds[i].fd, s)

\* Mutant: frees the slot and leaves its descriptor to poll().
Drop_KeepFd(i, s) == Update(i, pollfds[i].fd, [s EXCEPT !.in_use = FALSE])

\* client_handler returned -1: the slot is freed, the descriptor stays open.
Drop(i, s) == Update(i, NoFd, [s EXCEPT !.in_use = FALSE])

Reported(i) == pollfds[i].revents \cap {"POLLIN", "POLLOUT"} # {}

\* The state client_handler is called with.
Flagged(i) ==
    LET s == client_states[i]
        r == pollfds[i].revents
    IN  [s EXCEPT !.read_available = @ \/ "POLLIN" \in r,
                  !.write_available = @ \/ "POLLOUT" \in r]

Scanning(i) == pc = "scan" /\ i = slot

\* A free slot is skipped.
ScanFree(i) ==
    /\ Scanning(i)
    /\ ~client_states[i].in_use
    /\ Advance
    /\ UNCHANGED <<pollfds, client_states, kernel, clients>>

\* poll() reported neither POLLIN nor POLLOUT: only the entry is refreshed.
ScanIdle(i) ==
    /\ Scanning(i)
    /\ client_states[i].in_use
    /\ ~Reported(i)
    /\ Keep(i, client_states[i])
    /\ UNCHANGED <<kernel, clients>>

Calling(i) == Scanning(i) /\ client_states[i].in_use /\ Reported(i)

HasByte(c) == taken[c] < Len(asked[c])

\* Mutant: takes recv's 0 at the end of the stream for EAGAIN.
StreamOver_ErrorsOnly(c) == ~HasByte(c) /\ c \in rst

\* recv has nothing but an error or the end of the stream to return.
StreamOver(c) == ~HasByte(c) /\ c \in fin \cup rst

\* recv fails or reports the end of the stream: return -1.
RecvEnds(i) ==
    LET c == pollfds[i].fd
        s == Flagged(i)
    IN  /\ Calling(i)
        /\ CanRecv(s)
        /\ StreamOver(c)
        /\ Drop(i, [s EXCEPT !.read_available = FALSE])
        /\ UNCHANGED <<kernel, clients>>

\* The handler's state after its receiving half (recv on an empty socket is
\* EAGAIN and only clears the flag), and the number of bytes it consumed.
Received(i) ==
    LET c == pollfds[i].fd
        s == Flagged(i)
    IN  IF ~CanRecv(s) THEN s
        ELSE IF HasByte(c) THEN AfterByte(s, asked[c][taken[c] + 1])
        ELSE [s EXCEPT !.read_available = FALSE]

Consumed(i) ==
    IF CanRecv(Flagged(i)) /\ HasByte(pollfds[i].fd) THEN 1 ELSE 0

\* The receiving half did not return -1.
RecvDone(i) ==
    /\ Calling(i)
    /\ CanRecv(Flagged(i)) => ~StreamOver(pollfds[i].fd)
    /\ taken' = [taken EXCEPT ![pollfds[i].fd] = @ + Consumed(i)]

\* Nothing to send or no permission to: return 0.
HandleRecv(i) ==
    /\ RecvDone(i)
    /\ ~CanSend(Received(i))
    /\ Keep(i, Received(i))
    /\ UNCHANGED <<backlog, open, sent, clients>>

\* send hands some of the pending bytes to the kernel: return 0.
HandleSend(i) ==
    LET c == pollfds[i].fd
        s == Received(i)
    IN  /\ RecvDone(i)
        /\ CanSend(s)
        /\ c \notin rst
        /\ \E n \in Accepted(c, s) :
              /\ sent' = [sent EXCEPT ![c] = @ \o SendChunk(s, n)]
              /\ Keep(i, AfterSend(s, n))
        /\ UNCHANGED <<backlog, open, clients>>

\* The peer reset the connection: send fails with ECONNRESET, return -1.
SendFails(i) ==
    LET c == pollfds[i].fd
        s == Received(i)
    IN  /\ RecvDone(i)
        /\ CanSend(s)
        /\ c \in rst \ fin
        /\ Drop(i, [s EXCEPT !.write_available = FALSE])
        /\ UNCHANGED <<backlog, open, sent, clients>>

\* The peer had closed its side before the reset: send raises SIGPIPE, which
\* the program neither ignores nor suppresses, and the process dies.
SendKills(i) ==
    LET c == pollfds[i].fd
    IN  /\ RecvDone(i)
        /\ CanSend(Received(i))
        /\ c \in rst \cap fin
        /\ pc' = "killed"
        /\ UNCHANGED <<pollfds, client_states, slot, backlog, open, sent, clients>>

Scan(i) ==
    \/ ScanFree(i)
    \/ ScanIdle(i)
    \/ RecvEnds(i)
    \/ HandleRecv(i)
    \/ HandleSend(i)
    \/ SendFails(i)
    \/ SendKills(i)

ServerStep ==
    \/ Poll
    \/ AcceptFails
    \/ \E i \in Entries : AcceptInto(i)
    \/ AcceptNoSlot
    \/ \E i \in Slots : Scan(i)

--------------------------------------------------------------------------------
(* The clients: any PIGen client, well-behaved or not. *)

Connected(c) == c \in open \/ c \in Range(backlog)

Connect(c) ==
    /\ ~Connected(c)
    /\ backlog' = Append(backlog, c)
    /\ UNCHANGED <<server, open, taken, sent, clients>>

\* A client may write ahead, also before its connection is accepted.
ClientAsk(c, b) ==
    /\ Connected(c)
    /\ c \notin fin \cup rst
    /\ Len(asked[c]) < MaxAsk[c]
    /\ asked' = [asked EXCEPT ![c] = Append(@, b)]
    /\ UNCHANGED <<server, kernel, got, fin, rst>>

ClientRead(c) ==
    /\ c \notin rst
    /\ \E n \in (got[c] + 1)..Len(sent[c]) : got' = [got EXCEPT ![c] = n]
    /\ UNCHANGED <<server, kernel, asked, fin, rst>>

ClientClose(c) ==
    /\ Connected(c)
    /\ c \notin fin \cup rst
    /\ fin' = fin \cup {c}
    /\ UNCHANGED <<server, kernel, asked, got, rst>>

ClientReset(c) ==
    /\ Connected(c)
    /\ c \notin rst
    /\ rst' = rst \cup {c}
    /\ UNCHANGED <<server, kernel, asked, got, fin>>

ClientStep(c) ==
    \/ Connect(c)
    \/ \E b \in Request : ClientAsk(c, b)
    \/ ClientRead(c)
    \/ ClientClose(c)
    \/ ClientReset(c)

Next == ServerStep \/ \E c \in Conns : ClientStep(c)

Spec == Init /\ [][Next]_vars

(***************************************************************************)
(* Fairness.  The server is one thread that the scheduler keeps running,   *)
(* so it may not stop while it can take a step (it cannot in poll() when   *)
(* nothing is ready).  A client that does not reset the connection reads   *)
(* what it was sent.  Nothing obliges a client to connect, ask, close or   *)
(* reset.                                                                  *)
(***************************************************************************)
Fairness ==
    /\ WF_vars(ServerStep)
    /\ \A c \in Conns : WF_vars(ClientRead(c))

FairSpec == Spec /\ Fairness

--------------------------------------------------------------------------------
(* Properties *)

ClientState ==
    [in_use : BOOLEAN, read_available : BOOLEAN, write_available : BOOLEAN,
     awaiting_read : BOOLEAN, outgoing_bytes_offset : 0..ReplyLen,
     n_pending_outgoing_bytes : 0..ReplyLen,
     pending_outgoing_bytes : {<<>>} \cup {Reply(d) : d \in Digits}]

PollFd ==
    [fd : Conns \cup {NoFd, Listener},
     events : SUBSET {"POLLIN", "POLLOUT"},
     revents : SUBSET {"POLLIN", "POLLOUT", "POLLERR"}]

(***************************************************************************)
(* The type of the state; the offset and the count of client_handler stay  *)
(* within the five bytes of pending_outgoing_bytes.                        *)
(***************************************************************************)
TypeOK ==
    /\ pollfds \in [Entries -> PollFd]
    /\ client_states \in [Entries -> ClientState]
    /\ pc \in {"poll", "accept", "scan", "killed"}
    /\ slot \in Slots
    /\ backlog \in Seq(Conns)
    /\ open \in SUBSET Conns
    /\ asked \in [Conns -> Seq(Request)]
    /\ taken \in [Conns -> Nat]
    /\ sent \in [Conns -> Seq(ReplyByte)]
    /\ got \in [Conns -> Nat]
    /\ fin \in SUBSET Conns
    /\ rst \in SUBSET Conns

InUse(i) == client_states[i].in_use

(***************************************************************************)
(* Slots and connections correspond: a slot in use holds an accepted       *)
(* connection that no other slot holds, a free slot holds none, so the two *)
(* arrays of main (lines 137, 155, 156) never disagree and no reply can    *)
(* reach another slot's client.                                            *)
(***************************************************************************)
SlotOwnership ==
    /\ \A i \in Slots : IF InUse(i) THEN pollfds[i].fd \in open
                        ELSE pollfds[i].fd = NoFd
    /\ \A i, j \in Slots :
          InUse(i) /\ InUse(j) /\ pollfds[i].fd = pollfds[j].fd => i = j

(***************************************************************************)
(* A client is either waiting for a request or in the middle of a reply,   *)
(* never both or neither, across partial sends and reuse of its slot; in   *)
(* the middle of a reply, offset and count describe its unsent end.        *)
(***************************************************************************)
Alternates(s) ==
    IF s.awaiting_read THEN s.n_pending_outgoing_bytes = 0
    ELSE /\ s.n_pending_outgoing_bytes > 0
         /\ s.outgoing_bytes_offset + s.n_pending_outgoing_bytes = ReplyLen
         /\ \E d \in Digits : s.pending_outgoing_bytes = Reply(d)

Alternation == \A i \in Slots : InUse(i) => Alternates(client_states[i])

(***************************************************************************)
(* No lost wake-up: when the thread sleeps in poll() with nothing to       *)
(* report, no client it serves has anything the server could act on, and   *)
(* no connection waits unless the listener's entry was overwritten.        *)
(***************************************************************************)
Asleep == pc = "poll" /\ \A i \in Entries : Revents(pollfds[i]) = {}

NoLostWakeup ==
    Asleep =>
        /\ \A i \in Slots : InUse(i) =>
              LET c == pollfds[i].fd
              IN  ~(IF client_states[i].awaiting_read THEN Readable(c)
                    ELSE Writable(c))
        /\ backlog # <<>> => pollfds[MaxClients].fd # Listener

(***************************************************************************)
(* Every call of client_handler does something: it receives a byte, sends  *)
(* at least one, or ends the connection.  So recv and send never meet      *)
(* EAGAIN although time passes between poll() and the call, and a slot     *)
(* cannot make the loop spin.                                              *)
(***************************************************************************)
HandlerProgress ==
    [][\A i \in Slots : Calling(i) /\ pollfds' # pollfds =>
          \/ taken' # taken
          \/ sent' # sent
          \/ ~InUse(i)']_vars

Served(c) ==
    pc # "killed" /\ \E i \in Slots : InUse(i) /\ pollfds[i].fd = c

GivenUp == {c \in open : ~Served(c)}

\* The unsent end of the reply that c's slot holds.
Owed(c) ==
    IF ~Served(c) THEN <<>>
    ELSE LET i == CHOOSE i \in Slots : InUse(i) /\ pollfds[i].fd = c
             s == client_states[i]
         IN  SendChunk(s, s.n_pending_outgoing_bytes)

Service == INSTANCE PiService WITH
    owed <- [c \in Conns |-> Owed(c)],
    out <- sent,
    ended <- GivenUp

(***************************************************************************)
(* The server implements the PIGen service: with its slots, flags and      *)
(* partial sends hidden, every step takes one request, writes the next     *)
(* bytes of the reply in progress, gives connections up, or does nothing.  *)
(***************************************************************************)
ImplementsService == Service!Spec

(***************************************************************************)
(* The server gives up no client that could still be served: a client that *)
(* only closed its sending side first gets the replies to everything it    *)
(* had asked (recv reports the end of the stream last).  The exception is  *)
(* a connection accepted when all slots were taken.                        *)
(***************************************************************************)
DroppedOnlyWhenDone ==
    \A c \in GivenUp :
        \/ c \in rst
        \/ pc = "killed"
        \/ c \in fin /\ taken[c] = Len(asked[c]) /\ sent[c] = Service!Due(c)
        \/ Cardinality(open) > MaxClients /\ taken[c] = 0 /\ sent[c] = <<>>

(***************************************************************************)
(* The accept loop runs one entry too far (line 128), onto the listener's  *)
(* pollfd.  The damage needs all slots taken: up to MaxClients connections *)
(* accepted, the listener is still polled.                                 *)
(***************************************************************************)
ListenerKept ==
    Cardinality(open) <= MaxClients => pollfds[MaxClients].fd = Listener

(***************************************************************************)
(* Every request of a client that is served is eventually answered in      *)
(* full, however many other clients there are and however often it has to  *)
(* be sent in pieces, unless the client resets or the process is killed.   *)
(***************************************************************************)
Answered(c) == taken[c] = Len(asked[c]) /\ sent[c] = Service!Due(c)

DigitAnswered ==
    \A c \in Conns : Served(c) ~> Answered(c) \/ c \in rst \/ pc = "killed"

(***************************************************************************)
(* A waiting connection is eventually accepted as long as descriptors are  *)
(* left, the listener was not overwritten and the process was not killed.  *)
(***************************************************************************)
BacklogServed ==
    \A c \in Conns : c \in Range(backlog) ~>
        \/ c \in open
        \/ Cardinality(open) >= FdLimit
        \/ pollfds[MaxClients].fd # Listener
        \/ pc = "killed"

(***************************************************************************)
(* The slot of a client that closed or reset its connection is eventually  *)
(* free again for another one (lines 153 to 157).                          *)
(***************************************************************************)
SlotReclaimed ==
    \A c \in Conns : c \in fin \cup rst /\ Served(c) ~> ~Served(c)

--------------------------------------------------------------------------------
(* The inductive invariant behind the safety properties. *)

\* A connection waits at most once and is not open yet.
BacklogFresh ==
    \A k \in 1..Len(backlog) :
        /\ backlog[k] \notin open
        /\ \A j \in 1..Len(backlog) : backlog[j] = backlog[k] => j = k

\* No readiness flag survives the call of client_handler that uses it.
FlagsConsumed ==
    \A i \in Slots : InUse(i) =>
        /\ ~client_states[i].read_available
        /\ ~client_states[i].write_available

\* What poll() reported of a slot that is still to be scanned is what the slot
\* was waiting for, and still holds: only this thread can undo it.
ReportsHold ==
    \A i \in Slots :
        /\ ~InUse(i) => pollfds[i].revents = {}
        /\ InUse(i) /\ "POLLIN" \in pollfds[i].revents =>
              client_states[i].awaiting_read /\ Readable(pollfds[i].fd)
        /\ InUse(i) /\ "POLLOUT" \in pollfds[i].revents =>
              ~client_states[i].awaiting_read /\ Writable(pollfds[i].fd)

\* Slots the scan is done with are ready for the next poll().
Refreshed(i) == pc = "poll" \/ (pc = "scan" /\ i < slot)

InterestMatches ==
    /\ \A i \in Slots : Refreshed(i) =>
          /\ pollfds[i].revents = {}
          /\ InUse(i) => pollfds[i].events = Interest(client_states[i])
    /\ pc \in {"poll", "accept"} => slot = 0
    /\ pollfds[MaxClients].events = {"POLLIN"}

IInv ==
    /\ TypeOK
    /\ SlotOwnership
    /\ Alternation
    /\ BacklogFresh
    /\ FlagsConsumed
    /\ ReportsHold
    /\ InterestMatches
================================================================================
