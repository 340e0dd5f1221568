------------------------------- MODULE PiSession -------------------------------
(***************************************************************************)
(* The servers of PiServer with the client programs of the repository,     *)
(* pi_client.c (Unix socket) and pi_client_tcp.c: a prompt that asks how   *)
(* many decimals of pi to show, and a loop that sends a digit, receives    *)
(* into a buffer of three bytes and shows the third.                       *)
(*                                                                         *)
(* The buffer's length is compared with recv's result as an unsigned       *)
(* number: a failed recv passes for a full one, and the third byte is shown*)
(* as the last reply left it.                                              *)
(***************************************************************************)
EXTENDS PiServer

CONSTANTS
    MaxCount,       \* decimals that can be asked for, 10 in the code
    ClientBuf       \* bytes of the array response, 3 in the code

ASSUME SessionAssumption ==
    /\ MaxCount \in Nat \ {0}
    /\ ClientBuf \in 1..ReplyLen
    /\ 0..(MaxCount - 1) \subseteq Digits

VARIABLE repl       \* [Conns -> place in the program and its variables]

\* Where a client is: before connect, in scanf, at send, in recv, gone.
ClientPlaces == {"connect", "scanf", "send", "recv", "gone"}

\* The array response before anything was received.
Garbage == <<>>

NewClient ==
    [pc |-> "connect", count |-> 0, i |-> 0, last |-> Garbage, shown |-> <<>>]

SessionInit == Init /\ repl = [c \in Conns |-> NewClient]

InClient(c, pc) == repl[c].pc = pc

Goto(c, pc) == repl' = [repl EXCEPT ![c].pc = pc]

--------------------------------------------------------------------------------

Connects(c) ==
    /\ InClient(c, "connect")
    /\ Connect(c)
    /\ Goto(c, "scanf")

\* A number out of range, or none, is taken for the largest.
Prompt(c, n) ==
    /\ InClient(c, "scanf")
    /\ Len(asked[c]) + n <= MaxAsk[c]
    /\ repl' = [repl EXCEPT ![c] =
          [pc |-> "send", count |-> n, i |-> 0, last |-> @.last, shown |-> <<>>]]
    /\ UNCHANGED vars

\* Mutant: counts the decimals from one.
RequestByte_OneBased(r) == r.i + 1

\* '0' + i
RequestByte(r) == r.i

SendDigit(c) ==
    /\ InClient(c, "send")
    /\ status = "running"
    /\ ClientAsk(c, RequestByte(repl[c]))
    /\ Goto(c, "recv")

\* The server took all that the client wrote.
AllTaken(c) == c \in open /\ ~HasByte(c)

\* The server is gone: SIGPIPE ends the client.
SendDies(c) ==
    /\ InClient(c, "send")
    /\ status # "running"
    /\ kind = "unix" \/ ~AllTaken(c)
    /\ Goto(c, "gone")
    /\ UNCHANGED vars

\* A TCP socket learns of it only by the answer to one more byte.
SendLost(c) ==
    /\ InClient(c, "send")
    /\ status # "running"
    /\ kind # "unix" /\ AllTaken(c)
    /\ ClientAsk(c, RequestByte(repl[c]))
    /\ Goto(c, "recv")

Unread(c) == Len(sent[c]) - got[c]

\* How much of what was sent may have arrived when recv looks.
Arrived(c) == IF kind = "unix" THEN {Unread(c)} \ {0} ELSE 1..Unread(c)

ReadSizes(c) == {IF a < ClientBuf THEN a ELSE ClientBuf : a \in Arrived(c)}

\* printf, and on to the next round.
Show(c, byte) ==
    repl' = [repl EXCEPT ![c] =
        [pc |-> IF @.i + 1 < @.count THEN "send" ELSE "scanf",
         count |-> @.count,
         i |-> @.i + 1,
         last |-> byte,
         shown |-> Append(@.shown, byte)]]

RecvFull(c) ==
    /\ InClient(c, "recv")
    /\ ClientBuf \in ReadSizes(c)
    /\ ClientRead(c, got[c] + ClientBuf)
    /\ Show(c, sent[c][got[c] + ClientBuf])

(***************************************************************************)
(* The kernel closes a client's socket when its process ends.  If bytes    *)
(* were left unread the connection is reset, else its stream ends; a Unix  *)
(* socket then also refuses what the server sends.                         *)
(***************************************************************************)
CloseSocket(c, unread) ==
    /\ fin' = IF unread > 0 THEN fin ELSE fin \cup {c}
    /\ rst' = IF unread > 0 \/ kind = "unix" THEN rst \cup {c} ELSE rst
    /\ UNCHANGED <<server, backlog, open, asked>>

\* recv returns less than three bytes, and the client ends.
RecvShort(c) ==
    /\ InClient(c, "recv")
    /\ \E n \in ReadSizes(c) :
          /\ n < ClientBuf
          /\ got' = [got EXCEPT ![c] = @ + n]
          /\ CloseSocket(c, Unread(c) - n)
    /\ Goto(c, "gone")

\* The server is gone, and took everything: recv returns 0.  So it may for the
\* byte of SendLost.
RecvZero(c) ==
    /\ InClient(c, "recv")
    /\ status # "running"
    /\ Unread(c) = 0
    /\ kind # "unix" \/ AllTaken(c)
    /\ Goto(c, "gone")
    /\ UNCHANGED vars

\* It is gone and did not take everything: recv returns -1, then the next send
\* fails as above.
RecvError(c) ==
    /\ InClient(c, "recv")
    /\ status # "running"
    /\ Unread(c) = 0
    /\ ~AllTaken(c)
    /\ Show(c, repl[c].last)
    /\ UNCHANGED vars

\* The user stops the client.
Quit(c) ==
    /\ status = "running"
    /\ repl[c].pc \in {"scanf", "send", "recv"}
    /\ CloseSocket(c, Unread(c))
    /\ UNCHANGED got
    /\ Goto(c, "gone")

\* A reply reaches a host where the socket is closed.
LateReset(c) ==
    /\ status = "running"
    /\ InClient(c, "gone")
    /\ Unread(c) > 0
    /\ ClientReset(c)
    /\ UNCHANGED repl

ProgramStep(c) ==
    \/ SendDigit(c)
    \/ SendDies(c)
    \/ SendLost(c)
    \/ RecvFull(c)
    \/ RecvShort(c)
    \/ RecvZero(c)
    \/ RecvError(c)

UserStep(c) ==
    \/ Connects(c)
    \/ \E n \in 1..MaxCount : Prompt(c, n)
    \/ Quit(c)

SessionNext ==
    \/ ServerStep /\ UNCHANGED repl
    \/ \E c \in Conns : ProgramStep(c) \/ UserStep(c) \/ LateReset(c)

sessionVars == <<vars, repl>>

(***************************************************************************)
(* Fairness.  Server and clients are processes the scheduler runs; the user*)
(* is not obliged to type, nor to stop anything.                           *)
(***************************************************************************)
SessionSpec ==
    /\ SessionInit
    /\ [][SessionNext]_sessionVars
    /\ WF_sessionVars((Accept \/ AcceptUnserved) /\ UNCHANGED repl)
    /\ \A c \in Conns : WF_sessionVars(Handler(c) /\ UNCHANGED repl)
    /\ \A c \in Conns : WF_sessionVars(ProgramStep(c))

--------------------------------------------------------------------------------
(* Properties *)

(***************************************************************************)
(* The k-th decimal shown is the third byte of the reply to request k - 1, *)
(* "<n>:<n-th digit of pi>" (06_ipc/README.md:17).  Only the last one of a *)
(* client whose server is gone may be an old one.                          *)
(***************************************************************************)
ShowsDecimals ==
    \A c \in Conns :
        LET s == repl[c].shown
        IN  \A k \in 1..Len(s) :
                s[k] = <<k - 1, 3>> \/ (k = Len(s) /\ status # "running")

\* The rest of the system owes the client nothing.
Settled(c) == ~HasByte(c) /\ handler[c].rest = <<>> /\ Unread(c) = 0

(***************************************************************************)
(* Client and server of a Unix socket alternate: a client that waits in    *)
(* recv has exactly one request under way, as a byte the server has not    *)
(* taken, a reply it is about to send or one the client has not read, and a*)
(* client that does not wait has none.                                     *)
(***************************************************************************)
LockStep ==
    status = "running" =>
        \A c \in Conns :
            /\ InClient(c, "scanf") \/ InClient(c, "send") => Settled(c)
            /\ InClient(c, "recv") =>
                  \/ /\ Len(asked[c]) = taken[c] + 1
                     /\ handler[c].rest = <<>> /\ Unread(c) = 0
                  \/ ~HasByte(c) /\ handler[c].rest # <<>> /\ Unread(c) = 0
                  \/ ~HasByte(c) /\ handler[c].rest = <<>> /\ Unread(c) = ReplyLen

(***************************************************************************)
(* A client and the handler that serves it never both wait in recv for each*)
(* other, whatever of an earlier reply was left unread (the five bytes of a*)
(* TCP server's reply for the client's three).                             *)
(***************************************************************************)
NeverBothWait ==
    status = "running" =>
        \A c \in Conns :
            InClient(c, "recv") /\ handler[c].pc = "recv" => HasByte(c) \/ Unread(c) > 0

(***************************************************************************)
(* A command comes to an end once the server has begun to serve the client,*)
(* even if another client brings the server down.                          *)
(***************************************************************************)
CommandEnds ==
    \A c \in Conns :
        InClient(c, "send") /\ Active(c) ~> InClient(c, "scanf") \/ InClient(c, "gone")
================================================================================
