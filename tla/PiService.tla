------------------------------- MODULE PiService -------------------------------
(***************************************************************************)
(* What every PIGen server of the repository promises a connected client,  *)
(* whatever way it schedules its connections (poll loop, blocking loop,    *)
(* one thread per connection): the requested digits are taken in the order *)
(* they were asked, one at a time, and a digit that was taken is answered  *)
(* with its complete reply before the next byte is taken.  A byte that is  *)
(* no digit is swallowed.  A connection may be given up at any point, even *)
(* in the middle of a reply, but then nothing is sent on it any more.      *)
(*                                                                         *)
(* The servers are shown to implement this module; the module itself knows *)
(* neither sockets nor slots.                                              *)
(***************************************************************************)
EXTENDS Naturals, Sequences, SequencesExt

CONSTANTS
    Conns,      \* the connections
    Digits,     \* the request bytes '0'..'9'
    Junk,       \* request bytes that are no digits
    ReplyLen    \* bytes of a reply, at least one: "d:p\r\n" is 5, "d:p" is 3

Request == Digits \cup Junk

(***************************************************************************)
(* A byte of a reply is named by the digit it answers and its position.    *)
(* Which decimal of pi is printed is a function of the digit alone.        *)
(***************************************************************************)
ReplyByte == Digits \X (1..ReplyLen)

Reply(d) == [k \in 1..ReplyLen |-> <<d, k>>]

AnswerTo(b) == IF b \in Digits THEN Reply(b) ELSE <<>>

\* The answers to the requests of s, one after the other.
Replies(s) ==
    LET upTo[n \in 0..Len(s)] ==
            IF n = 0 THEN <<>> ELSE upTo[n - 1] \o AnswerTo(s[n])
    IN  upTo[Len(s)]

VARIABLES
    asked,      \* asked[c]: every byte the client of c has written
    taken,      \* taken[c]: how many of them the server has read
    owed,       \* owed[c]: what is left of the reply in progress
    out,        \* out[c]: every byte the server has written on c
    ended       \* the connections the server has given up

svars == <<asked, taken, owed, out, ended>>

Init ==
    /\ asked = [c \in Conns |-> <<>>]
    /\ taken = [c \in Conns |-> 0]
    /\ owed = [c \in Conns |-> <<>>]
    /\ out = [c \in Conns |-> <<>>]
    /\ ended = {}

\* The client writes a byte.
Ask(c, b) ==
    /\ asked' = [asked EXCEPT ![c] = Append(@, b)]
    /\ UNCHANGED <<taken, owed, out, ended>>

\* The server takes the next request; it owes nothing from the previous one.
Take(c) ==
    /\ c \notin ended
    /\ owed[c] = <<>>
    /\ taken[c] < Len(asked[c])
    /\ taken' = [taken EXCEPT ![c] = @ + 1]
    /\ owed' = [owed EXCEPT ![c] = AnswerTo(asked[c][taken[c] + 1])]
    /\ UNCHANGED <<asked, out, ended>>

\* The next n bytes of the reply in progress are written.
Emit(c, n) ==
    /\ c \notin ended
    /\ n \in 1..Len(owed[c])
    /\ out' = [out EXCEPT ![c] = @ \o SubSeq(owed[c], 1, n)]
    /\ owed' = [owed EXCEPT ![c] = SubSeq(@, n + 1, Len(@))]
    /\ UNCHANGED <<asked, taken, ended>>

\* The server gives up some connections, dropping what it owes them.
End(cs) ==
    /\ owed' = [c \in Conns |-> IF c \in cs THEN <<>> ELSE owed[c]]
    /\ ended' = ended \cup cs
    /\ UNCHANGED <<asked, taken, out>>

\* What was written on a connection that was given up may still be read, and
\* is not answered.
Drain(c) ==
    /\ c \in ended
    /\ taken[c] < Len(asked[c])
    /\ taken' = [taken EXCEPT ![c] = @ + 1]
    /\ UNCHANGED <<asked, owed, out, ended>>

Next ==
    \/ \E c \in Conns :
          \/ \E b \in Request : Ask(c, b)
          \/ Take(c)
          \/ Drain(c)
          \/ \E n \in 1..ReplyLen : Emit(c, n)
    \/ \E cs \in (SUBSET Conns) \ {{}} : End(cs)

Spec == Init /\ [][Next]_svars

--------------------------------------------------------------------------------

(***************************************************************************)
(* The promise in closed form: what was written on c together with what is *)
(* still owed is exactly the replies to the digits taken so far, in order, *)
(* none twice, none interleaved; for a connection that was given up, what  *)
(* was written is a prefix of it.                                          *)
(***************************************************************************)
Due(c) == Replies(SubSeq(asked[c], 1, taken[c]))

AnswersExactly ==
    \A c \in Conns :
        /\ c \notin ended => out[c] \o owed[c] = Due(c)
        /\ c \in ended => IsPrefix(out[c], Due(c))
================================================================================
