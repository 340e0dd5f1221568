---------------------------- MODULE PiSessionProofs ----------------------------
(***************************************************************************)
(* First the servers alone, which implement the PIGen service for any      *)
(* number of clients, any reply length, buffer size and limit of           *)
(* descriptors, and whatever the clients do: that part is about PiServer   *)
(* and uses nothing of PiSession.  Then the servers with the client        *)
(* programs written for them: client and handler never wait for each other,*)
(* and over a Unix socket they alternate and every decimal shown is the one*)
(* asked for.                                                              *)
(***************************************************************************)
EXTENDS PiSession, SequenceTheorems, TLAPS

(***************************************************************************)
(* The inductive invariant: without ServedOpen and BacklogFresh an accepted*)
(* connection could already have a handler in the middle of a reply.       *)
(***************************************************************************)
IInv == TypeOK /\ ServedOpen /\ BacklogFresh

--------------------------------------------------------------------------------
(* What is left of a reply *)

LEMMA ReplyIsSeq ==
    ASSUME NEW d \in Digits
    PROVE  /\ Reply(d) \in Seq(ReplyByte)
           /\ Len(Reply(d)) = ReplyLen
           /\ Reply(d) # <<>>
  <1>1. Reply(d) \in [1..ReplyLen -> ReplyByte]
    BY DEF Reply, ReplyByte
  <1>2. Reply(d) \in Seq(ReplyByte)
    BY <1>1, PiAssumption, SeqDef
  <1>3. Len(Reply(d)) = ReplyLen
    BY <1>1, <1>2, PiAssumption, LenProperties DEF Reply
  <1>. QED
    BY <1>2, <1>3, PiAssumption, EmptySeq

LEMMA EndOfReply ==
    ASSUME NEW d \in Digits, NEW k \in 1..(ReplyLen + 1)
    PROVE  SubSeq(Reply(d), k, ReplyLen) \in Rests
  <1>1. SubSeq(Reply(d), k, ReplyLen) \in RestsOf(d)
    BY DEF RestsOf
  <1>. QED
    BY <1>1 DEF Rests

LEMMA RestOfSome ==
    ASSUME NEW r \in Rests
    PROVE  \E d \in Digits, k \in 1..(ReplyLen + 1) : r = SubSeq(Reply(d), k, ReplyLen)
  <1>1. PICK d \in Digits : r \in RestsOf(d)
    BY DEF Rests
  <1>2. PICK k \in 1..(ReplyLen + 1) : r = SubSeq(Reply(d), k, ReplyLen)
    BY <1>1 DEF RestsOf
  <1>. QED
    BY <1>2

LEMMA ReplyIsRest == \A d \in Digits : Reply(d) \in Rests
  <1>. SUFFICES ASSUME NEW d \in Digits
                PROVE  Reply(d) \in Rests
    OBVIOUS
  <1>1. SubSeq(Reply(d), 1, ReplyLen) = Reply(d)
    BY ReplyIsSeq, SubSeqFull
  <1>2. 1 \in 1..(ReplyLen + 1)
    BY PiAssumption
  <1>. QED
    BY <1>1, <1>2, EndOfReply

LEMMA RestIsSeq ==
    ASSUME NEW r \in Rests \cup {<<>>}
    PROVE  r \in Seq(ReplyByte) /\ Len(r) \in 0..ReplyLen
  <1>1. CASE r = <<>>
    BY <1>1, PiAssumption
  <1>2. CASE r \in Rests
    <2>1. PICK d \in Digits, k \in 1..(ReplyLen + 1) : r = SubSeq(Reply(d), k, ReplyLen)
      BY <1>2, RestOfSome
    <2>2. k \in Nat /\ k >= 1 /\ k <= ReplyLen + 1 /\ ReplyLen \in Nat
      BY PiAssumption
    <2>3. \A i \in k..ReplyLen : Reply(d)[i] \in ReplyByte
      <3>1. ASSUME NEW i \in k..ReplyLen
            PROVE  Reply(d)[i] \in ReplyByte
        <4>1. i \in 1..Len(Reply(d))
          BY <2>2, ReplyIsSeq
        <4>. QED
          BY <4>1, ReplyIsSeq, ElementOfSeq
      <3>. QED
        BY <3>1
    <2>4. /\ SubSeq(Reply(d), k, ReplyLen) \in Seq(ReplyByte)
          /\ Len(SubSeq(Reply(d), k, ReplyLen)) =
                IF k <= ReplyLen THEN ReplyLen - k + 1 ELSE 0
      BY <2>2, <2>3, SubSeqProperties
    <2>. QED
      BY <2>1, <2>2, <2>4
  <1>. QED
    BY <1>1, <1>2

\* After a send of n bytes.
LEMMA UnsentIsRest ==
    ASSUME NEW r \in Rests \cup {<<>>}, NEW n \in 1..Len(r)
    PROVE  /\ Unsent(r, n) \in Rests \cup {<<>>}
           /\ SubSeq(r, 1, n) \in Seq(ReplyByte)
  <1>1. r \in Seq(ReplyByte) /\ Len(r) \in Nat /\ n \in Nat /\ n >= 1 /\ n <= Len(r)
    BY RestIsSeq, PiAssumption
  <1>2. SubSeq(r, 1, n) \in Seq(ReplyByte)
    <2>1. \A i \in 1..n : r[i] \in ReplyByte
      BY <1>1, ElementOfSeq
    <2>. QED
      BY <1>1, <2>1, SubSeqProperties
  <1>3. CASE n = Len(r)
    BY <1>1, <1>2, <1>3, SubSeqEmpty DEF Unsent
  <1>4. CASE n # Len(r)
    <2>1. r # <<>>
      BY <1>1, EmptySeq
    <2>2. PICK d \in Digits, k \in 1..(ReplyLen + 1) : r = SubSeq(Reply(d), k, ReplyLen)
      BY <2>1, RestOfSome
    <2>. DEFINE R == Reply(d)
                m == n + 1
                l == Len(r)
    <2>3. R \in Seq(ReplyByte) /\ Len(R) = ReplyLen
      BY ReplyIsSeq
    <2>4. k \in Nat /\ k >= 1 /\ k <= ReplyLen /\ ReplyLen \in Nat \ {0}
      <3>1. k <= ReplyLen + 1 /\ k \in Nat /\ ReplyLen \in Nat \ {0} /\ k >= 1
        BY PiAssumption
      <3>2. k # ReplyLen + 1
        BY <2>1, <2>2, <3>1, SubSeqEmpty
      <3>. QED
        BY <3>1, <3>2
    <2>5. l = ReplyLen - k + 1
      <3>1. \A i \in k..ReplyLen : R[i] \in ReplyByte
        <4>1. ASSUME NEW i \in k..ReplyLen
              PROVE  R[i] \in ReplyByte
          <5>1. i \in 1..Len(R)
            BY <2>3, <2>4
          <5>. QED
            BY <2>3, <5>1, ElementOfSeq
        <4>. QED
          BY <4>1
      <3>2. Len(SubSeq(R, k, ReplyLen)) = IF k <= ReplyLen THEN ReplyLen - k + 1 ELSE 0
        BY <2>4, <3>1, SubSeqProperties
      <3>. QED
        BY <2>2, <2>4, <3>2
    <2>. HIDE DEF R
    <2>6. /\ m \in 1..(ReplyLen - k + 1)
          /\ l \in 1..(ReplyLen - k + 1)
          /\ k \in 1..Len(R)
          /\ ReplyLen \in 1..Len(R)
      BY <1>1, <1>4, <2>3, <2>4, <2>5
    <2>7. SubSeq(SubSeq(R, k, ReplyLen), m, l) = SubSeq(R, k + m - 1, k + l - 1)
      BY <2>3, <2>6, SubSeqOfSubSeq
    <2>8. k + l - 1 = ReplyLen /\ k + m - 1 \in 1..(ReplyLen + 1)
      BY <1>1, <1>4, <2>4, <2>5
    <2>9. Unsent(r, n) = SubSeq(R, k + m - 1, ReplyLen)
      BY <2>2, <2>7, <2>8 DEF Unsent, R
    <2>10. SubSeq(R, k + m - 1, ReplyLen) \in Rests
      BY <2>8, EndOfReply DEF R
    <2>. QED
      BY <1>2, <2>9, <2>10
  <1>. QED
    BY <1>3, <1>4

--------------------------------------------------------------------------------
(* Updates of a handler *)

LEMMA HandlerUpdate ==
    ASSUME TypeOK, NEW c \in Conns, NEW p \in Places, NEW r \in Rests \cup {<<>>},
           \/ handler' = [handler EXCEPT ![c] = [pc |-> p, rest |-> r]]
           \/ handler' = [handler EXCEPT ![c].pc = p] /\ r = handler[c].rest
    PROVE  /\ handler' \in [Conns -> HandlerState]
           /\ handler'[c].pc = p /\ handler'[c].rest = r
           /\ \A d \in Conns \ {c} : handler'[d] = handler[d]
  <1>. DEFINE S == Rests \cup {<<>>}
  <1>1. handler \in [Conns -> [pc : Places, rest : S]]
    BY DEF TypeOK, HandlerState
  <1>. HIDE DEF S
  <1>2. r \in S
    BY DEF S
  <1>3. [pc |-> p, rest |-> r] \in [pc : Places, rest : S]
    BY <1>2
  <1>4. [handler EXCEPT ![c].pc = p] =
           [handler EXCEPT ![c] = [pc |-> p, rest |-> handler[c].rest]]
    <2>1. handler[c] \in [pc : Places, rest : S]
      BY <1>1
    <2>2. [handler[c] EXCEPT !.pc = p] = [pc |-> p, rest |-> handler[c].rest]
      BY <2>1
    <2>. QED
      BY <1>1, <2>2
  <1>5. handler' = [handler EXCEPT ![c] = [pc |-> p, rest |-> r]]
    BY <1>4
  <1>6. /\ handler' \in [Conns -> [pc : Places, rest : S]]
        /\ handler'[c] = [pc |-> p, rest |-> r]
        /\ \A d \in Conns \ {c} : handler'[d] = handler[d]
    BY <1>1, <1>3, <1>5
  <1>. QED
    BY <1>6 DEF HandlerState, S

(***************************************************************************)
(* The steps of the handler of c that leave the process alive, by what     *)
(* becomes of the handler and of what the client is sent.                  *)
(***************************************************************************)
HandlerMoves(c, p, r) ==
    /\ status = "running" /\ handler[c].pc \in {"recv", "send"}
    /\ p \in {"recv", "send", "over"}
    /\ r # <<>> <=> p = "send"
    /\ handler' \in [Conns -> HandlerState]
    /\ handler'[c].pc = p /\ handler'[c].rest = r
    /\ \A d \in Conns \ {c} : handler'[d] = handler[d]
    /\ UNCHANGED <<process, backlog, open, clients>>
    /\ told' \in SUBSET rst

LEMMA HandlerOf ==
    ASSUME TypeOK, NEW c \in Conns
    PROVE  /\ handler[c] \in HandlerState
           /\ handler[c].pc \in Places
           /\ handler[c].rest \in Rests \cup {<<>>}
           /\ handler[c].rest # <<>> <=> handler[c].pc = "send"
  BY DEF TypeOK, HandlerState

LEMMA RecvByteMoves ==
    ASSUME TypeOK, NEW c \in Conns, RecvByte(c)
    PROVE  LET b == asked[c][taken[c] + 1]
           IN  /\ HandlerMoves(c, IF b \in Digits THEN "send" ELSE "recv",
                                  IF b \in Digits THEN Reply(b) ELSE <<>>)
               /\ handler[c].rest = <<>>
               /\ taken' = [taken EXCEPT ![c] = @ + 1] /\ sent' = sent
  <1>. DEFINE b == asked[c][taken[c] + 1]
  <1>1. /\ status = "running" /\ handler[c].pc = "recv" /\ handler[c].rest = <<>>
        /\ taken' = [taken EXCEPT ![c] = @ + 1] /\ sent' = sent
        /\ UNCHANGED <<process, backlog, open, told, clients>>
        /\ told \in SUBSET rst
    BY HandlerOf DEF RecvByte, At, TakenNext, TypeOK
  <1>2. handler' = IF b \in Digits
                   THEN [handler EXCEPT ![c] = [pc |-> "send", rest |-> Reply(b)]]
                   ELSE handler
    BY DEF RecvByte, IsDigit
  <1>. HIDE DEF b
  <1>3. CASE b \in Digits
    <2>1. /\ handler' \in [Conns -> HandlerState]
          /\ handler'[c].pc = "send" /\ handler'[c].rest = Reply(b)
          /\ \A d \in Conns \ {c} : handler'[d] = handler[d]
      BY <1>2, <1>3, ReplyIsRest, HandlerUpdate DEF Places
    <2>2. HandlerMoves(c, "send", Reply(b))
      BY <1>1, <1>3, <2>1, ReplyIsSeq DEF HandlerMoves
    <2>. QED
      BY <1>1, <1>3, <2>2 DEF b
  <1>4. CASE b \notin Digits
    <2>1. handler' = handler /\ handler \in [Conns -> HandlerState]
      BY <1>2, <1>4 DEF TypeOK
    <2>2. HandlerMoves(c, "recv", <<>>)
      BY <1>1, <2>1 DEF HandlerMoves
    <2>. QED
      BY <1>1, <1>4, <2>2 DEF b
  <1>. QED
    BY <1>3, <1>4

LEMMA RecvEofMoves ==
    ASSUME TypeOK, NEW c \in Conns, RecvEof(c)
    PROVE  HandlerMoves(c, "over", <<>>) /\ UNCHANGED <<taken, sent>>
  <1>1. /\ status = "running" /\ handler[c].pc = "recv" /\ handler[c].rest = <<>>
        /\ handler' = [handler EXCEPT ![c].pc = "over"]
        /\ UNCHANGED <<process, backlog, open, taken, sent, told, clients>>
        /\ told \in SUBSET rst
    BY HandlerOf DEF RecvEof, At, TypeOK
  <1>2. /\ handler' \in [Conns -> HandlerState]
        /\ handler'[c].pc = "over" /\ handler'[c].rest = <<>>
        /\ \A d \in Conns \ {c} : handler'[d] = handler[d]
    BY <1>1, HandlerUpdate DEF Places
  <1>. QED
    BY <1>1, <1>2 DEF HandlerMoves

LEMMA GivesUpMoves ==
    ASSUME TypeOK, NEW c \in Conns, SendInterrupted(c) \/ SendReset(c)
    PROVE  HandlerMoves(c, "recv", <<>>) /\ c \in rst /\ UNCHANGED <<taken, sent>>
  <1>1. /\ status = "running" /\ handler[c].pc = "send" /\ c \in rst
        /\ handler' = [handler EXCEPT ![c] = [pc |-> "recv", rest |-> <<>>]]
        /\ UNCHANGED <<process, backlog, open, taken, sent, clients>>
        /\ told' \in SUBSET rst
    BY DEF SendInterrupted, SendReset, Unsuccessful, SendGivesUp, At, TypeOK
  <1>2. /\ handler' \in [Conns -> HandlerState]
        /\ handler'[c].pc = "recv" /\ handler'[c].rest = <<>>
        /\ \A d \in Conns \ {c} : handler'[d] = handler[d]
    BY <1>1, HandlerUpdate DEF Places
  <1>. QED
    BY <1>1, <1>2 DEF HandlerMoves

LEMMA SendSomeMoves ==
    ASSUME TypeOK, NEW c \in Conns, SendSome(c)
    PROVE  LET r == handler[c].rest
               n == Chunk(c)
           IN  /\ n \in 1..Len(r) /\ n \in 1..ReplyLen
               /\ c \notin rst
               /\ \E p \in {"recv", "send"} : HandlerMoves(c, p, Unsent(r, n))
               /\ sent' = [sent EXCEPT ![c] = @ \o SubSeq(r, 1, n)]
               /\ SubSeq(r, 1, n) \in Seq(ReplyByte)
               /\ taken' = taken
  <1>. DEFINE r == handler[c].rest
              n == Chunk(c)
              p == IF Unsent(r, n) = <<>> THEN "recv" ELSE "send"
  <1>1. /\ status = "running" /\ handler[c].pc = "send" /\ c \notin rst /\ n > 0
        /\ sent' = [sent EXCEPT ![c] = @ \o SubSeq(r, 1, n)]
        /\ handler' = [handler EXCEPT ![c] = [pc |-> p, rest |-> Unsent(r, n)]]
        /\ UNCHANGED <<process, backlog, open, taken, told, clients>>
        /\ told \in SUBSET rst
    BY DEF SendSome, At, TypeOK
  <1>2. r \in Rests \cup {<<>>} /\ Len(r) \in 0..ReplyLen
    BY HandlerOf, RestIsSeq
  <1>3. Room(c) \in Int
    <2>1. sent[c] \in Seq(ReplyByte) /\ got[c] \in Nat /\ SndBuf \in Nat
      BY PiAssumption DEF TypeOK
    <2>2. Len(sent[c]) \in Nat
      BY <2>1
    <2>. QED
      BY <2>1, <2>2 DEF Room
  <1>4. n \in 1..Len(r) /\ n \in 1..ReplyLen
    <2>1. n = IF Len(r) <= Room(c) THEN Len(r) ELSE Room(c)
      BY DEF Chunk
    <2>. HIDE DEF n, r
    <2>. QED
      BY <1>1, <1>2, <1>3, <2>1, PiAssumption
  <1>5. Unsent(r, n) \in Rests \cup {<<>>} /\ SubSeq(r, 1, n) \in Seq(ReplyByte)
    BY <1>2, <1>4, UnsentIsRest
  <1>6. p \in {"recv", "send"} /\ p \in Places /\ (Unsent(r, n) # <<>> <=> p = "send")
    BY DEF Places
  <1>. HIDE DEF p
  <1>7. /\ handler' \in [Conns -> HandlerState]
        /\ handler'[c].pc = p /\ handler'[c].rest = Unsent(r, n)
        /\ \A d \in Conns \ {c} : handler'[d] = handler[d]
    BY <1>1, <1>5, <1>6, HandlerUpdate
  <1>8. HandlerMoves(c, p, Unsent(r, n))
    BY <1>1, <1>6, <1>7 DEF HandlerMoves
  <1>. QED
    BY <1>1, <1>4, <1>5, <1>6, <1>8

\* The steps that end the process.
Dies ==
    /\ status = "running" /\ status' \in {"exited", "killed"}
    /\ UNCHANGED <<kind, spinning, handler, backlog, open, taken, sent, clients>>
    /\ told' \in SUBSET rst

LEMMA WhoDies ==
    ASSUME TypeOK,
           Interrupt \/ \E c \in Conns : RecvResetKills(c) \/ SendKills(c)
    PROVE  Dies
  BY DEF Interrupt, RecvResetKills, RecvFails, SendKills, Unsuccessful, At, Dies, TypeOK

--------------------------------------------------------------------------------
(* The backlog *)

LEMMA TakeFromBacklog ==
    ASSUME TypeOK, BacklogFresh, MayAccept
    PROVE  /\ Head(backlog) \in Conns /\ Head(backlog) \notin open
           /\ backlog' \in Seq(Conns) /\ open' \in SUBSET Conns
           /\ BacklogFresh'
  <1>1. /\ backlog \in Seq(Conns) /\ backlog # <<>> /\ backlog' = Tail(backlog)
        /\ open \in SUBSET Conns /\ open' = open \cup {Head(backlog)}
    BY DEF TypeOK, MayAccept
  <1>2. Len(backlog) \in Nat \ {0}
    BY <1>1, EmptySeq
  <1>3. /\ Head(backlog) = backlog[1] /\ Head(backlog) \in Conns
        /\ Tail(backlog) \in Seq(Conns)
        /\ Len(Tail(backlog)) = Len(backlog) - 1
        /\ \A k \in 1..Len(Tail(backlog)) : Tail(backlog)[k] = backlog[k + 1]
    BY <1>1, <1>2, HeadTailProperties
  <1>4. 1 \in 1..Len(backlog)
    BY <1>2
  <1>5. \A k \in 1..Len(Tail(backlog)) :
            k \in Nat /\ k + 1 \in 1..Len(backlog) /\ k + 1 # 1
    BY <1>2, <1>3
  <1>6. ASSUME NEW k \in 1..Len(backlog')
        PROVE  /\ backlog'[k] \notin open'
               /\ \A j \in 1..Len(backlog') : backlog'[j] = backlog'[k] => j = k
    <2>1. backlog[k + 1] \notin open /\ backlog[k + 1] # backlog[1]
      BY <1>1, <1>4, <1>5, <1>6 DEF BacklogFresh
    <2>2. backlog'[k] \notin open'
      BY <1>1, <1>3, <1>6, <2>1
    <2>3. ASSUME NEW j \in 1..Len(backlog'), backlog'[j] = backlog'[k]
          PROVE  j = k
      <3>1. backlog[j + 1] = backlog[k + 1]
        BY <1>1, <1>3, <1>6, <2>3
      <3>2. j + 1 = k + 1
        BY <1>1, <1>5, <1>6, <2>3, <3>1 DEF BacklogFresh
      <3>. QED
        BY <1>1, <1>5, <1>6, <2>3, <3>2
    <2>. QED
      BY <2>2, <2>3
  <1>7. BacklogFresh'
    BY <1>6 DEF BacklogFresh
  <1>8. Head(backlog) \notin open
    BY <1>3, <1>4 DEF BacklogFresh
  <1>. QED
    BY <1>1, <1>3, <1>7, <1>8

LEMMA JoinBacklog ==
    ASSUME TypeOK, BacklogFresh, NEW c \in Conns, Connect(c)
    PROVE  backlog' \in Seq(Conns) /\ BacklogFresh'
  <1>1. /\ backlog \in Seq(Conns) /\ Len(backlog) \in Nat
        /\ backlog' = Append(backlog, c) /\ open' = open
    BY DEF TypeOK, Connect
  <1>2. /\ backlog' \in Seq(Conns) /\ Len(backlog') = Len(backlog) + 1
        /\ \A k \in 1..Len(backlog) : backlog'[k] = backlog[k]
        /\ backlog'[Len(backlog) + 1] = c
    BY <1>1, AppendProperties
  <1>3. c \notin open /\ \A k \in 1..Len(backlog) : backlog[k] # c
    <2>1. DOMAIN backlog = 1..Len(backlog)
      BY <1>1
    <2>. QED
      BY <2>1 DEF Connect, Connected, Range
  <1>4. \A k \in 1..Len(backlog') : k \in 1..Len(backlog) \/ k = Len(backlog) + 1
    BY <1>1, <1>2
  <1>5. ASSUME NEW k \in 1..Len(backlog')
        PROVE  backlog'[k] \notin open'
    BY <1>1, <1>2, <1>3, <1>4 DEF BacklogFresh
  <1>6. ASSUME NEW k \in 1..Len(backlog'), NEW j \in 1..Len(backlog'),
               backlog'[j] = backlog'[k]
        PROVE  j = k
    <2>1. CASE k \in 1..Len(backlog) /\ j \in 1..Len(backlog)
      BY <1>2, <1>6, <2>1 DEF BacklogFresh
    <2>2. CASE ~(k \in 1..Len(backlog) /\ j \in 1..Len(backlog))
      BY <1>2, <1>3, <1>4, <1>6, <2>2
    <2>. QED
      BY <2>1, <2>2
  <1>. QED
    BY <1>2, <1>5, <1>6 DEF BacklogFresh

--------------------------------------------------------------------------------
(* The invariant *)

LEMMA InitInv == Init => IInv
  <1>. SUFFICES ASSUME Init
                PROVE  IInv
    OBVIOUS
  <1>1. handler \in [Conns -> HandlerState]
    BY DEF Init, HandlerState, Places
  <1>2. TypeOK
    <2>1. <<>> \in Seq(Conns) /\ <<>> \in Seq(Request) /\ <<>> \in Seq(ReplyByte)
      OBVIOUS
    <2>2. /\ asked \in [Conns -> Seq(Request)]
          /\ taken \in [Conns -> Nat]
          /\ sent \in [Conns -> Seq(ReplyByte)]
          /\ got \in [Conns -> Nat]
      BY <2>1 DEF Init
    <2>3. \A c \in Conns : handler[c].rest # <<>> <=> handler[c].pc = "send"
      BY DEF Init
    <2>4. /\ kind \in Kinds /\ status = "running" /\ spinning \in BOOLEAN
          /\ backlog \in Seq(Conns) /\ open \in SUBSET Conns
          /\ fin \in SUBSET Conns /\ rst \in SUBSET Conns /\ told \in SUBSET rst
      BY <2>1 DEF Init
    <2>. QED
      BY <1>1, <2>2, <2>3, <2>4 DEF TypeOK
  <1>. QED
    BY <1>2 DEF Init, IInv, ServedOpen, BacklogFresh

LEMMA MovesKeep ==
    ASSUME IInv, NEW c \in Conns, NEW p, NEW r, HandlerMoves(c, p, r),
           taken' \in [Conns -> Nat], sent' \in [Conns -> Seq(ReplyByte)]
    PROVE  IInv'
  <1>1. /\ kind' = kind /\ status' = status /\ spinning' = spinning
        /\ backlog' = backlog /\ open' = open
        /\ asked' = asked /\ got' = got /\ fin' = fin /\ rst' = rst
        /\ told' \in SUBSET rst
    BY DEF HandlerMoves, process, clients
  <1>2. \A d \in Conns : handler'[d].rest # <<>> <=> handler'[d].pc = "send"
    BY DEF HandlerMoves, IInv, TypeOK
  <1>3. TypeOK'
    BY <1>1, <1>2 DEF HandlerMoves, IInv, TypeOK
  <1>4. \A d \in Conns : handler'[d].pc # "none" => d \in open
    BY DEF HandlerMoves, IInv, ServedOpen
  <1>. QED
    BY <1>1, <1>3, <1>4 DEF IInv, ServedOpen, BacklogFresh

LEMMA HandlerKeeps ==
    ASSUME IInv, NEW c \in Conns,
           \/ RecvByte(c) \/ RecvEof(c) \/ SendSome(c)
           \/ SendInterrupted(c) \/ SendReset(c)
    PROVE  IInv'
  <1>1. TypeOK /\ taken \in [Conns -> Nat] /\ sent \in [Conns -> Seq(ReplyByte)]
    BY DEF IInv, TypeOK
  <1>2. CASE RecvByte(c)
    <2>1. taken' \in [Conns -> Nat]
      BY <1>1, <1>2 DEF RecvByte, TakenNext
    <2>. QED
      BY <1>1, <1>2, <2>1, RecvByteMoves, MovesKeep
  <1>3. CASE RecvEof(c)
    BY <1>1, <1>3, RecvEofMoves, MovesKeep
  <1>4. CASE SendSome(c)
    <2>. DEFINE r == handler[c].rest
                t == SubSeq(r, 1, Chunk(c))
    <2>1. /\ t \in Seq(ReplyByte) /\ sent[c] \in Seq(ReplyByte)
          /\ sent' = [sent EXCEPT ![c] = sent[c] \o t]
          /\ taken' = taken
      BY <1>1, <1>4, SendSomeMoves
    <2>2. sent[c] \o t \in Seq(ReplyByte)
      BY <2>1, ConcatProperties
    <2>. HIDE DEF t
    <2>3. sent' \in [Conns -> Seq(ReplyByte)]
      BY <1>1, <2>1, <2>2
    <2>4. \E p, q : HandlerMoves(c, p, q)
      BY <1>1, <1>4, SendSomeMoves
    <2>. QED
      BY <1>1, <2>1, <2>3, <2>4, MovesKeep
  <1>5. CASE SendInterrupted(c) \/ SendReset(c)
    BY <1>1, <1>5, GivesUpMoves, MovesKeep
  <1>. QED
    BY <1>2, <1>3, <1>4, <1>5

LEMMA AcceptKeeps ==
    ASSUME IInv, Accept \/ AcceptUnserved
    PROVE  IInv'
  <1>1. PICK c : c = Head(backlog)
    OBVIOUS
  <1>2. /\ TypeOK /\ MayAccept /\ c \in Conns /\ c \notin open
        /\ backlog' \in Seq(Conns) /\ open' \in SUBSET Conns /\ BacklogFresh'
    BY <1>1, TakeFromBacklog DEF IInv, Accept, AcceptUnserved
  <1>3. open' = open \cup {c} /\ UNCHANGED <<process, taken, sent, told, clients>>
    BY <1>1, <1>2 DEF MayAccept
  <1>4. handler[c].pc = "none" /\ handler[c].rest = <<>>
    BY <1>2 DEF IInv, ServedOpen, TypeOK
  <1>5. /\ handler' \in [Conns -> HandlerState]
        /\ \A d \in Conns : handler'[d].rest = handler[d].rest
        /\ \A d \in Conns \ {c} : handler'[d].pc = handler[d].pc
        /\ handler'[c].pc # "send"
    <2>1. CASE Accept
      <3>1. /\ handler' = [handler EXCEPT ![c].pc = "recv"]
            /\ "recv" \in Places /\ <<>> \in Rests \cup {<<>>}
        BY <1>1, <2>1 DEF Accept, Places
      <3>2. /\ handler' \in [Conns -> HandlerState]
            /\ handler'[c].pc = "recv" /\ handler'[c].rest = <<>>
            /\ \A d \in Conns \ {c} : handler'[d] = handler[d]
        BY <1>2, <1>4, <3>1, HandlerUpdate
      <3>. QED
        BY <1>4, <3>2
    <2>2. CASE AcceptUnserved
      BY <1>2, <1>4, <2>2 DEF AcceptUnserved, TypeOK
    <2>. QED
      BY <2>1, <2>2
  <1>6. \A d \in Conns : handler'[d].rest # <<>> <=> handler'[d].pc = "send"
    BY <1>2, <1>4, <1>5 DEF TypeOK
  <1>7. TypeOK'
    BY <1>2, <1>3, <1>5, <1>6 DEF TypeOK, process, clients
  <1>8. ServedOpen'
    BY <1>2, <1>3, <1>5 DEF IInv, ServedOpen
  <1>. QED
    BY <1>2, <1>7, <1>8 DEF IInv

LEMMA QuietKeeps ==
    ASSUME IInv, AcceptFails \/ Dies \/ \E c \in Conns : RecvReset(c)
    PROVE  IInv'
  <1>1. /\ kind' = kind /\ status' \in {"running", "exited", "killed"}
        /\ spinning' \in BOOLEAN
        /\ told' \in SUBSET rst
        /\ UNCHANGED <<handler, backlog, open, taken, sent, clients>>
    BY DEF IInv, TypeOK, AcceptFails, Dies, RecvReset, RecvFails, process
  <1>2. TypeOK'
    BY <1>1 DEF IInv, TypeOK, clients
  <1>. QED
    BY <1>1, <1>2 DEF IInv, ServedOpen, BacklogFresh

\* What clients do to the connections.
ClientMoves ==
    /\ UNCHANGED <<server, open>>
    /\ backlog' \in Seq(Conns) /\ BacklogFresh'
    /\ asked' \in [Conns -> Seq(Request)]
    /\ got' \in [Conns -> Nat]
    /\ fin' \in SUBSET Conns
    /\ rst' \in SUBSET Conns /\ rst \subseteq rst'

LEMMA ClientMovesKeep == IInv /\ ClientMoves => IInv'
  <1>. SUFFICES ASSUME IInv, ClientMoves
                PROVE  IInv'
    OBVIOUS
  <1>1. TypeOK'
    BY DEF ClientMoves, IInv, TypeOK, server
  <1>. QED
    BY <1>1 DEF ClientMoves, IInv, ServedOpen, server

LEMMA ConnectMoves ==
    ASSUME IInv, NEW c \in Conns, Connect(c)
    PROVE  ClientMoves
  BY JoinBacklog DEF Connect, ClientMoves, clients, IInv, TypeOK

LEMMA AskMoves ==
    ASSUME IInv, NEW c \in Conns, NEW b \in Request, ClientAsk(c, b)
    PROVE  ClientMoves
  <1>1. asked[c] \in Seq(Request) /\ Append(asked[c], b) \in Seq(Request)
    BY DEF IInv, TypeOK
  <1>. QED
    BY <1>1 DEF ClientAsk, ClientMoves, IInv, TypeOK, BacklogFresh

LEMMA ReadMoves ==
    ASSUME IInv, NEW c \in Conns, NEW n \in Nat, ClientRead(c, n)
    PROVE  ClientMoves
  BY DEF ClientRead, ClientMoves, IInv, TypeOK, BacklogFresh

LEMMA ResetMoves ==
    ASSUME IInv, NEW c \in Conns, ClientClose(c) \/ ClientReset(c)
    PROVE  ClientMoves
  BY DEF ClientClose, ClientReset, ClientMoves, IInv, TypeOK, BacklogFresh

LEMMA ClientKeeps ==
    ASSUME IInv, NEW c \in Conns, ClientStep(c)
    PROVE  IInv'
  <1>1. ASSUME ClientReads(c)
        PROVE  ClientMoves
    <2>1. PICK n \in 1..Len(sent[c]) : ClientRead(c, n)
      BY <1>1 DEF ClientReads
    <2>. QED
      BY <2>1, ReadMoves
  <1>. QED
    BY <1>1, ConnectMoves, AskMoves, ResetMoves, ClientMovesKeep DEF ClientStep

LEMMA StepInv == IInv /\ [Next]_vars => IInv'
  <1>. SUFFICES ASSUME IInv, [Next]_vars
                PROVE  IInv'
    OBVIOUS
  <1>1. CASE ServerStep
    <2>1. TypeOK
      BY DEF IInv
    <2>. QED
      BY <1>1, <2>1, AcceptKeeps, HandlerKeeps, QuietKeeps, WhoDies DEF ServerStep, Handler
  <1>2. ASSUME NEW c \in Conns, ClientStep(c)
        PROVE  IInv'
    BY <1>2, ClientKeeps
  <1>3. CASE UNCHANGED vars
    BY <1>3 DEF vars, IInv, TypeOK, ServedOpen, BacklogFresh
  <1>. QED
    BY <1>1, <1>2, <1>3 DEF Next

LEMMA Invariance == Spec => []IInv
  BY InitInv, StepInv, PTL DEF Spec

(***************************************************************************)
(* A handler sends as long as something of its reply is left, for each of  *)
(* the three servers.                                                      *)
(***************************************************************************)
THEOREM TypeCorrect == Spec => []TypeOK
  <1>1. IInv => TypeOK
    BY DEF IInv
  <1>. QED
    BY <1>1, Invariance, PTL

--------------------------------------------------------------------------------
(* Refinement *)

(***************************************************************************)
(* A step after which some connections more are given up, and which changes*)
(* nothing else the service speaks of.                                     *)
(***************************************************************************)
LEMMA EndRefines ==
    ASSUME NEW cs \in SUBSET Conns,
           UNCHANGED <<asked, taken, sent>>,
           GivenUp' = GivenUp \cup cs,
           \A c \in Conns : c \notin GivenUp' => handler'[c].rest = handler[c].rest
    PROVE  Service!Next \/ UNCHANGED Service!svars
  <1>1. Owed' = [c \in Conns |-> IF c \in cs THEN <<>> ELSE Owed[c]]
    BY DEF Owed
  <1>2. CASE cs = {}
    <2>1. Owed' = Owed /\ GivenUp' = GivenUp
      BY <1>1, <1>2 DEF Owed
    <2>. QED
      BY <2>1 DEF Service!svars
  <1>3. CASE cs # {}
    <2>1. Service!End(cs)
      BY <1>1 DEF Service!End
    <2>. QED
      BY <1>3, <2>1 DEF Service!Next
  <1>. QED
    BY <1>2, <1>3

\* A step that changes nothing the service speaks of.
LEMMA QuietStep ==
    ASSUME UNCHANGED <<asked, taken, sent, handler>>, GivenUp' = GivenUp
    PROVE  UNCHANGED Service!svars
  BY DEF Service!svars, Owed

LEMMA RepliesAgree ==
    /\ \A d : Service!Reply(d) = Reply(d)
    /\ Service!Request = Request
  BY DEF Service!Reply, Reply, Service!Request, Request

LEMMA AcceptRefines ==
    ASSUME IInv, Accept \/ AcceptUnserved
    PROVE  Service!Next \/ UNCHANGED Service!svars
  <1>1. PICK c : c = Head(backlog)
    OBVIOUS
  <1>2. TypeOK /\ MayAccept /\ c \in Conns /\ c \notin open
    BY <1>1, TakeFromBacklog DEF IInv, Accept, AcceptUnserved
  <1>3. /\ open' = open \cup {c}
        /\ UNCHANGED <<status, rst, asked, taken, sent>> /\ status = "running"
    BY <1>1, <1>2 DEF MayAccept, process, clients
  <1>4. /\ \A d \in Conns : handler'[d].rest = handler[d].rest
        /\ \A d \in Conns \ {c} : handler'[d].pc = handler[d].pc
        /\ handler'[c].pc # "over"
    <2>1. handler[c].pc = "none" /\ handler \in [Conns -> HandlerState]
      BY <1>2 DEF IInv, ServedOpen, TypeOK
    <2>2. CASE Accept
      <3>1. handler' = [handler EXCEPT ![c].pc = "recv"] /\ "recv" \in Places
        BY <1>1, <2>2 DEF Accept, Places
      <3>2. \A r \in Rests \cup {<<>>} : r = handler[c].rest =>
               /\ handler'[c].pc = "recv" /\ handler'[c].rest = r
               /\ \A d \in Conns \ {c} : handler'[d] = handler[d]
        BY <1>2, <3>1, HandlerUpdate
      <3>3. /\ handler'[c].pc = "recv" /\ handler'[c].rest = handler[c].rest
            /\ \A d \in Conns \ {c} : handler'[d] = handler[d]
        BY <1>2, <3>2, HandlerOf
      <3>. QED
        BY <3>3
    <2>3. CASE AcceptUnserved
      BY <2>1, <2>3 DEF AcceptUnserved
    <2>. QED
      BY <2>2, <2>3
  <1>5. GivenUp' = GivenUp \cup ({c} \cap rst)
    <2>1. open \subseteq Conns
      BY <1>2 DEF TypeOK
    <2>2. \A d \in open : d # c => (d \in GivenUp' <=> d \in GivenUp)
      BY <1>3, <1>4, <2>1 DEF GivenUp
    <2>3. c \in GivenUp' <=> c \in rst
      BY <1>3, <1>4 DEF GivenUp
    <2>4. GivenUp \subseteq open /\ GivenUp' \subseteq open \cup {c}
      BY <1>3 DEF GivenUp
    <2>. QED
      BY <1>2, <2>2, <2>3, <2>4
  <1>6. /\ {c} \cap rst \in SUBSET Conns
        /\ \A d \in Conns : d \notin GivenUp' => handler'[d].rest = handler[d].rest
    BY <1>2, <1>4
  <1>. QED
    BY <1>3, <1>5, <1>6, EndRefines

LEMMA DieRefines ==
    ASSUME IInv, Dies
    PROVE  Service!Next \/ UNCHANGED Service!svars
  <1>1. GivenUp' = GivenUp \cup open /\ open \in SUBSET Conns
    BY DEF Dies, GivenUp, IInv, TypeOK
  <1>. QED
    BY <1>1, EndRefines DEF Dies, clients

LEMMA QuietRefines ==
    ASSUME AcceptFails \/ \E c \in Conns : RecvReset(c)
    PROVE  Service!Next \/ UNCHANGED Service!svars
  <1>1. UNCHANGED <<status, handler, open, rst, asked, taken, sent>>
    BY DEF AcceptFails, RecvReset, process, clients
  <1>2. GivenUp' = GivenUp
    BY <1>1 DEF GivenUp
  <1>. QED
    BY <1>1, <1>2, QuietStep

\* What a handler's own step changes of the connections given up.
LEMMA MovesGiveUp ==
    ASSUME IInv, NEW c \in Conns, NEW p, NEW r, HandlerMoves(c, p, r)
    PROVE  /\ GivenUp' = GivenUp \cup (IF p = "over" THEN {c} ELSE {})
           /\ c \in GivenUp <=> c \in rst
           /\ asked' = asked
           /\ \A d \in Conns \ {c} : handler'[d].rest = handler[d].rest
           /\ handler'[c].rest = r
  <1>1. c \in open /\ UNCHANGED <<status, open, rst, asked>> /\ open \subseteq Conns
    BY DEF HandlerMoves, IInv, ServedOpen, TypeOK, process, clients
  <1>. QED
    BY <1>1 DEF HandlerMoves, GivenUp

LEMMA HandlerRefines ==
    ASSUME IInv, NEW c \in Conns,
           \/ RecvByte(c) \/ RecvEof(c) \/ SendSome(c)
           \/ SendInterrupted(c) \/ SendReset(c)
    PROVE  Service!Next \/ UNCHANGED Service!svars
  <1>1. TypeOK
    BY DEF IInv
  <1>2. CASE RecvByte(c)
    <2>. DEFINE b == asked[c][taken[c] + 1]
                p == IF b \in Digits THEN "send" ELSE "recv"
                r == IF b \in Digits THEN Reply(b) ELSE <<>>
    <2>1. /\ HandlerMoves(c, p, r)
          /\ handler[c].rest = <<>>
          /\ taken' = [taken EXCEPT ![c] = @ + 1] /\ sent' = sent
          /\ taken[c] < Len(asked[c])
      BY <1>1, <1>2, RecvByteMoves DEF RecvByte, HasByte
    <2>2. /\ GivenUp' = GivenUp /\ asked' = asked
          /\ \A d \in Conns \ {c} : handler'[d].rest = handler[d].rest
          /\ handler'[c].rest = r
      <3>1. PICK q, t : q = p /\ t = r
        OBVIOUS
      <3>2. HandlerMoves(c, q, t) /\ q # "over"
        <4>1. p # "over"
          OBVIOUS
        <4>. HIDE DEF p, r
        <4>. QED
          BY <2>1, <3>1, <4>1
      <3>3. /\ GivenUp' = GivenUp /\ asked' = asked
            /\ \A d \in Conns \ {c} : handler'[d].rest = handler[d].rest
            /\ handler'[c].rest = t
        BY <3>2, MovesGiveUp
      <3>. QED
        BY <3>1, <3>3
    <2>3. CASE c \in GivenUp
      <3>1. Owed' = Owed
        BY <2>2, <2>3 DEF Owed
      <3>2. Service!Drain(c)
        BY <2>1, <2>2, <2>3, <3>1 DEF Service!Drain
      <3>. QED
        BY <3>2 DEF Service!Next
    <2>4. CASE c \notin GivenUp
      <3>. HIDE DEF b, r
      <3>1. Owed' = [Owed EXCEPT ![c] = r] /\ Owed[c] = <<>>
        BY <2>1, <2>2, <2>4 DEF Owed
      <3>2. r = IF b \in Digits THEN Service!Reply(b) ELSE <<>>
        BY RepliesAgree DEF r
      <3>3. Service!Take(c)
        BY <2>1, <2>2, <2>4, <3>1, <3>2 DEF Service!Take, Service!AnswerTo, b
      <3>. QED
        BY <3>3 DEF Service!Next
    <2>. QED
      BY <2>3, <2>4
  <1>3. CASE RecvEof(c)
    <2>1. HandlerMoves(c, "over", <<>>) /\ UNCHANGED <<taken, sent>>
      BY <1>1, <1>3, RecvEofMoves
    <2>2. /\ GivenUp' = GivenUp \cup {c} /\ asked' = asked
          /\ \A d \in Conns \ {c} : handler'[d].rest = handler[d].rest
      BY <2>1, MovesGiveUp
    <2>. QED
      BY <2>1, <2>2, EndRefines
  <1>4. CASE SendSome(c)
    <2>. DEFINE r == handler[c].rest
                n == Chunk(c)
    <2>1. /\ n \in 1..Len(r) /\ n \in 1..ReplyLen /\ c \notin rst
          /\ sent' = [sent EXCEPT ![c] = @ \o SubSeq(r, 1, n)]
          /\ taken' = taken
      BY <1>1, <1>4, SendSomeMoves
    <2>2. PICK p \in {"recv", "send"} : HandlerMoves(c, p, Unsent(r, n))
      BY <1>1, <1>4, SendSomeMoves
    <2>3. /\ GivenUp' = GivenUp /\ c \notin GivenUp /\ asked' = asked
          /\ \A d \in Conns \ {c} : handler'[d].rest = handler[d].rest
          /\ handler'[c].rest = SubSeq(r, n + 1, Len(r))
      BY <2>1, <2>2, MovesGiveUp DEF Unsent
    <2>4. Owed[c] = r /\ Owed' = [Owed EXCEPT ![c] = SubSeq(r, n + 1, Len(r))]
      BY <2>3 DEF Owed
    <2>. HIDE DEF r, n
    <2>5. Service!Emit(c, n)
      BY <2>1, <2>3, <2>4 DEF Service!Emit
    <2>. QED
      BY <2>1, <2>5 DEF Service!Next
  <1>5. CASE SendInterrupted(c) \/ SendReset(c)
    <2>1. HandlerMoves(c, "recv", <<>>) /\ c \in rst /\ UNCHANGED <<taken, sent>>
      BY <1>1, <1>5, GivesUpMoves
    <2>2. /\ GivenUp' = GivenUp \cup {} /\ c \in GivenUp /\ asked' = asked
          /\ \A d \in Conns \ {c} : handler'[d].rest = handler[d].rest
      BY <2>1, MovesGiveUp
    <2>. QED
      BY <2>1, <2>2, EndRefines
  <1>. QED
    BY <1>2, <1>3, <1>4, <1>5

LEMMA ClientRefines ==
    ASSUME IInv, NEW c \in Conns, ClientStep(c)
    PROVE  Service!Next \/ UNCHANGED Service!svars
  <1>1. UNCHANGED <<status, handler, open, taken, sent>>
    BY DEF ClientStep, Connect, ClientAsk, ClientReads, ClientRead, ClientClose,
           ClientReset, server
  <1>2. ASSUME NEW b \in Request, ClientAsk(c, b)
        PROVE  Service!Next
    <2>1. GivenUp' = GivenUp /\ Owed' = Owed
      BY <1>1, <1>2 DEF ClientAsk, GivenUp, Owed
    <2>2. Service!Ask(c, b)
      BY <1>1, <1>2, <2>1 DEF ClientAsk, Service!Ask
    <2>. QED
      BY <2>2, RepliesAgree DEF Service!Next
  <1>3. CASE ClientReset(c)
    <2>1. rst' = rst \cup {c} /\ asked' = asked
      BY <1>3 DEF ClientReset
    <2>2. GivenUp' = GivenUp \cup ({c} \cap open)
      BY <1>1, <2>1 DEF GivenUp
    <2>. QED
      BY <1>1, <2>1, <2>2, EndRefines
  <1>4. CASE Connect(c) \/ ClientReads(c) \/ ClientClose(c)
    <2>1. UNCHANGED <<rst, asked>>
      BY <1>4 DEF Connect, ClientReads, ClientRead, ClientClose, clients
    <2>2. GivenUp' = GivenUp
      BY <1>1, <2>1 DEF GivenUp
    <2>. QED
      BY <1>1, <2>1, <2>2, QuietStep
  <1>. QED
    BY <1>2, <1>3, <1>4 DEF ClientStep

LEMMA InitRefines == Init => Service!Init
  BY DEF Init, Service!Init, Owed, GivenUp

LEMMA StepRefines == IInv /\ [Next]_vars => [Service!Next]_(Service!svars)
  <1>. SUFFICES ASSUME IInv, [Next]_vars
                PROVE  Service!Next \/ UNCHANGED Service!svars
    OBVIOUS
  <1>1. CASE ServerStep
    <2>1. TypeOK
      BY DEF IInv
    <2>. QED
      BY <1>1, <2>1, AcceptRefines, HandlerRefines, QuietRefines, WhoDies, DieRefines
         DEF ServerStep, Handler
  <1>2. ASSUME NEW c \in Conns, ClientStep(c)
        PROVE  Service!Next \/ UNCHANGED Service!svars
    BY <1>2, ClientRefines
  <1>3. CASE UNCHANGED vars
    BY <1>3 DEF vars, Service!svars, Owed, GivenUp
  <1>. QED
    BY <1>1, <1>2, <1>3 DEF Next

(***************************************************************************)
(* pi_server.c, pi_server_tcp.c and pi_server_tcp_threaded.c implement the *)
(* PIGen service, in spite of every failure of recv, send, accept and      *)
(* pthread_create they ignore.                                             *)
(***************************************************************************)
THEOREM Refinement == Spec => ImplementsService
  BY InitRefines, StepRefines, Invariance, PTL DEF Spec, ImplementsService, Service!Spec

--------------------------------------------------------------------------------
(* What follows from the refinement *)

SP == INSTANCE PiServiceProofs WITH
    owed <- Owed,
    out <- sent,
    ended <- GivenUp

LEMMA SameDue == \A c : Service!Due(c) = SP!Due(c)
  BY DEF Service!Due, SP!Due, Service!Replies, SP!Replies, Service!AnswerTo,
         SP!AnswerTo, Service!Reply, SP!Reply

LEMMA SameService == Service!Spec <=> SP!Spec
  <1>1. Service!Init <=> SP!Init
    BY DEF Service!Init, SP!Init
  <1>2. [Service!Next]_(Service!svars) <=> [SP!Next]_(SP!svars)
    BY DEF Service!Next, SP!Next, Service!svars, SP!svars, Service!Ask, SP!Ask,
           Service!Take, SP!Take, Service!Drain, SP!Drain, Service!Emit, SP!Emit,
           Service!End, SP!End, Service!Request, SP!Request,
           Service!AnswerTo, SP!AnswerTo, Service!Reply, SP!Reply
  <1>. QED
    BY <1>1, <1>2, PTL DEF Service!Spec, SP!Spec

(***************************************************************************)
(* What each of the three servers has sent a client, and owes it, are the  *)
(* replies to the digits it took from the client, in order.                *)
(***************************************************************************)
THEOREM RepliesExact == Spec => []AnswersExactly
  <1>1. Service!AnswersExactly <=> SP!AnswersExactly
    BY SameDue DEF Service!AnswersExactly, SP!AnswersExactly, Service!IsPrefix, SP!IsPrefix
  <1>2. SP!Spec => [](SP!Typed /\ SP!AnswersExactly)
    BY PiAssumption, SP!ServiceAnswersExactly
  <1>. QED
    BY <1>1, <1>2, Refinement, SameService, PTL DEF ImplementsService, AnswersExactly

LEMMA TakenWasAsked == Spec => []SP!Typed
  <1>1. SP!Spec => [](SP!Typed /\ SP!AnswersExactly)
    BY PiAssumption, SP!ServiceAnswersExactly
  <1>. QED
    BY <1>1, Refinement, SameService, PTL DEF ImplementsService

--------------------------------------------------------------------------------
(* The end of a session *)

(***************************************************************************)
(* What makes SessionEndsDone inductive: whose session is over was reset,  *)
(* or has closed its side and so asks for nothing more.                    *)
(***************************************************************************)
EndedDone(c) == handler[c].pc = "over" => c \in rst \/ (c \in fin /\ Answered(c))

AllEndedDone == \A c \in Conns : EndedDone(c)

LEMMA RecvEofDone ==
    ASSUME IInv, SP!Typed, AnswersExactly, NEW c \in Conns, RecvEof(c)
    PROVE  EndedDone(c)'
  <1>1. /\ c \in open /\ handler[c].pc = "recv" /\ handler[c].rest = <<>>
        /\ status = "running" /\ StreamEnds(c) /\ told \subseteq rst
        /\ UNCHANGED <<status, open, taken, sent, asked, fin, rst>>
    BY HandlerOf DEF IInv, TypeOK, ServedOpen, RecvEof, At, process, clients
  <1>. SUFFICES ASSUME c \notin rst
                PROVE  (c \in fin /\ Answered(c))'
    BY <1>1 DEF EndedDone
  <1>2. c \in fin /\ taken[c] = Len(asked[c])
    <2>1. /\ c \in fin /\ ~(taken[c] < Len(asked[c]))
          /\ taken[c] <= Len(asked[c]) /\ asked[c] \in Seq(Request) /\ taken[c] \in Nat
      BY <1>1 DEF StreamEnds, HasByte, SP!Typed, IInv, TypeOK
    <2>. QED
      BY <2>1, LenProperties
  <1>3. sent[c] = Service!Due(c)
    <2>1. c \notin GivenUp /\ Owed[c] = <<>>
      BY <1>1 DEF GivenUp, Owed
    <2>2. sent[c] \o <<>> = Service!Due(c) /\ sent[c] \in Seq(ReplyByte)
      BY <2>1 DEF AnswersExactly, Service!AnswersExactly, IInv, TypeOK
    <2>. QED
      BY <2>2, ConcatEmptySeq
  <1>4. Service!Due(c)' = Service!Due(c)
    BY <1>1 DEF Service!Due, Service!Replies, Service!AnswerTo, Service!Reply
  <1>. QED
    BY <1>1, <1>2, <1>3, <1>4 DEF Answered

\* Nothing is taken, asked or sent on a connection whose session is over.
LEMMA OverStays ==
    ASSUME IInv, [Next]_vars, NEW c \in Conns, handler[c].pc = "over"
    PROVE  /\ taken'[c] = taken[c] /\ sent'[c] = sent[c]
           /\ rst \subseteq rst' /\ fin \subseteq fin'
           /\ c \in fin \cup rst => asked'[c] = asked[c]
  <1>. USE DEF process, clients
  <1>1. TypeOK
    BY DEF IInv
  <1>2. ASSUME NEW d \in Conns, Handler(d)
        PROVE  /\ taken'[c] = taken[c] /\ sent'[c] = sent[c]
               /\ UNCHANGED <<asked, fin, rst>>
    <2>1. d = c => FALSE
      BY <1>2 DEF Handler, RecvByte, RecvEof, RecvReset, RecvResetKills, RecvFails, SendSome,
             SendInterrupted, SendReset, SendKills, Unsuccessful, At
    <2>2. /\ taken' = taken \/ taken' = [taken EXCEPT ![d] = @ + 1]
          /\ sent' = sent \/ \E x : sent' = [sent EXCEPT ![d] = x]
          /\ UNCHANGED <<asked, fin, rst>>
      BY <1>2 DEF Handler, RecvByte, RecvEof, RecvReset, RecvResetKills, RecvFails, SendSome,
             SendInterrupted, SendReset, SendKills, TakenNext
    <2>. QED
      BY <1>1, <2>1, <2>2 DEF TypeOK
  <1>3. CASE Accept \/ AcceptUnserved \/ AcceptFails \/ Interrupt
    BY <1>3 DEF Accept, AcceptUnserved, AcceptFails, Interrupt, MayAccept
  <1>4. ASSUME NEW d \in Conns, ClientStep(d)
        PROVE  /\ UNCHANGED <<taken, sent>> /\ rst \subseteq rst' /\ fin \subseteq fin'
               /\ c \in fin \cup rst => asked'[c] = asked[c]
    BY <1>1, <1>4 DEF TypeOK, ClientStep, Connect, ClientAsk, ClientReads, ClientRead,
           ClientClose, ClientReset, server
  <1>5. CASE UNCHANGED vars
    BY <1>5 DEF vars
  <1>. QED
    BY <1>2, <1>3, <1>4, <1>5 DEF Next, ServerStep

\* Only the end of the stream ends a session.
LEMMA OverBegins ==
    ASSUME IInv, [Next]_vars, NEW c \in Conns, handler[c].pc # "over", ~RecvEof(c)
    PROVE  handler'[c].pc # "over"
  <1>1. TypeOK
    BY DEF IInv
  <1>2. ASSUME NEW d \in Conns,
               RecvByte(d) \/ SendSome(d) \/ SendInterrupted(d) \/ SendReset(d)
        PROVE  handler'[c].pc # "over"
    <2>1. PICK p, r : HandlerMoves(d, p, r) /\ p # "over"
      <3>1. CASE RecvByte(d)
        BY <1>1, <3>1, RecvByteMoves
      <3>2. CASE SendSome(d)
        BY <1>1, <3>2, SendSomeMoves
      <3>3. CASE SendInterrupted(d) \/ SendReset(d)
        BY <1>1, <3>3, GivesUpMoves
      <3>. QED
        BY <1>2, <3>1, <3>2, <3>3
    <2>. QED
      BY <2>1 DEF HandlerMoves
  <1>3. ASSUME NEW d \in Conns, RecvEof(d)
        PROVE  handler'[c].pc # "over"
    BY <1>1, <1>3, RecvEofMoves DEF HandlerMoves
  <1>4. CASE Accept
    BY <1>1, <1>4 DEF Accept, TypeOK, HandlerState
  <1>5. ASSUME UNCHANGED handler
        PROVE  handler'[c].pc # "over"
    BY <1>5
  <1>6. ASSUME NEW d \in Conns, RecvReset(d) \/ RecvResetKills(d) \/ SendKills(d)
        PROVE  UNCHANGED handler
    BY <1>6 DEF RecvReset, RecvResetKills, SendKills
  <1>7. CASE AcceptUnserved \/ AcceptFails \/ Interrupt \/ UNCHANGED vars
    BY <1>5, <1>7 DEF AcceptUnserved, AcceptFails, Interrupt, vars
  <1>8. ASSUME NEW d \in Conns, ClientStep(d)
        PROVE  UNCHANGED handler
    BY <1>8 DEF ClientStep, Connect, ClientAsk, ClientReads, ClientRead, ClientClose,
           ClientReset, server
  <1>. QED
    BY <1>2, <1>3, <1>4, <1>5, <1>6, <1>7, <1>8 DEF Next, ServerStep, Handler

LEMMA StepEndedDone ==
    IInv /\ SP!Typed /\ AnswersExactly /\ AllEndedDone /\ [Next]_vars => AllEndedDone'
  <1>. SUFFICES ASSUME IInv, SP!Typed, AnswersExactly, AllEndedDone, [Next]_vars,
                       NEW c \in Conns
                PROVE  EndedDone(c)'
    BY DEF AllEndedDone
  <1>1. CASE handler[c].pc = "over"
    <2>1. /\ taken'[c] = taken[c] /\ sent'[c] = sent[c]
          /\ rst \subseteq rst' /\ fin \subseteq fin'
          /\ c \in fin \cup rst => asked'[c] = asked[c]
      BY <1>1, OverStays
    <2>2. c \in rst \/ (c \in fin /\ Answered(c))
      BY <1>1 DEF AllEndedDone, EndedDone
    <2>3. asked'[c] = asked[c]
      BY <2>1, <2>2
    <2>4. Service!Due(c)' = Service!Due(c)
      BY <2>1, <2>3 DEF Service!Due, Service!Replies, Service!AnswerTo, Service!Reply
    <2>. QED
      BY <2>1, <2>2, <2>3, <2>4 DEF EndedDone, Answered
  <1>2. CASE handler[c].pc # "over" /\ ~RecvEof(c)
    BY <1>2, OverBegins DEF EndedDone
  <1>3. CASE RecvEof(c)
    BY <1>3, RecvEofDone
  <1>. QED
    BY <1>1, <1>2, <1>3

(***************************************************************************)
(* A session ends (lines 46, 34 and 17: recv returned 0) only after every  *)
(* digit its client wrote was taken and answered in full, unless the client*)
(* reset the connection.                                                   *)
(***************************************************************************)
THEOREM SessionsEndDone == Spec => []SessionEndsDone
  <1>1. Init => AllEndedDone
    BY DEF Init, AllEndedDone, EndedDone
  <1>2. AllEndedDone => SessionEndsDone
    BY DEF AllEndedDone, EndedDone, SessionEndsDone
  <1>. QED
    BY <1>1, <1>2, StepEndedDone, Invariance, TakenWasAsked, RepliesExact, PTL DEF Spec

--------------------------------------------------------------------------------
(* The servers with the client programs *)

ClientState ==
    [pc : ClientPlaces, count : 0..MaxCount, i : 0..MaxCount,
     last : ReplyByte \cup {Garbage}, shown : Seq(ReplyByte \cup {Garbage})]

(***************************************************************************)
(* What the client's own program keeps: it asks for digits only, reads no  *)
(* more than it was sent, and is gone once its side is closed.             *)
(***************************************************************************)
Keeps(c) ==
    /\ repl[c] \in ClientState
    /\ InClient(c, "send") \/ InClient(c, "recv") => repl[c].i < repl[c].count
    /\ Len(repl[c].shown) = repl[c].i
    /\ asked[c] \in Seq(Digits)
    /\ taken[c] <= Len(asked[c])
    /\ got[c] <= Len(sent[c])
    /\ InClient(c, "gone") \/ c \notin fin \cup rst

SessionInv ==
    /\ IInv
    /\ DOMAIN repl = Conns
    /\ \A c \in Conns : Keeps(c)

--------------------------------------------------------------------------------
(* What a step of the server is to a client that neither closed nor reset *)

Unaffected(c) ==
    /\ taken'[c] = taken[c] /\ sent'[c] = sent[c]
    /\ handler'[c].rest = handler[c].rest

Takes(c) ==
    LET b == asked[c][taken[c] + 1]
    IN  /\ HasByte(c)
        /\ taken'[c] = taken[c] + 1 /\ sent'[c] = sent[c]
        /\ handler[c].rest = <<>>
        /\ handler'[c].rest = IF b \in Digits THEN Reply(b) ELSE <<>>

Sends(c) ==
    LET r == handler[c].rest
    IN  /\ Chunk(c) \in 1..Len(r)
        /\ taken'[c] = taken[c]
        /\ sent'[c] = sent[c] \o SubSeq(r, 1, Chunk(c))
        /\ handler'[c].rest = Unsent(r, Chunk(c))

LEMMA OtherHandler ==
    ASSUME IInv, NEW c \in Conns, NEW d \in Conns, d # c, Handler(d)
    PROVE  Unaffected(c)
  <1>. USE DEF IInv, TypeOK
  <1>1. CASE RecvByte(d)
    BY <1>1, RecvByteMoves DEF HandlerMoves, Unaffected
  <1>2. CASE RecvEof(d)
    BY <1>2, RecvEofMoves DEF HandlerMoves, Unaffected
  <1>3. CASE SendSome(d)
    <2>1. /\ sent' = [sent EXCEPT ![d] = @ \o SubSeq(handler[d].rest, 1, Chunk(d))]
          /\ taken' = taken
          /\ \A e \in Conns \ {d} : handler'[e] = handler[e]
      BY <1>3, SendSomeMoves DEF HandlerMoves
    <2>. QED
      BY <2>1 DEF Unaffected
  <1>4. CASE SendInterrupted(d) \/ SendReset(d)
    BY <1>4, GivesUpMoves DEF HandlerMoves, Unaffected
  <1>5. CASE RecvReset(d) \/ RecvResetKills(d) \/ SendKills(d)
    BY <1>5 DEF RecvReset, RecvResetKills, SendKills, Unaffected
  <1>. QED
    BY <1>1, <1>2, <1>3, <1>4, <1>5 DEF Handler

LEMMA OwnHandler ==
    ASSUME IInv, NEW c \in Conns, Handler(c)
    PROVE  \/ Unaffected(c)
           \/ Takes(c)
           \/ Sends(c)
           \/ c \in rst /\ taken'[c] = taken[c] /\ sent'[c] = sent[c]
  <1>. USE DEF IInv, TypeOK
  <1>1. CASE RecvByte(c)
    <2>. DEFINE b == asked[c][taken[c] + 1]
    <2>1. /\ handler'[c].rest = IF b \in Digits THEN Reply(b) ELSE <<>>
          /\ handler[c].rest = <<>> /\ sent' = sent
      BY <1>1, RecvByteMoves DEF HandlerMoves
    <2>2. HasByte(c) /\ taken'[c] = taken[c] + 1
      BY <1>1 DEF RecvByte, TakenNext
    <2>. QED
      BY <2>1, <2>2 DEF Takes
  <1>2. CASE RecvEof(c)
    BY <1>2, RecvEofMoves DEF HandlerMoves, Unaffected, RecvEof, At
  <1>3. CASE SendSome(c)
    BY <1>3, SendSomeMoves DEF HandlerMoves, Sends
  <1>4. CASE SendInterrupted(c) \/ SendReset(c)
    BY <1>4, GivesUpMoves
  <1>5. CASE RecvReset(c) \/ RecvResetKills(c) \/ SendKills(c)
    BY <1>5 DEF RecvReset, RecvResetKills, SendKills, Unaffected
  <1>. QED
    BY <1>1, <1>2, <1>3, <1>4, <1>5 DEF Handler

LEMMA ServerStepOn ==
    ASSUME IInv, NEW c \in Conns, ServerStep
    PROVE  /\ UNCHANGED clients
           /\ status # "running" => status' # "running"
           /\ \/ Unaffected(c)
              \/ Takes(c)
              \/ Sends(c)
              \/ c \in rst /\ taken'[c] = taken[c] /\ sent'[c] = sent[c]
  <1>1. CASE Accept \/ AcceptUnserved
    <2>1. /\ UNCHANGED <<process, taken, sent, told, clients>>
          /\ handler' = [handler EXCEPT ![Head(backlog)].pc = "recv"] \/ handler' = handler
      BY <1>1 DEF Accept, AcceptUnserved, MayAccept
    <2>2. handler'[c].rest = handler[c].rest
      <3>1. handler[c] \in HandlerState /\ handler \in [Conns -> HandlerState]
        BY DEF IInv, TypeOK
      <3>. QED
        BY <2>1, <3>1 DEF HandlerState
    <2>. QED
      BY <2>1, <2>2 DEF Unaffected, process
  <1>2. CASE AcceptFails \/ Interrupt
    BY <1>2 DEF AcceptFails, Interrupt, Unaffected
  <1>3. ASSUME NEW d \in Conns, Handler(d)
        PROVE  UNCHANGED clients /\ (status # "running" => status' # "running")
    BY <1>3 DEF Handler, RecvByte, RecvEof, RecvReset, RecvResetKills, RecvFails, SendSome,
                SendInterrupted, SendReset, SendKills, Unsuccessful, At, process
  <1>. QED
    BY <1>1, <1>2, <1>3, OtherHandler, OwnHandler DEF ServerStep

--------------------------------------------------------------------------------
(* What a step of the clients is *)

\* Client d does not take part in the step.
Untouched(d) ==
    /\ repl'[d] = repl[d] /\ asked'[d] = asked[d] /\ got'[d] = got[d]
    /\ d \in fin' \cup rst' => d \in fin \cup rst

LEMMA GotoChanges ==
    ASSUME SessionInv, NEW c \in Conns, NEW p \in ClientPlaces, Goto(c, p)
    PROVE  /\ DOMAIN repl' = Conns
           /\ \A d \in Conns \ {c} : repl'[d] = repl[d]
           /\ repl'[c] \in ClientState
           /\ repl'[c].pc = p /\ repl'[c].count = repl[c].count /\ repl'[c].i = repl[c].i
           /\ repl'[c].last = repl[c].last /\ repl'[c].shown = repl[c].shown
  <1>1. repl[c] \in ClientState /\ DOMAIN repl = Conns
    BY DEF SessionInv, Keeps
  <1>2. repl' = [repl EXCEPT ![c].pc = p]
    BY DEF Goto
  <1>3. repl'[c] = [repl[c] EXCEPT !.pc = p]
    BY <1>1, <1>2
  <1>. HIDE DEF ClientState
  <1>4. repl'[c] \in ClientState
    BY <1>1, <1>3 DEF ClientState
  <1>. QED
    BY <1>1, <1>2, <1>3, <1>4 DEF ClientState

LEMMA ShowChanges ==
    ASSUME SessionInv, NEW c \in Conns, NEW b \in ReplyByte \cup {Garbage}, Show(c, b),
           InClient(c, "recv")
    PROVE  /\ DOMAIN repl' = Conns
           /\ \A d \in Conns \ {c} : repl'[d] = repl[d]
           /\ repl'[c] \in ClientState
           /\ repl'[c].pc \in {"send", "scanf"}
           /\ repl'[c].pc = "send" => repl'[c].i < repl'[c].count
           /\ repl'[c].i = repl[c].i + 1
           /\ repl'[c].shown = Append(repl[c].shown, b)
  <1>. DEFINE r == repl[c]
              r2 == [pc |-> IF r.i + 1 < r.count THEN "send" ELSE "scanf",
                     count |-> r.count, i |-> r.i + 1, last |-> b,
                     shown |-> Append(r.shown, b)]
  <1>1. r \in ClientState /\ DOMAIN repl = Conns /\ r.i < r.count /\ MaxCount \in Nat
    BY SessionAssumption DEF SessionInv, Keeps
  <1>2. repl' = [repl EXCEPT ![c] = r2]
    BY DEF Show
  <1>3. Append(r.shown, b) \in Seq(ReplyByte \cup {Garbage})
    BY <1>1, AppendProperties DEF ClientState
  <1>4. r.i + 1 \in 0..MaxCount /\ r.count \in 0..MaxCount
    BY <1>1 DEF ClientState
  <1>5. r2 \in ClientState
    BY <1>3, <1>4 DEF ClientState, ClientPlaces
  <1>. QED
    BY <1>1, <1>2, <1>5

LEMMA PromptChanges ==
    ASSUME SessionInv, NEW c \in Conns, NEW n \in 1..MaxCount, Prompt(c, n)
    PROVE  /\ DOMAIN repl' = Conns
           /\ \A d \in Conns \ {c} : repl'[d] = repl[d]
           /\ repl'[c] \in ClientState
           /\ repl'[c].pc = "send" /\ repl'[c].i = 0 /\ repl'[c].count = n
           /\ repl'[c].shown = <<>>
           /\ UNCHANGED vars /\ InClient(c, "scanf")
  <1>1. repl[c] \in ClientState /\ DOMAIN repl = Conns
    BY DEF SessionInv, Keeps
  <1>2. repl' = [repl EXCEPT ![c] =
                   [pc |-> "send", count |-> n, i |-> 0, last |-> @.last, shown |-> <<>>]]
    BY DEF Prompt
  <1>3. <<>> \in Seq(ReplyByte \cup {Garbage}) /\ n \in 0..MaxCount /\ 0 \in 0..MaxCount
    BY SessionAssumption
  <1>. QED
    BY <1>1, <1>2, <1>3 DEF Prompt, ClientState, ClientPlaces

--------------------------------------------------------------------------------
(* The invariant of the client's program *)

\* A step of client c.
ClientStepDone(c) ==
    /\ ClientMoves
    /\ DOMAIN repl' = Conns
    /\ \A d \in Conns \ {c} : Untouched(d)
    /\ Keeps(c)'

LEMMA ClientFacts ==
    ASSUME SessionInv, NEW c \in Conns
    PROVE  /\ IInv /\ Keeps(c) /\ repl[c] \in ClientState
           /\ asked[c] \in Seq(Digits) /\ Len(asked[c]) \in Nat
           /\ taken[c] \in Nat /\ taken[c] <= Len(asked[c])
           /\ sent[c] \in Seq(ReplyByte) /\ Len(sent[c]) \in Nat
           /\ got[c] \in Nat /\ got[c] <= Len(sent[c])
           /\ handler[c].rest \in Seq(ReplyByte) /\ Len(handler[c].rest) \in 0..ReplyLen
           /\ ReplyLen \in Nat \ {0} /\ ClientBuf \in 1..ReplyLen /\ MaxCount \in Nat \ {0}
  <1>1. IInv /\ TypeOK /\ Keeps(c)
    BY DEF SessionInv, IInv
  <1>2. handler[c].rest \in Seq(ReplyByte) /\ Len(handler[c].rest) \in 0..ReplyLen
    BY <1>1, HandlerOf, RestIsSeq
  <1>. QED
    BY <1>1, <1>2, PiAssumption, SessionAssumption DEF Keeps, TypeOK

LEMMA Nothing == IInv /\ UNCHANGED vars => ClientMoves
  BY DEF vars, ClientMoves, server, IInv, TypeOK, BacklogFresh

LEMMA ConnectsDone ==
    ASSUME SessionInv, NEW c \in Conns, Connects(c)
    PROVE  ClientStepDone(c)
  <1>1. ClientMoves
    BY ConnectMoves DEF Connects, SessionInv
  <1>2. UNCHANGED <<server, clients>>
    BY DEF Connects, Connect
  <1>3. InClient(c, "connect") /\ Goto(c, "scanf") /\ "scanf" \in ClientPlaces
    BY DEF Connects, ClientPlaces
  <1>. QED
    BY <1>1, <1>2, <1>3, GotoChanges, ClientFacts
       DEF ClientStepDone, Untouched, Keeps, server, clients, InClient

LEMMA PromptDone ==
    ASSUME SessionInv, NEW c \in Conns, NEW n \in 1..MaxCount, Prompt(c, n)
    PROVE  ClientStepDone(c)
  <1>1. ClientMoves /\ UNCHANGED vars /\ InClient(c, "scanf")
    BY PromptChanges, Nothing DEF SessionInv
  <1>2. Len(<<>>) = 0 /\ 0 < n
    OBVIOUS
  <1>. QED
    BY <1>1, <1>2, PromptChanges, ClientFacts
       DEF ClientStepDone, Untouched, Keeps, vars, InClient

LEMMA LeavesDone ==
    ASSUME SessionInv, NEW c \in Conns, SendDies(c) \/ RecvZero(c)
    PROVE  ClientStepDone(c)
  <1>1. UNCHANGED vars /\ Goto(c, "gone") /\ "gone" \in ClientPlaces
    BY DEF SendDies, RecvZero, ClientPlaces
  <1>2. ClientMoves
    BY <1>1, Nothing DEF SessionInv
  <1>. QED
    BY <1>1, <1>2, GotoChanges, ClientFacts
       DEF ClientStepDone, Untouched, Keeps, vars, InClient

LEMMA AsksDigit ==
    ASSUME SessionInv, NEW c \in Conns, InClient(c, "send")
    PROVE  RequestByte(repl[c]) \in Digits \cap Request
  <1>1. repl[c].i < repl[c].count /\ repl[c].i \in Nat /\ repl[c].count \in 0..MaxCount
    BY ClientFacts DEF Keeps, ClientState
  <1>2. repl[c].i \in 0..(MaxCount - 1)
    BY <1>1, ClientFacts
  <1>. QED
    BY <1>2, SessionAssumption DEF RequestByte, Request

LEMMA AsksDone ==
    ASSUME SessionInv, NEW c \in Conns, SendDigit(c) \/ SendLost(c)
    PROVE  ClientStepDone(c)
  <1>. DEFINE b == RequestByte(repl[c])
  <1>1. /\ InClient(c, "send") /\ ClientAsk(c, b) /\ Goto(c, "recv")
        /\ "recv" \in ClientPlaces
    BY DEF SendDigit, SendLost, ClientPlaces
  <1>2. b \in Digits /\ b \in Request
    BY <1>1, AsksDigit
  <1>3. ClientMoves
    BY <1>1, <1>2, AskMoves DEF SessionInv
  <1>. HIDE DEF b
  <1>4. /\ asked' = [asked EXCEPT ![c] = Append(@, b)]
        /\ UNCHANGED <<server, got, fin, rst>>
    BY <1>1 DEF ClientAsk
  <1>5. asked'[c] = Append(asked[c], b)
    BY <1>4, ClientFacts DEF IInv, TypeOK
  <1>6. asked'[c] \in Seq(Digits) /\ Len(asked'[c]) = Len(asked[c]) + 1
    BY <1>2, <1>5, ClientFacts, AppendProperties
  <1>. QED
    BY SMTT(40), <1>1, <1>3, <1>4, <1>6, GotoChanges, ClientFacts
       DEF ClientStepDone, Untouched, Keeps, server, InClient

LEMMA RecvFullDone ==
    ASSUME SessionInv, NEW c \in Conns, RecvFull(c)
    PROVE  ClientStepDone(c)
  <1>. DEFINE n == got[c] + ClientBuf
  <1>1. n \in Nat /\ n >= 1
    BY ClientFacts
  <1>2. InClient(c, "recv") /\ ClientRead(c, n) /\ Show(c, sent[c][n])
    BY DEF RecvFull
  <1>3. ClientMoves
    BY <1>1, <1>2, ReadMoves DEF SessionInv
  <1>4. /\ n <= Len(sent[c]) /\ got' = [got EXCEPT ![c] = n] /\ c \notin rst
        /\ UNCHANGED <<server, asked, fin, rst>>
    BY <1>1, <1>2, ClientFacts DEF ClientRead
  <1>5. sent[c][n] \in ReplyByte \cup {Garbage}
    BY <1>1, <1>4, ClientFacts, ElementOfSeq
  <1>. HIDE DEF n
  <1>6. got'[c] = n
    BY <1>4 DEF SessionInv, IInv, TypeOK
  <1>7. Len(repl'[c].shown) = repl[c].i + 1
    BY <1>2, <1>5, ShowChanges, ClientFacts, AppendProperties DEF Keeps, ClientState
  <1>. QED
    BY <1>2, <1>3, <1>4, <1>5, <1>6, <1>7, ShowChanges, ClientFacts
       DEF ClientStepDone, Untouched, Keeps, server, InClient

LEMMA RecvErrorDone ==
    ASSUME SessionInv, NEW c \in Conns, RecvError(c)
    PROVE  ClientStepDone(c)
  <1>1. /\ InClient(c, "recv") /\ Show(c, repl[c].last) /\ UNCHANGED vars
        /\ repl[c].last \in ReplyByte \cup {Garbage}
    BY ClientFacts DEF RecvError, ClientState
  <1>2. ClientMoves
    BY <1>1, Nothing DEF SessionInv
  <1>3. Len(repl'[c].shown) = repl[c].i + 1
    BY <1>1, ShowChanges, ClientFacts, AppendProperties DEF Keeps, ClientState
  <1>. QED
    BY <1>1, <1>2, <1>3, ShowChanges, ClientFacts
       DEF ClientStepDone, Untouched, Keeps, vars, InClient

\* The kernel closes the socket of a client that ends.
LEMMA SocketCloses ==
    ASSUME SessionInv, NEW c \in Conns, NEW n, CloseSocket(c, n),
           got' \in [Conns -> Nat], got'[c] <= Len(sent[c]),
           \A d \in Conns \ {c} : got'[d] = got[d],
           Goto(c, "gone")
    PROVE  ClientStepDone(c)
  <1>1. /\ UNCHANGED <<server, backlog, open, asked>>
        /\ fin' \in SUBSET Conns /\ rst' \in SUBSET Conns /\ rst \subseteq rst'
        /\ \A d \in Conns \ {c} : d \in fin' \cup rst' => d \in fin \cup rst
    BY DEF CloseSocket, SessionInv, IInv, TypeOK
  <1>2. ClientMoves
    BY <1>1 DEF ClientMoves, SessionInv, IInv, TypeOK, BacklogFresh
  <1>3. "gone" \in ClientPlaces
    BY DEF ClientPlaces
  <1>. QED
    BY <1>1, <1>2, <1>3, GotoChanges, ClientFacts
       DEF ClientStepDone, Untouched, Keeps, server, InClient

LEMMA RecvShortDone ==
    ASSUME SessionInv, NEW c \in Conns, RecvShort(c)
    PROVE  ClientStepDone(c)
  <1>1. PICK n \in ReadSizes(c) :
            /\ got' = [got EXCEPT ![c] = @ + n]
            /\ CloseSocket(c, Unread(c) - n)
    BY DEF RecvShort
  <1>2. Unread(c) \in Nat
    BY ClientFacts DEF Unread
  <1>3. PICK a \in Arrived(c) : n = IF a < ClientBuf THEN a ELSE ClientBuf
    BY DEF ReadSizes
  <1>4. a \in 1..Unread(c)
    BY <1>2 DEF Arrived
  <1>5. n \in Nat /\ n <= Unread(c)
    BY <1>2, <1>3, <1>4, ClientFacts
  <1>6. /\ got' \in [Conns -> Nat] /\ got'[c] = got[c] + n
        /\ \A d \in Conns \ {c} : got'[d] = got[d]
    BY <1>1, <1>5 DEF SessionInv, IInv, TypeOK
  <1>7. got'[c] <= Len(sent[c])
    BY <1>5, <1>6, ClientFacts DEF Unread
  <1>. QED
    BY <1>1, <1>6, <1>7, SocketCloses DEF RecvShort

LEMMA QuitDone ==
    ASSUME SessionInv, NEW c \in Conns, Quit(c)
    PROVE  ClientStepDone(c)
  BY SocketCloses, ClientFacts DEF Quit, SessionInv, IInv, TypeOK

LEMMA LateResetDone ==
    ASSUME SessionInv, NEW c \in Conns, LateReset(c)
    PROVE  ClientStepDone(c)
  <1>1. /\ ClientReset(c) /\ InClient(c, "gone") /\ repl' = repl
        /\ UNCHANGED <<server, asked, got, fin>> /\ rst' = rst \cup {c}
    BY DEF LateReset, ClientReset
  <1>2. ClientMoves
    BY <1>1, ResetMoves DEF SessionInv
  <1>. QED
    BY <1>1, <1>2, ClientFacts
       DEF ClientStepDone, Untouched, Keeps, server, InClient, SessionInv

ClientSide(c) == ProgramStep(c) \/ UserStep(c) \/ LateReset(c)

LEMMA ClientSideDone ==
    ASSUME SessionInv, NEW c \in Conns, ClientSide(c)
    PROVE  ClientStepDone(c)
  BY ConnectsDone, PromptDone, LeavesDone, AsksDone, RecvFullDone, RecvErrorDone,
     RecvShortDone, QuitDone, LateResetDone DEF ClientSide, ProgramStep, UserStep

LEMMA SessionInitInv == SessionInit => SessionInv
  <1>. SUFFICES ASSUME SessionInit
                PROVE  SessionInv
    OBVIOUS
  <1>1. IInv
    BY InitInv DEF SessionInit
  <1>2. ASSUME NEW c \in Conns
        PROVE  Keeps(c)
    <2>1. repl[c] = NewClient /\ asked[c] = <<>> /\ taken[c] = 0 /\ got[c] = 0
          /\ sent[c] = <<>> /\ c \notin fin \cup rst
      BY DEF SessionInit, Init
    <2>2. NewClient \in ClientState
      BY SessionAssumption DEF NewClient, ClientState, ClientPlaces
    <2>. QED
      BY <2>1, <2>2 DEF Keeps, NewClient, InClient
  <1>. QED
    BY <1>1, <1>2 DEF SessionInv, SessionInit

LEMMA ServerKeeps ==
    ASSUME SessionInv, ServerStep, UNCHANGED repl
    PROVE  SessionInv'
  <1>1. IInv /\ IInv'
    BY StepInv DEF SessionInv, Next
  <1>2. ASSUME NEW c \in Conns
        PROVE  Keeps(c)'
    <2>1. UNCHANGED clients
      BY <1>1, ServerStepOn
    <2>2. taken'[c] <= Len(asked[c])
      <3>1. taken'[c] = taken[c] \/ (HasByte(c) /\ taken'[c] = taken[c] + 1)
        BY <1>1, ServerStepOn DEF Unaffected, Takes, Sends
      <3>. QED
        BY <3>1, ClientFacts DEF HasByte
    <2>3. Len(sent[c]) <= Len(sent'[c])
      <3>1. CASE Sends(c)
        <4>. DEFINE n == Chunk(c)
                    t == SubSeq(handler[c].rest, 1, n)
        <4>1. n \in 1..Len(handler[c].rest) /\ sent'[c] = sent[c] \o t
          BY <3>1 DEF Sends
        <4>2. t \in Seq(ReplyByte)
          <5>1. \A k \in 1..n : handler[c].rest[k] \in ReplyByte
            BY <4>1, ClientFacts, ElementOfSeq
          <5>. QED
            BY <4>1, <5>1, ClientFacts, SubSeqProperties
        <4>. HIDE DEF t
        <4>3. Len(sent[c] \o t) = Len(sent[c]) + Len(t) /\ Len(t) \in Nat
          BY <4>2, ClientFacts, ConcatProperties
        <4>. QED
          BY <4>1, <4>3, ClientFacts
      <3>. QED
        BY <1>1, <3>1, ClientFacts, ServerStepOn DEF Unaffected, Takes
    <2>4. Len(sent'[c]) \in Nat
      BY <1>1 DEF IInv, TypeOK
    <2>. QED
      BY <2>1, <2>2, <2>3, <2>4, ClientFacts DEF Keeps, clients, InClient
  <1>. QED
    BY <1>1, <1>2 DEF SessionInv

LEMMA SessionStep == SessionInv /\ [SessionNext]_sessionVars => SessionInv'
  <1>. SUFFICES ASSUME SessionInv, [SessionNext]_sessionVars
                PROVE  SessionInv'
    OBVIOUS
  <1>1. CASE ServerStep /\ UNCHANGED repl
    BY <1>1, ServerKeeps
  <1>2. ASSUME NEW c \in Conns, ClientSide(c)
        PROVE  SessionInv'
    <2>1. ClientStepDone(c)
      BY <1>2, ClientSideDone
    <2>2. IInv'
      BY <2>1, ClientMovesKeep DEF ClientStepDone, SessionInv
    <2>3. ASSUME NEW d \in Conns \ {c}
          PROVE  Keeps(d)'
      <3>1. Untouched(d) /\ UNCHANGED server /\ Keeps(d)
        BY <2>1 DEF ClientStepDone, ClientMoves, SessionInv
      <3>. QED
        BY <3>1 DEF Untouched, Keeps, server, InClient
    <2>. QED
      BY <2>1, <2>2, <2>3 DEF ClientStepDone, SessionInv
  <1>3. CASE UNCHANGED sessionVars
    BY <1>3 DEF sessionVars, vars, SessionInv, IInv, TypeOK, ServedOpen, BacklogFresh,
                Keeps, InClient
  <1>. QED
    BY <1>1, <1>2, <1>3 DEF SessionNext, ClientSide

LEMMA SessionInvariance == SessionSpec => []SessionInv
  BY SessionInitInv, SessionStep, PTL DEF SessionSpec

--------------------------------------------------------------------------------
(* Nobody waits for nobody *)

\* Bytes of replies that are still to come to the client.
Pending(c) ==
    ReplyLen * (Len(asked[c]) - taken[c]) + Len(handler[c].rest) + Unread(c)

(***************************************************************************)
(* A client that is still there has a full reply to come for the request it*)
(* waits for, over and above what it left unread of earlier ones.  What the*)
(* server sends may come in pieces, be late by several requests, and be    *)
(* longer than what the client reads.                                      *)
(***************************************************************************)
Enough(c) ==
    \/ InClient(c, "gone")
    \/ Pending(c) >= IF InClient(c, "recv") THEN ReplyLen ELSE 0

AllEnough == \A c \in Conns : Enough(c)

LEMMA ProductStep ==
    \A r \in Nat : \A k \in Int : r * (k - 1) = r * k - r /\ r * (k + 1) = r * k + r
  OBVIOUS

LEMMA SentPiece ==
    ASSUME IInv, NEW c \in Conns, Sends(c)
    PROVE  LET r == handler[c].rest
               n == Chunk(c)
           IN  /\ n \in 1..Len(r) /\ Len(r) \in 0..ReplyLen
               /\ SubSeq(r, 1, n) \in Seq(ReplyByte) /\ Len(SubSeq(r, 1, n)) = n
               /\ Len(sent'[c]) = Len(sent[c]) + n
               /\ Len(handler'[c].rest) = Len(r) - n
  <1>. DEFINE r == handler[c].rest
              n == Chunk(c)
  <1>1. r \in Seq(ReplyByte) /\ Len(r) \in 0..ReplyLen /\ sent[c] \in Seq(ReplyByte)
        /\ r \in Rests \cup {<<>>}
    BY HandlerOf, RestIsSeq DEF IInv, TypeOK
  <1>2. /\ n \in 1..Len(r)
        /\ sent'[c] = sent[c] \o SubSeq(r, 1, n) /\ handler'[c].rest = Unsent(r, n)
    BY DEF Sends
  <1>. HIDE DEF n, r
  <1>3. Len(r) \in Nat /\ n \in Nat /\ n >= 1 /\ n <= Len(r)
    BY <1>1, <1>2, PiAssumption
  <1>4. SubSeq(r, 1, n) \in Seq(ReplyByte) /\ Len(SubSeq(r, 1, n)) = n
    <2>1. \A k \in 1..n : r[k] \in ReplyByte
      BY <1>1, <1>3, ElementOfSeq
    <2>. QED
      BY <1>3, <2>1, SubSeqProperties
  <1>5. Len(Unsent(r, n)) = Len(r) - n
    <2>1. \A k \in (n + 1)..Len(r) : r[k] \in ReplyByte
      BY <1>1, <1>3, ElementOfSeq
    <2>2. Len(SubSeq(r, n + 1, Len(r))) =
             IF n + 1 <= Len(r) THEN Len(r) - (n + 1) + 1 ELSE 0
      BY <1>3, <2>1, SubSeqProperties
    <2>. QED
      BY <1>3, <2>2 DEF Unsent
  <1>6. Len(sent'[c]) = Len(sent[c]) + n
    BY <1>1, <1>2, <1>4, ConcatProperties
  <1>. QED
    BY <1>1, <1>2, <1>4, <1>5, <1>6 DEF n, r

LEMMA PendingKept ==
    ASSUME SessionInv, SessionInv', NEW c \in Conns, ServerStep, UNCHANGED repl,
           ~InClient(c, "gone")
    PROVE  Pending(c)' = Pending(c)
  <1>1. c \notin fin \cup rst /\ IInv
    BY ClientFacts DEF Keeps
  <1>2. UNCHANGED clients /\ (Unaffected(c) \/ Takes(c) \/ Sends(c))
    BY <1>1, ServerStepOn
  <1>3. asked'[c] = asked[c] /\ got'[c] = got[c]
    BY <1>2 DEF clients
  <1>4. CASE Unaffected(c)
    BY <1>3, <1>4 DEF Unaffected, Pending, Unread
  <1>5. CASE Takes(c)
    <2>. DEFINE k == Len(asked[c]) - taken[c]
    <2>1. k \in Int /\ ReplyLen \in Nat /\ Len(asked[c]) - (taken[c] + 1) = k - 1
      BY ClientFacts
    <2>2. Len(handler'[c].rest) = ReplyLen
      <3>1. asked[c][taken[c] + 1] \in Digits
        BY <1>5, ClientFacts, ElementOfSeq DEF Takes, HasByte
      <3>. QED
        BY <1>5, <3>1, ReplyIsSeq DEF Takes
    <2>3. ReplyLen * (k - 1) = ReplyLen * k - ReplyLen /\ ReplyLen * k \in Int
      BY <2>1, ProductStep
    <2>4. Pending(c) = ReplyLen * k + Unread(c) /\ Unread(c) \in Int
      BY SMTT(40), <1>5, <2>3, ClientFacts DEF Takes, Pending, Unread
    <2>5. Pending(c)' = ReplyLen * (k - 1) + ReplyLen + Unread(c)
      BY <1>3, <1>5, <2>1, <2>2 DEF Takes, Pending, Unread
    <2>. QED
      BY <2>1, <2>3, <2>4, <2>5
  <1>6. CASE Sends(c)
    <2>. DEFINE n == Chunk(c)
                p == ReplyLen * (Len(asked[c]) - taken[c])
    <2>1. /\ n \in 1..Len(handler[c].rest)
          /\ Len(sent'[c]) = Len(sent[c]) + n
          /\ Len(handler'[c].rest) = Len(handler[c].rest) - n
          /\ taken'[c] = taken[c]
      BY <1>1, <1>6, SentPiece DEF Sends
    <2>2. p \in Int
      BY ClientFacts
    <2>3. Pending(c) = p + Len(handler[c].rest) + (Len(sent[c]) - got[c])
      BY DEF Pending, Unread
    <2>4. Pending(c)' = p + (Len(handler[c].rest) - n) + ((Len(sent[c]) + n) - got[c])
      BY <1>3, <2>1 DEF Pending, Unread
    <2>5. Len(handler[c].rest) \in Int /\ Len(sent[c]) \in Int /\ got[c] \in Int /\ n \in Int
      BY <2>1, ClientFacts
    <2>. HIDE DEF p, n
    <2>. QED
      BY <2>2, <2>3, <2>4, <2>5
  <1>. QED
    BY <1>2, <1>4, <1>5, <1>6

LEMMA PendingIsInt ==
    ASSUME SessionInv, NEW c \in Conns
    PROVE  /\ ReplyLen * (Len(asked[c]) - taken[c]) \in Nat
           /\ Unread(c) \in Nat /\ Pending(c) \in Nat
  <1>1. Len(asked[c]) - taken[c] \in Nat /\ ReplyLen \in Nat /\ Unread(c) \in Nat
    BY ClientFacts DEF Unread
  <1>2. ReplyLen * (Len(asked[c]) - taken[c]) \in Nat
    <2>1. \A a, b \in Nat : a * b \in Nat
      OBVIOUS
    <2>. QED
      BY <1>1, <2>1
  <1>. QED
    BY SMTT(40), <1>1, <1>2, ClientFacts DEF Pending

\* A client's own step.
LEMMA PendingOwn ==
    ASSUME SessionInv, SessionInv', NEW c \in Conns, ClientSide(c), Enough(c)
    PROVE  Enough(c)'
  <1>0. UNCHANGED server
    BY ClientSideDone DEF ClientStepDone, ClientMoves
  <1>1. CASE SendDigit(c) \/ SendLost(c)
    <2>1. /\ InClient(c, "send") /\ Goto(c, "recv")
          /\ ClientAsk(c, RequestByte(repl[c]))
      BY <1>1 DEF SendDigit, SendLost
    <2>. DEFINE k == Len(asked[c]) - taken[c]
    <2>2. Len(asked'[c]) = Len(asked[c]) + 1 /\ got'[c] = got[c]
      BY <2>1, AsksDigit, ClientFacts, AppendProperties DEF ClientAsk, IInv, TypeOK
    <2>3. k \in Int /\ Len(asked'[c]) - taken[c] = k + 1 /\ ReplyLen \in Nat
      BY SMTT(40), <2>2, ClientFacts
    <2>4. ReplyLen * (k + 1) = ReplyLen * k + ReplyLen /\ ReplyLen * k \in Nat
      BY <2>3, ProductStep, PendingIsInt
    <2>5. Pending(c)' = ReplyLen * (k + 1) + Len(handler[c].rest) + Unread(c)
      BY <1>0, <2>2, <2>3 DEF Pending, Unread, server
    <2>6. Len(handler[c].rest) \in Nat /\ Unread(c) \in Nat /\ ReplyLen \in Nat
      BY ClientFacts, PendingIsInt
    <2>. DEFINE p == ReplyLen * k
                q == ReplyLen * (k + 1)
    <2>7. Pending(c)' = q + Len(handler[c].rest) + Unread(c) /\ q = p + ReplyLen /\ p \in Nat
      BY <2>4, <2>5
    <2>. HIDE DEF p, q
    <2>8. Pending(c)' >= ReplyLen /\ Pending(c)' >= 0
      <3>. DEFINE a == Len(handler[c].rest)
                  u == Unread(c)
      <3>1. Pending(c)' = p + ReplyLen + a + u
        BY <2>7
      <3>2. a \in Nat /\ u \in Nat /\ p \in Nat /\ ReplyLen \in Nat
        BY <2>6, <2>7
      <3>. HIDE DEF a, u
      <3>. QED
        BY <3>1, <3>2
    <2>. QED
      BY <2>8 DEF Enough
  <1>2. CASE RecvFull(c)
    <2>1. /\ InClient(c, "recv") /\ Show(c, sent[c][got[c] + ClientBuf])
          /\ ClientRead(c, got[c] + ClientBuf)
      BY <1>2 DEF RecvFull
    <2>2. got'[c] = got[c] + ClientBuf /\ asked' = asked
      BY <2>1, ClientFacts DEF ClientRead, IInv, TypeOK
    <2>3. sent[c][got[c] + ClientBuf] \in ReplyByte
      BY <2>1, ClientFacts, ElementOfSeq DEF ClientRead
    <2>4. ~InClient(c, "recv")'
      BY <2>1, <2>3, ShowChanges DEF InClient
    <2>5. Pending(c)' = Pending(c) - ClientBuf
      <3>. DEFINE p == ReplyLen * (Len(asked[c]) - taken[c])
      <3>1. Pending(c) = p + Len(handler[c].rest) + (Len(sent[c]) - got[c])
        BY DEF Pending, Unread
      <3>2. Pending(c)' = p + Len(handler[c].rest) + (Len(sent[c]) - (got[c] + ClientBuf))
        BY <1>0, <2>2 DEF Pending, Unread, server
      <3>3. p \in Int /\ Len(handler[c].rest) \in Int /\ Len(sent[c]) \in Int
            /\ got[c] \in Int /\ ClientBuf \in Int
        BY PendingIsInt, ClientFacts
      <3>. HIDE DEF p
      <3>. QED
        BY <3>1, <3>2, <3>3
    <2>. QED
      BY <2>1, <2>4, <2>5, PendingIsInt, ClientFacts DEF Enough, InClient
  <1>3. CASE Connects(c) \/ (\E n \in 1..MaxCount : Prompt(c, n)) \/ RecvError(c)
    <2>1. UNCHANGED <<asked, got>>
      BY <1>3 DEF Connects, Connect, Prompt, RecvError, vars, clients
    <2>2. ~InClient(c, "recv")'
      <3>1. CASE Connects(c)
        BY <3>1, GotoChanges DEF Connects, InClient, ClientPlaces
      <3>2. CASE \E n \in 1..MaxCount : Prompt(c, n)
        BY <3>2, PromptChanges DEF InClient
      <3>3. CASE RecvError(c)
        BY <3>3, ShowChanges, ClientFacts DEF RecvError, InClient, ClientState
      <3>. QED
        BY <1>3, <3>1, <3>2, <3>3
    <2>3. Pending(c)' = Pending(c)
      BY <1>0, <2>1 DEF Pending, Unread, server
    <2>. QED
      BY <2>2, <2>3, PendingIsInt DEF Enough
  <1>4. CASE SendDies(c) \/ RecvShort(c) \/ RecvZero(c) \/ Quit(c)
    BY <1>4, GotoChanges
       DEF SendDies, RecvShort, RecvZero, Quit, Enough, InClient, ClientPlaces
  <1>5. CASE LateReset(c)
    BY <1>5 DEF LateReset, Enough, InClient
  <1>. QED
    BY <1>1, <1>2, <1>3, <1>4, <1>5 DEF ClientSide, ProgramStep, UserStep

LEMMA EnoughStep ==
    SessionInv /\ SessionInv' /\ AllEnough /\ [SessionNext]_sessionVars => AllEnough'
  <1>. SUFFICES ASSUME SessionInv, SessionInv', AllEnough, [SessionNext]_sessionVars,
                       NEW c \in Conns
                PROVE  Enough(c)'
    BY DEF AllEnough
  <1>1. CASE ServerStep /\ UNCHANGED repl
    BY <1>1, PendingKept DEF AllEnough, Enough, InClient
  <1>2. ASSUME NEW d \in Conns, ClientSide(d)
        PROVE  Enough(c)'
    <2>1. CASE d = c
      BY <1>2, <2>1, PendingOwn DEF AllEnough
    <2>2. CASE d # c
      BY <1>2, <2>2, ClientSideDone
         DEF ClientStepDone, ClientMoves, Untouched, AllEnough, Enough, Pending, Unread,
             InClient, server
    <2>. QED
      BY <2>1, <2>2
  <1>3. CASE UNCHANGED sessionVars
    BY <1>3 DEF sessionVars, vars, AllEnough, Enough, Pending, Unread, InClient
  <1>. QED
    BY <1>1, <1>2, <1>3 DEF SessionNext, ClientSide

(***************************************************************************)
(* A client in recv and the handler that serves it are never both without a*)
(* byte to go on with, for replies of any length that is no shorter than   *)
(* the client's buffer, any send buffer and any of the servers.            *)
(***************************************************************************)
THEOREM NobodyWaitsForNobody == SessionSpec => []NeverBothWait
  <1>1. SessionInit => AllEnough
    <2>. SUFFICES ASSUME SessionInit, NEW c \in Conns
                  PROVE  Enough(c)
      BY DEF AllEnough
    <2>1. repl[c].pc = "connect" /\ SessionInv
      BY SessionInitInv DEF SessionInit, NewClient
    <2>. QED
      BY <2>1, PendingIsInt DEF Enough, InClient
  <1>2. ASSUME SessionInv, AllEnough
        PROVE  NeverBothWait
    <2>. SUFFICES ASSUME NEW c \in Conns, InClient(c, "recv"), handler[c].pc = "recv",
                         ~HasByte(c)
                  PROVE  Unread(c) > 0
      BY DEF NeverBothWait
    <2>0. SessionInv /\ TypeOK
      BY <1>2 DEF SessionInv, IInv
    <2>1. handler[c].rest = <<>>
      BY <2>0, HandlerOf
    <2>2. Len(asked[c]) - taken[c] = 0
      BY <2>0, ClientFacts DEF HasByte
    <2>3. Pending(c) = ReplyLen * 0 + 0 + Unread(c)
      BY <2>1, <2>2 DEF Pending
    <2>4. Pending(c) >= ReplyLen
      BY <1>2 DEF AllEnough, Enough, InClient
    <2>5. ReplyLen \in Nat \ {0} /\ Unread(c) \in Nat
      BY <2>0, PendingIsInt, ClientFacts
    <2>. QED
      BY <2>3, <2>4, <2>5
  <1>. QED
    BY <1>1, <1>2, SessionInvariance, EnoughStep, PTL DEF SessionSpec

--------------------------------------------------------------------------------
(* One request at a time *)

(***************************************************************************)
(* pi_client.c expects what pi_server.c sends, and the kernel's buffer     *)
(* takes a whole reply.                                                    *)
(***************************************************************************)
RepliesFit == ClientBuf = ReplyLen /\ SndBuf >= ReplyLen

\* The three stages of a request under way.
Asking(c) ==
    /\ Len(asked[c]) = taken[c] + 1
    /\ asked[c][Len(asked[c])] = repl[c].i
    /\ handler[c].rest = <<>> /\ Unread(c) = 0

Answering(c) ==
    /\ Len(asked[c]) = taken[c]
    /\ handler[c].rest = Reply(repl[c].i) /\ repl[c].i \in Digits /\ Unread(c) = 0

ReplyWaits(c) ==
    /\ Len(asked[c]) = taken[c]
    /\ handler[c].rest = <<>> /\ Unread(c) = ReplyLen
    /\ \A k \in 1..ReplyLen : sent[c][got[c] + k] = <<repl[c].i, k>>

(***************************************************************************)
(* LockStep with what the bytes are: the request under way is the client's *)
(* own digit, and the reply to it is the reply to that digit.              *)
(***************************************************************************)
Exchange(c) ==
    IF InClient(c, "recv") THEN Asking(c) \/ Answering(c) \/ ReplyWaits(c)
    ELSE taken[c] = Len(asked[c]) /\ handler[c].rest = <<>> /\ Unread(c) = 0

LEMMA ExchangeTaken ==
    ASSUME SessionInv, NEW c \in Conns, Exchange(c), Takes(c), UNCHANGED <<clients, repl>>
    PROVE  Exchange(c)'
  <1>1. taken[c] < Len(asked[c]) /\ taken[c] \in Nat /\ Len(asked[c]) \in Nat
    BY ClientFacts DEF Takes, HasByte
  <1>2. InClient(c, "recv") /\ Asking(c)
    BY <1>1 DEF Exchange, Answering, ReplyWaits
  <1>3. asked[c][taken[c] + 1] = repl[c].i /\ repl[c].i \in Digits
    BY <1>1, <1>2, ClientFacts, ElementOfSeq DEF Asking
  <1>4. handler'[c].rest = Reply(repl[c].i) /\ taken'[c] = Len(asked[c]) /\ sent'[c] = sent[c]
    BY <1>2, <1>3 DEF Takes, Asking
  <1>. QED
    BY <1>2, <1>3, <1>4 DEF Exchange, Asking, Answering, Unread, clients, InClient

LEMMA ExchangeSent ==
    ASSUME RepliesFit, SessionInv, SessionInv', NEW c \in Conns, Exchange(c), Sends(c),
           UNCHANGED <<clients, repl>>
    PROVE  Exchange(c)'
  <1>. DEFINE r == Reply(repl[c].i)
              n == Chunk(c)
  <1>1. handler[c].rest # <<>>
    BY DEF Sends
  <1>2. InClient(c, "recv") /\ Answering(c)
    BY <1>1 DEF Exchange, Asking, ReplyWaits
  <1>3. /\ handler[c].rest = r /\ r \in Seq(ReplyByte) /\ Len(r) = ReplyLen
        /\ Len(sent[c]) = got[c] /\ Len(sent[c]) \in Nat /\ sent[c] \in Seq(ReplyByte)
        /\ ReplyLen \in Nat \ {0} /\ SndBuf \in Nat
    BY <1>2, ReplyIsSeq, ClientFacts, PiAssumption DEF Answering, Unread
  <1>4. \A k \in 1..ReplyLen : r[k] = <<repl[c].i, k>>
    BY DEF Reply
  <1>5. n = ReplyLen
    <2>1. Room(c) = SndBuf
      BY <1>3 DEF Room
    <2>. QED
      BY <1>3, <2>1 DEF Chunk, RepliesFit
  <1>. HIDE DEF r, n
  <1>6. SubSeq(r, 1, n) = r
    BY <1>3, <1>5, SubSeqFull
  <1>7. sent'[c] = sent[c] \o r /\ taken'[c] = taken[c]
    BY <1>3, <1>6 DEF Sends, n
  <1>8. handler'[c].rest = <<>> /\ Len(sent'[c]) = Len(sent[c]) + ReplyLen
    <2>1. Len(handler'[c].rest) = 0 /\ Len(sent'[c]) = Len(sent[c]) + ReplyLen
      BY <1>3, <1>5, SentPiece, ClientFacts DEF n
    <2>2. handler'[c].rest \in Seq(ReplyByte)
      BY HandlerOf, RestIsSeq DEF SessionInv, IInv, TypeOK, HandlerState
    <2>. QED
      BY <2>1, <2>2, EmptySeq
  <1>9. \A k \in 1..ReplyLen : sent'[c][got[c] + k] = <<repl[c].i, k>>
    <2>. TAKE k \in 1..ReplyLen
    <2>. DEFINE q == sent[c]
                j == Len(q) + k
    <2>1. /\ q \in Seq(ReplyByte) /\ r \in Seq(ReplyByte)
          /\ j \in 1..(Len(q) + Len(r)) /\ ~(j <= Len(q)) /\ j - Len(q) = k
      BY <1>3
    <2>. HIDE DEF q, j
    <2>2. (q \o r)[j] = r[k]
      BY <2>1, ConcatProperties
    <2>. QED
      BY <1>3, <1>4, <1>7, <2>2 DEF q, j
  <1>10. Unread(c)' = ReplyLen /\ asked'[c] = asked[c] /\ got'[c] = got[c] /\ repl' = repl
    BY <1>3, <1>8 DEF Unread, clients
  <1>11. ReplyWaits(c)'
    BY <1>2, <1>7, <1>8, <1>9, <1>10 DEF Answering, ReplyWaits
  <1>. QED
    BY <1>2, <1>11 DEF Exchange, InClient

LEMMA ExchangeServed ==
    ASSUME RepliesFit, SessionInv, SessionInv', NEW c \in Conns, Exchange(c), ServerStep,
           UNCHANGED repl, ~InClient(c, "gone")
    PROVE  Exchange(c)'
  <1>1. c \notin fin \cup rst /\ IInv
    BY ClientFacts DEF Keeps
  <1>2. UNCHANGED clients /\ (Unaffected(c) \/ Takes(c) \/ Sends(c))
    BY <1>1, ServerStepOn
  <1>3. CASE Unaffected(c)
    BY <1>2, <1>3
       DEF Unaffected, Exchange, Asking, Answering, ReplyWaits, Unread, clients, InClient
  <1>. QED
    BY <1>2, <1>3, ExchangeTaken, ExchangeSent

LEMMA ExchangeAsks ==
    ASSUME SessionInv, NEW c \in Conns, Exchange(c), SendDigit(c)
    PROVE  Exchange(c)'
  <1>. DEFINE b == RequestByte(repl[c])
  <1>1. /\ InClient(c, "send") /\ Goto(c, "recv") /\ ClientAsk(c, b) /\ b \in Digits
        /\ "recv" \in ClientPlaces
    BY AsksDigit DEF SendDigit, ClientPlaces
  <1>2. b = repl[c].i
    BY DEF RequestByte
  <1>. HIDE DEF b
  <1>3. asked'[c] = Append(asked[c], b) /\ UNCHANGED <<server, got>>
    BY <1>1, ClientFacts DEF ClientAsk, IInv, TypeOK
  <1>4. Len(asked'[c]) = Len(asked[c]) + 1 /\ asked'[c][Len(asked'[c])] = b
    BY <1>1, <1>3, ClientFacts, AppendProperties
  <1>5. taken[c] = Len(asked[c]) /\ handler[c].rest = <<>> /\ Unread(c) = 0
    BY <1>1 DEF Exchange, InClient
  <1>6. repl'[c].pc = "recv" /\ repl'[c].i = repl[c].i
    BY <1>1, GotoChanges
  <1>. QED
    BY <1>2, <1>3, <1>4, <1>5, <1>6 DEF Exchange, Asking, Unread, server, InClient

LEMMA ReadsReply ==
    ASSUME RepliesFit, SessionInv, NEW c \in Conns, Exchange(c), RecvFull(c)
    PROVE  /\ ReplyWaits(c) /\ Exchange(c)'
           /\ repl'[c].shown = Append(repl[c].shown, <<repl[c].i, ReplyLen>>)
           /\ repl'[c].pc \in {"send", "scanf"}
  <1>. DEFINE n == got[c] + ReplyLen
  <1>1. /\ InClient(c, "recv") /\ ClientRead(c, n) /\ Show(c, sent[c][n])
        /\ ReplyLen \in Nat \ {0} /\ got[c] \in Nat /\ Len(sent[c]) \in Nat
    BY ClientFacts DEF RecvFull, RepliesFit
  <1>2. n <= Len(sent[c]) /\ got' = [got EXCEPT ![c] = n] /\ UNCHANGED <<server, asked>>
    BY <1>1 DEF ClientRead
  <1>3. ReplyWaits(c)
    BY <1>1, <1>2 DEF Exchange, Asking, Answering, Unread
  <1>4. sent[c][n] = <<repl[c].i, ReplyLen>>
    <2>1. ReplyLen \in 1..ReplyLen
      BY <1>1
    <2>. QED
      BY <1>3, <2>1 DEF ReplyWaits
  <1>5. sent[c][n] \in ReplyByte
    <2>1. n \in 1..Len(sent[c])
      BY <1>1, <1>2
    <2>. QED
      BY <2>1, ClientFacts, ElementOfSeq
  <1>. HIDE DEF n
  <1>6. /\ repl'[c].pc \in {"send", "scanf"}
        /\ repl'[c].shown = Append(repl[c].shown, <<repl[c].i, ReplyLen>>)
    BY <1>1, <1>4, <1>5, ShowChanges
  <1>7. got'[c] = n
    BY <1>2, ClientFacts DEF IInv, TypeOK
  <1>8. Unread(c)' = 0
    BY <1>1, <1>2, <1>3, <1>7 DEF ReplyWaits, Unread, server, n
  <1>. QED
    BY <1>2, <1>3, <1>6, <1>8 DEF Exchange, ReplyWaits, server, InClient

\* The steps that show nothing and ask nothing.
LEMMA OtherSteps ==
    ASSUME SessionInv, NEW c \in Conns, ClientSide(c),
           ~SendDigit(c), ~SendLost(c), ~RecvFull(c), ~RecvError(c)
    PROVE  /\ repl'[c].shown \in {repl[c].shown, <<>>}
           /\ \/ InClient(c, "gone")'
              \/ /\ ~InClient(c, "recv") /\ ~InClient(c, "recv")'
                 /\ UNCHANGED <<server, asked, got>>
  <1>1. CASE Connects(c)
    BY <1>1, GotoChanges DEF Connects, Connect, InClient, ClientPlaces, clients
  <1>2. CASE \E n \in 1..MaxCount : Prompt(c, n)
    BY <1>2, PromptChanges DEF InClient, vars, server
  <1>3. CASE SendDies(c) \/ RecvShort(c) \/ RecvZero(c) \/ Quit(c)
    BY <1>3, GotoChanges DEF SendDies, RecvShort, RecvZero, Quit, InClient, ClientPlaces
  <1>4. CASE LateReset(c)
    BY <1>4 DEF LateReset, InClient
  <1>. QED
    BY <1>1, <1>2, <1>3, <1>4 DEF ClientSide, ProgramStep, UserStep

LEMMA ExchangeOwn ==
    ASSUME RepliesFit, SessionInv, NEW c \in Conns, ClientSide(c), Exchange(c),
           ~SendLost(c), ~RecvError(c)
    PROVE  InClient(c, "gone")' \/ Exchange(c)'
  <1>1. CASE SendDigit(c) \/ RecvFull(c)
    BY <1>1, ExchangeAsks, ReadsReply
  <1>2. CASE ~SendDigit(c) /\ ~RecvFull(c)
    BY <1>2, OtherSteps DEF Exchange, Unread, server, InClient
  <1>. QED
    BY <1>1, <1>2

InStep(c) == InClient(c, "gone") \/ Exchange(c) \/ status # "running"

AllInStep == \A c \in Conns : InStep(c)

LEMMA InStepServed ==
    ASSUME RepliesFit, SessionInv, SessionInv', AllInStep, ServerStep, UNCHANGED repl,
           NEW c \in Conns
    PROVE  InStep(c)'
  <1>1. status # "running" => status' # "running"
    BY ServerStepOn DEF SessionInv
  <1>. QED
    BY <1>1, ExchangeServed DEF AllInStep, InStep, InClient

LEMMA InStepStep ==
    ASSUME RepliesFit, SessionInv, SessionInv', AllInStep, [SessionNext]_sessionVars
    PROVE  AllInStep'
  <1>. SUFFICES ASSUME NEW c \in Conns
                PROVE  InStep(c)'
    BY DEF AllInStep
  <1>1. CASE ServerStep /\ UNCHANGED repl
    BY <1>1, InStepServed
  <1>2. ASSUME NEW d \in Conns, ClientSide(d)
        PROVE  InStep(c)'
    <2>1. UNCHANGED server /\ (d # c => Untouched(c))
      BY <1>2, ClientSideDone DEF ClientStepDone, ClientMoves
    <2>2. CASE d = c /\ status = "running"
      <3>1. ~SendLost(c) /\ ~RecvError(c)
        BY <2>2 DEF SendLost, RecvError
      <3>2. CASE Exchange(c)
        BY <1>2, <2>2, <3>1, <3>2, ExchangeOwn DEF InStep
      <3>3. CASE InClient(c, "gone")
        BY <1>2, <2>2, <3>3
           DEF ClientSide, ProgramStep, UserStep, Connects, Prompt, SendDigit, SendDies,
               SendLost, RecvFull, RecvShort, RecvZero, RecvError, Quit, LateReset,
               InStep, InClient
      <3>. QED
        BY <2>2, <3>2, <3>3 DEF AllInStep, InStep
    <2>3. CASE status # "running"
      BY <2>1, <2>3 DEF InStep, server
    <2>4. CASE d # c
      <3>1. /\ repl'[c] = repl[c] /\ asked'[c] = asked[c] /\ got'[c] = got[c]
            /\ status' = status /\ handler' = handler /\ taken' = taken /\ sent' = sent
        BY <2>1, <2>4 DEF Untouched, server
      <3>2. InStep(c)
        BY DEF AllInStep
      <3>. QED
        BY <3>1, <3>2
           DEF InStep, Exchange, Asking, Answering, ReplyWaits, Unread, InClient
    <2>. QED
      BY <2>2, <2>3, <2>4
  <1>3. CASE UNCHANGED sessionVars
    BY <1>3 DEF sessionVars, vars, AllInStep, InStep, Exchange, Asking, Answering,
                ReplyWaits, Unread, InClient
  <1>. QED
    BY <1>1, <1>2, <1>3 DEF SessionNext, ClientSide

LEMMA SessionInitExchange ==
    ASSUME SessionInit, NEW c \in Conns
    PROVE  Exchange(c) /\ repl[c].pc = "connect" /\ repl[c].shown = <<>>
  BY DEF SessionInit, Init, NewClient, Exchange, Unread, InClient

(***************************************************************************)
(* Client and server alternate whenever a reply is as long as what the     *)
(* client receives at a time and fits the send buffer, as the three bytes  *)
(* of pi_server.c and pi_client.c do.                                      *)
(***************************************************************************)
THEOREM ClientAndServerAlternate ==
    ASSUME RepliesFit
    PROVE  SessionSpec => []LockStep
  <1>1. SessionInit => AllInStep
    BY SessionInitExchange DEF AllInStep, InStep
  <1>2. SessionInv /\ SessionInv' /\ AllInStep /\ [SessionNext]_sessionVars => AllInStep'
    BY InStepStep
  <1>3. ASSUME SessionInv, AllInStep
        PROVE  LockStep
    <2>. SUFFICES ASSUME status = "running", NEW c \in Conns, ~InClient(c, "gone")
                  PROVE  /\ InClient(c, "scanf") \/ InClient(c, "send") => Settled(c)
                         /\ InClient(c, "recv") =>
                              \/ /\ Len(asked[c]) = taken[c] + 1
                                 /\ handler[c].rest = <<>> /\ Unread(c) = 0
                              \/ ~HasByte(c) /\ handler[c].rest # <<>> /\ Unread(c) = 0
                              \/ ~HasByte(c) /\ handler[c].rest = <<>> /\ Unread(c) = ReplyLen
      BY DEF LockStep, InClient
    <2>1. Exchange(c)
      BY <1>3 DEF AllInStep, InStep
    <2>2. taken[c] \in Nat
      BY <1>3, ClientFacts
    <2>. QED
      BY <2>1, <2>2, ReplyIsSeq
         DEF Exchange, Asking, Answering, ReplyWaits, Settled, HasByte, InClient
  <1>. QED
    BY <1>1, <1>2, <1>3, SessionInvariance, PTL DEF SessionSpec

--------------------------------------------------------------------------------
(* What is shown *)

Decimal(s, k) == s[k] = <<k - 1, 3>>

AllRight(c) == \A k \in 1..Len(repl[c].shown) : Decimal(repl[c].shown, k)

RightBut(c) ==
    \A k \in 1..Len(repl[c].shown) :
        Decimal(repl[c].shown, k) \/ (k = Len(repl[c].shown) /\ status # "running")

(***************************************************************************)
(* Once a failed recv has shown an old byte the server is gone and nothing *)
(* more is received.                                                       *)
(***************************************************************************)
ShownInv(c) ==
    /\ RightBut(c)
    /\ \/ InClient(c, "gone")
       \/ Exchange(c) /\ AllRight(c)
       \/ status # "running" /\ ~InClient(c, "recv")

AllShown == \A c \in Conns : ShownInv(c)

\* pi_server.c and pi_client.c
UnixPair == Kinds = {"unix"} /\ ReplyLen = 3 /\ ClientBuf = 3 /\ SndBuf >= 3

LEMMA ShownServed ==
    ASSUME UnixPair, SessionInv, SessionInv', AllShown, ServerStep, UNCHANGED repl,
           NEW c \in Conns
    PROVE  ShownInv(c)'
  <1>1. status # "running" => status' # "running"
    BY ServerStepOn DEF SessionInv
  <1>2. Exchange(c) /\ ~InClient(c, "gone") => Exchange(c)'
    BY ExchangeServed DEF UnixPair, RepliesFit
  <1>. QED
    BY <1>1, <1>2 DEF AllShown, ShownInv, RightBut, AllRight, InClient

LEMMA GoneStays ==
    ASSUME NEW c \in Conns, ClientSide(c), InClient(c, "gone")
    PROVE  UNCHANGED <<server, repl>>
  BY DEF ClientSide, ProgramStep, UserStep, Connects, Prompt, SendDigit, SendDies,
         SendLost, RecvFull, RecvShort, RecvZero, RecvError, Quit, LateReset, ClientReset,
         InClient

LEMMA AppendShown ==
    ASSUME SessionInv, NEW c \in Conns, NEW b \in ReplyByte \cup {Garbage},
           AllRight(c), repl'[c].shown = Append(repl[c].shown, b)
    PROVE  /\ Len(repl'[c].shown) = repl[c].i + 1 /\ repl[c].i \in Nat
           /\ repl'[c].shown[repl[c].i + 1] = b
           /\ \A k \in 1..repl[c].i : Decimal(repl'[c].shown, k)
  <1>1. /\ repl[c].shown \in Seq(ReplyByte \cup {Garbage})
        /\ Len(repl[c].shown) = repl[c].i /\ repl[c].i \in Nat
    BY ClientFacts DEF ClientState, Keeps
  <1>. QED
    BY <1>1, AppendProperties DEF AllRight, Decimal

LEMMA ShownRead ==
    ASSUME UnixPair, SessionInv, NEW c \in Conns, ShownInv(c), RecvFull(c)
    PROVE  ShownInv(c)'
  <1>1. InClient(c, "recv")
    BY DEF RecvFull
  <1>2. Exchange(c) /\ AllRight(c)
    BY <1>1 DEF ShownInv, InClient
  <1>3. /\ Exchange(c)'
        /\ repl'[c].shown = Append(repl[c].shown, <<repl[c].i, 3>>)
    BY <1>2, ReadsReply DEF UnixPair, RepliesFit
  <1>4. repl[c].i \in Digits /\ <<repl[c].i, 3>> \in ReplyByte
    <2>1. repl[c].i \in 0..(MaxCount - 1)
      BY <1>1, ClientFacts DEF ClientState, Keeps
    <2>. QED
      BY <2>1, SessionAssumption DEF ReplyByte, UnixPair
  <1>5. /\ Len(repl'[c].shown) = repl[c].i + 1 /\ repl[c].i \in Nat
        /\ repl'[c].shown[repl[c].i + 1] = <<repl[c].i, 3>>
        /\ \A k \in 1..repl[c].i : Decimal(repl'[c].shown, k)
    BY <1>2, <1>3, <1>4, AppendShown
  <1>6. AllRight(c)'
    <2>. SUFFICES ASSUME NEW k \in 1..(repl[c].i + 1)
                  PROVE  Decimal(repl'[c].shown, k)
      BY <1>5 DEF AllRight, Decimal
    <2>1. CASE k = repl[c].i + 1
      <3>1. k - 1 = repl[c].i
        BY <1>5, <2>1
      <3>. QED
        BY <1>5, <2>1, <3>1 DEF Decimal
    <2>2. CASE k \in 1..repl[c].i
      BY <1>5, <2>2
    <2>. QED
      BY <1>5, <2>1, <2>2
  <1>. QED
    BY <1>3, <1>6 DEF ShownInv, AllRight, RightBut

LEMMA ShownOld ==
    ASSUME SessionInv, NEW c \in Conns, ShownInv(c), RecvError(c)
    PROVE  ShownInv(c)'
  <1>1. /\ InClient(c, "recv") /\ status # "running" /\ status' = status
        /\ Show(c, repl[c].last) /\ repl[c].last \in ReplyByte \cup {Garbage}
    BY ClientFacts DEF RecvError, ClientState, vars
  <1>2. AllRight(c)
    BY <1>1 DEF ShownInv, InClient
  <1>3. ~InClient(c, "recv")' /\ repl'[c].shown = Append(repl[c].shown, repl[c].last)
    BY <1>1, ShowChanges DEF InClient
  <1>4. /\ Len(repl'[c].shown) = repl[c].i + 1 /\ repl[c].i \in Nat
        /\ \A k \in 1..repl[c].i : Decimal(repl'[c].shown, k)
    BY <1>1, <1>2, <1>3, AppendShown
  <1>5. RightBut(c)'
    <2>. SUFFICES ASSUME NEW k \in 1..(repl[c].i + 1), k # repl[c].i + 1
                  PROVE  Decimal(repl'[c].shown, k)
      BY <1>1, <1>4 DEF RightBut, Decimal
    <2>. QED
      BY <1>4
  <1>. QED
    BY <1>1, <1>3, <1>5 DEF ShownInv

LEMMA ShownOwn ==
    ASSUME UnixPair, SessionInv, NEW c \in Conns, ShownInv(c), ClientSide(c)
    PROVE  ShownInv(c)'
  <1>1. CASE RecvFull(c)
    BY <1>1, ShownRead
  <1>2. CASE RecvError(c)
    BY <1>2, ShownOld
  <1>3. ~SendLost(c)
    BY DEF UnixPair, SendLost, SessionInv, IInv, TypeOK
  <1>4. status' = status
    BY ClientSideDone DEF ClientStepDone, ClientMoves, server
  <1>5. CASE SendDigit(c)
    <2>1. status = "running" /\ InClient(c, "send") /\ repl'[c].shown = repl[c].shown
      BY <1>5, GotoChanges DEF SendDigit, ClientPlaces
    <2>2. Exchange(c) /\ AllRight(c)
      BY <2>1 DEF ShownInv, InClient
    <2>3. Exchange(c)'
      BY <1>5, <2>2, ExchangeAsks
    <2>. QED
      BY <2>1, <2>2, <2>3 DEF ShownInv, RightBut, AllRight
  <1>6. CASE ~RecvFull(c) /\ ~RecvError(c) /\ ~SendDigit(c)
    <2>1. /\ repl'[c].shown \in {repl[c].shown, <<>>}
          /\ InClient(c, "gone")' \/ (~InClient(c, "recv") /\ ~InClient(c, "recv")')
      BY <1>3, <1>6, OtherSteps
    <2>2. RightBut(c)' /\ (AllRight(c) => AllRight(c)')
      <3>1. CASE repl'[c].shown = repl[c].shown
        BY <1>4, <3>1 DEF ShownInv, RightBut, AllRight, Decimal
      <3>2. CASE repl'[c].shown = <<>>
        <4>1. 1..Len(repl'[c].shown) = {}
          BY <3>2
        <4>. QED
          BY <4>1 DEF RightBut, AllRight
      <3>. QED
        BY <2>1, <3>1, <3>2
    <2>3. Exchange(c) => InClient(c, "gone")' \/ Exchange(c)'
      BY <1>3, <1>6, ExchangeOwn DEF UnixPair, RepliesFit
    <2>4. InClient(c, "gone") => InClient(c, "gone")'
      BY GoneStays DEF InClient
    <2>. QED
      BY <1>4, <2>1, <2>2, <2>3, <2>4 DEF ShownInv
  <1>. QED
    BY <1>1, <1>2, <1>5, <1>6

LEMMA ShownStep ==
    ASSUME UnixPair, SessionInv, SessionInv', AllShown, [SessionNext]_sessionVars
    PROVE  AllShown'
  <1>. SUFFICES ASSUME NEW c \in Conns
                PROVE  ShownInv(c)'
    BY DEF AllShown
  <1>0. ShownInv(c)
    BY DEF AllShown
  <1>1. CASE ServerStep /\ UNCHANGED repl
    BY <1>1, ShownServed
  <1>2. ASSUME NEW d \in Conns, ClientSide(d)
        PROVE  ShownInv(c)'
    <2>1. CASE d = c
      BY <1>0, <1>2, <2>1, ShownOwn
    <2>2. CASE d # c
      <3>1. /\ repl'[c] = repl[c] /\ asked'[c] = asked[c] /\ got'[c] = got[c]
            /\ status' = status /\ handler' = handler /\ taken' = taken /\ sent' = sent
        BY <1>2, <2>2, ClientSideDone DEF ClientStepDone, ClientMoves, Untouched, server
      <3>. QED
        BY <1>0, <3>1
           DEF ShownInv, RightBut, AllRight, Decimal, Exchange, Asking, Answering,
               ReplyWaits, Unread, InClient
    <2>. QED
      BY <2>1, <2>2
  <1>3. CASE UNCHANGED sessionVars
    BY <1>0, <1>3
       DEF sessionVars, vars, ShownInv, RightBut, AllRight, Decimal, Exchange, Asking,
           Answering, ReplyWaits, Unread, InClient
  <1>. QED
    BY <1>1, <1>2, <1>3 DEF SessionNext, ClientSide

(***************************************************************************)
(* pi_client.c shows the decimals it asked for, one after the other, and   *)
(* only the last byte it shows after the server's end may be another.      *)
(***************************************************************************)
THEOREM DecimalsShown ==
    ASSUME UnixPair
    PROVE  SessionSpec => []ShowsDecimals
  <1>1. SessionInit => AllShown
    BY SessionInitExchange DEF AllShown, ShownInv, RightBut, AllRight
  <1>2. SessionInv /\ SessionInv' /\ AllShown /\ [SessionNext]_sessionVars => AllShown'
    BY ShownStep
  <1>3. AllShown => ShowsDecimals
    BY DEF AllShown, ShownInv, RightBut, Decimal, ShowsDecimals
  <1>. QED
    BY <1>1, <1>2, <1>3, SessionInvariance, PTL DEF SessionSpec
================================================================================
