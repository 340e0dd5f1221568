---------------------------- MODULE PiServiceProofs -----------------------------
(***************************************************************************)
(* What PiService promises step by step adds up to what it promises in     *)
(* closed form, whatever the connections, requests and replies are.  The   *)
(* closed form is a recursive function over the requests; the facts about  *)
(* it are proved by induction on their number, that is from the existence  *)
(* of least elements in sets of natural numbers.                           *)
(***************************************************************************)
EXTENDS PiService, Integers, SequenceTheorems, WellFoundedInduction, TLAPS

--------------------------------------------------------------------------------
(* Least elements *)

NatOrder == {ss \in Nat \X Nat : ss[1] < ss[2]}

LEMMA NatOrderMember == \A x, y \in Nat : x < y => <<x, y>> \in NatOrder
  <1>. SUFFICES ASSUME NEW x \in Nat, NEW y \in Nat, x < y
                PROVE  <<x, y>> \in NatOrder
    OBVIOUS
  <1>. DEFINE p == <<x, y>>
  <1>1. p \in Nat \X Nat /\ p[1] = x /\ p[2] = y
    OBVIOUS
  <1>. HIDE DEF p
  <1>2. p \in NatOrder
    BY <1>1 DEF NatOrder
  <1>. QED
    BY <1>2 DEF p

LEMMA NatOrderWellFounded == IsWellFoundedOn(NatOrder, Nat)
  BY NatLessThanWellFounded DEF OpToRel, NatOrder

LEMMA LeastNat ==
    ASSUME NEW T, T \subseteq Nat, T # {}
    PROVE  \E m \in T : \A k \in T : m <= k
  <1>1. \E x \in T : \A y \in T : ~(<<y, x>> \in NatOrder)
    BY NatOrderWellFounded, WFMin, Zenon
  <1>2. PICK x \in T : \A y \in T : ~(<<y, x>> \in NatOrder)
    BY <1>1
  <1>3. ASSUME NEW y \in T PROVE ~(y < x)
    BY <1>2, NatOrderMember
  <1>4. ASSUME NEW y \in T PROVE x <= y
    BY <1>3, x \in Nat, y \in Nat
  <1>. QED
    BY <1>4

\* Induction, for a property given as the set of the numbers that have it.
LEMMA AllNat ==
    ASSUME NEW P, 0 \in P, \A k \in Nat : k \in P => k + 1 \in P
    PROVE  Nat \subseteq P
  <1>. DEFINE T == Nat \ P
  <1>1. CASE T = {}
    BY <1>1
  <1>2. CASE T # {}
    <2>1. PICK m \in T : \A k \in T : m <= k
      BY <1>2, LeastNat
    <2>2. m # 0 /\ m \in Nat
      OBVIOUS
    <2>3. m - 1 \in Nat /\ ~(m <= m - 1)
      BY <2>2
    <2>4. m - 1 \in P
      BY <2>1, <2>3
    <2>5. (m - 1) + 1 \in P
      BY <2>3, <2>4
    <2>. QED
      BY <2>2, <2>5
  <1>. QED
    BY <1>1, <1>2

--------------------------------------------------------------------------------
(* The replies to a sequence of requests *)

\* f is the function that Replies(s) is read off, as far as n.
UpTo(f, s, n) ==
    f = [k \in 0..n |-> IF k = 0 THEN <<>> ELSE f[k - 1] \o AnswerTo(s[k])]

LEMMA UpToExists ==
    ASSUME NEW s
    PROVE  \A n \in Nat : \E f : UpTo(f, s, n)
  <1>. DEFINE P == {n \in Nat : \E f : UpTo(f, s, n)}
  <1>1. 0 \in P
    <2>. DEFINE f == [k \in 0..0 |-> <<>>]
    <2>1. UpTo(f, s, 0)
      BY DEF UpTo
    <2>. QED
      BY <2>1
  <1>2. ASSUME NEW n \in Nat, n \in P PROVE n + 1 \in P
    <2>1. PICK f : UpTo(f, s, n)
      BY <1>2
    <2>. DEFINE g == [j \in 0..(n + 1) |->
                        IF j = n + 1 THEN f[n] \o AnswerTo(s[n + 1]) ELSE f[j]]
    <2>2. \A j \in 0..n : f[j] = IF j = 0 THEN <<>> ELSE f[j - 1] \o AnswerTo(s[j])
      BY <2>1 DEF UpTo
    <2>3. \A j \in 0..(n + 1) :
             g[j] = IF j = 0 THEN <<>> ELSE g[j - 1] \o AnswerTo(s[j])
      BY <2>2
    <2>4. UpTo(g, s, n + 1)
      BY <2>3 DEF UpTo
    <2>. QED
      BY <2>4
  <1>. HIDE DEF P
  <1>3. Nat \subseteq P
    BY <1>1, <1>2, AllNat
  <1>. QED
    BY <1>3 DEF P

LEMMA RepliesUpTo ==
    ASSUME NEW s, Len(s) \in Nat
    PROVE  \E f : UpTo(f, s, Len(s)) /\ Replies(s) = f[Len(s)]
  <1>. DEFINE upTo == CHOOSE f : UpTo(f, s, Len(s))
  <1>1. \E f : UpTo(f, s, Len(s))
    BY UpToExists
  <1>2. UpTo(upTo, s, Len(s))
    BY <1>1
  <1>3. Replies(s) = upTo[Len(s)]
    BY DEF Replies, UpTo
  <1>. QED
    BY <1>2, <1>3

LEMMA NoReplies == Replies(<<>>) = <<>>
  <1>1. PICK f : UpTo(f, <<>>, 0) /\ Replies(<<>>) = f[0]
    BY RepliesUpTo
  <1>. QED
    BY <1>1 DEF UpTo

\* One more request, one more answer.
LEMMA RepliesAppend ==
    ASSUME NEW S, NEW s \in Seq(S), NEW b \in S
    PROVE  Replies(Append(s, b)) = Replies(s) \o AnswerTo(b)
  <1>. DEFINE t == Append(s, b)
  <1>1. /\ Len(s) \in Nat /\ Len(t) = Len(s) + 1 /\ t[Len(s) + 1] = b
        /\ \A k \in 1..Len(s) : s[k] = t[k]
    BY AppendProperties, LenProperties
  <1>. HIDE DEF t
  <1>2. PICK f : UpTo(f, s, Len(s)) /\ Replies(s) = f[Len(s)]
    BY <1>1, RepliesUpTo
  <1>3. PICK g : UpTo(g, t, Len(t)) /\ Replies(t) = g[Len(t)]
    BY <1>1, RepliesUpTo
  <1>. DEFINE P == {k \in Nat : k <= Len(s) => f[k] = g[k]}
  <1>4. 0 \in P
    BY <1>1, <1>2, <1>3 DEF UpTo
  <1>5. ASSUME NEW k \in Nat, k \in P PROVE k + 1 \in P
    <2>. SUFFICES ASSUME k + 1 <= Len(s) PROVE f[k + 1] = g[k + 1]
      OBVIOUS
    <2>1. PICK j \in Nat : j = k + 1
      OBVIOUS
    <2>2. j \in 0..Len(s) /\ j \in 0..Len(t) /\ j \in 1..Len(s) /\ j # 0 /\ j - 1 = k
      BY <1>1, <2>1
    <2>3. f[j] = f[j - 1] \o AnswerTo(s[j]) /\ g[j] = g[j - 1] \o AnswerTo(t[j])
      BY <1>2, <1>3, <2>2 DEF UpTo
    <2>4. f[k] = g[k] /\ s[j] = t[j]
      BY <1>1, <1>5, <2>2
    <2>. QED
      BY <2>1, <2>2, <2>3, <2>4
  <1>. HIDE DEF P
  <1>6. Nat \subseteq P
    BY <1>4, <1>5, AllNat
  <1>7. f[Len(s)] = g[Len(s)]
    BY <1>1, <1>6 DEF P
  <1>8. g[Len(t)] = g[Len(s)] \o AnswerTo(t[Len(t)])
    <2>1. Len(t) \in 0..Len(t) /\ Len(t) # 0 /\ Len(t) - 1 = Len(s)
      BY <1>1
    <2>2. g[Len(t)] = g[Len(t) - 1] \o AnswerTo(t[Len(t)])
      BY <1>3, <2>1 DEF UpTo
    <2>. QED
      BY <2>1, <2>2
  <1>. QED
    BY <1>1, <1>2, <1>3, <1>7, <1>8 DEF t

LEMMA AnswerIsSeq ==
    ASSUME ReplyLen \in Nat, NEW b
    PROVE  AnswerTo(b) \in Seq(ReplyByte)
  <1>1. CASE b \in Digits
    <2>1. Reply(b) \in [1..ReplyLen -> ReplyByte]
      BY <1>1 DEF Reply, ReplyByte
    <2>. QED
      BY <1>1, <2>1, SeqDef DEF AnswerTo
  <1>2. CASE b \notin Digits
    BY <1>2, EmptySeq DEF AnswerTo
  <1>. QED
    BY <1>1, <1>2

LEMMA FirstAndNext ==
    ASSUME NEW S, NEW s \in Seq(S), NEW n \in Nat, n < Len(s)
    PROVE  /\ s[n + 1] \in S
           /\ SubSeq(s, 1, n) \in Seq(S)
           /\ SubSeq(s, 1, n + 1) = Append(SubSeq(s, 1, n), s[n + 1])
  <1>1. Len(s) \in Nat /\ n + 1 \in 1..Len(s) /\ 1 \in Int /\ n \in Int
    BY LenProperties
  <1>2. s[n + 1] \in S
    BY <1>1, ElementOfSeq
  <1>3. \A i \in 1..n : s[i] \in S
    BY <1>1, ElementOfSeq
  <1>4. SubSeq(s, 1, n) \in Seq(S)
    BY <1>1, <1>3, SubSeqProperties
  <1>5. SubSeq(s, 1, n + 1) = SubSeq(s, 1, n) \o <<s[n + 1]>>
    <2>1. 1 \in 1..Len(s) /\ n + 1 \in 1..Len(s) /\ (n + 1) - 1 = n
      BY <1>1
    <2>2. PICK k \in Nat : k = n + 1
      OBVIOUS
    <2>3. SubSeq(s, 1, k) = SubSeq(s, 1, k - 1) \o <<s[k]>>
      BY <2>1, <2>2, SubSeqRecursiveSecond
    <2>. QED
      BY <2>1, <2>2, <2>3
  <1>. QED
    BY <1>2, <1>4, <1>5, AppendIsConcat

\* Taking one more request adds its answer to what is due.
LEMMA RepliesNext ==
    ASSUME NEW S, NEW s \in Seq(S), NEW n \in Nat, n < Len(s)
    PROVE  Replies(SubSeq(s, 1, n + 1)) = Replies(SubSeq(s, 1, n)) \o AnswerTo(s[n + 1])
  <1>. DEFINE r == SubSeq(s, 1, n)
              b == s[n + 1]
  <1>1. r \in Seq(S) /\ b \in S /\ SubSeq(s, 1, n + 1) = Append(r, b)
    BY FirstAndNext
  <1>. HIDE DEF r, b
  <1>2. Replies(Append(r, b)) = Replies(r) \o AnswerTo(b)
    BY <1>1, RepliesAppend
  <1>. QED
    BY <1>1, <1>2 DEF r, b

\* What is asked later does not change what is due.
LEMMA RepliesFixed ==
    ASSUME NEW S, NEW s \in Seq(S), NEW b \in S, NEW n \in Nat, n <= Len(s)
    PROVE  SubSeq(Append(s, b), 1, n) = SubSeq(s, 1, n)
  <1>1. /\ Len(s) \in Nat /\ Append(s, b) \in Seq(S) /\ Len(Append(s, b)) = Len(s) + 1
        /\ \A k \in 1..Len(s) : Append(s, b)[k] = s[k]
    BY LenProperties, AppendProperties
  <1>2. /\ \A i \in 1..n : s[i] \in S
        /\ \A i \in 1..n : Append(s, b)[i] \in S
    BY <1>1, ElementOfSeq
  <1>3. /\ SubSeq(s, 1, n) \in Seq(S) /\ SubSeq(Append(s, b), 1, n) \in Seq(S)
        /\ Len(SubSeq(s, 1, n)) = n /\ Len(SubSeq(Append(s, b), 1, n)) = n
        /\ \A i \in 1..n : /\ SubSeq(s, 1, n)[i] = s[i]
                            /\ SubSeq(Append(s, b), 1, n)[i] = Append(s, b)[i]
    <2>1. /\ 1 \in Int /\ n \in Int /\ n - 1 + 1 = n
          /\ \A i \in 1..n : 1 + i - 1 = i
      OBVIOUS
    <2>2. /\ SubSeq(s, 1, n) \in Seq(S)
          /\ Len(SubSeq(s, 1, n)) = n
          /\ \A i \in 1..n : SubSeq(s, 1, n)[i] = s[i]
      BY <1>2, <2>1, SubSeqProperties
    <2>3. /\ SubSeq(Append(s, b), 1, n) \in Seq(S)
          /\ Len(SubSeq(Append(s, b), 1, n)) = n
          /\ \A i \in 1..n : SubSeq(Append(s, b), 1, n)[i] = Append(s, b)[i]
      BY <1>2, <2>1, SubSeqProperties
    <2>. QED
      BY <2>2, <2>3
  <1>4. \A i \in 1..n : SubSeq(Append(s, b), 1, n)[i] = SubSeq(s, 1, n)[i]
    BY <1>1, <1>3
  <1>. QED
    BY <1>3, <1>4, SeqEqual

LEMMA PrefixOfConcat ==
    ASSUME NEW S, NEW s \in Seq(S), NEW u \in Seq(S)
    PROVE  IsPrefix(s, s \o u)
  <1>1. /\ Len(s) \in Nat /\ Len(u) \in Nat /\ s \o u \in Seq(S)
        /\ Len(s \o u) = Len(s) + Len(u)
    BY LenProperties, ConcatProperties
  <1>2. SubSeq(s \o u, 1, Len(s)) = SubSeq(s, 1, Len(s))
    <2>1. CASE Len(s) = 0
      BY <2>1, SubSeqEmpty
    <2>2. CASE Len(s) # 0
      <3>1. 1 \in 1..Len(s) /\ Len(s) \in 1..Len(s)
        BY <1>1, <2>2
      <3>. QED
        BY <3>1, SubSeqOfConcat1
    <2>. QED
      BY <2>1, <2>2
  <1>. QED
    BY <1>1, <1>2 DEF IsPrefix

LEMMA PrefixExtends ==
    ASSUME NEW S, NEW s \in Seq(S), NEW t \in Seq(S), NEW u \in Seq(S), IsPrefix(s, t)
    PROVE  IsPrefix(s, t \o u)
  <1>1. /\ Len(s) \in Nat /\ Len(u) \in Nat /\ Len(t) \in Nat
        /\ Len(t \o u) = Len(t) + Len(u) /\ Len(s) <= Len(t)
    BY LenProperties, ConcatProperties DEF IsPrefix
  <1>2. SubSeq(t \o u, 1, Len(s)) = SubSeq(t, 1, Len(s))
    <2>1. CASE Len(s) = 0
      BY <2>1, SubSeqEmpty
    <2>2. CASE Len(s) # 0
      <3>1. 1 \in 1..Len(t) /\ Len(s) \in 1..Len(t)
        BY <1>1, <2>2
      <3>. QED
        BY <3>1, SubSeqOfConcat1
    <2>. QED
      BY <2>1, <2>2
  <1>. QED
    BY <1>1, <1>2 DEF IsPrefix

--------------------------------------------------------------------------------
(* The service *)

Typed ==
    /\ asked \in [Conns -> Seq(Request)]
    /\ taken \in [Conns -> Nat]
    /\ \A c \in Conns : taken[c] <= Len(asked[c])
    /\ owed \in [Conns -> Seq(ReplyByte)]
    /\ out \in [Conns -> Seq(ReplyByte)]
    /\ ended \in SUBSET Conns

\* Exactly for c; what is due is a sequence of reply bytes.
Exactly(c) ==
    /\ Due(c) \in Seq(ReplyByte)
    /\ c \notin ended => out[c] \o owed[c] = Due(c)
    /\ c \in ended => IsPrefix(out[c], Due(c))

SInv == Typed /\ \A c \in Conns : Exactly(c)

LEMMA InitSInv == Init => SInv
  <1>. SUFFICES ASSUME Init PROVE SInv
    OBVIOUS
  <1>1. Typed
    BY DEF Init, Typed
  <1>2. ASSUME NEW c \in Conns PROVE Exactly(c)
    <2>1. SubSeq(<<>>, 1, 0) = <<>>
      BY SubSeqEmpty
    <2>2. Due(c) = <<>> /\ out[c] = <<>> /\ owed[c] = <<>> /\ ended = {}
      BY <2>1, NoReplies DEF Init, Due
    <2>. QED
      BY <2>2 DEF Exactly
  <1>. QED
    BY <1>1, <1>2 DEF SInv

\* Nothing happens to connection c.
Untouched(c) ==
    /\ Due(c)' = Due(c)
    /\ out'[c] = out[c] /\ owed'[c] = owed[c]
    /\ c \in ended' <=> c \in ended

LEMMA UntouchedExactly == \A c : Exactly(c) /\ Untouched(c) => Exactly(c)'
  BY DEF Exactly, Untouched

LEMMA AskStep ==
    ASSUME SInv, NEW c \in Conns, NEW b \in Request, Ask(c, b)
    PROVE  SInv'
  <1>1. Typed'
    BY AppendProperties DEF SInv, Typed, Ask
  <1>2. ASSUME NEW d \in Conns PROVE Exactly(d)'
    <2>1. SubSeq(asked'[d], 1, taken[d]) = SubSeq(asked[d], 1, taken[d])
      <3>1. CASE d = c
        <4>1. /\ asked'[d] = Append(asked[d], b) /\ asked[d] \in Seq(Request)
              /\ taken[d] \in Nat /\ taken[d] <= Len(asked[d])
          BY <3>1 DEF SInv, Typed, Ask
        <4>. QED
          BY <4>1, RepliesFixed
      <3>2. CASE d # c
        BY <3>2 DEF SInv, Typed, Ask
      <3>. QED
        BY <3>1, <3>2
    <2>2. Due(d)' = Due(d)
      BY <2>1 DEF Due, Ask
    <2>. QED
      BY <2>2, UntouchedExactly DEF Untouched, SInv, Ask
  <1>. QED
    BY <1>1, <1>2 DEF SInv

\* What is due to c after one more of its requests was taken.
LEMMA OneMoreTaken ==
    ASSUME SInv, ReplyLen \in Nat, NEW c \in Conns, taken[c] < Len(asked[c]),
           taken' = [taken EXCEPT ![c] = @ + 1], asked' = asked
    PROVE  LET a == AnswerTo(asked[c][taken[c] + 1])
           IN  /\ a \in Seq(ReplyByte)
               /\ Due(c)' = Due(c) \o a
               /\ Due(c)' \in Seq(ReplyByte)
               /\ \A d \in Conns \ {c} : Due(d)' = Due(d)
               /\ taken' \in [Conns -> Nat]
               /\ \A d \in Conns : taken'[d] <= Len(asked'[d])
  <1>. DEFINE a == AnswerTo(asked[c][taken[c] + 1])
  <1>1. /\ asked[c] \in Seq(Request) /\ taken[c] \in Nat /\ taken \in [Conns -> Nat]
        /\ taken'[c] = taken[c] + 1 /\ \A d \in Conns \ {c} : taken'[d] = taken[d]
        /\ Due(c) \in Seq(ReplyByte)
    BY DEF SInv, Typed, Exactly
  <1>2. a \in Seq(ReplyByte)
    BY AnswerIsSeq
  <1>3. Due(c)' = Due(c) \o a
    BY <1>1, RepliesNext DEF Due
  <1>4. Due(c)' \in Seq(ReplyByte)
    BY <1>1, <1>2, <1>3, ConcatProperties
  <1>5. \A d \in Conns \ {c} : Due(d)' = Due(d)
    BY <1>1 DEF Due
  <1>6. /\ taken' \in [Conns -> Nat]
        /\ \A d \in Conns : taken'[d] <= Len(asked'[d])
    BY <1>1, LenProperties DEF SInv, Typed
  <1>. QED
    BY <1>2, <1>3, <1>4, <1>5, <1>6

LEMMA TakeStep ==
    ASSUME SInv, ReplyLen \in Nat, NEW c \in Conns, Take(c)
    PROVE  SInv'
  <1>. DEFINE a == AnswerTo(asked[c][taken[c] + 1])
  <1>1. /\ a \in Seq(ReplyByte) /\ Due(c)' = Due(c) \o a /\ Due(c)' \in Seq(ReplyByte)
        /\ \A d \in Conns \ {c} : Due(d)' = Due(d)
        /\ taken' \in [Conns -> Nat]
        /\ \A d \in Conns : taken'[d] <= Len(asked'[d])
    BY OneMoreTaken DEF Take
  <1>2. /\ c \notin ended /\ owed[c] = <<>> /\ asked' = asked /\ out' = out /\ ended' = ended
        /\ owed' = [owed EXCEPT ![c] = a]
    BY DEF Take
  <1>. HIDE DEF a
  <1>3. Typed'
    BY <1>1, <1>2 DEF SInv, Typed
  <1>4. Exactly(c)'
    <2>1. /\ out[c] \in Seq(ReplyByte) /\ out[c] \o owed[c] = Due(c) /\ owed'[c] = a
      BY <1>2 DEF SInv, Typed, Exactly
    <2>2. out[c] = Due(c)
      BY <1>2, <2>1, ConcatEmptySeq
    <2>. QED
      BY <1>1, <1>2, <2>1, <2>2 DEF Exactly
  <1>5. ASSUME NEW d \in Conns \ {c} PROVE Exactly(d)'
    <2>1. Untouched(d)
      BY <1>1, <1>2 DEF Untouched, SInv, Typed
    <2>. QED
      BY <2>1, UntouchedExactly DEF SInv
  <1>. QED
    BY <1>3, <1>4, <1>5 DEF SInv

LEMMA DrainStep ==
    ASSUME SInv, ReplyLen \in Nat, NEW c \in Conns, Drain(c)
    PROVE  SInv'
  <1>. DEFINE a == AnswerTo(asked[c][taken[c] + 1])
  <1>1. /\ a \in Seq(ReplyByte) /\ Due(c)' = Due(c) \o a /\ Due(c)' \in Seq(ReplyByte)
        /\ \A d \in Conns \ {c} : Due(d)' = Due(d)
        /\ taken' \in [Conns -> Nat]
        /\ \A d \in Conns : taken'[d] <= Len(asked'[d])
    BY OneMoreTaken DEF Drain
  <1>2. c \in ended /\ asked' = asked /\ out' = out /\ owed' = owed /\ ended' = ended
    BY DEF Drain
  <1>. HIDE DEF a
  <1>3. Typed'
    BY <1>1, <1>2 DEF SInv, Typed
  <1>4. Exactly(c)'
    <2>1. /\ out[c] \in Seq(ReplyByte) /\ Due(c) \in Seq(ReplyByte)
          /\ IsPrefix(out[c], Due(c))
      BY <1>2 DEF SInv, Typed, Exactly
    <2>2. IsPrefix(out[c], Due(c) \o a)
      BY <1>1, <2>1, PrefixExtends
    <2>. QED
      BY <1>1, <1>2, <2>2 DEF Exactly
  <1>5. ASSUME NEW d \in Conns \ {c} PROVE Exactly(d)'
    <2>1. Untouched(d)
      BY <1>1, <1>2 DEF Untouched
    <2>. QED
      BY <2>1, UntouchedExactly DEF SInv
  <1>. QED
    BY <1>3, <1>4, <1>5 DEF SInv

LEMMA EmitStep ==
    ASSUME SInv, ReplyLen \in Nat, NEW c \in Conns, NEW n \in 1..ReplyLen, Emit(c, n)
    PROVE  SInv'
  <1>. DEFINE w == owed[c]
              v == SubSeq(w, 1, n)
              r == SubSeq(w, n + 1, Len(w))
  <1>1. /\ c \notin ended /\ n \in 1..Len(w) /\ w \in Seq(ReplyByte)
        /\ out \in [Conns -> Seq(ReplyByte)] /\ owed \in [Conns -> Seq(ReplyByte)]
        /\ out' = [out EXCEPT ![c] = @ \o v] /\ owed' = [owed EXCEPT ![c] = r]
        /\ asked' = asked /\ taken' = taken /\ ended' = ended
    BY DEF SInv, Typed, Emit
  <1>2. Len(w) \in Nat /\ n \in Nat /\ n >= 1 /\ n <= Len(w)
    BY <1>1, LenProperties
  <1>3. v \in Seq(ReplyByte) /\ r \in Seq(ReplyByte) /\ v \o r = w
    <2>1. /\ \A i \in 1..n : w[i] \in ReplyByte
          /\ \A i \in (n + 1)..Len(w) : w[i] \in ReplyByte
      BY <1>1, <1>2, ElementOfSeq
    <2>2. v \in Seq(ReplyByte) /\ r \in Seq(ReplyByte)
      BY <1>2, <2>1, SubSeqProperties
    <2>3. 1 \in 1..(Len(w) + 1) /\ n \in (1 - 1)..Len(w) /\ Len(w) \in n..Len(w)
      BY <1>2
    <2>4. v \o r = SubSeq(w, 1, Len(w))
      BY <1>1, <2>3, ConcatAdjacentSubSeq
    <2>. QED
      BY <1>1, <2>2, <2>4, SubSeqFull
  <1>. HIDE DEF v, r
  <1>4. Typed'
    <2>1. out[c] \o v \in Seq(ReplyByte)
      BY <1>1, <1>3, ConcatProperties
    <2>. QED
      BY <1>1, <1>3, <2>1 DEF SInv, Typed
  <1>5. Exactly(c)'
    <2>1. /\ out[c] \in Seq(ReplyByte) /\ out[c] \o w = Due(c) /\ Due(c) \in Seq(ReplyByte)
          /\ out'[c] = out[c] \o v /\ owed'[c] = r
      BY <1>1 DEF SInv, Typed, Exactly
    <2>2. out'[c] \o owed'[c] = Due(c)
      <3>1. (out[c] \o v) \o r = out[c] \o (v \o r)
        <4>1. \A x, y, z \in Seq(ReplyByte) : (x \o y) \o z = x \o (y \o z)
          BY SMTT(40), ConcatAssociative
        <4>. QED
          BY <1>3, <2>1, <4>1
      <3>. QED
        BY <1>3, <2>1, <3>1
    <2>3. Due(c)' = Due(c)
      BY <1>1 DEF Due
    <2>. QED
      BY <1>1, <2>1, <2>2, <2>3 DEF Exactly
  <1>6. ASSUME NEW d \in Conns \ {c} PROVE Exactly(d)'
    <2>1. Untouched(d)
      BY <1>1 DEF Untouched, Due
    <2>. QED
      BY <2>1, UntouchedExactly DEF SInv
  <1>. QED
    BY <1>4, <1>5, <1>6 DEF SInv

LEMMA EndStep ==
    ASSUME SInv, NEW cs \in SUBSET Conns, End(cs)
    PROVE  SInv'
  <1>1. /\ owed' = [c \in Conns |-> IF c \in cs THEN <<>> ELSE owed[c]]
        /\ ended' = ended \cup cs /\ asked' = asked /\ taken' = taken /\ out' = out
    BY DEF End
  <1>2. Typed'
    BY <1>1, EmptySeq DEF SInv, Typed
  <1>3. ASSUME NEW c \in Conns PROVE Exactly(c)'
    <2>1. Due(c)' = Due(c)
      BY <1>1 DEF Due
    <2>2. CASE c \in cs /\ c \notin ended
      <3>1. /\ out[c] \in Seq(ReplyByte) /\ owed[c] \in Seq(ReplyByte)
            /\ out[c] \o owed[c] = Due(c) /\ Due(c) \in Seq(ReplyByte)
        BY <2>2 DEF SInv, Typed, Exactly
      <3>2. IsPrefix(out[c], Due(c))
        BY <3>1, PrefixOfConcat
      <3>. QED
        BY <1>1, <2>1, <2>2, <3>1, <3>2 DEF Exactly
    <2>3. CASE ~(c \in cs /\ c \notin ended)
      BY <1>1, <2>1, <2>3 DEF SInv, Exactly
    <2>. QED
      BY <2>2, <2>3
  <1>. QED
    BY <1>2, <1>3 DEF SInv

LEMMA StepSInv == ReplyLen \in Nat /\ SInv /\ [Next]_svars => SInv'
  <1>. SUFFICES ASSUME ReplyLen \in Nat, SInv, [Next]_svars PROVE SInv'
    OBVIOUS
  <1>1. CASE UNCHANGED svars
    BY <1>1 DEF svars, SInv, Typed, Exactly, Due
  <1>. QED
    BY <1>1, AskStep, TakeStep, DrainStep, EmitStep, EndStep DEF Next

(***************************************************************************)
(* Every behaviour of the service answers exactly: what was written and    *)
(* what is still owed are the replies to the digits taken so far.          *)
(***************************************************************************)
THEOREM ServiceAnswersExactly ==
    ASSUME ReplyLen \in Nat
    PROVE  Spec => [](Typed /\ AnswersExactly)
  <1>1. SInv => Typed /\ AnswersExactly
    BY DEF SInv, Exactly, AnswersExactly
  <1>2. SInv /\ [Next]_svars => SInv'
    BY StepSInv
  <1>. QED
    BY InitSInv, <1>1, <1>2, PTL DEF Spec
================================================================================
