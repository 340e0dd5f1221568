------------------------------- MODULE CgifProofs ------------------------------
(***************************************************************************)
(* The GIF writer, from the codes of a frame to the movie of a file,       *)
(* whatever the image, the limits, the colour tables and the frames are:   *)
(*  - the LZW encoder never sends a code that is longer than its place,    *)
(*    stays within its dictionary, its tree and its rows, and overruns the *)
(*    buffer of codes for no image that is too short to fill a dictionary; *)
(*  - if it does not overrun it, it writes blocks from which a reader gets *)
(*    the image back;                                                      *)
(*  - a viewer of what the queue of frames, the differences between them   *)
(*    and the encoder leave sees the animation the program asked for.      *)
(***************************************************************************)
EXTENDS CgifMovie, LzwEncoder, FiniteSetTheorems, SequenceTheorems, WellFoundedInduction, TLAPS

--------------------------------------------------------------------------------
(* Least elements, induction and recursion over the natural numbers *)

NatOrder == {ss \in Nat \X Nat : ss[1] < ss[2]}

LEMMA NatOrderMember == \A x, y \in Nat : x < y => <<x, y>> \in NatOrder
  <1>. SUFFICES ASSUME NEW x \in Nat, NEW y \in Nat, x < y
                PROVE  <<x, y>> \in NatOrder
    OBVIOUS
  <1>. DEFINE p == <<x, y>>
  <1>1. p \in Nat \X Nat /\ p[1] = x /\ p[2] = y
    OBVIOUS
  <1>. HIDE DEF p
  <1>2. p \in NatOrder
    BY <1>1 DEF NatOrder
  <1>. QED
    BY <1>2 DEF p

LEMMA NatOrderWellFounded == IsWellFoundedOn(NatOrder, Nat)
  BY NatLessThanWellFounded DEF OpToRel, NatOrder

LEMMA LeastNat ==
    ASSUME NEW T, T \subseteq Nat, T # {}
    PROVE  \E m \in T : \A k \in T : m <= k
  <1>1. \E x \in T : \A y \in T : ~(<<y, x>> \in NatOrder)
    BY NatOrderWellFounded, WFMin, Zenon
  <1>2. PICK x \in T : \A y \in T : ~(<<y, x>> \in NatOrder)
    BY <1>1
  <1>3. ASSUME NEW y \in T PROVE ~(y < x)
    BY <1>2, NatOrderMember
  <1>4. ASSUME NEW y \in T PROVE x <= y
    BY <1>3, x \in Nat, y \in Nat
  <1>. QED
    BY <1>4

\* Induction, for a property given as the set of the numbers that have it.
LEMMA AllNat ==
    ASSUME NEW P, 0 \in P, \A k \in Nat : k \in P => k + 1 \in P
    PROVE  Nat \subseteq P
  <1>. DEFINE T == Nat \ P
  <1>1. CASE T = {}
    BY <1>1
  <1>2. CASE T # {}
    <2>1. PICK m \in T : \A k \in T : m <= k
      BY <1>2, LeastNat
    <2>2. m # 0 /\ m \in Nat
      OBVIOUS
    <2>3. m - 1 \in Nat /\ ~(m <= m - 1)
      BY <2>2
    <2>4. m - 1 \in P
      BY <2>1, <2>3
    <2>5. (m - 1) + 1 \in P
      BY <2>3, <2>4
    <2>. QED
      BY <2>2, <2>5
  <1>. QED
    BY <1>1, <1>2

--------------------------------------------------------------------------------

\* f follows the recursion that starts at a, as far as n.
Follows(f, a, step, n) ==
    /\ f[0] = a
    /\ \A i \in Nat : i < n => f[i + 1] = step[i][f[i]]

\* Two functions that follow the same recursion agree.
LEMMA FollowOnce ==
    ASSUME NEW f, NEW g, NEW a, NEW step, NEW n \in Nat,
           Follows(f, a, step, n), Follows(g, a, step, n)
    PROVE  \A i \in 0..n : f[i] = g[i]
  <1>. DEFINE P == {i \in Nat : i <= n => f[i] = g[i]}
  <1>1. 0 \in P
    BY DEF Follows
  <1>2. ASSUME NEW i \in Nat, i \in P
        PROVE  i + 1 \in P
    BY <1>2 DEF Follows
  <1>. HIDE DEF P
  <1>3. Nat \subseteq P
    BY <1>1, <1>2, AllNat
  <1>. QED
    BY <1>3 DEF P

\* A recursion defines a function.
LEMMA Recursion ==
    ASSUME NEW S, NEW a \in S, NEW step \in [Nat -> [S -> S]]
    PROVE  \E f \in [Nat -> S] : \A n \in Nat : Follows(f, a, step, n)
  <1>. DEFINE Upto(n) == {f \in [0..n -> S] : Follows(f, a, step, n)}
              P == {n \in Nat : Upto(n) # {}}
  <1>1. 0 \in P
    <2>. DEFINE f == [i \in 0..0 |-> a]
    <2>1. f \in [0..0 -> S] /\ f[0] = a
      OBVIOUS
    <2>2. Follows(f, a, step, 0)
      BY <2>1 DEF Follows
    <2>. QED
      BY <2>1, <2>2
  <1>2. ASSUME NEW n \in Nat, n \in P
        PROVE  n + 1 \in P
    <2>1. PICK f \in [0..n -> S] : Follows(f, a, step, n)
      BY <1>2
    <2>. DEFINE g == [i \in 0..(n + 1) |-> IF i = n + 1 THEN step[n][f[n]] ELSE f[i]]
    <2>2. step[n] \in [S -> S] /\ f[n] \in S
      OBVIOUS
    <2>3. g \in [0..(n + 1) -> S]
      BY <2>2
    <2>4. \A i \in 0..n : g[i] = f[i]
      OBVIOUS
    <2>5. g[n + 1] = step[n][f[n]]
      OBVIOUS
    <2>. HIDE DEF g
    <2>6. ASSUME NEW i \in Nat, i < n + 1
          PROVE  g[i + 1] = step[i][g[i]]
      <3>1. CASE i < n
        BY <3>1, <2>1, <2>4 DEF Follows
      <3>2. CASE i = n
        BY <3>2, <2>4, <2>5
      <3>. QED
        BY <2>6, <3>1, <3>2
    <2>7. Follows(g, a, step, n + 1)
      BY <2>1, <2>4, <2>6 DEF Follows
    <2>. QED
      BY <2>3, <2>7
  <1>3. \A n \in Nat : Upto(n) # {}
    <2>. HIDE DEF Upto
    <2>1. \A n \in Nat : n \in P => n + 1 \in P
      BY <1>2
    <2>2. 0 \in P
      BY <1>1
    <2>. HIDE DEF P
    <2>3. Nat \subseteq P
      BY <2>1, <2>2, AllNat
    <2>. QED
      BY <2>3 DEF P
  <1>. DEFINE part == [n \in Nat |-> CHOOSE f \in Upto(n) : TRUE]
  <1>4. \A n \in Nat : part[n] \in Upto(n)
    BY <1>3
  <1>. HIDE DEF part
  <1>5. \A n \in Nat : part[n] \in [0..n -> S] /\ Follows(part[n], a, step, n)
    BY <1>4
  <1>. DEFINE f == [n \in Nat |-> part[n][n]]
  <1>6. f \in [Nat -> S]
    BY <1>5
  <1>7. f[0] = a
    BY <1>5 DEF Follows
  <1>8. ASSUME NEW n \in Nat
        PROVE  f[n + 1] = step[n][f[n]]
    <2>1. Follows(part[n + 1], a, step, n + 1)
      BY <1>5
    <2>2. Follows(part[n + 1], a, step, n)
      BY <2>1 DEF Follows
    <2>3. part[n + 1][n] = part[n][n]
      <3>1. \A i \in 0..n : part[n + 1][i] = part[n][i]
        <4>1. Follows(part[n], a, step, n)
          BY <1>5
        <4>. QED
          BY <2>2, <4>1, FollowOnce
      <3>. QED
        BY <3>1
    <2>4. part[n + 1][n + 1] = step[n][part[n + 1][n]]
      BY <2>1 DEF Follows
    <2>. QED
      BY <2>3, <2>4
  <1>. HIDE DEF f
  <1>. QED
    BY <1>6, <1>7, <1>8 DEF Follows

--------------------------------------------------------------------------------
(* Powers of two *)

LEMMA Pow2Def == Pow2 = [n \in Nat |-> IF n = 0 THEN 1 ELSE 2 * Pow2[n - 1]]
  <1>. DEFINE step == [n \in Nat |-> [v \in Nat |-> 2 * v]]
  <1>1. step \in [Nat -> [Nat -> Nat]]
    OBVIOUS
  <1>2. \A n, v \in Nat : step[n][v] = 2 * v
    OBVIOUS
  <1>. HIDE DEF step
  <1>3. \E f \in [Nat -> Nat] : \A n \in Nat : Follows(f, 1, step, n)
    BY <1>1, Recursion
  <1>4. PICK f \in [Nat -> Nat] : \A n \in Nat : Follows(f, 1, step, n)
    BY <1>3
  <1>5. f[0] = 1
    BY <1>4 DEF Follows
  <1>6. ASSUME NEW n \in Nat PROVE f[n + 1] = 2 * f[n]
    <2>1. Follows(f, 1, step, n + 1)
      BY <1>4
    <2>2. f[n + 1] = step[n][f[n]] /\ f[n] \in Nat
      BY <2>1 DEF Follows
    <2>. QED
      BY <2>2, <1>2
  <1>7. ASSUME NEW n \in Nat PROVE f[n] = IF n = 0 THEN 1 ELSE 2 * f[n - 1]
    <2>1. CASE n = 0
      BY <2>1, <1>5
    <2>2. CASE n # 0
      <3>1. n - 1 \in Nat /\ (n - 1) + 1 = n
        BY <2>2
      <3>2. f[(n - 1) + 1] = 2 * f[n - 1]
        BY <3>1, <1>6
      <3>. QED
        BY <3>1, <3>2, <2>2
    <2>. QED
      BY <2>1, <2>2
  <1>8. f = [n \in Nat |-> IF n = 0 THEN 1 ELSE 2 * f[n - 1]]
    BY <1>7
  <1>. QED
    BY <1>8 DEF Pow2

LEMMA Pow2Step ==
    /\ Pow2[0] = 1
    /\ \A n \in Nat : Pow2[n + 1] = 2 * Pow2[n]
  <1>1. Pow2[0] = 1
    BY Pow2Def
  <1>2. ASSUME NEW n \in Nat PROVE Pow2[n + 1] = 2 * Pow2[n]
    BY Pow2Def
  <1>. QED
    BY <1>1, <1>2

LEMMA Pow2Grows == \A n \in Nat : Pow2[n] \in Nat /\ n < Pow2[n]
  <1>. DEFINE P == {n \in Nat : Pow2[n] \in Nat /\ n < Pow2[n]}
  <1>1. 0 \in P
    BY Pow2Step
  <1>2. \A n \in Nat : n \in P => n + 1 \in P
    BY Pow2Step
  <1>. HIDE DEF P
  <1>3. Nat \subseteq P
    BY <1>1, <1>2, AllNat
  <1>. QED
    BY <1>3 DEF P

LEMMA Pow2Monotone ==
    ASSUME NEW m \in Nat, NEW n \in Nat, m <= n
    PROVE  Pow2[m] <= Pow2[n]
  <1>. DEFINE P == {k \in Nat : Pow2[m] <= Pow2[m + k]}
  <1>1. 0 \in P
    BY Pow2Grows
  <1>2. ASSUME NEW k \in Nat, k \in P
        PROVE  k + 1 \in P
    <2>1. m + k \in Nat /\ m + (k + 1) = (m + k) + 1
      OBVIOUS
    <2>2. Pow2[m + (k + 1)] = 2 * Pow2[m + k]
      BY <2>1, Pow2Step
    <2>. QED
      BY <1>2, <2>1, <2>2, Pow2Grows
  <1>. HIDE DEF P
  <1>3. Nat \subseteq P
    BY <1>1, <1>2, AllNat
  <1>4. n - m \in Nat /\ m + (n - m) = n
    OBVIOUS
  <1>. QED
    BY <1>3, <1>4 DEF P

--------------------------------------------------------------------------------
(* The sizes *)

LEMMA MaxDictLenNat == MaxDictLen \in Nat /\ MaxCodeLen \in Nat
  BY LzwAssumption, Pow2Grows DEF MaxDictLen

\* A colour table needs codes of at least 3 bits.
LEMMA InitCodeLenBounds ==
    ASSUME NEW n \in NumColors
    PROVE  InitCodeLen(n) \in 3..MaxCodeLen
  <1>1. n \in Nat /\ InitCodeLen(n) <= MaxCodeLen
    BY EncoderAssumption
  <1>. DEFINE T == {k \in Nat : n <= Pow2[k]}
  <1>2. n \in T
    BY <1>1, Pow2Grows
  <1>3. \E m \in T : \A k \in T : m <= k
    BY <1>2, LeastNat
  <1>4. PICK m \in T : \A k \in T : m <= k
    BY <1>3
  <1>5. m \in 0..n /\ n <= Pow2[m]
    BY <1>1, <1>2, <1>4
  <1>6. ASSUME NEW j \in 0..(m - 1) PROVE Pow2[j] < n
    BY <1>4, <1>1, Pow2Grows
  <1>7. NextPower2Ex(n) \in 0..n
    BY <1>5, <1>6, Zenon DEF NextPower2Ex
  <1>. QED
    BY <1>1, <1>7, MaxDictLenNat DEF InitCodeLen

\* The codes of the colours, twice as many of them, and the dictionary.
LEMMA InitDictLenBounds ==
    ASSUME NEW len \in 3..MaxCodeLen
    PROVE  /\ InitDictLen(len) \in Nat
           /\ InitDictLen(len) >= 3
           /\ Pow2[len] = 2 * InitDictLen(len)
           /\ 2 * InitDictLen(len) <= MaxDictLen
  <1>1. len \in Nat /\ len - 1 \in Nat /\ (len - 1) + 1 = len /\ len <= MaxCodeLen
    BY MaxDictLenNat
  <1>2. Pow2[(len - 1) + 1] = 2 * Pow2[len - 1]
    BY <1>1, Pow2Step
  <1>3. Pow2[len - 1] \in Nat /\ len - 1 < Pow2[len - 1]
    BY <1>1, Pow2Grows
  <1>4. Pow2[len] <= Pow2[MaxCodeLen]
    BY <1>1, MaxDictLenNat, Pow2Monotone
  <1>. QED
    BY <1>1, <1>2, <1>3, <1>4 DEF InitDictLen, MaxDictLen

--------------------------------------------------------------------------------
(* The tree *)

\* What a place of the tree may hold: nothing, or a code that has been given out.
Entries(c) == {0} \union ((c.initDictLen + 2)..(c.dictPos - 1))

\* The codes that stand for strings of pixels.
Nodes(c) == (0..(c.initDictLen - 1)) \union ((c.initDictLen + 2)..(c.dictPos - 1))

SizesFit(c) ==
    /\ DOMAIN c = {"initDictLen", "colors", "pos", "codes", "dictPos", "mapPos",
                   "treeInit", "treeList", "treeMap"}
    /\ c.initDictLen \in Nat
    /\ c.initDictLen >= 2
    /\ c.initDictLen + 2 <= MaxDictLen
    /\ c.colors = 0..(c.initDictLen - 1)
    /\ c.dictPos \in (c.initDictLen + 2)..MaxDictLen
    /\ c.mapPos \in Nat \ {0}

\* Every code in the tree has been given out, and every row a node has was taken
\* since the dictionary was started.
TreeFits(c) ==
    /\ c.treeInit \in [c.colors \X c.colors -> Entries(c)]
    /\ c.treeList \in [0..(MaxDictLen - 1) ->
            [map : 0..(c.mapPos - 1), color : c.colors, child : Entries(c)]]
    /\ 1..(c.mapPos - 1) \subseteq DOMAIN c.treeMap
    /\ \A r \in 1..(c.mapPos - 1) : c.treeMap[r] \in [c.colors -> Entries(c)]

\* The nodes that have a child in the list, and those that have a row as well.
Parents(c) == {node \in 0..(MaxDictLen - 1) : c.treeList[node].child # 0}
Rows(c)    == {node \in 0..(MaxDictLen - 1) : c.treeList[node].map # 0}

\* A node gets a row when it gets its second child: a row costs two codes.
RowsFit(c) ==
    /\ Rows(c) \subseteq Parents(c)
    /\ Cardinality(Rows(c)) = c.mapPos - 1
    /\ Cardinality(Parents(c)) + Cardinality(Rows(c)) <= c.dictPos - c.initDictLen - 2

DictInv(c) == SizesFit(c) /\ TreeFits(c) /\ RowsFit(c)

LEMMA ChildType ==
    ASSUME NEW c, SizesFit(c), TreeFits(c), NEW node \in Nodes(c), NEW color \in c.colors
    PROVE  Child(c, node, color) \in Entries(c)
  <1>1. CASE node < c.initDictLen
    <2>1. <<node, color>> \in c.colors \X c.colors
      BY <1>1 DEF SizesFit, Nodes
    <2>. QED
      BY <1>1, <2>1 DEF Child, TreeFits
  <1>2. CASE ~(node < c.initDictLen)
    <2>1. node \in 0..(MaxDictLen - 1)
      BY MaxDictLenNat DEF SizesFit, Nodes
    <2>2. /\ c.treeList[node].map \in 0..(c.mapPos - 1)
          /\ c.treeList[node].child \in Entries(c)
      BY <2>1 DEF TreeFits
    <2>3. c.treeList[node].map # 0 => c.treeMap[c.treeList[node].map] \in [c.colors -> Entries(c)]
      BY <2>2 DEF TreeFits, SizesFit
    <2>4. 0 \in Entries(c)
      BY DEF Entries
    <2>. HIDE DEF Entries
    <2>. QED
      BY <1>2, <2>2, <2>3, <2>4 DEF Child
  <1>. QED
    BY <1>1, <1>2

--------------------------------------------------------------------------------
(* The longest match *)

\* The node reached from node v with pixel i.
Reached(c, image_, v, i) ==
    IF image_[i] >= c.initDictLen THEN -1
    ELSE IF v = -1 THEN -1
    ELSE IF Child(c, v, image_[i]) = 0 THEN -1 ELSE Child(c, v, image_[i])

LEMMA ReachedType ==
    ASSUME NEW c, SizesFit(c), TreeFits(c), NEW im \in Seq(Nat), NEW i \in 1..Len(im),
           NEW v \in Nodes(c) \union {-1}
    PROVE  Reached(c, im, v, i) \in Nodes(c) \union {-1}
  <1>1. CASE im[i] >= c.initDictLen \/ v = -1
    BY <1>1 DEF Reached
  <1>2. CASE ~(im[i] >= c.initDictLen) /\ v # -1
    <2>1. im[i] \in c.colors /\ v \in Nodes(c)
      <3>1. im[i] \in Nat
        OBVIOUS
      <3>. QED
        BY <1>2, <3>1 DEF SizesFit
    <2>2. Child(c, v, im[i]) \in Entries(c)
      BY <2>1, ChildType
    <2>3. Child(c, v, im[i]) # 0 => Child(c, v, im[i]) \in Nodes(c)
      BY <2>2 DEF Entries, Nodes
    <2>. QED
      BY <1>2, <2>3 DEF Reached
  <1>. QED
    BY <1>1, <1>2

\* g is the function that NodeAt(c, im) is read off, from pixel p on.
IsNodeAt(g, c, im, p) ==
    g = [i \in p..Len(im) |->
            IF im[i] >= c.initDictLen THEN -1
            ELSE IF i = p THEN im[i]
            ELSE IF g[i - 1] = -1 THEN -1
            ELSE IF Child(c, g[i - 1], im[i]) = 0 THEN -1
            ELSE Child(c, g[i - 1], im[i])]

LEMMA NodeAtIs ==
    ASSUME NEW c, NEW im, NEW g, IsNodeAt(g, c, im, c.pos)
    PROVE  IsNodeAt(NodeAt(c, im), c, im, c.pos)
  BY Zenon DEF NodeAt, IsNodeAt

LEMMA NodeAtDef ==
    ASSUME NEW c, SizesFit(c), TreeFits(c), NEW im \in Seq(Nat), NEW p \in 1..Len(im),
           c.pos = p
    PROVE  /\ \A i \in p..Len(im) : NodeAt(c, im)[i] \in Nodes(c) \union {-1}
           /\ NodeAt(c, im)[p] = -1 <=> im[p] >= c.initDictLen
           /\ \A i \in p..Len(im) : NodeAt(c, im)[i] =
                IF i = p THEN (IF im[p] >= c.initDictLen THEN -1 ELSE im[p])
                ELSE Reached(c, im, NodeAt(c, im)[i - 1], i)
  <1>. DEFINE V == Nodes(c) \union {-1}
              first == IF im[p] >= c.initDictLen THEN -1 ELSE im[p]
              step == [k \in Nat |-> [v \in V |->
                        IF p + k + 1 \in 1..Len(im) THEN Reached(c, im, v, p + k + 1) ELSE -1]]
  <1>1. Len(im) \in Nat /\ p \in Nat /\ im[p] \in Nat
    OBVIOUS
  <1>2. first \in V
    BY <1>1 DEF Nodes, SizesFit
  <1>3. step \in [Nat -> [V -> V]]
    <2>1. ASSUME NEW k \in Nat, NEW v \in V
          PROVE  (IF p + k + 1 \in 1..Len(im) THEN Reached(c, im, v, p + k + 1) ELSE -1) \in V
      <3>1. CASE p + k + 1 \in 1..Len(im)
        BY <3>1, ReachedType
      <3>2. CASE p + k + 1 \notin 1..Len(im)
        BY <3>2
      <3>. QED
        BY <3>1, <3>2
    <2>. HIDE DEF V
    <2>. QED
      BY <2>1
  <1>4. \A k \in Nat : \A v \in V : p + k + 1 \in 1..Len(im) => step[k][v] = Reached(c, im, v, p + k + 1)
    OBVIOUS
  <1>. HIDE DEF V, first, step
  <1>5. \E f \in [Nat -> V] : \A n \in Nat : Follows(f, first, step, n)
    BY <1>2, <1>3, Recursion
  <1>6. PICK f \in [Nat -> V] : \A n \in Nat : Follows(f, first, step, n)
    BY <1>5
  <1>7. f[0] = first
    BY <1>6 DEF Follows
  <1>8. ASSUME NEW k \in Nat, p + k + 1 \in 1..Len(im)
        PROVE  f[k + 1] = Reached(c, im, f[k], p + k + 1)
    <2>1. Follows(f, first, step, k + 1)
      BY <1>6
    <2>2. f[k + 1] = step[k][f[k]]
      BY <2>1 DEF Follows
    <2>. QED
      BY <1>4, <1>8, <2>2
  <1>. DEFINE g == [i \in p..Len(im) |-> f[i - p]]
  <1>9. ASSUME NEW i \in p..Len(im)
        PROVE  g[i] = IF im[i] >= c.initDictLen THEN -1
                      ELSE IF i = p THEN im[i]
                      ELSE IF g[i - 1] = -1 THEN -1
                      ELSE IF Child(c, g[i - 1], im[i]) = 0 THEN -1
                      ELSE Child(c, g[i - 1], im[i])
    <2>1. CASE i = p
      <3>1. g[p] = f[0]
        BY <1>1
      <3>. QED
        BY <2>1, <3>1, <1>7 DEF first
    <2>2. CASE i # p
      <3>1. i - p - 1 \in Nat /\ i = p + (i - p - 1) + 1 /\ (i - p - 1) + 1 = i - p
        BY <2>2, <1>1
      <3>2. f[i - p] = Reached(c, im, f[i - p - 1], i)
        BY <3>1, <1>8, <1>1
      <3>3. g[i] = f[i - p] /\ g[i - 1] = f[i - p - 1]
        BY <2>2, <1>1
      <3>. HIDE DEF g
      <3>. QED
        BY <3>2, <3>3, <2>2 DEF Reached
    <2>. QED
      BY <2>1, <2>2
  <1>10. IsNodeAt(g, c, im, p)
    BY <1>9 DEF IsNodeAt
  <1>. HIDE DEF g
  <1>11. IsNodeAt(NodeAt(c, im), c, im, p)
    BY <1>10, NodeAtIs
  <1>. DEFINE P == {k \in Nat : p + k <= Len(im) => NodeAt(c, im)[p + k] \in V}
  <1>12. NodeAt(c, im)[p] = first
    BY <1>1, <1>11 DEF first, IsNodeAt
  <1>13. 0 \in P
    BY <1>1, <1>2, <1>12
  <1>14. ASSUME NEW k \in P
         PROVE  k + 1 \in P
    <2>. SUFFICES ASSUME p + (k + 1) <= Len(im)
                  PROVE  NodeAt(c, im)[p + (k + 1)] \in V
      OBVIOUS
    <2>. DEFINE i == p + (k + 1)
    <2>1. i \in 1..Len(im) /\ i \in p..Len(im) /\ i # p /\ i - 1 = p + k
      BY <1>1
    <2>2. NodeAt(c, im)[i - 1] \in V
      BY <2>1, <1>1
    <2>. HIDE DEF i
    <2>3. NodeAt(c, im)[i] = Reached(c, im, NodeAt(c, im)[i - 1], i)
      BY <1>11, <2>1 DEF Reached, IsNodeAt
    <2>4. NodeAt(c, im)[i] \in V
      BY <2>1, <2>2, <2>3, ReachedType DEF V
    <2>. QED
      BY <2>4 DEF i
  <1>15. Nat \subseteq P
    <2>1. \A k \in Nat : k \in P => k + 1 \in P
      BY <1>14
    <2>2. 0 \in P
      BY <1>13
    <2>. HIDE DEF P
    <2>. QED
      BY <2>1, <2>2, AllNat
  <1>16. ASSUME NEW i \in p..Len(im) PROVE NodeAt(c, im)[i] \in V
    <2>1. i - p \in Nat /\ p + (i - p) = i
      BY <1>1
    <2>. QED
      BY <2>1, <1>15
  <1>17. (first = -1) <=> (im[p] >= c.initDictLen)
    BY <1>1 DEF first
  <1>18. ASSUME NEW i \in p..Len(im)
         PROVE  NodeAt(c, im)[i] = IF i = p THEN first
                                   ELSE Reached(c, im, NodeAt(c, im)[i - 1], i)
    BY <1>11, <1>12 DEF IsNodeAt, Reached
  <1>. QED
    BY <1>12, <1>16, <1>17, <1>18 DEF V, first

LEMMA MatchEndIs ==
    ASSUME NEW c, SizesFit(c), TreeFits(c), NEW im \in Seq(Nat), NEW p \in 1..Len(im),
           c.pos = p
    PROVE  /\ MatchEnd(c, im) \in (p - 1)..Len(im)
           /\ MatchEnd(c, im) >= p => NodeAt(c, im)[MatchEnd(c, im)] # -1
           /\ MatchEnd(c, im) < Len(im) => NodeAt(c, im)[MatchEnd(c, im) + 1] = -1
  <1>. DEFINE T == {i \in Nat : i \in p..Len(im) /\ NodeAt(c, im)[i] = -1}
              Ends(i) == /\ i >= p => NodeAt(c, im)[i] # -1
                         /\ i < Len(im) => NodeAt(c, im)[i + 1] = -1
  <1>1. Len(im) \in Nat /\ p \in Nat
    OBVIOUS
  <1>2. \E i \in (p - 1)..Len(im) : Ends(i)
    <2>1. CASE T = {}
      <3>1. Len(im) \in p..Len(im)
        BY <1>1
      <3>2. Ends(Len(im)) /\ Len(im) \in (p - 1)..Len(im)
        BY <1>1, <2>1, <3>1
      <3>. QED
        BY <3>2
    <2>2. CASE T # {}
      <3>1. \E m \in T : \A k \in T : m <= k
        BY <2>2, LeastNat
      <3>2. PICK m \in T : \A k \in T : m <= k
        BY <3>1
      <3>3. m \in Nat /\ m \in p..Len(im) /\ NodeAt(c, im)[m] = -1
        OBVIOUS
      <3>4. m - 1 \in (p - 1)..Len(im) /\ (m - 1) + 1 = m
        BY <3>3, <1>1
      <3>5. m - 1 >= p => NodeAt(c, im)[m - 1] # -1
        <4>1. m - 1 >= p => m - 1 \in Nat /\ m - 1 \in p..Len(im)
          BY <3>3, <1>1
        <4>2. m - 1 \notin T
          BY <3>2, <3>3
        <4>. QED
          BY <4>1, <4>2
      <3>. QED
        BY <3>3, <3>4, <3>5
    <2>. QED
      BY <2>1, <2>2
  <1>3. MatchEnd(c, im) = CHOOSE i \in (p - 1)..Len(im) : Ends(i)
    BY Zenon DEF MatchEnd
  <1>. HIDE DEF Ends
  <1>4. MatchEnd(c, im) \in (p - 1)..Len(im) /\ Ends(MatchEnd(c, im))
    BY <1>2, <1>3
  <1>. QED
    BY <1>4 DEF Ends

\* When the pixels looked at are colours, the match is of one pixel or more.
LEMMA NextMatch ==
    ASSUME NEW c, SizesFit(c), TreeFits(c), NEW im \in Seq(Nat), NEW p \in 1..Len(im),
           c.pos = p, ~BadIndex(c, im)
    PROVE  /\ MatchEnd(c, im) \in p..Len(im)
           /\ NodeAt(c, im)[MatchEnd(c, im)] \in Nodes(c)
           /\ MatchEnd(c, im) < Len(im) => im[MatchEnd(c, im) + 1] \in c.colors
  <1>. DEFINE end == MatchEnd(c, im)
  <1>1. /\ end \in (p - 1)..Len(im)
        /\ end >= p => NodeAt(c, im)[end] # -1
        /\ end < Len(im) => NodeAt(c, im)[end + 1] = -1
    BY MatchEndIs
  <1>2. ~(end < Len(im) /\ im[end + 1] >= c.initDictLen)
    BY DEF BadIndex
  <1>. HIDE DEF end
  <1>3. end \in p..Len(im)
    <2>1. CASE end = p - 1
      <3>1. end + 1 = p /\ end < Len(im)
        BY <2>1
      <3>. QED
        BY <3>1, <1>1, <1>2, NodeAtDef
    <2>2. CASE end # p - 1
      BY <1>1, <2>2
    <2>. QED
      BY <2>1, <2>2
  <1>4. NodeAt(c, im)[end] \in Nodes(c)
    <2>1. end >= p /\ NodeAt(c, im)[end] \in Nodes(c) \union {-1}
      BY <1>3, NodeAtDef
    <2>. QED
      BY <1>1, <2>1
  <1>5. end < Len(im) => im[end + 1] \in c.colors
    <2>. SUFFICES ASSUME end < Len(im) PROVE im[end + 1] \in c.colors
      OBVIOUS
    <2>1. end + 1 \in 1..Len(im)
      BY <1>3
    <2>2. im[end + 1] \in Nat
      BY <2>1
    <2>. QED
      BY <2>2, <1>2 DEF SizesFit
  <1>. QED
    BY <1>3, <1>4, <1>5 DEF end

--------------------------------------------------------------------------------
(* A new entry keeps the dictionary in order *)

LEMMA DictInvFinite ==
    ASSUME NEW c
    PROVE  /\ IsFiniteSet(Parents(c)) /\ Cardinality(Parents(c)) \in Nat
           /\ IsFiniteSet(Rows(c)) /\ Cardinality(Rows(c)) \in Nat
  <1>1. IsFiniteSet(0..(MaxDictLen - 1))
    BY FS_Interval, MaxDictLenNat
  <1>2. Parents(c) \in SUBSET (0..(MaxDictLen - 1)) /\ Rows(c) \in SUBSET (0..(MaxDictLen - 1))
    BY DEF Parents, Rows
  <1>3. IsFiniteSet(Parents(c)) /\ IsFiniteSet(Rows(c))
    BY <1>1, <1>2, FS_Subset
  <1>. QED
    BY <1>3, FS_CardinalityType

\* What a new child leaves alone.
LEMMA AddChildKeeps ==
    ASSUME NEW c, SizesFit(c), NEW node, NEW color
    PROVE  LET d == AddChild(c, node, color)
           IN  /\ DOMAIN d = DOMAIN c
               /\ d.initDictLen = c.initDictLen
               /\ d.colors = c.colors
               /\ d.pos = c.pos
               /\ d.codes = c.codes
               /\ d.dictPos = c.dictPos + 1
  BY DEF AddChild, TakeRow, SizesFit

\* Where the new child goes: next to the children of a colour, ...
LEMMA AddToColor ==
    ASSUME NEW c, SizesFit(c), NEW node \in Int, NEW color, node < c.initDictLen
    PROVE  /\ AddChild(c, node, color).treeInit = [c.treeInit EXCEPT ![<<node, color>>] = c.dictPos]
           /\ AddChild(c, node, color).treeList = c.treeList
           /\ AddChild(c, node, color).treeMap = c.treeMap
           /\ AddChild(c, node, color).mapPos = c.mapPos
  <1>1. ~(node >= c.initDictLen)
    BY DEF SizesFit
  <1>. QED
    BY <1>1 DEF AddChild, SizesFit

\* ... to the node's row, ...
LEMMA AddToRow ==
    ASSUME NEW c, SizesFit(c), NEW node \in Int, NEW color, node >= c.initDictLen,
           c.treeList[node].map # 0
    PROVE  /\ AddChild(c, node, color).treeInit = c.treeInit
           /\ AddChild(c, node, color).treeList = c.treeList
           /\ DOMAIN AddChild(c, node, color).treeMap = DOMAIN c.treeMap
           /\ \A r \in DOMAIN c.treeMap :
                AddChild(c, node, color).treeMap[r] =
                    IF r = c.treeList[node].map THEN [c.treeMap[r] EXCEPT ![color] = c.dictPos]
                    ELSE c.treeMap[r]
           /\ AddChild(c, node, color).mapPos = c.mapPos
  <1>1. ~(node < c.initDictLen)
    BY DEF SizesFit
  <1>. QED
    BY <1>1 DEF AddChild, SizesFit

\* ... to the list, ...
LEMMA AddToList ==
    ASSUME NEW c, SizesFit(c), NEW node \in Int, NEW color, node >= c.initDictLen,
           c.treeList[node].map = 0, c.treeList[node].child = 0
    PROVE  /\ AddChild(c, node, color).treeInit = c.treeInit
           /\ AddChild(c, node, color).treeList =
                [c.treeList EXCEPT ![node] =
                    [map |-> 0, color |-> color, child |-> c.dictPos]]
           /\ AddChild(c, node, color).treeMap = c.treeMap
           /\ AddChild(c, node, color).mapPos = c.mapPos
  <1>1. ~(node < c.initDictLen)
    BY DEF SizesFit
  <1>. QED
    BY <1>1 DEF AddChild, SizesFit

\* ... or to a row that is taken for it.
LEMMA AddRow ==
    ASSUME NEW c, SizesFit(c), NEW node \in Int, NEW color, node >= c.initDictLen,
           c.treeList[node].map = 0, c.treeList[node].child # 0
    PROVE  /\ AddChild(c, node, color).treeInit = c.treeInit
           /\ AddChild(c, node, color).treeList =
                [c.treeList EXCEPT ![node] = [c.treeList[node] EXCEPT !.map = c.mapPos]]
           /\ AddChild(c, node, color).mapPos = c.mapPos + 1
  <1>1. ~(node < c.initDictLen)
    BY DEF SizesFit
  <1>. QED
    BY <1>1 DEF AddChild, TakeRow, SizesFit

LEMMA AddRowMap ==
    ASSUME NEW c, SizesFit(c), NEW node \in Int, NEW color, node >= c.initDictLen,
           c.treeList[node].map = 0, c.treeList[node].child # 0
    PROVE  /\ DOMAIN AddChild(c, node, color).treeMap = DOMAIN TakeRow(c).treeMap
           /\ \A r \in DOMAIN TakeRow(c).treeMap :
                AddChild(c, node, color).treeMap[r] =
                    IF r = c.mapPos THEN [TakeRow(c).treeMap[r] EXCEPT ![color] = c.dictPos]
                    ELSE TakeRow(c).treeMap[r]
  <1>1. ~(node < c.initDictLen)
    BY DEF SizesFit
  <1>. QED
    BY <1>1 DEF AddChild, TakeRow, SizesFit

\* Places that hold only codes that were given out before, or the new one.
LEMMA EntriesGrow ==
    ASSUME NEW c, SizesFit(c), NEW d,
           d.initDictLen = c.initDictLen, d.dictPos = c.dictPos + 1
    PROVE  Entries(c) \subseteq Entries(d) /\ c.dictPos \in Entries(d)
  BY DEF Entries, SizesFit

LEMMA AddChildSizes ==
    ASSUME NEW c, SizesFit(c), c.dictPos < MaxDictLen, NEW node \in Int, NEW color
    PROVE  /\ SizesFit(AddChild(c, node, color))
           /\ AddChild(c, node, color).mapPos \in {c.mapPos, c.mapPos + 1}
  <1>. DEFINE d == AddChild(c, node, color)
  <1>1. /\ DOMAIN d = DOMAIN c
        /\ d.initDictLen = c.initDictLen
        /\ d.colors = c.colors
        /\ d.dictPos = c.dictPos + 1
    BY AddChildKeeps
  <1>2. d.mapPos \in {c.mapPos, c.mapPos + 1}
    <2>1. node < c.initDictLen \/ node >= c.initDictLen
      BY DEF SizesFit
    <2>2. CASE node < c.initDictLen
      BY <2>2, AddToColor
    <2>3. CASE node >= c.initDictLen /\ c.treeList[node].map # 0
      BY <2>3, AddToRow
    <2>4. CASE node >= c.initDictLen /\ c.treeList[node].map = 0 /\ c.treeList[node].child = 0
      BY <2>4, AddToList
    <2>5. CASE node >= c.initDictLen /\ c.treeList[node].map = 0 /\ c.treeList[node].child # 0
      BY <2>5, AddRow
    <2>. QED
      BY <2>1, <2>2, <2>3, <2>4, <2>5
  <1>. HIDE DEF d
  <1>3. SizesFit(d)
    BY <1>1, <1>2, MaxDictLenNat DEF SizesFit
  <1>. QED
    BY <1>2, <1>3 DEF d

\* The rows taken so far survive the taking of the next one, which is empty.
LEMMA TakeRowType ==
    ASSUME NEW c, SizesFit(c), TreeFits(c)
    PROVE  LET m == TakeRow(c).treeMap
           IN  /\ 1..c.mapPos \subseteq DOMAIN m
               /\ \A r \in 1..c.mapPos : m[r] \in [c.colors -> Entries(c)]
  <1>. DEFINE m == TakeRow(c).treeMap
  <1>1. m = [r \in DOMAIN c.treeMap \union {c.mapPos} |->
                IF r = c.mapPos THEN [k \in c.colors |-> 0] ELSE c.treeMap[r]]
    BY DEF TakeRow, SizesFit
  <1>. HIDE DEF m
  <1>2. \A r \in 1..c.mapPos : r \in 1..(c.mapPos - 1) \/ r = c.mapPos
    BY DEF SizesFit
  <1>3. 1..c.mapPos \subseteq DOMAIN m
    BY <1>1, <1>2 DEF TreeFits
  <1>4. [k \in c.colors |-> 0] \in [c.colors -> Entries(c)]
    BY DEF Entries
  <1>5. ASSUME NEW r \in 1..c.mapPos
        PROVE  m[r] \in [c.colors -> Entries(c)]
    <2>1. CASE r = c.mapPos
      BY <1>1, <1>3, <1>4, <2>1
    <2>2. CASE r # c.mapPos
      BY <1>1, <1>2, <1>3, <2>2 DEF TreeFits
    <2>. QED
      BY <2>1, <2>2
  <1>. QED
    BY <1>3, <1>5 DEF m

\* The types of the places, whichever one the new child takes.
LEMMA AddChildTree ==
    ASSUME NEW c, SizesFit(c), TreeFits(c), c.dictPos < MaxDictLen,
           NEW node \in Nodes(c), NEW color \in c.colors
    PROVE  TreeFits(AddChild(c, node, color))
  <1>. DEFINE d == AddChild(c, node, color)
              entry == c.treeList[node]
              new == c.dictPos
  <1>0. node \in Int
    BY DEF Nodes, SizesFit
  <1>1. /\ d.initDictLen = c.initDictLen /\ d.colors = c.colors
        /\ d.dictPos = c.dictPos + 1
    BY AddChildKeeps
  <1>2. Entries(c) \subseteq Entries(d) /\ new \in Entries(d)
    BY <1>1, EntriesGrow
  <1>3. c.mapPos \in Nat \ {0}
    BY DEF SizesFit
  <1>4. /\ c.treeInit \in [c.colors \X c.colors -> Entries(d)]
        /\ c.treeList \in [0..(MaxDictLen - 1) ->
                [map : 0..(c.mapPos - 1), color : c.colors, child : Entries(d)]]
        /\ 1..(c.mapPos - 1) \subseteq DOMAIN c.treeMap
        /\ \A r \in 1..(c.mapPos - 1) : c.treeMap[r] \in [c.colors -> Entries(d)]
    <2>. HIDE DEF d
    <2>1. c.treeInit \in [c.colors \X c.colors -> Entries(d)]
      BY <1>2 DEF TreeFits
    <2>2. c.treeList \in [0..(MaxDictLen - 1) ->
                [map : 0..(c.mapPos - 1), color : c.colors, child : Entries(d)]]
      <3>1. [map : 0..(c.mapPos - 1), color : c.colors, child : Entries(c)] \subseteq
                [map : 0..(c.mapPos - 1), color : c.colors, child : Entries(d)]
        BY <1>2
      <3>. QED
        BY <3>1 DEF TreeFits
    <2>3. ASSUME NEW r \in 1..(c.mapPos - 1)
          PROVE  c.treeMap[r] \in [c.colors -> Entries(d)]
      <3>1. c.treeMap[r] \in [c.colors -> Entries(c)]
        BY DEF TreeFits
      <3>. QED
        BY <3>1, <1>2
    <2>. QED
      BY <2>1, <2>2, <2>3 DEF TreeFits
  <1>5. node < c.initDictLen \/ (node >= c.initDictLen /\ node \in 0..(MaxDictLen - 1))
    BY MaxDictLenNat DEF Nodes, SizesFit
  <1>6. CASE node < c.initDictLen
    <2>1. /\ d.treeInit = [c.treeInit EXCEPT ![<<node, color>>] = new]
          /\ d.treeList = c.treeList /\ d.treeMap = c.treeMap /\ d.mapPos = c.mapPos
      BY <1>0, <1>6, AddToColor
    <2>. HIDE DEF d, new
    <2>2. d.treeInit \in [c.colors \X c.colors -> Entries(d)]
      BY <1>2, <1>4, <2>1
    <2>3. TreeFits(d)
      BY <1>1, <1>4, <2>1, <2>2 DEF TreeFits
    <2>. QED
      BY <2>3 DEF d
  <1>7. CASE node >= c.initDictLen /\ node \in 0..(MaxDictLen - 1) /\ entry.map # 0
    <2>1. /\ d.treeInit = c.treeInit /\ d.treeList = c.treeList
          /\ DOMAIN d.treeMap = DOMAIN c.treeMap
          /\ \A r \in DOMAIN c.treeMap :
                d.treeMap[r] = IF r = entry.map THEN [c.treeMap[r] EXCEPT ![color] = new]
                               ELSE c.treeMap[r]
          /\ d.mapPos = c.mapPos
      BY <1>0, <1>7, AddToRow
    <2>2. entry.map \in 1..(c.mapPos - 1)
      <3>1. entry.map \in 0..(c.mapPos - 1)
        BY <1>7 DEF TreeFits
      <3>. QED
        BY <3>1, <1>3, <1>7
    <2>. HIDE DEF d, new, entry
    <2>4. ASSUME NEW r \in 1..(c.mapPos - 1)
          PROVE  d.treeMap[r] \in [c.colors -> Entries(d)]
      <3>1. c.treeMap[r] \in [c.colors -> Entries(d)] /\ r \in DOMAIN c.treeMap
        BY <1>4
      <3>2. d.treeMap[r] = IF r = entry.map THEN [c.treeMap[r] EXCEPT ![color] = new]
                           ELSE c.treeMap[r]
        BY <2>1, <3>1
      <3>. QED
        BY <1>2, <3>1, <3>2
    <2>5. TreeFits(d)
      BY <1>1, <1>4, <2>1, <2>4 DEF TreeFits
    <2>. QED
      BY <2>5 DEF d
  <1>8. CASE /\ node >= c.initDictLen /\ node \in 0..(MaxDictLen - 1)
             /\ entry.map = 0 /\ entry.child = 0
    <2>. DEFINE e == [map |-> 0, color |-> color, child |-> new]
    <2>1. /\ d.treeInit = c.treeInit /\ d.treeMap = c.treeMap /\ d.mapPos = c.mapPos
          /\ d.treeList = [c.treeList EXCEPT ![node] = e]
      BY <1>0, <1>8, AddToList
    <2>2. e \in [map : 0..(c.mapPos - 1), color : c.colors, child : Entries(d)]
      BY <1>2, <1>3
    <2>. HIDE DEF d, new, e
    <2>3. d.treeList \in [0..(MaxDictLen - 1) ->
                [map : 0..(c.mapPos - 1), color : c.colors, child : Entries(d)]]
      BY <1>4, <2>1, <2>2
    <2>4. TreeFits(d)
      BY <1>1, <1>4, <2>1, <2>3 DEF TreeFits
    <2>. QED
      BY <2>4 DEF d
  <1>9. CASE /\ node >= c.initDictLen /\ node \in 0..(MaxDictLen - 1)
             /\ entry.map = 0 /\ entry.child # 0
    <2>. DEFINE m == TakeRow(c).treeMap
    <2>1. /\ d.treeInit = c.treeInit /\ d.mapPos = c.mapPos + 1
          /\ d.treeList = [c.treeList EXCEPT ![node] =
                                [c.treeList[node] EXCEPT !.map = c.mapPos]]
      BY <1>0, <1>9, AddRow
    <2>0. /\ DOMAIN d.treeMap = DOMAIN m
          /\ \A r \in DOMAIN m :
                d.treeMap[r] = IF r = c.mapPos THEN [m[r] EXCEPT ![color] = new] ELSE m[r]
      BY <1>0, <1>9, AddRowMap
    <2>2. /\ 1..c.mapPos \subseteq DOMAIN m
          /\ \A r \in 1..c.mapPos : m[r] \in [c.colors -> Entries(c)]
      BY TakeRowType
    <2>. HIDE DEF d, new, m
    <2>3. DOMAIN d.treeMap = DOMAIN m /\ d.mapPos - 1 = c.mapPos
      BY <1>3, <2>0, <2>1
    <2>4. ASSUME NEW r \in 1..c.mapPos
          PROVE  d.treeMap[r] \in [c.colors -> Entries(d)]
      <3>1. m[r] \in [c.colors -> Entries(d)]
        <4>1. m[r] \in [c.colors -> Entries(c)]
          BY <2>2
        <4>. QED
          BY <4>1, <1>2
      <3>2. d.treeMap[r] = IF r = c.mapPos THEN [m[r] EXCEPT ![color] = new] ELSE m[r]
        BY <2>0, <2>2
      <3>. QED
        BY <3>1, <3>2, <1>2
    <2>5. d.treeList \in [0..(MaxDictLen - 1) ->
                [map : 0..(d.mapPos - 1), color : c.colors, child : Entries(d)]]
      <3>1. 0..(c.mapPos - 1) \subseteq 0..(d.mapPos - 1) /\ c.mapPos \in 0..(d.mapPos - 1)
        BY <1>3, <2>3
      <3>2. ASSUME NEW v \in [map : 0..(c.mapPos - 1), color : c.colors, child : Entries(d)]
            PROVE  /\ v \in [map : 0..(d.mapPos - 1), color : c.colors, child : Entries(d)]
                   /\ [v EXCEPT !.map = c.mapPos] \in
                        [map : 0..(d.mapPos - 1), color : c.colors, child : Entries(d)]
        BY <3>1
      <3>3. \A n \in 0..(MaxDictLen - 1) :
                d.treeList[n] = IF n = node THEN [c.treeList[n] EXCEPT !.map = c.mapPos]
                                ELSE c.treeList[n]
        BY <1>4, <2>1
      <3>4. d.treeList = [n \in 0..(MaxDictLen - 1) |-> d.treeList[n]]
        BY <1>4, <2>1
      <3>5. ASSUME NEW n \in 0..(MaxDictLen - 1)
            PROVE  d.treeList[n] \in
                      [map : 0..(d.mapPos - 1), color : c.colors, child : Entries(d)]
        BY <1>4, <3>2, <3>3
      <3>. QED
        BY <3>4, <3>5
    <2>6. TreeFits(d)
      BY <1>1, <1>4, <2>1, <2>2, <2>3, <2>4, <2>5 DEF TreeFits
    <2>. QED
      BY <2>6 DEF d
  <1>. QED
    BY <1>5, <1>6, <1>7, <1>8, <1>9

\* A code given out pays for the child, and for the row when there is one.
LEMMA AddChildRows ==
    ASSUME NEW c, DictInv(c), c.dictPos < MaxDictLen,
           NEW node \in Nodes(c), NEW color \in c.colors
    PROVE  RowsFit(AddChild(c, node, color))
  <1>. DEFINE d == AddChild(c, node, color)
              entry == c.treeList[node]
  <1>0. SizesFit(c) /\ TreeFits(c) /\ RowsFit(c)
    BY DEF DictInv
  <1>1. node \in Int /\ (node < c.initDictLen \/ (node >= c.initDictLen /\ node \in 0..(MaxDictLen - 1)))
    BY <1>0, MaxDictLenNat DEF Nodes, SizesFit
  <1>2. /\ d.initDictLen = c.initDictLen /\ d.dictPos = c.dictPos + 1
    BY <1>0, AddChildKeeps
  <1>3. c.mapPos \in Nat \ {0} /\ c.dictPos \in Nat \ {0} /\ c.initDictLen \in Nat
    BY <1>0, MaxDictLenNat DEF SizesFit
  <1>4. /\ IsFiniteSet(Parents(c)) /\ Cardinality(Parents(c)) \in Nat
        /\ IsFiniteSet(Rows(c)) /\ Cardinality(Rows(c)) \in Nat
    BY DictInvFinite
  <1>5. /\ Rows(c) \subseteq Parents(c)
        /\ Cardinality(Rows(c)) = c.mapPos - 1
        /\ Cardinality(Parents(c)) + Cardinality(Rows(c)) <= c.dictPos - c.initDictLen - 2
    BY <1>0 DEF RowsFit
  <1>6. ASSUME d.treeList = c.treeList, d.mapPos = c.mapPos
        PROVE  RowsFit(d)
    <2>1. Parents(d) = Parents(c) /\ Rows(d) = Rows(c)
      BY <1>6 DEF Parents, Rows
    <2>. HIDE DEF d
    <2>. QED
      BY <1>2, <1>3, <1>4, <1>5, <1>6, <2>1 DEF RowsFit
  <1>7. CASE node < c.initDictLen
    <2>1. d.treeList = c.treeList /\ d.mapPos = c.mapPos
      BY <1>0, <1>1, <1>7, AddToColor
    <2>. QED
      BY <1>6, <2>1
  <1>8. CASE node >= c.initDictLen /\ entry.map # 0
    <2>1. d.treeList = c.treeList /\ d.mapPos = c.mapPos
      BY <1>0, <1>1, <1>8, AddToRow
    <2>. QED
      BY <1>6, <2>1
  <1>9. CASE node >= c.initDictLen /\ entry.map = 0 /\ entry.child = 0
    <2>. DEFINE e == [map |-> 0, color |-> color, child |-> c.dictPos]
    <2>1. d.mapPos = c.mapPos /\ d.treeList = [c.treeList EXCEPT ![node] = e]
      BY <1>0, <1>1, <1>9, AddToList
    <2>2. node \in 0..(MaxDictLen - 1)
      BY <1>0, <1>1, <1>9 DEF SizesFit
    <2>3. node \in DOMAIN c.treeList /\ 0..(MaxDictLen - 1) = DOMAIN c.treeList
      BY <1>0, <2>2 DEF TreeFits
    <2>4. e.map = 0 /\ e.child # 0
      BY <1>3
    <2>. HIDE DEF d, e
    <2>5. Parents(d) = Parents(c) \cup {node} /\ node \notin Parents(c)
      BY <1>9, <2>1, <2>2, <2>3, <2>4 DEF Parents
    <2>6. Rows(d) = Rows(c)
      BY <1>9, <2>1, <2>3, <2>4 DEF Rows
    <2>7. Cardinality(Parents(d)) = Cardinality(Parents(c)) + 1
      BY <1>4, <2>5, FS_AddElement
    <2>8. RowsFit(d)
      BY <1>2, <1>3, <1>4, <1>5, <2>1, <2>5, <2>6, <2>7 DEF RowsFit
    <2>. QED
      BY <2>8 DEF d
  <1>10. CASE node >= c.initDictLen /\ entry.map = 0 /\ entry.child # 0
    <2>. DEFINE e == [c.treeList[node] EXCEPT !.map = c.mapPos]
    <2>1. d.mapPos = c.mapPos + 1 /\ d.treeList = [c.treeList EXCEPT ![node] = e]
      BY ZenonT(40), <1>0, <1>1, <1>10, AddRow
    <2>2. node \in 0..(MaxDictLen - 1)
      BY <1>0, <1>1, <1>10 DEF SizesFit
    <2>3. node \in DOMAIN c.treeList /\ 0..(MaxDictLen - 1) = DOMAIN c.treeList
      BY <1>0, <2>2 DEF TreeFits
    <2>4. e.map # 0 /\ e.child = entry.child
      <3>1. entry \in [map : 0..(c.mapPos - 1), color : c.colors, child : Entries(c)]
        BY <1>0, <2>2 DEF TreeFits
      <3>. QED
        BY <1>3, <3>1
    <2>. HIDE DEF d, e
    <2>5. Parents(d) = Parents(c) /\ node \in Parents(c)
      BY <1>10, <2>1, <2>2, <2>3, <2>4 DEF Parents
    <2>6. Rows(d) = Rows(c) \cup {node} /\ node \notin Rows(c)
      BY <1>10, <2>1, <2>2, <2>3, <2>4 DEF Rows
    <2>7. Cardinality(Rows(d)) = Cardinality(Rows(c)) + 1
      BY <1>4, <2>6, FS_AddElement
    <2>8. RowsFit(d)
      <3>1. Rows(d) \subseteq Parents(d)
        BY <1>5, <2>5, <2>6
      <3>2. Cardinality(Parents(d)) = Cardinality(Parents(c))
        BY <2>5
      <3>. QED
        BY <1>2, <1>3, <1>4, <1>5, <2>1, <2>7, <3>1, <3>2 DEF RowsFit
    <2>. QED
      BY <2>8 DEF d
  <1>. QED
    BY <1>1, <1>7, <1>8, <1>9, <1>10

LEMMA AddChildInv ==
    ASSUME NEW c, DictInv(c), c.dictPos < MaxDictLen,
           NEW node \in Nodes(c), NEW color \in c.colors
    PROVE  DictInv(AddChild(c, node, color))
  <1>1. SizesFit(c) /\ TreeFits(c)
    BY DEF DictInv
  <1>2. node \in Int
    BY <1>1 DEF Nodes, SizesFit
  <1>3. SizesFit(AddChild(c, node, color))
    BY <1>1, <1>2, AddChildSizes
  <1>4. TreeFits(AddChild(c, node, color))
    BY <1>1, AddChildTree
  <1>5. RowsFit(AddChild(c, node, color))
    BY AddChildRows
  <1>. QED
    BY <1>3, <1>4, <1>5 DEF DictInv

\* A new dictionary is in order, whatever the old one was.
LEMMA ResetInv ==
    ASSUME NEW c, NEW D \in Nat, c.initDictLen = D, D >= 2, D + 2 <= MaxDictLen,
           c.colors = 0..(D - 1),
           DOMAIN c = {"initDictLen", "colors", "pos", "codes", "dictPos", "mapPos",
                       "treeInit", "treeList", "treeMap"}
    PROVE  /\ DictInv(ResetDict(c))
           /\ ResetDict(c).initDictLen = D
           /\ ResetDict(c).dictPos = D + 2
           /\ ResetDict(c).pos = c.pos
           /\ ResetDict(c).codes = Append(c.codes, D)
  <1>. DEFINE d == ResetDict(c)
              K == 0..(D - 1)
  <1>1. /\ DOMAIN d = DOMAIN c
        /\ d.initDictLen = D
        /\ d.colors = K
        /\ d.pos = c.pos
        /\ d.codes = Append(c.codes, D)
        /\ d.dictPos = D + 2
        /\ d.mapPos = 1
        /\ d.treeInit = [edge \in K \X K |-> 0]
        /\ d.treeList = [node \in 0..(MaxDictLen - 1) |-> Leaf]
    BY DEF ResetDict
  <1>. HIDE DEF d
  <1>2. SizesFit(d)
    BY <1>1, MaxDictLenNat DEF SizesFit
  <1>3. 0 \in Entries(d) /\ 0 \in K
    BY DEF Entries
  <1>4. TreeFits(d)
    <2>1. d.treeInit \in [K \X K -> Entries(d)]
      BY <1>1, <1>3
    <2>2. Leaf \in [map : 0..(1 - 1), color : K, child : Entries(d)]
      BY <1>3 DEF Leaf
    <2>3. d.treeList \in [0..(MaxDictLen - 1) -> [map : 0..(1 - 1), color : K, child : Entries(d)]]
      BY <1>1, <2>2
    <2>4. 1..(1 - 1) = {}
      OBVIOUS
    <2>. HIDE DEF K
    <2>. QED
      BY <1>1, <2>1, <2>3, <2>4 DEF TreeFits
  <1>5. RowsFit(d)
    <2>1. Leaf.map = 0 /\ Leaf.child = 0
      BY DEF Leaf
    <2>2. Rows(d) = {} /\ Parents(d) = {}
      BY <1>1, <2>1 DEF Rows, Parents
    <2>. QED
      BY <1>1, <2>2, FS_EmptySet DEF RowsFit
  <1>. QED
    BY <1>1, <1>2, <1>4, <1>5 DEF DictInv, d

--------------------------------------------------------------------------------
(* The count that decides the length of the codes *)

Counts == [len : Nat, n : Nat, dictPos : Nat]

\* f is the function that CountAfter(codes, len) is read off.
IsCount(f, codes, len) ==
    f = [i \in 0..Len(codes) |->
            IF i = 0 THEN CountReset(len)
            ELSE IF codes[i] = InitDictLen(len) THEN CountReset(len)
            ELSE [Grown(f[i - 1], InitDictLen(len)) EXCEPT !.dictPos = @ + 1]]

LEMMA CountIs ==
    ASSUME NEW codes, NEW len, NEW f, IsCount(f, codes, len)
    PROVE  IsCount(CountAfter(codes, len), codes, len)
  BY Zenon DEF CountAfter, IsCount

\* The count after the length has grown.
LEMMA GrowsTo ==
    ASSUME NEW s \in Counts
    PROVE  LET r == [s EXCEPT !.len = @ + 1, !.n = 2 * @]
           IN  /\ r \in Counts /\ r.len = s.len + 1 /\ r.n = 2 * s.n
               /\ r.dictPos = s.dictPos
  <1>1. s.len + 1 \in Nat /\ 2 * s.n \in Nat
    BY DEF Counts
  <1>2. PICK a \in Nat, b \in Nat : a = s.len + 1 /\ b = 2 * s.n
    BY <1>1
  <1>3. /\ [s EXCEPT !.len = a, !.n = b] \in Counts
        /\ [s EXCEPT !.len = a, !.n = b].len = a
        /\ [s EXCEPT !.len = a, !.n = b].n = b
        /\ [s EXCEPT !.len = a, !.n = b].dictPos = s.dictPos
    BY DEF Counts
  <1>4. [s EXCEPT !.len = @ + 1, !.n = 2 * @] = [s EXCEPT !.len = a, !.n = b]
    BY <1>2
  <1>. QED
    BY <1>2, <1>3, <1>4

LEMMA GrownType ==
    ASSUME NEW s \in Counts, NEW D \in Nat
    PROVE  /\ Grown(s, D) \in Counts
           /\ Grown(s, D).dictPos = s.dictPos
           /\ [Grown(s, D) EXCEPT !.dictPos = @ + 1] \in Counts
  <1>1. \A r \in Counts : [r EXCEPT !.dictPos = @ + 1] \in Counts
    BY DEF Counts
  <1>2. /\ [s EXCEPT !.len = @ + 1, !.n = 2 * @] \in Counts
        /\ [s EXCEPT !.len = @ + 1, !.n = 2 * @].dictPos = s.dictPos
    BY GrowsTo
  <1>3. Grown(s, D) \in Counts /\ Grown(s, D).dictPos = s.dictPos
    BY <1>2 DEF Grown
  <1>. QED
    BY <1>1, <1>3

LEMMA CountAfterDef ==
    ASSUME NEW codes \in Seq(Nat), NEW len \in 3..MaxCodeLen
    PROVE  /\ IsCount(CountAfter(codes, len), codes, len)
           /\ CountAfter(codes, len) \in [0..Len(codes) -> Counts]
  <1>. DEFINE D == InitDictLen(len)
              L == Len(codes)
              first == CountReset(len)
              Next1(v, i) == IF codes[i] = D THEN first
                             ELSE [Grown(v, D) EXCEPT !.dictPos = @ + 1]
              step == [k \in Nat |-> [v \in Counts |-> Next1(v, k + 1)]]
  <1>1. D \in Nat /\ L \in Nat /\ len \in Nat
    BY InitDictLenBounds, MaxDictLenNat
  <1>2. first \in Counts
    <2>. HIDE DEF D
    <2>1. D = InitDictLen(len)
      BY DEF D
    <2>. QED
      BY <1>1, <2>1 DEF CountReset, Counts
  <1>3. \A v \in Counts : \A i : Next1(v, i) \in Counts
    <2>. HIDE DEF first, D
    <2>1. \A v \in Counts : [Grown(v, D) EXCEPT !.dictPos = @ + 1] \in Counts
      BY <1>1, GrownType
    <2>. HIDE DEF Counts
    <2>. QED
      BY <1>2, <2>1
  <1>. HIDE DEF Next1, first
  <1>4. step \in [Nat -> [Counts -> Counts]]
    BY <1>3
  <1>5. \A k \in Nat : \A v \in Counts : step[k][v] = Next1(v, k + 1)
    OBVIOUS
  <1>. HIDE DEF step
  <1>6. \E f \in [Nat -> Counts] : \A n \in Nat : Follows(f, first, step, n)
    BY <1>2, <1>4, Recursion
  <1>7. PICK f \in [Nat -> Counts] : \A n \in Nat : Follows(f, first, step, n)
    BY <1>6
  <1>8. f[0] = first
    BY <1>7 DEF Follows
  <1>9. ASSUME NEW k \in Nat PROVE f[k + 1] = Next1(f[k], k + 1)
    <2>1. Follows(f, first, step, k + 1)
      BY <1>7
    <2>2. f[k + 1] = step[k][f[k]] /\ f[k] \in Counts
      BY <2>1 DEF Follows
    <2>. QED
      BY <1>5, <2>2
  <1>. DEFINE g == [i \in 0..L |-> f[i]]
  <1>10. ASSUME NEW i \in 0..L
         PROVE  g[i] = IF i = 0 THEN first
                       ELSE IF codes[i] = D THEN first
                       ELSE [Grown(g[i - 1], D) EXCEPT !.dictPos = @ + 1]
    <2>1. CASE i = 0
      BY <1>8, <2>1
    <2>2. CASE i # 0
      <3>1. i - 1 \in Nat /\ (i - 1) + 1 = i /\ i - 1 \in 0..L
        BY <2>2, <1>1
      <3>2. f[i] = Next1(f[i - 1], i)
        BY <1>9, <3>1
      <3>3. g[i] = f[i] /\ g[i - 1] = f[i - 1]
        BY <3>1
      <3>. HIDE DEF g
      <3>. QED
        BY <2>2, <3>2, <3>3, Zenon DEF Next1
    <2>. QED
      BY <2>1, <2>2
  <1>11. IsCount(g, codes, len)
    <2>1. g = [i \in 0..L |-> g[i]]
      OBVIOUS
    <2>. HIDE DEF g
    <2>2. g = [i \in 0..L |-> IF i = 0 THEN first
                       ELSE IF codes[i] = D THEN first
                       ELSE [Grown(g[i - 1], D) EXCEPT !.dictPos = @ + 1]]
      BY <2>1, <1>10
    <2>. QED
      BY <2>2, Zenon DEF IsCount, first
  <1>12. IsCount(CountAfter(codes, len), codes, len)
    <2>. HIDE DEF g
    <2>. QED
      BY <1>11, CountIs
  <1>. DEFINE h == CountAfter(codes, len)
              P == {k \in Nat : k \in 0..L => h[k] \in Counts}
  <1>13. /\ DOMAIN h = 0..L
         /\ \A i \in 0..L : h[i] = IF i = 0 THEN first ELSE Next1(h[i - 1], i)
         /\ h = [i \in 0..L |-> h[i]]
    <2>1. h = [i \in 0..L |-> IF i = 0 THEN first ELSE Next1(h[i - 1], i)]
      BY <1>12, Zenon DEF IsCount, Next1, first
    <2>. HIDE DEF h, L
    <2>. QED
      BY <2>1
  <1>. HIDE DEF h, D
  <1>14. 0 \in P
    BY <1>13, <1>2, <1>1
  <1>15. ASSUME NEW k \in Nat, k \in P PROVE k + 1 \in P
    <2>. SUFFICES ASSUME k + 1 \in 0..L PROVE h[k + 1] \in Counts
      OBVIOUS
    <2>1. k \in 0..L /\ (k + 1) - 1 = k /\ k + 1 # 0
      BY <1>1
    <2>2. h[k + 1] = Next1(h[k], k + 1) /\ h[k] \in Counts
      BY <1>13, <1>15, <2>1
    <2>. QED
      BY <2>2, <1>3
  <1>16. Nat \subseteq P
    <2>. HIDE DEF P
    <2>. QED
      BY <1>14, <1>15, AllNat
  <1>17. \A i \in 0..L : h[i] \in Counts
    BY <1>16, <1>1
  <1>. QED
    BY <1>12, <1>13, <1>17 DEF h

\* The count after all the codes.
LastCount(codes, len) == CountAfter(codes, len)[Len(codes)]

CountStep(s, x, len) ==
    IF x = InitDictLen(len) THEN CountReset(len)
    ELSE [Grown(s, InitDictLen(len)) EXCEPT !.dictPos = @ + 1]

\* One more code leaves the counts so far alone.
LEMMA CountAppend ==
    ASSUME NEW codes \in Seq(Nat), NEW len \in 3..MaxCodeLen, NEW x \in Nat
    PROVE  /\ \A i \in 0..Len(codes) :
                CountAfter(Append(codes, x), len)[i] = CountAfter(codes, len)[i]
           /\ LastCount(Append(codes, x), len) = CountStep(LastCount(codes, len), x, len)
  <1>. DEFINE more == Append(codes, x)
              f == CountAfter(codes, len)
              g == CountAfter(more, len)
              L == Len(codes)
              P == {k \in Nat : k \in 0..L => g[k] = f[k]}
  <1>1. /\ more \in Seq(Nat) /\ Len(more) = L + 1 /\ L \in Nat
        /\ more[L + 1] = x /\ \A i \in 1..L : more[i] = codes[i]
    BY AppendProperties
  <1>. HIDE DEF more
  <1>2. IsCount(f, codes, len) /\ IsCount(g, more, len)
    BY <1>1, CountAfterDef
  <1>. HIDE DEF f, g
  <1>3. \A i \in 0..L : f[i] = IF i = 0 THEN CountReset(len) ELSE CountStep(f[i - 1], codes[i], len)
    BY <1>2 DEF IsCount, CountStep
  <1>4. \A i \in 0..(L + 1) : g[i] = IF i = 0 THEN CountReset(len)
                                     ELSE CountStep(g[i - 1], more[i], len)
    BY <1>1, <1>2 DEF IsCount, CountStep
  <1>. HIDE DEF L
  <1>5. 0 \in P
    BY <1>1, <1>3, <1>4
  <1>6. ASSUME NEW k \in Nat, k \in P PROVE k + 1 \in P
    <2>. SUFFICES ASSUME k + 1 \in 0..L PROVE g[k + 1] = f[k + 1]
      OBVIOUS
    <2>1. /\ k \in 0..L /\ (k + 1) - 1 = k /\ k + 1 # 0
          /\ k + 1 \in 0..(L + 1) /\ k + 1 \in 1..L
      BY <1>1
    <2>2. g[k] = f[k] /\ more[k + 1] = codes[k + 1]
      BY <1>1, <1>6, <2>1
    <2>3. f[k + 1] = CountStep(f[k], codes[k + 1], len)
      BY <1>3, <2>1
    <2>4. g[k + 1] = CountStep(g[k], more[k + 1], len)
      BY <1>4, <2>1
    <2>. QED
      BY <2>2, <2>3, <2>4
  <1>7. Nat \subseteq P
    <2>. HIDE DEF P
    <2>. QED
      BY <1>5, <1>6, AllNat
  <1>8. \A i \in 0..L : g[i] = f[i]
    BY <1>1, <1>7
  <1>9. g[L + 1] = CountStep(f[L], x, len)
    <2>1. L + 1 \in 0..(L + 1) /\ L + 1 # 0 /\ (L + 1) - 1 = L /\ L \in 0..L
      BY <1>1
    <2>2. g[L + 1] = CountStep(g[L], more[L + 1], len)
      BY <1>4, <2>1
    <2>. QED
      BY <1>1, <1>8, <2>1, <2>2
  <1>. QED
    BY <1>1, <1>8, <1>9 DEF f, g, L, more, LastCount

--------------------------------------------------------------------------------
(* Every code fits *)

Fit(codes, len) ==
    \A i \in DOMAIN codes : codes[i] < Pow2[CodeLengths(codes, len)[i]]

\* The count has not passed its threshold, or codes do not get longer any more.
CountInv(codes, len) ==
    LET s == LastCount(codes, len)
    IN  /\ s \in Counts
        /\ s.len \in len..MaxCodeLen
        /\ s.n = Pow2[s.len]
        /\ s.dictPos <= s.n - InitDictLen(len) \/ s.len = MaxCodeLen

\* What the count allows for the next code, and what it is after it.
LEMMA NextCount ==
    ASSUME NEW codes \in Seq(Nat), NEW len \in 3..MaxCodeLen, CountInv(codes, len)
    PROVE  LET s == LastCount(codes, len)
               g == Grown(s, InitDictLen(len))
           IN  /\ g \in Counts /\ g.dictPos = s.dictPos
               /\ g.len \in len..MaxCodeLen
               /\ g.n = Pow2[g.len]
               /\ InitDictLen(len) + s.dictPos < g.n \/ g.len = MaxCodeLen
               /\ s.dictPos + 1 <= g.n - InitDictLen(len) \/ g.len = MaxCodeLen
  <1>. DEFINE D == InitDictLen(len)
              s == LastCount(codes, len)
              g == Grown(s, D)
  <1>1. D \in Nat /\ D >= 3 /\ len \in Nat /\ MaxCodeLen \in Nat
    BY InitDictLenBounds, MaxDictLenNat
  <1>2. /\ s \in Counts /\ s.len \in len..MaxCodeLen /\ s.n = Pow2[s.len]
        /\ s.dictPos <= s.n - D \/ s.len = MaxCodeLen
    BY DEF CountInv
  <1>. HIDE DEF D, s
  <1>3. s.len \in Nat /\ s.n \in Nat /\ s.dictPos \in Nat
    BY <1>2 DEF Counts
  <1>4. CASE s.len < MaxCodeLen /\ s.n - D = s.dictPos
    <2>1. g = [s EXCEPT !.len = @ + 1, !.n = 2 * @]
      BY <1>4 DEF Grown
    <2>2. g.len = s.len + 1 /\ g.n = 2 * s.n /\ g.dictPos = s.dictPos /\ g \in Counts
      BY <1>2, <2>1, GrowsTo
    <2>3. Pow2[s.len + 1] = 2 * Pow2[s.len] /\ s.n > 0
      <3>1. ASSUME NEW k \in Nat PROVE Pow2[k + 1] = 2 * Pow2[k] /\ Pow2[k] > 0
        <4>1. Pow2[k] \in Nat /\ k < Pow2[k] /\ Pow2[k + 1] = 2 * Pow2[k]
          BY Pow2Step, Pow2Grows
        <4>. QED
          BY <4>1
      <3>. QED
        BY <1>2, <1>3, <3>1
    <2>. HIDE DEF g
    <2>4. g.len \in len..MaxCodeLen /\ g.n = Pow2[g.len]
      BY SMTT(40), <1>1, <1>2, <1>3, <1>4, <2>2, <2>3
    <2>5. D + s.dictPos < g.n /\ s.dictPos + 1 <= g.n - D
      BY SMTT(40), <1>1, <1>3, <1>4, <2>2, <2>3
    <2>. QED
      BY <2>2, <2>4, <2>5 DEF g, D, s
  <1>5. CASE ~(s.len < MaxCodeLen /\ s.n - D = s.dictPos)
    <2>1. g = s
      BY <1>5 DEF Grown
    <2>. HIDE DEF g
    <2>2. s.len = MaxCodeLen \/ s.dictPos < s.n - D
      BY SMTT(40), <1>1, <1>2, <1>3, <1>5
    <2>3. D + s.dictPos < g.n \/ g.len = MaxCodeLen
      BY <1>1, <1>3, <2>1, <2>2
    <2>4. s.dictPos + 1 <= g.n - D \/ g.len = MaxCodeLen
      BY <1>1, <1>3, <2>1, <2>2
    <2>. QED
      BY <1>2, <2>1, <2>3, <2>4 DEF g, D, s
  <1>. QED
    BY <1>4, <1>5

LEMMA FitAppend ==
    ASSUME NEW codes \in Seq(Nat), NEW len \in 3..MaxCodeLen, NEW x \in Nat,
           Fit(codes, len), x < Pow2[Grown(LastCount(codes, len), InitDictLen(len)).len]
    PROVE  Fit(Append(codes, x), len)
  <1>. DEFINE more == Append(codes, x)
              L == Len(codes)
              D == InitDictLen(len)
  <1>1. /\ more \in Seq(Nat) /\ Len(more) = L + 1 /\ L \in Nat
        /\ more[L + 1] = x /\ \A i \in 1..L : more[i] = codes[i]
    BY AppendProperties
  <1>. HIDE DEF more
  <1>2. /\ \A i \in 1..L : CodeLengths(codes, len)[i] = Grown(CountAfter(codes, len)[i - 1], D).len
        /\ \A i \in 1..(L + 1) :
             CodeLengths(more, len)[i] = Grown(CountAfter(more, len)[i - 1], D).len
    BY <1>1 DEF CodeLengths
  <1>3. \A i \in 0..L : CountAfter(more, len)[i] = CountAfter(codes, len)[i]
    BY CountAppend DEF more
  <1>4. ASSUME NEW i \in 1..L PROVE more[i] < Pow2[CodeLengths(more, len)[i]]
    <2>1. i \in 1..(L + 1) /\ i - 1 \in 0..L
      BY <1>1
    <2>2. CodeLengths(more, len)[i] = CodeLengths(codes, len)[i]
      BY <1>2, <1>3, <2>1
    <2>3. codes[i] < Pow2[CodeLengths(codes, len)[i]]
      BY DEF Fit
    <2>. QED
      BY <1>1, <2>2, <2>3
  <1>5. more[L + 1] < Pow2[CodeLengths(more, len)[L + 1]]
    <2>1. L + 1 \in 1..(L + 1) /\ (L + 1) - 1 = L /\ L \in 0..L
      BY <1>1
    <2>2. CodeLengths(more, len)[L + 1] = Grown(CountAfter(codes, len)[L], D).len
      BY <1>2, <1>3, <2>1
    <2>. QED
      BY <1>1, <2>2 DEF LastCount
  <1>6. \A i \in DOMAIN more : i \in 1..L \/ i = L + 1
    BY <1>1
  <1>7. Fit(more, len)
    BY <1>4, <1>5, <1>6 DEF Fit
  <1>. QED
    BY <1>7 DEF more

\* A clear code starts the count again.
LEMMA ClearCount ==
    ASSUME NEW codes \in Seq(Nat), NEW len \in 3..MaxCodeLen
    PROVE  /\ CountInv(Append(codes, InitDictLen(len)), len)
           /\ LastCount(Append(codes, InitDictLen(len)), len).dictPos = 1
  <1>. DEFINE D == InitDictLen(len)
  <1>1. /\ D \in Nat /\ D >= 3 /\ len \in Nat /\ MaxCodeLen \in Nat
        /\ Pow2[len] = 2 * D
    BY InitDictLenBounds, MaxDictLenNat
  <1>2. LastCount(Append(codes, D), len) = CountReset(len)
    <2>1. LastCount(Append(codes, D), len) = CountStep(LastCount(codes, len), D, len)
      BY <1>1, CountAppend
    <2>. QED
      BY <2>1 DEF CountStep
  <1>3. CountReset(len) = [len |-> len, n |-> 2 * D, dictPos |-> 1]
    BY DEF CountReset
  <1>4. CountReset(len) \in Counts
    <2>. HIDE DEF D
    <2>. QED
      BY <1>1, <1>3 DEF Counts
  <1>5. 1 <= 2 * D - D
    BY <1>1
  <1>. HIDE DEF D
  <1>6. CountInv(Append(codes, D), len)
    BY <1>1, <1>2, <1>3, <1>4, <1>5 DEF CountInv, D
  <1>. QED
    BY <1>2, <1>3, <1>6 DEF D

\* Any other code adds one to it.
LEMMA OtherCount ==
    ASSUME NEW codes \in Seq(Nat), NEW len \in 3..MaxCodeLen, NEW x \in Nat,
           x # InitDictLen(len), CountInv(codes, len)
    PROVE  /\ CountInv(Append(codes, x), len)
           /\ LastCount(Append(codes, x), len).dictPos = LastCount(codes, len).dictPos + 1
  <1>. DEFINE D == InitDictLen(len)
              s == LastCount(codes, len)
              g == Grown(s, D)
              t == LastCount(Append(codes, x), len)
  <1>1. /\ g \in Counts /\ g.dictPos = s.dictPos
        /\ g.len \in len..MaxCodeLen
        /\ g.n = Pow2[g.len]
        /\ s.dictPos + 1 <= g.n - D \/ g.len = MaxCodeLen
    BY NextCount
  <1>2. t = [g EXCEPT !.dictPos = @ + 1]
    BY CountAppend DEF CountStep
  <1>. HIDE DEF t, g, s
  <1>3. t \in Counts /\ t.len = g.len /\ t.n = g.n /\ t.dictPos = s.dictPos + 1
    BY SMTT(40), <1>1, <1>2 DEF Counts
  <1>. QED
    BY <1>1, <1>3 DEF CountInv, t, s

--------------------------------------------------------------------------------
(* Sending a code *)

CodesInv(codes, len) ==
    /\ codes \in Seq(Nat)
    /\ Fit(codes, len)
    /\ CountInv(codes, len)

ClearsIn(codes, len) == {i \in DOMAIN codes : codes[i] = InitDictLen(len)}

LEMMA ClearsAppend ==
    ASSUME NEW codes \in Seq(Nat), NEW len, NEW x \in Nat
    PROVE  /\ Cardinality(ClearsIn(codes, len)) \in Nat
           /\ Cardinality(ClearsIn(Append(codes, x), len)) =
                Cardinality(ClearsIn(codes, len)) + (IF x = InitDictLen(len) THEN 1 ELSE 0)
  <1>. DEFINE more == Append(codes, x)
              L == Len(codes)
              D == InitDictLen(len)
              C == ClearsIn(codes, len)
  <1>1. /\ more \in Seq(Nat) /\ Len(more) = L + 1 /\ L \in Nat
        /\ more[L + 1] = x /\ \A i \in 1..L : more[i] = codes[i]
    BY AppendProperties
  <1>. HIDE DEF more, D
  <1>2. DOMAIN more = (1..L) \cup {L + 1} /\ DOMAIN codes = 1..L /\ L + 1 \notin 1..L
    BY <1>1
  <1>3. C \subseteq 1..L
    BY <1>2 DEF ClearsIn
  <1>. HIDE DEF C
  <1>4. IsFiniteSet(C) /\ Cardinality(C) \in Nat
    <2>1. IsFiniteSet(1..L)
      BY <1>1, FS_Interval
    <2>2. IsFiniteSet(C)
      BY <1>3, <2>1, FS_Subset
    <2>. QED
      BY <2>2, FS_CardinalityType
  <1>5. L + 1 \notin C
    BY <1>2, <1>3
  <1>6. CASE x = D
    <2>1. ClearsIn(more, len) = C \cup {L + 1}
      BY <1>1, <1>2, <1>6 DEF ClearsIn, C, D
    <2>2. Cardinality(C \cup {L + 1}) = Cardinality(C) + 1
      BY <1>4, <1>5, FS_AddElement
    <2>. QED
      BY <1>4, <1>6, <2>1, <2>2 DEF more, C, D
  <1>7. CASE x # D
    <2>1. ClearsIn(more, len) = C
      BY <1>1, <1>2, <1>7 DEF ClearsIn, C, D
    <2>. QED
      BY <1>4, <1>7, <2>1 DEF more, C, D
  <1>. QED
    BY <1>6, <1>7

LEMMA ClearsFinite ==
    ASSUME NEW codes \in Seq(Nat), NEW len
    PROVE  Cardinality(ClearsIn(codes, len)) \in Nat
  <1>1. ASSUME NEW x \in Nat PROVE Cardinality(ClearsIn(codes, len)) \in Nat
    BY ClearsAppend
  <1>. QED
    BY <1>1

\* A code other than the clear code, when there is room for it.
LEMMA SendCode ==
    ASSUME NEW codes, NEW len \in 3..MaxCodeLen, CodesInv(codes, len),
           NEW x \in Nat, x # InitDictLen(len),
           x < Pow2[Grown(LastCount(codes, len), InitDictLen(len)).len]
    PROVE  /\ CodesInv(Append(codes, x), len)
           /\ Len(Append(codes, x)) = Len(codes) + 1
           /\ LastCount(Append(codes, x), len).dictPos = LastCount(codes, len).dictPos + 1
           /\ Cardinality(ClearsIn(Append(codes, x), len)) = Cardinality(ClearsIn(codes, len))
  <1>1. codes \in Seq(Nat) /\ Fit(codes, len) /\ CountInv(codes, len)
    BY DEF CodesInv
  <1>2. Append(codes, x) \in Seq(Nat) /\ Len(Append(codes, x)) = Len(codes) + 1
    BY <1>1, AppendProperties
  <1>3. Fit(Append(codes, x), len)
    BY <1>1, FitAppend
  <1>4. /\ CountInv(Append(codes, x), len)
        /\ LastCount(Append(codes, x), len).dictPos = LastCount(codes, len).dictPos + 1
    BY <1>1, OtherCount
  <1>5. Cardinality(ClearsIn(Append(codes, x), len)) = Cardinality(ClearsIn(codes, len))
    BY <1>1, ClearsAppend
  <1>. QED
    BY <1>2, <1>3, <1>4, <1>5 DEF CodesInv

\* There is always room for the clear code and for the end code.
LEMMA SmallCode ==
    ASSUME NEW codes, NEW len \in 3..MaxCodeLen, CodesInv(codes, len)
    PROVE  InitDictLen(len) + 1 < Pow2[Grown(LastCount(codes, len), InitDictLen(len)).len]
  <1>. DEFINE k == Grown(LastCount(codes, len), InitDictLen(len)).len
  <1>1. k \in len..MaxCodeLen
    BY NextCount DEF CodesInv
  <1>. HIDE DEF k
  <1>2. k \in Nat /\ len \in Nat /\ len <= k
    BY <1>1, MaxDictLenNat
  <1>3. Pow2[len] <= Pow2[k] /\ Pow2[k] \in Nat
    BY <1>2, Pow2Monotone, Pow2Grows
  <1>4. /\ InitDictLen(len) \in Nat /\ InitDictLen(len) >= 3
        /\ Pow2[len] = 2 * InitDictLen(len)
    BY InitDictLenBounds
  <1>. QED
    BY <1>3, <1>4 DEF k

LEMMA SendClear ==
    ASSUME NEW codes, NEW len \in 3..MaxCodeLen, CodesInv(codes, len)
    PROVE  LET more == Append(codes, InitDictLen(len))
           IN  /\ CodesInv(more, len)
               /\ Len(more) = Len(codes) + 1
               /\ LastCount(more, len).dictPos = 1
               /\ Cardinality(ClearsIn(more, len)) = Cardinality(ClearsIn(codes, len)) + 1
  <1>. DEFINE D == InitDictLen(len)
  <1>1. codes \in Seq(Nat) /\ Fit(codes, len) /\ CountInv(codes, len)
    BY DEF CodesInv
  <1>2. D \in Nat
    BY InitDictLenBounds
  <1>3. Append(codes, D) \in Seq(Nat) /\ Len(Append(codes, D)) = Len(codes) + 1
    BY <1>1, <1>2, AppendProperties
  <1>4. D < Pow2[Grown(LastCount(codes, len), D).len]
    <2>1. /\ D + 1 < Pow2[Grown(LastCount(codes, len), D).len]
          /\ Grown(LastCount(codes, len), D).len \in len..MaxCodeLen
      BY <1>1, SmallCode, NextCount
    <2>2. Pow2[Grown(LastCount(codes, len), D).len] \in Nat
      BY <2>1, MaxDictLenNat, Pow2Grows
    <2>. QED
      BY <1>2, <2>1, <2>2
  <1>5. Fit(Append(codes, D), len)
    BY <1>1, <1>2, <1>4, FitAppend
  <1>6. CountInv(Append(codes, D), len) /\ LastCount(Append(codes, D), len).dictPos = 1
    BY <1>1, ClearCount
  <1>7. Cardinality(ClearsIn(Append(codes, D), len)) = Cardinality(ClearsIn(codes, len)) + 1
    BY <1>1, <1>2, ClearsAppend
  <1>. QED
    BY <1>3, <1>5, <1>6, <1>7 DEF CodesInv

--------------------------------------------------------------------------------
(* The encoder *)

\* While there are pixels, the next code of the dictionary is as far from the
\* first as the count says: neither looks at the other.
InStepWithCount(c, im, len) ==
    c.pos <= Len(im) => c.dictPos = InitDictLen(len) + 1 + LastCount(c.codes, len).dictPos

\* A code for each pixel that was consumed, and the clear codes; one more will come.
CodesCounted(c, len) ==
    Len(c.codes) + 1 <= c.pos + Cardinality(ClearsIn(c.codes, len))

\* A pixel at least was consumed for each entry of the dictionary.
EntriesCounted(c) == c.dictPos <= c.initDictLen + 1 + c.pos

\* The dictionary is only started again if there are pixels enough to fill it.
ClearedOnce(c, im, len) ==
    \/ Cardinality(ClearsIn(c.codes, len)) <= 1
    \/ Len(im) >= MaxDictLen - InitDictLen(len)

\* c is as far as pixel c.pos of im, coded with len bits at first.
EncoderAt(c, im, len) ==
    /\ im \in Seq(Nat)
    /\ len \in 3..MaxCodeLen
    /\ DictInv(c)
    /\ c.initDictLen = InitDictLen(len)
    /\ c.pos \in 1..(Len(im) + 1)
    /\ CodesInv(c.codes, len)
    /\ InStepWithCount(c, im, len)
    /\ CodesCounted(c, len)
    /\ EntriesCounted(c)
    /\ ClearedOnce(c, im, len)

\* All codes have been sent, the end code too unless an index was refused; or one
\* too many.
EncoderDone ==
    /\ image \in Seq(Nat)
    /\ codeLen \in 3..MaxCodeLen
    /\ DictInv(ctx)
    /\ ctx.initDictLen = InitDictLen(codeLen)
    /\ CodesInv(ctx.codes, codeLen)
    /\ Len(ctx.codes) <= Len(image) + 1 + Cardinality(ClearsIn(ctx.codes, codeLen))
    /\ ClearedOnce(ctx, image, codeLen)

EncoderInv ==
    /\ result \in {"encoding", "EINDEX", "OK", "overrun"}
    /\ IF result = "encoding" THEN EncoderAt(ctx, image, codeLen) ELSE EncoderDone
    /\ result = "overrun" => Overrun(ctx, image)

\* What lzw_crawl_tree does before it looks for a place for the new entry.
Sent(c, x, p) == [c EXCEPT !.codes = x, !.pos = p]

LEMMA SentInv ==
    ASSUME NEW c, DictInv(c), NEW x, NEW p
    PROVE  /\ DictInv(Sent(c, x, p))
           /\ Sent(c, x, p).codes = x
           /\ Sent(c, x, p).pos = p
           /\ Sent(c, x, p).initDictLen = c.initDictLen
           /\ Sent(c, x, p).dictPos = c.dictPos
           /\ Sent(c, x, p).colors = c.colors
           /\ Nodes(Sent(c, x, p)) = Nodes(c)
           /\ DOMAIN Sent(c, x, p) = DOMAIN c
  <1>. DEFINE d == Sent(c, x, p)
  <1>1. SizesFit(c) /\ TreeFits(c) /\ RowsFit(c)
    BY DEF DictInv
  <1>2. /\ DOMAIN d = DOMAIN c /\ d.codes = x /\ d.pos = p
        /\ d.initDictLen = c.initDictLen /\ d.colors = c.colors
        /\ d.dictPos = c.dictPos /\ d.mapPos = c.mapPos
        /\ d.treeInit = c.treeInit /\ d.treeList = c.treeList /\ d.treeMap = c.treeMap
    BY <1>1 DEF SizesFit, Sent
  <1>. HIDE DEF d
  <1>3. Entries(d) = Entries(c) /\ Parents(d) = Parents(c) /\ Rows(d) = Rows(c)
        /\ Nodes(d) = Nodes(c)
    BY <1>2 DEF Entries, Parents, Rows, Nodes
  <1>4. SizesFit(d)
    BY <1>1, <1>2 DEF SizesFit
  <1>5. TreeFits(d)
    BY <1>1, <1>2, <1>3 DEF TreeFits
  <1>6. RowsFit(d)
    BY <1>1, <1>2, <1>3 DEF RowsFit
  <1>. QED
    BY <1>2, <1>3, <1>4, <1>5, <1>6 DEF DictInv, d

LEMMA ContextStarts ==
    ASSUME NEW im \in Seq(Nat), im # << >>, NEW len \in 3..MaxCodeLen
    PROVE  EncoderAt(Context(InitDictLen(len)), im, len)
  <1>. DEFINE D == InitDictLen(len)
              start == Context(D)
  <1>2. len \in 3..MaxCodeLen
    OBVIOUS
  <1>3. D \in Nat /\ D >= 3 /\ 2 * D <= MaxDictLen
    BY <1>2, InitDictLenBounds
  <1>. DEFINE c == [initDictLen |-> D, colors |-> 0..(D - 1),
                    pos |-> 1, codes |-> << >>, dictPos |-> 0, mapPos |-> 0,
                    treeInit |-> << >>, treeList |-> << >>, treeMap |-> << >>]
  <1>4. start = ResetDict(c)
    BY Zenon DEF Context
  <1>5. /\ c.initDictLen = D /\ c.colors = 0..(D - 1) /\ c.pos = 1 /\ c.codes = << >>
        /\ DOMAIN c = {"initDictLen", "colors", "pos", "codes", "dictPos", "mapPos",
                       "treeInit", "treeList", "treeMap"}
    OBVIOUS
  <1>. HIDE DEF c, start
  <1>6. D >= 2 /\ D + 2 <= MaxDictLen
    BY <1>3, MaxDictLenNat
  <1>7. /\ DictInv(start) /\ start.initDictLen = D /\ start.dictPos = D + 2
        /\ start.pos = 1 /\ start.codes = Append(<< >>, D)
    BY <1>3, <1>4, <1>5, <1>6, ResetInv
  <1>8. /\ << >> \in Seq(Nat) /\ Len(<< >>) = 0
        /\ start.codes \in Seq(Nat) /\ Len(start.codes) = 1
    BY <1>3, <1>7, AppendProperties
  <1>9. LastCount(<< >>, len) = CountReset(len)
    <2>1. IsCount(CountAfter(<< >>, len), << >>, len)
      BY <1>2, <1>8, CountAfterDef
    <2>. QED
      BY <1>8, <2>1 DEF IsCount, LastCount
  <1>10. CodesInv(<< >>, len)
    <2>1. CountReset(len) = [len |-> len, n |-> 2 * D, dictPos |-> 1]
      BY DEF CountReset
    <2>2. len \in Nat /\ MaxCodeLen \in Nat /\ Pow2[len] = 2 * D
      BY <1>2, MaxDictLenNat, InitDictLenBounds
    <2>. HIDE DEF D
    <2>3. CountReset(len) \in Counts
      BY <1>3, <2>1, <2>2 DEF Counts
    <2>4. CountInv(<< >>, len)
      BY <1>2, <1>3, <1>9, <2>1, <2>2, <2>3 DEF CountInv, D
    <2>5. Fit(<< >>, len)
      BY DEF Fit
    <2>. QED
      BY <1>8, <2>4, <2>5 DEF CodesInv
  <1>11. /\ CodesInv(start.codes, len)
         /\ LastCount(start.codes, len).dictPos = 1
         /\ Cardinality(ClearsIn(start.codes, len)) = Cardinality(ClearsIn(<< >>, len)) + 1
    BY <1>2, <1>7, <1>10, SendClear
  <1>12. Cardinality(ClearsIn(<< >>, len)) = 0
    <2>1. ClearsIn(<< >>, len) = {}
      BY DEF ClearsIn
    <2>. QED
      BY <2>1, FS_EmptySet
  <1>14. InStepWithCount(start, im, len)
    BY <1>3, <1>7, <1>11 DEF InStepWithCount
  <1>15. CodesCounted(start, len)
    BY <1>7, <1>8, <1>11, <1>12 DEF CodesCounted
  <1>16. Len(im) \in Nat
    OBVIOUS
  <1>17. EntriesCounted(start) /\ ClearedOnce(start, im, len)
    BY <1>3, <1>7, <1>11, <1>12 DEF EntriesCounted, ClearedOnce
  <1>. QED
    BY <1>2, <1>7, <1>11, <1>14, <1>15, <1>16, <1>17 DEF EncoderAt, start, D

\* One code for the longest match; then a new entry or a new dictionary, unless
\* the image has ended.
LEMMA CrawlKeeps ==
    ASSUME NEW c, NEW im, NEW len, EncoderAt(c, im, len),
           c.pos <= Len(im), ~BadIndex(c, im), NEW d, d = CrawlTree(c, im)
    PROVE  EncoderAt(d, im, len)
  <1>. DEFINE D == InitDictLen(len)
              L == Len(im)
              end == MatchEnd(c, im)
              node == NodeAt(c, im)[end]
              codes == c.codes
              sent == Sent(c, Append(codes, node), end + 1)
              count == LastCount(codes, len)
              room == Grown(count, D).len
              clears == Cardinality(ClearsIn(codes, len))
  <1>1. /\ im \in Seq(Nat) /\ len \in 3..MaxCodeLen
        /\ DictInv(c) /\ c.initDictLen = D /\ CodesInv(codes, len)
        /\ c.pos \in 1..L /\ ~BadIndex(c, im)
    BY DEF EncoderAt
  <1>2. d = CrawlTree(c, im)
    OBVIOUS
  <1>3. /\ D \in Nat /\ D >= 3 /\ 2 * D <= MaxDictLen
        /\ MaxDictLen \in Nat /\ L \in Nat /\ c.pos \in Nat
    BY <1>1, InitDictLenBounds, MaxDictLenNat
  <1>4. SizesFit(c) /\ TreeFits(c)
    BY <1>1 DEF DictInv
  <1>5. /\ end \in c.pos..L
        /\ node \in Nodes(c)
        /\ end < L => im[end + 1] \in c.colors
    BY <1>1, <1>4, NextMatch
  <1>6. /\ c.dictPos \in (D + 2)..MaxDictLen
        /\ node \in Nat /\ node # D /\ node < c.dictPos
    <2>. HIDE DEF node, D
    <2>1. c.dictPos \in (D + 2)..MaxDictLen
      BY <1>1, <1>4 DEF SizesFit
    <2>2. node \in (0..(D - 1)) \union ((D + 2)..(c.dictPos - 1))
      BY <1>1, <1>5 DEF Nodes
    <2>. QED
      BY <1>3, <2>1, <2>2
  <1>7. /\ c.dictPos = D + 1 + count.dictPos
        /\ L \in Nat /\ Len(codes) + 1 <= c.pos + clears
        /\ c.dictPos <= D + 1 + c.pos
        /\ clears <= 1 \/ L >= MaxDictLen - D
    BY <1>1, <1>3
       DEF EncoderAt, InStepWithCount, CodesCounted, EntriesCounted, ClearedOnce
  <1>8. /\ Len(codes) \in Nat /\ clears \in Nat /\ codes \in Seq(Nat)
        /\ count.dictPos \in Nat
    <2>1. codes \in Seq(Nat) /\ count \in Counts
      BY <1>1 DEF CodesInv, CountInv
    <2>. HIDE DEF codes, count
    <2>. QED
      BY <2>1, ClearsFinite DEF Counts, clears
  <1>. HIDE DEF end, node, count, room, clears, D
  <1>9. node < Pow2[room]
    <2>1. /\ room \in len..MaxCodeLen
          /\ D + count.dictPos < Pow2[room] \/ room = MaxCodeLen
      BY <1>1, NextCount DEF CodesInv, D, count, room
    <2>2. room \in Nat
      BY <1>1, <2>1, MaxDictLenNat
    <2>3. Pow2[room] \in Nat
      BY <2>2, Pow2Grows
    <2>4. CASE D + count.dictPos < Pow2[room]
      BY <1>3, <1>6, <1>7, <1>8, <2>3, <2>4
    <2>5. CASE room = MaxCodeLen
      <3>1. Pow2[room] = MaxDictLen
        BY <2>5 DEF MaxDictLen
      <3>. QED
        BY <1>3, <1>6, <3>1
    <2>. QED
      BY <2>1, <2>4, <2>5
  <1>10. /\ CodesInv(Append(codes, node), len)
         /\ Len(Append(codes, node)) = Len(codes) + 1
         /\ LastCount(Append(codes, node), len).dictPos = count.dictPos + 1
         /\ Cardinality(ClearsIn(Append(codes, node), len)) = clears
    BY <1>1, <1>6, <1>9, SendCode DEF D, count, room, clears
  <1>11. /\ DictInv(sent) /\ sent.codes = Append(codes, node) /\ sent.pos = end + 1
         /\ sent.initDictLen = D /\ sent.dictPos = c.dictPos
         /\ sent.colors = c.colors /\ Nodes(sent) = Nodes(c)
         /\ DOMAIN sent = DOMAIN c
    <2>1. DictInv(c) /\ c.initDictLen = D
      BY <1>1
    <2>2. PICK x, p : x = Append(codes, node) /\ p = end + 1
      OBVIOUS
    <2>3. sent = Sent(c, x, p)
      BY <2>2
    <2>. HIDE DEF sent
    <2>4. /\ DictInv(sent) /\ sent.codes = x /\ sent.pos = p
          /\ sent.initDictLen = D
      BY <2>1, <2>3, SentInv
    <2>5. /\ sent.dictPos = c.dictPos
          /\ sent.colors = c.colors /\ Nodes(sent) = Nodes(c)
          /\ DOMAIN sent = DOMAIN c
      BY <2>1, <2>3, SentInv
    <2>. QED
      BY <2>2, <2>4, <2>5
  <1>12. d = IF end = L THEN sent
                ELSE IF DictFull(c) THEN ResetDict(sent)
                ELSE AddChild(sent, node, im[end + 1])
    BY <1>2, Zenon DEF CrawlTree, Sent, end, node
  <1>. HIDE DEF sent, codes, L
  <1>13. end \in Nat /\ c.pos <= end /\ end <= L /\ end + 1 \in 1..(L + 1)
    BY <1>1, <1>3, <1>5
  <1>14. CASE end = L
    <2>1. d = sent
      BY <1>12, <1>14
    <2>2. InStepWithCount(d, im, len)
      BY <1>2, <1>3, <1>11, <1>14, <2>1 DEF InStepWithCount, L
    <2>3. CodesCounted(d, len)
      <3>1. /\ Len(d.codes) = Len(codes) + 1 /\ d.pos = end + 1
            /\ Cardinality(ClearsIn(d.codes, len)) = clears
        BY <1>10, <1>11, <2>1
      <3>. QED
        BY <1>3, <1>7, <1>8, <1>13, <3>1 DEF CodesCounted
    <2>4. EntriesCounted(d) /\ ClearedOnce(d, im, len)
      <3>1. /\ d.dictPos = c.dictPos /\ d.pos = end + 1 /\ d.initDictLen = D
            /\ Cardinality(ClearsIn(d.codes, len)) = clears
        BY <1>10, <1>11, <2>1
      <3>. QED
        BY <1>3, <1>6, <1>7, <1>13, <3>1, SMTT(60)
           DEF EntriesCounted, ClearedOnce, D, L
    <2>. QED
      BY <1>1, <1>2, <1>10, <1>11, <1>13, <2>1, <2>2, <2>3, <2>4 DEF EncoderAt, D, L
  <1>15. CASE end # L /\ DictFull(c)
    <2>1. d = ResetDict(sent)
      BY <1>12, <1>15
    <2>2. /\ D >= 2 /\ D + 2 <= MaxDictLen
      BY <1>3
    <2>3. /\ c.colors = 0..(D - 1)
          /\ DOMAIN c = {"initDictLen", "colors", "pos", "codes", "dictPos", "mapPos",
                           "treeInit", "treeList", "treeMap"}
      BY <1>1, <1>4 DEF SizesFit
    <2>4. /\ DictInv(d) /\ d.initDictLen = D /\ d.dictPos = D + 2
          /\ d.pos = end + 1 /\ d.codes = Append(sent.codes, D)
      <3>1. /\ sent.initDictLen = D /\ sent.colors = 0..(D - 1)
            /\ DOMAIN sent = {"initDictLen", "colors", "pos", "codes", "dictPos", "mapPos",
                              "treeInit", "treeList", "treeMap"}
        BY <1>11, <2>3
      <3>2. /\ DictInv(ResetDict(sent)) /\ ResetDict(sent).initDictLen = D
            /\ ResetDict(sent).dictPos = D + 2
            /\ ResetDict(sent).pos = sent.pos /\ ResetDict(sent).codes = Append(sent.codes, D)
        BY <1>3, <2>2, <3>1, ResetInv
      <3>. QED
        BY <1>11, <2>1, <3>2
    <2>5. /\ CodesInv(d.codes, len)
          /\ Len(d.codes) = Len(codes) + 2
          /\ LastCount(d.codes, len).dictPos = 1
          /\ Cardinality(ClearsIn(d.codes, len)) = clears + 1
      BY <1>1, <1>8, <1>10, <1>11, <2>4, SendClear DEF D
    <2>6. InStepWithCount(d, im, len)
      BY <1>2, <1>3, <2>4, <2>5 DEF InStepWithCount, D
    <2>7. CodesCounted(d, len)
      BY SMTT(40), <1>3, <1>7, <1>8, <1>13, <2>4, <2>5 DEF CodesCounted
    <2>8. EntriesCounted(d)
      BY <1>3, <1>13, <2>4 DEF EntriesCounted
    <2>9. ClearedOnce(d, im, len)
      <3>1. c.dictPos = MaxDictLen
        BY <1>3, <1>6, <1>15 DEF DictFull
      <3>2. MaxDictLen - D <= L
        BY <1>3, <1>7, <1>13, <1>15, <3>1
      <3>. QED
        BY <3>2 DEF ClearedOnce, D, L
    <2>. QED
      BY <1>1, <1>2, <1>13, <2>4, <2>5, <2>6, <2>7, <2>8, <2>9 DEF EncoderAt, D, L
  <1>16. CASE end # L /\ ~DictFull(c)
    <2>. DEFINE color == im[end + 1]
    <2>1. d = AddChild(sent, node, color)
      BY <1>12, <1>16
    <2>2. /\ color \in sent.colors /\ node \in Nodes(sent)
          /\ sent.dictPos < MaxDictLen
      BY SMTT(60), <1>3, <1>5, <1>6, <1>11, <1>13, <1>16 DEF DictFull, L
    <2>. HIDE DEF color
    <2>3. DictInv(d)
      BY <1>11, <2>1, <2>2, AddChildInv
    <2>4. /\ d.initDictLen = D /\ d.pos = end + 1
          /\ d.codes = Append(codes, node) /\ d.dictPos = c.dictPos + 1
      <3>1. SizesFit(sent)
        BY <1>11 DEF DictInv
      <3>. QED
        BY <1>11, <2>1, <3>1, AddChildKeeps
    <2>5. InStepWithCount(d, im, len)
      BY <1>2, <1>3, <1>7, <1>8, <1>10, <2>4 DEF InStepWithCount, D
    <2>6. CodesCounted(d, len)
      BY SMTT(40), <1>1, <1>2, <1>3, <1>7, <1>8, <1>10, <1>13, <2>4 DEF CodesCounted
    <2>7. EntriesCounted(d) /\ ClearedOnce(d, im, len)
      <3>1. Cardinality(ClearsIn(d.codes, len)) = clears
        BY <1>10, <2>4
      <3>. QED
        BY <1>3, <1>6, <1>7, <1>13, <2>4, <3>1, SMTT(60)
           DEF EntriesCounted, ClearedOnce, D, L
    <2>. QED
      BY <1>1, <1>2, <1>10, <1>13, <2>3, <2>4, <2>5, <2>6, <2>7 DEF EncoderAt, D, L
  <1>. QED
    BY <1>14, <1>15, <1>16

LEMMA EncoderStarts == EncoderInit => EncoderInv
  <1>. SUFFICES ASSUME EncoderInit PROVE EncoderInv
    OBVIOUS
  <1>1. image \in Seq(Nat) /\ image # << >> /\ codeLen \in 3..MaxCodeLen
    BY EncoderAssumption, InitCodeLenBounds DEF EncoderInit
  <1>2. ctx = Context(InitDictLen(codeLen)) /\ result = "encoding"
    BY DEF EncoderInit
  <1>. QED
    BY <1>1, <1>2, ContextStarts DEF EncoderInv

LEMMA EncoderCrawl ==
    ASSUME EncoderInv, Crawl
    PROVE  EncoderInv'
  <1>1. EncoderAt(ctx, image, codeLen) /\ ctx.pos <= Len(image) /\ ~BadIndex(ctx, image)
    BY DEF EncoderInv, Crawl
  <1>2. /\ ctx' = CrawlTree(ctx, image) /\ UNCHANGED <<image, codeLen>>
        /\ result' = IF Overrun(ctx', image) THEN "overrun" ELSE "encoding"
    BY DEF Crawl
  <1>3. EncoderAt(ctx', image, codeLen)
    BY <1>1, <1>2, CrawlKeeps
  <1>4. CASE Overrun(ctx', image)
    <2>1. /\ Len(ctx'.codes) \in Nat /\ Len(image) \in Nat
          /\ Cardinality(ClearsIn(ctx'.codes, codeLen)) \in Nat
          /\ ctx'.pos \in 1..(Len(image) + 1)
      BY <1>3, ClearsFinite DEF CodesInv, EncoderAt
    <2>2. Len(ctx'.codes) + 1 <= ctx'.pos + Cardinality(ClearsIn(ctx'.codes, codeLen))
      BY <1>3 DEF EncoderAt, CodesCounted
    <2>3. Len(ctx'.codes) <= Len(image) + 1 + Cardinality(ClearsIn(ctx'.codes, codeLen))
      BY <2>1, <2>2
    <2>4. Overrun(ctx', image')
      BY <1>2, <1>4
    <2>. QED
      BY <1>2, <1>3, <1>4, <2>3, <2>4 DEF EncoderInv, EncoderAt, EncoderDone
  <1>5. CASE ~Overrun(ctx', image)
    BY <1>2, <1>3, <1>5 DEF EncoderInv
  <1>. QED
    BY <1>4, <1>5

\* The end code fits, like the others.
LEMMA EndCodeKeeps ==
    ASSUME NEW c, NEW im, NEW len, EncoderAt(c, im, len)
    PROVE  /\ DictInv(EndCode(c)) /\ EndCode(c).initDictLen = InitDictLen(len)
           /\ EndCode(c).codes = Append(c.codes, InitDictLen(len) + 1)
           /\ CodesInv(EndCode(c).codes, len)
           /\ Len(EndCode(c).codes) <= c.pos + Cardinality(ClearsIn(EndCode(c).codes, len))
           /\ Cardinality(ClearsIn(EndCode(c).codes, len)) = Cardinality(ClearsIn(c.codes, len))
  <1>. DEFINE D == InitDictLen(len)
              codes == c.codes
              d == EndCode(c)
              clears == Cardinality(ClearsIn(codes, len))
  <1>1. /\ len \in 3..MaxCodeLen
        /\ DictInv(c) /\ c.initDictLen = D /\ CodesInv(codes, len)
        /\ d = [c EXCEPT !.codes = Append(codes, D + 1)]
    BY DEF EncoderAt, EndCode
  <1>2. Len(codes) + 1 <= c.pos + clears
    BY DEF EncoderAt, CodesCounted
  <1>3. D \in Nat /\ D + 1 \in Nat /\ D + 1 # D
    BY <1>1, InitDictLenBounds
  <1>4. /\ CodesInv(Append(codes, D + 1), len)
        /\ Len(Append(codes, D + 1)) = Len(codes) + 1
        /\ Cardinality(ClearsIn(Append(codes, D + 1), len)) = clears
    BY <1>1, <1>3, SmallCode, SendCode
  <1>5. DictInv(d) /\ d.codes = Append(codes, D + 1) /\ d.initDictLen = D
    <2>1. d = Sent(c, Append(codes, D + 1), c.pos)
      <3>1. "pos" \in DOMAIN c /\ "codes" \in DOMAIN c
        BY <1>1 DEF DictInv, SizesFit
      <3>. QED
        BY <1>1, <3>1 DEF Sent
    <2>2. DictInv(c) /\ c.initDictLen = D
      BY <1>1
    <2>3. PICK x, p : x = Append(codes, D + 1) /\ p = c.pos
      OBVIOUS
    <2>4. d = Sent(c, x, p)
      BY <2>1, <2>3
    <2>5. DictInv(d) /\ d.codes = x /\ d.initDictLen = D
      BY <2>2, <2>4, SentInv
    <2>. QED
      BY <2>3, <2>5
  <1>. HIDE DEF codes, clears, d, D
  <1>6. Len(d.codes) <= c.pos + Cardinality(ClearsIn(d.codes, len))
    BY <1>2, <1>4, <1>5
  <1>. QED
    BY <1>4, <1>5, <1>6 DEF d, codes, clears, D

LEMMA EncoderPack ==
    ASSUME EncoderInv, Pack
    PROVE  EncoderInv'
  <1>1. /\ EncoderAt(ctx, image, codeLen) /\ ctx' = EndCode(ctx)
        /\ result' = (IF Overrun(ctx', image) THEN "overrun" ELSE "OK")
        /\ UNCHANGED <<image, codeLen>>
    BY DEF EncoderInv, Pack
  <1>2. /\ DictInv(ctx') /\ ctx'.initDictLen = InitDictLen(codeLen)
        /\ CodesInv(ctx'.codes, codeLen)
        /\ Len(ctx'.codes) <= ctx.pos + Cardinality(ClearsIn(ctx'.codes, codeLen))
        /\ Cardinality(ClearsIn(ctx'.codes, codeLen))
                = Cardinality(ClearsIn(ctx.codes, codeLen))
    BY <1>1, EndCodeKeeps
  <1>3. /\ image \in Seq(Nat) /\ codeLen \in 3..MaxCodeLen
        /\ ctx.pos \in 1..(Len(image) + 1)
    BY <1>1 DEF EncoderAt
  <1>4. /\ Len(ctx'.codes) \in Nat /\ Cardinality(ClearsIn(ctx'.codes, codeLen)) \in Nat
        /\ Len(image) \in Nat
    BY <1>2, <1>3, ClearsFinite DEF CodesInv
  <1>5. Len(ctx'.codes) <= Len(image) + 1 + Cardinality(ClearsIn(ctx'.codes, codeLen))
    BY <1>2, <1>3, <1>4
  <1>6. ClearedOnce(ctx', image, codeLen)
    BY <1>1, <1>2 DEF EncoderAt, ClearedOnce
  <1>7. /\ result' \in {"EINDEX", "OK", "overrun"}
        /\ result' = "overrun" => Overrun(ctx', image')
    BY <1>1
  <1>. QED
    BY <1>1, <1>2, <1>3, <1>5, <1>6, <1>7 DEF EncoderInv, EncoderDone

LEMMA EncoderFails ==
    ASSUME EncoderInv, CrawlFails
    PROVE  EncoderInv'
  <1>1. /\ EncoderAt(ctx, image, codeLen)
        /\ result' = "EINDEX" /\ UNCHANGED <<image, codeLen, ctx>>
    BY DEF EncoderInv, CrawlFails
  <1>2. /\ Len(ctx.codes) \in Nat /\ Len(image) \in Nat
        /\ Cardinality(ClearsIn(ctx.codes, codeLen)) \in Nat
        /\ ctx.pos \in 1..(Len(image) + 1)
    BY <1>1, ClearsFinite DEF CodesInv, EncoderAt
  <1>3. Len(ctx.codes) + 1 <= ctx.pos + Cardinality(ClearsIn(ctx.codes, codeLen))
    BY <1>1 DEF EncoderAt, CodesCounted
  <1>4. Len(ctx.codes) <= Len(image) + 1 + Cardinality(ClearsIn(ctx.codes, codeLen))
    BY <1>2, <1>3
  <1>. QED
    BY <1>1, <1>4 DEF EncoderInv, EncoderAt, EncoderDone

LEMMA EncoderStep ==
    ASSUME EncoderInv, [EncoderNext]_encoderVars
    PROVE  EncoderInv'
  <1>1. CASE Crawl
    BY <1>1, EncoderCrawl
  <1>2. CASE CrawlFails
    BY <1>2, EncoderFails
  <1>3. CASE Pack
    BY <1>3, EncoderPack
  <1>4. CASE UNCHANGED encoderVars
    BY <1>4 DEF encoderVars, EncoderInv, EncoderDone, Overrun
  <1>. QED
    BY <1>1, <1>2, <1>3, <1>4 DEF EncoderNext

--------------------------------------------------------------------------------

\* Every code that is sent has room in the length create_byte_list gives it,
\* although that function counts codes and never sees the dictionary: the count
\* and the dictionary keep the same distance, through every clear code.
THEOREM EveryCodeFits == EncoderSpec => []CodesFit
  <1>1. EncoderInv => CodesFit
    BY DEF EncoderInv, EncoderAt, EncoderDone, CodesInv, Fit, CodesFit
  <1>. QED
    BY <1>1, EncoderStarts, EncoderStep, PTL DEF EncoderSpec

\* LZW_GenerateStream stays within the dictionary, the tree and the rows it
\* allocates: a row costs two codes.  And it stays within the buffer of codes for
\* every image that has not the pixels to fill the dictionary, although not for
\* every image: all but one of the clear codes have no place there.
THEOREM BuffersSuffice == EncoderSpec => []SpaceNeeded
  <1>1. ASSUME EncoderInv PROVE SpaceNeeded
    <2>1. /\ SizesFit(ctx) /\ RowsFit(ctx) /\ MaxDictLen \in Nat
          /\ Cardinality(Parents(ctx)) \in Nat /\ Cardinality(Rows(ctx)) \in Nat
      BY <1>1, MaxDictLenNat, DictInvFinite DEF EncoderInv, EncoderAt, EncoderDone, DictInv
    <2>2. ctx.dictPos <= MaxDictLen /\ ctx.mapPos \in Nat /\ ctx.initDictLen \in Nat
          /\ ctx.dictPos \in Nat
      BY <2>1 DEF SizesFit
    <2>3. IsFiniteSet(Parents(ctx)) /\ Rows(ctx) \in SUBSET Parents(ctx)
      BY <2>1, DictInvFinite DEF RowsFit
    <2>4. Cardinality(Rows(ctx)) <= Cardinality(Parents(ctx))
      BY <2>3, FS_Subset
    <2>5. 2 * (ctx.mapPos - 1) <= MaxDictLen
      BY <2>1, <2>2, <2>4 DEF RowsFit
    <2>6. ctx.mapPos - 1 <= MaxDictLen \div 2 + 1
      BY <2>1, <2>2, <2>5
    <2>7. /\ image \in Seq(Nat)
          /\ ctx.codes \in Seq(Nat) /\ ctx.initDictLen = InitDictLen(codeLen)
      BY <1>1 DEF EncoderInv, EncoderAt, EncoderDone, CodesInv
    <2>8. /\ Len(ctx.codes) \in Nat /\ Len(image) \in Nat
          /\ Cardinality(ClearsIn(ctx.codes, codeLen)) \in Nat
      BY <2>7, ClearsFinite
    <2>9. ASSUME result = "overrun" PROVE Len(image) >= MaxDictLen - ctx.initDictLen
      <3>1. EncoderDone /\ Len(ctx.codes) > Len(image) + 2
        BY <1>1, <2>9 DEF EncoderInv, Overrun, CodePlaces
      <3>2. ~(Cardinality(ClearsIn(ctx.codes, codeLen)) <= 1)
        BY <2>8, <3>1 DEF EncoderDone
      <3>. QED
        BY <2>7, <3>1, <3>2 DEF EncoderDone, ClearedOnce
    <2>. QED
      BY <2>2, <2>6, <2>9 DEF SpaceNeeded
  <1>. QED
    BY <1>1, EncoderStarts, EncoderStep, PTL DEF EncoderSpec

--------------------------------------------------------------------------------
(* What the codes stand for *)

\* A code that was not given out has no children, and no two nodes share a row.
TreeOwn(c) ==
    /\ \A n \in 0..(MaxDictLen - 1) :
          n >= c.dictPos => c.treeList[n].map = 0 /\ c.treeList[n].child = 0
    /\ \A m, n \in 0..(MaxDictLen - 1) :
          c.treeList[m].map = c.treeList[n].map /\ c.treeList[m].map # 0 => m = n

LEMMA ResetOwn ==
    ASSUME NEW c, "treeList" \in DOMAIN c
    PROVE  TreeOwn(ResetDict(c))
  <1>. DEFINE d == ResetDict(c)
  <1>1. d.treeList = [node \in 0..(MaxDictLen - 1) |-> Leaf]
    BY DEF ResetDict
  <1>. HIDE DEF d
  <1>2. Leaf.map = 0 /\ Leaf.child = 0
    BY DEF Leaf
  <1>. QED
    BY <1>1, <1>2 DEF TreeOwn, d

\* A node that has a code is a place of the list.
LEMMA NodePlaces ==
    ASSUME NEW c, SizesFit(c)
    PROVE  /\ MaxDictLen \in Nat
           /\ \A n \in Nodes(c) : n \in 0..(MaxDictLen - 1) /\ n < c.dictPos /\ n \in Nat
           /\ c.dictPos \in Nat
           /\ c.dictPos < MaxDictLen => c.dictPos \in 0..(MaxDictLen - 1)
  BY MaxDictLenNat DEF SizesFit, Nodes

LEMMA AddOwn ==
    ASSUME NEW c, SizesFit(c), TreeFits(c), TreeOwn(c), c.dictPos < MaxDictLen,
           NEW node \in Nodes(c), NEW color \in c.colors
    PROVE  TreeOwn(AddChild(c, node, color))
  <1>. DEFINE d == AddChild(c, node, color)
              entry == c.treeList[node]
              K == 0..(MaxDictLen - 1)
  <1>1. /\ MaxDictLen \in Nat /\ node \in K /\ node < c.dictPos /\ node \in Nat
        /\ c.dictPos \in Nat /\ c.initDictLen \in Nat /\ c.mapPos \in Nat /\ c.mapPos # 0
    BY NodePlaces DEF SizesFit
  <1>2. d.dictPos = c.dictPos + 1
    BY AddChildKeeps
  <1>3. /\ \A n \in K : n >= c.dictPos => c.treeList[n].map = 0 /\ c.treeList[n].child = 0
        /\ \A m, n \in K : c.treeList[m].map = c.treeList[n].map /\ c.treeList[m].map # 0 => m = n
    BY DEF TreeOwn
  <1>4. c.treeList \in [K -> [map : 0..(c.mapPos - 1), color : c.colors, child : Entries(c)]]
    BY DEF TreeFits
  <1>. HIDE DEF d, K
  <1>5. ASSUME d.treeList = c.treeList PROVE TreeOwn(d)
    <2>1. \A n \in K : n >= d.dictPos => n >= c.dictPos
      BY <1>1, <1>2 DEF K
    <2>. QED
      BY <1>3, <1>5, <2>1 DEF TreeOwn, K
  <1>. node \in Int
    BY <1>1
  <1>6. CASE node < c.initDictLen
    <2>1. d.treeList = c.treeList
      BY <1>6, AddToColor DEF d
    <2>. QED
      BY <1>5, <2>1 DEF d
  <1>7. CASE node >= c.initDictLen /\ entry.map # 0
    <2>1. d.treeList = c.treeList
      BY <1>7, AddToRow DEF d
    <2>. QED
      BY <1>5, <2>1 DEF d
  <1>8. ASSUME NEW e, d.treeList = [c.treeList EXCEPT ![node] = e],
               e.map = 0 \/ e.map = c.mapPos
        PROVE  TreeOwn(d)
    <2>1. \A n \in K : d.treeList[n] = IF n = node THEN e ELSE c.treeList[n]
      BY <1>4, <1>8
    <2>2. \A n \in K : c.treeList[n].map # c.mapPos
      BY <1>1, <1>4
    <2>3. ASSUME NEW n \in K, n >= d.dictPos
          PROVE  d.treeList[n].map = 0 /\ d.treeList[n].child = 0
      <3>1. n >= c.dictPos /\ n # node
        BY <1>1, <1>2, <2>3 DEF K
      <3>. QED
        BY <1>3, <2>1, <3>1
    <2>4. ASSUME NEW m \in K, NEW n \in K, d.treeList[m].map = d.treeList[n].map,
                 d.treeList[m].map # 0
          PROVE  m = n
      BY <1>3, <1>8, <2>1, <2>2, <2>4
    <2>. QED
      BY <2>3, <2>4 DEF TreeOwn, K
  <1>9. CASE node >= c.initDictLen /\ entry.map = 0 /\ entry.child = 0
    <2>. DEFINE e == [map |-> 0, color |-> color, child |-> c.dictPos]
    <2>1. d.treeList = [c.treeList EXCEPT ![node] = e] /\ e.map = 0
      BY <1>1, <1>9, AddToList DEF d
    <2>. HIDE DEF e
    <2>. QED
      BY <1>8, <2>1 DEF d
  <1>10. CASE node >= c.initDictLen /\ entry.map = 0 /\ entry.child # 0
    <2>. DEFINE e == [entry EXCEPT !.map = c.mapPos]
    <2>1. e.map = c.mapPos
      BY <1>1, <1>4
    <2>2. d.treeList = [c.treeList EXCEPT ![node] = e]
      BY <1>1, <1>10, AddRow DEF d
    <2>. HIDE DEF e
    <2>. QED
      BY <1>8, <2>1, <2>2 DEF d
  <1>11. node < c.initDictLen \/ node >= c.initDictLen
    BY <1>1
  <1>. QED
    BY <1>6, <1>7, <1>9, <1>10, <1>11 DEF d

\* The children of a node that is no colour.
LEMMA InnerChild ==
    ASSUME NEW c, SizesFit(c), NEW n \in Int, n >= c.initDictLen, NEW k
    PROVE  Child(c, n, k) =
              IF c.treeList[n].child # 0 /\ c.treeList[n].color = k THEN c.treeList[n].child
              ELSE IF c.treeList[n].map # 0 THEN c.treeMap[c.treeList[n].map][k]
              ELSE 0
  <1>1. ~(n < c.initDictLen)
    BY DEF SizesFit
  <1>. QED
    BY <1>1 DEF Child

LEMMA ColorChild ==
    ASSUME NEW c, SizesFit(c), NEW n, n < c.initDictLen, NEW k
    PROVE  Child(c, n, k) = c.treeInit[<<n, k>>]
  BY DEF Child

\* A new entry is one new edge of the tree.
LEMMA NewEdge ==
    ASSUME NEW c, SizesFit(c), TreeFits(c), TreeOwn(c), c.dictPos < MaxDictLen,
           NEW node \in Nodes(c), NEW color \in c.colors,
           NEW n \in Nodes(c) \union {c.dictPos}, NEW k \in c.colors,
           Child(AddChild(c, node, color), n, k) # 0
    PROVE  \/ n = node /\ k = color /\ Child(AddChild(c, node, color), n, k) = c.dictPos
           \/ n \in Nodes(c) /\ Child(AddChild(c, node, color), n, k) = Child(c, n, k)
  <1>. DEFINE d == AddChild(c, node, color)
              entry == c.treeList[node]
              K == 0..(MaxDictLen - 1)
  <1>1. /\ MaxDictLen \in Nat /\ node \in K /\ node < c.dictPos /\ node \in Nat
        /\ c.dictPos \in Nat /\ c.initDictLen \in Nat /\ c.mapPos \in Nat /\ c.mapPos # 0
        /\ n \in K /\ n \in Nat /\ c.dictPos >= c.initDictLen
    BY NodePlaces DEF SizesFit
  <1>2. /\ d.dictPos = c.dictPos + 1 /\ d.initDictLen = c.initDictLen
        /\ SizesFit(d)
    BY <1>1, AddChildKeeps, AddChildSizes
  <1>3. /\ \A m \in K : m >= c.dictPos => c.treeList[m].map = 0 /\ c.treeList[m].child = 0
        /\ \A m, m2 \in K : c.treeList[m].map = c.treeList[m2].map /\ c.treeList[m].map # 0 => m = m2
    BY DEF TreeOwn
  <1>4. /\ c.treeList \in [K -> [map : 0..(c.mapPos - 1), color : c.colors, child : Entries(c)]]
        /\ c.treeInit \in [c.colors \X c.colors -> Entries(c)]
        /\ 1..(c.mapPos - 1) \subseteq DOMAIN c.treeMap
        /\ \A r \in 1..(c.mapPos - 1) : c.treeMap[r] \in [c.colors -> Entries(c)]
    BY DEF TreeFits
  <1>5. \A m \in K : c.treeList[m].map # 0 => c.treeList[m].map \in 1..(c.mapPos - 1)
    BY SMTT(40), <1>1, <1>4
  <1>6. Child(d, n, k) # 0
    OBVIOUS
  <1>. HIDE DEF d, K
  <1>. node \in Int /\ n \in Int
    BY <1>1
  <1>7. n \notin Nodes(c) => n = c.dictPos /\ n # node /\ n >= c.initDictLen
    BY <1>1
  <1>8. ASSUME n < c.initDictLen, n \in Nodes(c)
        PROVE  \/ n = node /\ k = color /\ Child(d, n, k) = c.dictPos
               \/ Child(d, n, k) = Child(c, n, k)
    <2>1. Child(d, n, k) = d.treeInit[<<n, k>>] /\ Child(c, n, k) = c.treeInit[<<n, k>>]
      BY <1>2, <1>8, ColorChild
    <2>2. n \in c.colors
      BY <1>1, <1>8 DEF SizesFit
    <2>3. CASE node < c.initDictLen
      <3>1. d.treeInit = [c.treeInit EXCEPT ![<<node, color>>] = c.dictPos]
        BY <1>1, <2>3, AddToColor DEF d
      <3>2. <<n, k>> \in c.colors \X c.colors
        BY <2>2
      <3>3. d.treeInit[<<n, k>>] = IF <<n, k>> = <<node, color>> THEN c.dictPos
                                   ELSE c.treeInit[<<n, k>>]
        BY <1>4, <3>1, <3>2
      <3>. QED
        BY <2>1, <3>3
    <2>4. CASE node >= c.initDictLen
      <3>1. d.treeInit = c.treeInit
        <4>1. CASE entry.map # 0
          BY <2>4, <4>1, AddToRow DEF d
        <4>2. CASE entry.map = 0 /\ entry.child = 0
          BY ZenonT(40), <2>4, <4>2, AddToList DEF d
        <4>3. CASE entry.map = 0 /\ entry.child # 0
          BY <2>4, <4>3, AddRow DEF d
        <4>. QED
          BY <4>1, <4>2, <4>3
      <3>. QED
        BY <2>1, <3>1
    <2>. QED
      BY <1>1, <2>3, <2>4
  <1>9. ASSUME n >= c.initDictLen
        PROVE  \/ n = node /\ k = color /\ Child(d, n, k) = c.dictPos
               \/ n \in Nodes(c) /\ Child(d, n, k) = Child(c, n, k)
    <2>. DEFINE e == c.treeList[n]
                f == d.treeList[n]
    <2>1. /\ Child(d, n, k) = IF f.child # 0 /\ f.color = k THEN f.child
                              ELSE IF f.map # 0 THEN d.treeMap[f.map][k] ELSE 0
          /\ Child(c, n, k) = IF e.child # 0 /\ e.color = k THEN e.child
                              ELSE IF e.map # 0 THEN c.treeMap[e.map][k] ELSE 0
      BY <1>1, <1>2, <1>9, InnerChild
    <2>2. n \notin Nodes(c) => e.map = 0 /\ e.child = 0
      BY <1>1, <1>3, <1>7
    <2>3. CASE node < c.initDictLen
      <3>1. f = e /\ d.treeMap = c.treeMap
        <4>1. d.treeList = c.treeList /\ d.treeMap = c.treeMap
          BY ZenonT(40), <2>3, AddToColor DEF d
        <4>. QED
          BY Zenon, <4>1
      <3>. HIDE DEF e, f
      <3>. QED
        BY <1>6, <2>1, <2>2, <3>1
    <2>4. CASE node >= c.initDictLen /\ entry.map # 0
      <3>1. f = e /\ \A r \in DOMAIN c.treeMap :
                d.treeMap[r] = IF r = entry.map THEN [c.treeMap[r] EXCEPT ![color] = c.dictPos]
                               ELSE c.treeMap[r]
        BY <1>1, <2>4, AddToRow DEF d
      <3>2. CASE e.map = 0
        <4>. HIDE DEF e, f
        <4>. QED
          BY <1>6, <2>1, <2>2, <3>1, <3>2
      <3>3. CASE e.map # 0
        <4>1. e.map \in 1..(c.mapPos - 1) /\ e.map \in DOMAIN c.treeMap
          BY <1>1, <1>4, <1>5, <3>3
        <4>2. c.treeMap[e.map] \in [c.colors -> Entries(c)]
          BY <1>4, <4>1
        <4>3. CASE n = node
          <5>1. d.treeMap[e.map] = [c.treeMap[e.map] EXCEPT ![color] = c.dictPos]
            BY <3>1, <4>1, <4>3
          <5>2. d.treeMap[e.map][k] = IF k = color THEN c.dictPos ELSE c.treeMap[e.map][k]
            BY <4>2, <5>1
          <5>. HIDE DEF e, f
          <5>. QED
            BY <1>6, <2>1, <3>1, <3>3, <4>3, <5>2
        <4>4. CASE n # node
          <5>1. e.map # entry.map
            BY <1>1, <1>3, <3>3, <4>4
          <5>2. d.treeMap[e.map] = c.treeMap[e.map]
            BY <3>1, <4>1, <5>1
          <5>. HIDE DEF e, f
          <5>. QED
            BY <1>6, <2>1, <2>2, <3>1, <3>3, <5>2
        <4>. QED
          BY <4>3, <4>4
      <3>. QED
        BY <3>2, <3>3
    <2>5. CASE node >= c.initDictLen /\ entry.map = 0 /\ entry.child = 0
      <3>1. /\ d.treeList = [c.treeList EXCEPT ![node] =
                                [map |-> 0, color |-> color, child |-> c.dictPos]]
            /\ d.treeMap = c.treeMap
        BY <1>1, <2>5, AddToList DEF d
      <3>2. CASE n = node
        <4>1. f.map = 0 /\ f.color = color /\ f.child = c.dictPos
          BY <1>1, <1>4, <3>1, <3>2
        <4>. HIDE DEF e, f
        <4>. QED
          BY <1>6, <2>1, <3>2, <4>1
      <3>3. CASE n # node
        <4>1. f = e
          BY <1>1, <1>4, <3>1, <3>3
        <4>. HIDE DEF e, f
        <4>. QED
          BY <1>6, <2>1, <2>2, <3>1, <4>1
      <3>. QED
        BY <3>2, <3>3
    <2>6. CASE node >= c.initDictLen /\ entry.map = 0 /\ entry.child # 0
      <3>. DEFINE m == TakeRow(c).treeMap
      <3>1. /\ d.treeList = [c.treeList EXCEPT ![node] = [entry EXCEPT !.map = c.mapPos]]
            /\ \A r \in DOMAIN m :
                  d.treeMap[r] = IF r = c.mapPos THEN [m[r] EXCEPT ![color] = c.dictPos] ELSE m[r]
        <4>1. d.treeList = [c.treeList EXCEPT ![node] = [entry EXCEPT !.map = c.mapPos]]
          BY <2>6, AddRow DEF d
        <4>2. \A r \in DOMAIN TakeRow(c).treeMap : AddChild(c, node, color).treeMap[r] =
                  IF r = c.mapPos THEN [TakeRow(c).treeMap[r] EXCEPT ![color] = c.dictPos]
                  ELSE TakeRow(c).treeMap[r]
          BY <2>6, AddRowMap
        <4>. QED
          BY <4>1, <4>2 DEF d
      <3>2. /\ DOMAIN m = DOMAIN c.treeMap \union {c.mapPos}
            /\ \A r \in DOMAIN m : m[r] = IF r = c.mapPos THEN [x \in c.colors |-> 0] ELSE c.treeMap[r]
        BY DEF TakeRow, SizesFit
      <3>. HIDE DEF m
      <3>3. CASE n = node
        <4>1. f.map = c.mapPos /\ f.color = e.color /\ f.child = e.child
          BY <1>1, <1>4, <3>1, <3>3
        <4>2. d.treeMap[c.mapPos] = [[x \in c.colors |-> 0] EXCEPT ![color] = c.dictPos]
          BY <3>1, <3>2
        <4>3. d.treeMap[c.mapPos][k] = IF k = color THEN c.dictPos ELSE 0
          BY <4>2
        <4>4. n \in Nodes(c)
          BY <3>3
        <4>. HIDE DEF e, f
        <4>. QED
          BY <1>1, <1>6, <2>1, <3>3, <4>1, <4>3, <4>4
      <3>4. CASE n # node
        <4>1. f = e
          BY <1>1, <1>4, <3>1, <3>4
        <4>2. e.map # 0 => d.treeMap[e.map] = c.treeMap[e.map]
          <5>1. e.map # 0 => e.map \in 1..(c.mapPos - 1) /\ e.map \in DOMAIN c.treeMap /\ e.map # c.mapPos
            BY <1>1, <1>4, <1>5
          <5>. HIDE DEF e
          <5>. QED
            BY <3>1, <3>2, <5>1
        <4>. HIDE DEF e, f
        <4>. QED
          BY <1>6, <2>1, <2>2, <4>1, <4>2
      <3>. QED
        BY <3>3, <3>4
    <2>. QED
      BY <1>1, <2>3, <2>4, <2>5, <2>6
  <1>. QED
    BY <1>1, <1>7, <1>8, <1>9 DEF d

\* str gives the string every code stands for: the path that leads to it.
TreeSpells(c, str) ==
    /\ str \in [Nodes(c) -> Seq(Nat) \ {<< >>}]
    /\ \A k \in c.colors : str[k] = <<k>>
    /\ \A n \in Nodes(c), k \in c.colors :
          Child(c, n, k) # 0 => str[Child(c, n, k)] = Append(str[n], k)

\* A match is spelled by its pixels.
LEMMA SpellsMatch ==
    ASSUME NEW c, SizesFit(c), TreeFits(c), NEW str, TreeSpells(c, str),
           NEW im \in Seq(Nat), NEW p \in 1..Len(im), c.pos = p,
           NEW end \in p..Len(im), NodeAt(c, im)[end] # -1
    PROVE  str[NodeAt(c, im)[end]] = SubSeq(im, p, end)
  <1>. DEFINE node == NodeAt(c, im)
              P == {k \in Nat : p + k <= Len(im) /\ node[p + k] # -1
                                   => str[node[p + k]] = SubSeq(im, p, p + k)}
  <1>1. Len(im) \in Nat /\ p \in Nat /\ end \in Nat /\ im[p] \in Nat
    OBVIOUS
  <1>2. /\ \A i \in p..Len(im) : node[i] \in Nodes(c) \union {-1}
        /\ \A i \in p..Len(im) : node[i] =
                IF i = p THEN (IF im[p] >= c.initDictLen THEN -1 ELSE im[p])
                ELSE Reached(c, im, node[i - 1], i)
    BY NodeAtDef
  <1>3. \A i \in p..Len(im) : ~(im[i] >= c.initDictLen) => im[i] \in c.colors
    <2>. SUFFICES ASSUME NEW i \in p..Len(im), ~(im[i] >= c.initDictLen)
                  PROVE  im[i] \in c.colors
      OBVIOUS
    <2>1. im[i] \in Nat
      OBVIOUS
    <2>. QED
      BY SMTT(60), <2>1 DEF SizesFit
  <1>8. node[end] # -1
    OBVIOUS
  <1>. HIDE DEF node
  <1>4. 0 \in P
    <2>. SUFFICES ASSUME node[p] # -1 PROVE str[node[p]] = SubSeq(im, p, p)
      BY <1>1
    <2>1. p \in p..Len(im)
      BY <1>1
    <2>2. node[p] = im[p] /\ ~(im[p] >= c.initDictLen)
      BY <1>2, <2>1
    <2>3. str[im[p]] = <<im[p]>>
      BY <1>3, <2>1, <2>2 DEF TreeSpells
    <2>4. SubSeq(im, p, p) = <<im[p]>>
      <3>1. p - 1 < p /\ p <= Len(im) /\ p - 1 \in Nat /\ p \in 1..(Len(im) + 1)
        BY <1>1
      <3>2. SubSeq(im, p, p) = SubSeq(im, p, p - 1) \o <<im[p]>>
        BY <3>1, SubSeqRecursiveSecond
      <3>3. SubSeq(im, p, p - 1) = << >>
        BY <3>1, SubSeqEmpty
      <3>4. << >> \o <<im[p]>> = <<im[p]>>
        BY <1>1, <<im[p]>> \in Seq(Nat), ConcatEmptySeq
      <3>. QED
        BY <3>2, <3>3, <3>4
    <2>. QED
      BY <2>2, <2>3, <2>4
  <1>5. ASSUME NEW k \in Nat, k \in P PROVE k + 1 \in P
    <2>. DEFINE i == p + (k + 1)
    <2>. SUFFICES ASSUME i <= Len(im), node[i] # -1
                  PROVE  str[node[i]] = SubSeq(im, p, i)
      OBVIOUS
    <2>1. i \in p..Len(im) /\ i # p /\ i - 1 = p + k /\ i \in 1..Len(im)
          /\ i - 1 \in p..Len(im)
      BY <1>1
    <2>. HIDE DEF i
    <2>2. node[i] = Reached(c, im, node[i - 1], i) /\ node[i - 1] \in Nodes(c) \union {-1}
      BY <1>2, <2>1
    <2>3. /\ ~(im[i] >= c.initDictLen) /\ node[i - 1] # -1
          /\ Child(c, node[i - 1], im[i]) # 0 /\ node[i] = Child(c, node[i - 1], im[i])
      BY <2>2 DEF Reached
    <2>4. node[i - 1] \in Nodes(c) /\ im[i] \in c.colors
      BY <1>3, <2>1, <2>2, <2>3
    <2>5. str[node[i]] = Append(str[node[i - 1]], im[i])
      BY <2>3, <2>4 DEF TreeSpells
    <2>6. str[node[i - 1]] = SubSeq(im, p, i - 1)
      BY <1>1, <1>5, <2>1, <2>3
    <2>7. SubSeq(im, p, i) = Append(SubSeq(im, p, i - 1), im[i])
      <3>1. SubSeq(im, p, i) = SubSeq(im, p, i - 1) \o <<im[i]>>
        BY <1>1, <2>1, SubSeqRecursiveSecond
      <3>2. SubSeq(im, p, i - 1) \in Seq(Nat)
        BY SMTT(40), <1>1, <2>1, SubSeqProperties
      <3>. QED
        BY <3>1, <3>2, <2>1, AppendIsConcat
    <2>. QED
      BY <2>5, <2>6, <2>7
  <1>6. Nat \subseteq P
    <2>. HIDE DEF P
    <2>. QED
      BY <1>4, <1>5, AllNat
  <1>7. end - p \in Nat /\ p + (end - p) = end
    BY <1>1
  <1>9. str[node[end]] = SubSeq(im, p, end)
    <2>1. PICK k \in Nat : p + k = end
      BY <1>7
    <2>2. k \in P /\ p + k <= Len(im)
      BY <1>1, <1>6, <2>1
    <2>. QED
      BY <1>8, <2>1, <2>2
  <1>. QED
    BY <1>9 DEF node

\* The string of a new entry.
Extended(str, c, node, color) ==
    [n \in Nodes(c) \union {c.dictPos} |->
        IF n = c.dictPos THEN Append(str[node], color) ELSE str[n]]

LEMMA SpellsAdd ==
    ASSUME NEW c, SizesFit(c), TreeFits(c), TreeOwn(c), c.dictPos < MaxDictLen,
           NEW node \in Nodes(c), NEW color \in c.colors, NEW str, TreeSpells(c, str)
    PROVE  /\ Nodes(AddChild(c, node, color)) = Nodes(c) \union {c.dictPos}
           /\ TreeSpells(AddChild(c, node, color), Extended(str, c, node, color))
  <1>. DEFINE d == AddChild(c, node, color)
              ext == Extended(str, c, node, color)
  <1>1. /\ node < c.dictPos /\ node \in Nat /\ c.dictPos \in Nat /\ c.dictPos \notin Nodes(c)
        /\ c.initDictLen \in Nat /\ c.dictPos >= c.initDictLen + 2
        /\ c.colors = 0..(c.initDictLen - 1) /\ color \in Nat
    BY NodePlaces DEF SizesFit
  <1>2. /\ d.dictPos = c.dictPos + 1 /\ d.initDictLen = c.initDictLen /\ d.colors = c.colors
    BY AddChildKeeps
  <1>3. Nodes(d) = Nodes(c) \union {c.dictPos}
    <2>. HIDE DEF d
    <2>. QED
      BY <1>1, <1>2 DEF Nodes
  <1>4. /\ str \in [Nodes(c) -> Seq(Nat) \ {<< >>}]
        /\ \A k \in c.colors : str[k] = <<k>>
        /\ \A n \in Nodes(c), k \in c.colors :
              Child(c, n, k) # 0 => str[Child(c, n, k)] = Append(str[n], k)
    BY DEF TreeSpells
  <1>5. \A n \in Nodes(c) : ext[n] = str[n]
    BY <1>1 DEF Extended
  <1>6. ext[c.dictPos] = Append(str[node], color)
    BY DEF Extended
  <1>7. Append(str[node], color) \in Seq(Nat) \ {<< >>}
    BY <1>1, <1>4, AppendProperties
  <1>8. ext \in [Nodes(d) -> Seq(Nat) \ {<< >>}]
    <2>1. ext = [n \in Nodes(d) |-> IF n = c.dictPos THEN Append(str[node], color) ELSE str[n]]
      BY <1>3 DEF Extended
    <2>2. \A n \in Nodes(d) : (IF n = c.dictPos THEN Append(str[node], color) ELSE str[n])
                                    \in Seq(Nat) \ {<< >>}
      BY <1>3, <1>4, <1>7
    <2>. QED
      BY <2>1, <2>2
  <1>. HIDE DEF d, ext
  <1>9. ASSUME NEW k \in d.colors PROVE ext[k] = <<k>>
    <2>1. k \in Nodes(c)
      BY <1>1, <1>2 DEF Nodes
    <2>. QED
      BY <1>2, <1>4, <1>5, <2>1
  <1>10. ASSUME NEW n \in Nodes(d), NEW k \in d.colors, Child(d, n, k) # 0
         PROVE  ext[Child(d, n, k)] = Append(ext[n], k)
    <2>1. \/ n = node /\ k = color /\ Child(d, n, k) = c.dictPos
          \/ n \in Nodes(c) /\ Child(d, n, k) = Child(c, n, k)
      BY <1>2, <1>3, <1>10, NewEdge DEF d
    <2>2. CASE n = node /\ k = color /\ Child(d, n, k) = c.dictPos
      BY <1>5, <1>6, <2>2
    <2>3. CASE n \in Nodes(c) /\ Child(d, n, k) = Child(c, n, k)
      <3>1. Child(c, n, k) \in Entries(c) /\ Child(c, n, k) # 0
        BY <1>2, <1>10, <2>3, ChildType
      <3>2. Child(c, n, k) \in Nodes(c)
        BY <3>1 DEF Entries, Nodes
      <3>3. str[Child(c, n, k)] = Append(str[n], k)
        BY <1>2, <1>4, <2>3, <3>1
      <3>. QED
        BY <1>5, <2>3, <3>2, <3>3
    <2>. QED
      BY <2>1, <2>2, <2>3
  <1>11. TreeSpells(d, ext)
    BY <1>8, <1>9, <1>10 DEF TreeSpells
  <1>. QED
    BY <1>3, <1>11 DEF d, ext

\* After a clear code there are the colours only.
LEMMA SpellsReset ==
    ASSUME NEW c, NEW D \in Nat, c.initDictLen = D, D >= 2, D + 2 <= MaxDictLen,
           c.colors = 0..(D - 1),
           DOMAIN c = {"initDictLen", "colors", "pos", "codes", "dictPos", "mapPos",
                       "treeInit", "treeList", "treeMap"}
    PROVE  /\ Nodes(ResetDict(c)) = 0..(D - 1)
           /\ TreeSpells(ResetDict(c), Colors(D))
           /\ TreeOwn(ResetDict(c))
  <1>. DEFINE d == ResetDict(c)
  <1>1. /\ d.initDictLen = D /\ d.dictPos = D + 2 /\ d.colors = 0..(D - 1)
        /\ d.treeInit = [edge \in d.colors \X d.colors |-> 0]
    BY DEF ResetDict
  <1>2. TreeOwn(d)
    BY ResetOwn
  <1>. HIDE DEF d
  <1>3. Nodes(d) = 0..(D - 1)
    <2>1. (D + 2)..(D + 2 - 1) = {}
      OBVIOUS
    <2>. QED
      BY <1>1, <2>1 DEF Nodes
  <1>4. ASSUME NEW n \in Nodes(d), NEW k \in d.colors PROVE Child(d, n, k) = 0
    <2>1. n < D /\ <<n, k>> \in d.colors \X d.colors
      BY <1>1, <1>3
    <2>. QED
      BY <1>1, <2>1 DEF Child
  <1>5. \A k \in 0..(D - 1) : <<k>> \in Seq(Nat) /\ <<k>> # << >>
    OBVIOUS
  <1>6. TreeSpells(d, Colors(D))
    BY <1>1, <1>3, <1>4, <1>5 DEF TreeSpells, Colors
  <1>. QED
    BY <1>2, <1>3, <1>6 DEF d

\* The tree is not touched when codes are sent.
LEMMA SentTree ==
    ASSUME NEW c, SizesFit(c), NEW x, NEW p
    PROVE  /\ TreeOwn(c) => TreeOwn(Sent(c, x, p))
           /\ \A str : TreeSpells(c, str) => TreeSpells(Sent(c, x, p), str)
  <1>. DEFINE d == Sent(c, x, p)
  <1>1. /\ d.initDictLen = c.initDictLen /\ d.colors = c.colors
        /\ d.dictPos = c.dictPos
        /\ d.treeInit = c.treeInit /\ d.treeList = c.treeList /\ d.treeMap = c.treeMap
    BY DEF SizesFit, Sent
  <1>. HIDE DEF d
  <1>2. Nodes(d) = Nodes(c)
    BY <1>1 DEF Nodes
  <1>3. \A n, k : Child(d, n, k) = Child(c, n, k)
    BY <1>1 DEF Child
  <1>4. TreeOwn(c) => TreeOwn(d)
    BY <1>1 DEF TreeOwn
  <1>5. \A str : TreeSpells(c, str) => TreeSpells(d, str)
    BY <1>1, <1>2, <1>3 DEF TreeSpells
  <1>. QED
    BY <1>4, <1>5 DEF d

--------------------------------------------------------------------------------
(* The reader *)

Reader(s) ==
    /\ DOMAIN s = {"offset", "len", "prev", "strings", "out", "ended", "broken"}
    /\ s.offset \in Nat /\ s.len \in Nat /\ s.prev \in Seq(Nat) /\ s.out \in Seq(Nat)

\* The codes up to m, without the clear code and the end code.
Below(D, m) == (0..(D - 1)) \union ((D + 2)..(m - 1))

LEMMA NextEntryIs ==
    ASSUME NEW s, NEW D \in Nat, NEW m \in Nat, m >= D + 2,
           DOMAIN s.strings = Below(D, m)
    PROVE  NextEntry(s) = m
  <1>. DEFINE A == 0..(D - 1)
              B == (D + 2)..(m - 1)
  <1>1. IsFiniteSet(A) /\ Cardinality(A) = D
    <2>1. 0 \in Int /\ D - 1 \in Int
      OBVIOUS
    <2>2. IsFiniteSet(A) /\ Cardinality(A) = IF 0 > D - 1 THEN 0 ELSE D - 1 - 0 + 1
      BY <2>1, FS_Interval
    <2>. QED
      BY <2>2
  <1>2. IsFiniteSet(B) /\ Cardinality(B) = m - D - 2
    <2>1. D + 2 \in Int /\ m - 1 \in Int
      OBVIOUS
    <2>2. IsFiniteSet(B) /\ Cardinality(B) = IF D + 2 > m - 1 THEN 0 ELSE m - 1 - (D + 2) + 1
      BY <2>1, FS_Interval
    <2>. QED
      BY <2>2
  <1>3. A \cap B = {}
    OBVIOUS
  <1>4. Cardinality({}) = 0
    BY FS_EmptySet
  <1>. HIDE DEF A, B
  <1>5. Cardinality(A \union B) = D + (m - D - 2) - 0
    BY <1>1, <1>2, <1>3, <1>4, FS_Union
  <1>6. DOMAIN s.strings = A \union B
    BY DEF Below, A, B
  <1>. QED
    BY <1>5, <1>6 DEF NextEntry

\* s has the strings of the tree, up to the one for the code before; pixel is the
\* one it ends with.
Knows(s, c, str, pixel) ==
    /\ DOMAIN s.strings = Below(c.initDictLen, IF s.prev = << >> THEN c.dictPos ELSE c.dictPos - 1)
    /\ \A k \in DOMAIN s.strings : s.strings[k] = str[k]
    /\ s.prev = << >> => c.dictPos = c.initDictLen + 2
    /\ s.prev # << >> => /\ c.dictPos > c.initDictLen + 2
                         /\ str[c.dictPos - 1] = Append(s.prev, pixel)

\* t is the reader s after the code of a node.
StringRead(s, t, c, str, node) ==
    /\ Reader(t) /\ t.ended = s.ended /\ t.broken = s.broken
    /\ t.offset = s.offset + s.len
    /\ t.out = s.out \o str[node]
    /\ t.prev = str[node]
    /\ DOMAIN t.strings = Nodes(c)
    /\ \A k \in Nodes(c) : t.strings[k] = str[k]
    /\ t.len = IF s.len < MaxCodeLen /\ c.dictPos = Pow2[s.len] THEN s.len + 1 ELSE s.len

\* The reader adds what the encoder added with the code before, and follows it.
LEMMA ReadString ==
    ASSUME NEW c, SizesFit(c), NEW str, TreeSpells(c, str), NEW len,
           c.initDictLen = InitDictLen(len),
           NEW s, Reader(s), NEW pixel \in Nat, Knows(s, c, str, pixel),
           NEW node \in Nodes(c), Head(str[node]) = pixel
    PROVE  StringRead(s, ReadOn(s, node, len), c, str, node)
  <1>. DEFINE D == c.initDictLen
              at == [s EXCEPT !.offset = @ + s.len]
              t == ReadOn(s, node, len)
  <1>1. /\ D \in Nat /\ c.dictPos \in Nat /\ c.dictPos >= D + 2 /\ c.dictPos <= MaxDictLen
        /\ MaxDictLen \in Nat /\ node \in Nat /\ node # D /\ node # D + 1
        /\ Nodes(c) = Below(D, c.dictPos)
    BY MaxDictLenNat DEF SizesFit, Nodes, Below
  <1>2. /\ str[node] \in Seq(Nat) /\ str[node] # << >>
        /\ \A k \in Nodes(c) : str[k] \in Seq(Nat)
    BY DEF TreeSpells
  <1>3. /\ Reader(at) /\ at.offset = s.offset + s.len
        /\ at.len = s.len /\ at.prev = s.prev /\ at.strings = s.strings /\ at.out = s.out
        /\ at.ended = s.ended /\ at.broken = s.broken
    BY DEF Reader
  <1>. HIDE DEF at
  <1>4. Knows(at, c, str, pixel)
    BY <1>3 DEF Knows
  <1>5. /\ StringOf(at, node) = str[node]
        /\ DOMAIN Taught(at, str[node]) = Nodes(c)
        /\ \A k \in Nodes(c) : Taught(at, str[node])[k] = str[k]
        /\ NextEntry(at) + (IF Learns(at) THEN 1 ELSE 0) = c.dictPos
    <2>1. CASE at.prev = << >>
      <3>1. /\ DOMAIN at.strings = Nodes(c)
            /\ \A k \in Nodes(c) : at.strings[k] = str[k]
        BY <1>1, <1>4, <2>1 DEF Knows
      <3>2. NextEntry(at) = c.dictPos
        BY <1>1, <3>1, NextEntryIs
      <3>3. ~Learns(at)
        BY <2>1 DEF Learns
      <3>. QED
        BY <1>1, <3>1, <3>2, <3>3 DEF StringOf, Taught
    <2>2. CASE at.prev # << >>
      <3>. DEFINE new == c.dictPos - 1
      <3>1. /\ new >= D + 2 /\ new \in Nat /\ new + 1 = c.dictPos /\ new < MaxDictLen
            /\ DOMAIN at.strings = Below(D, new)
            /\ \A k \in Below(D, new) : at.strings[k] = str[k]
            /\ str[new] = Append(at.prev, pixel)
        BY SMTT(60), <1>1, <1>4, <2>2 DEF Knows
      <3>. HIDE DEF new, D
      <3>2. Nodes(c) = Below(D, new) \union {new} /\ new \notin Below(D, new)
        BY SMTT(40), <1>1, <3>1 DEF Below
      <3>3. NextEntry(at) = new
        BY <1>1, <3>1, NextEntryIs
      <3>4. Learns(at)
        BY <2>2, <3>1, <3>3 DEF Learns
      <3>5. Taught(at, str[node]) =
               [k \in Nodes(c) |-> IF k = new THEN Append(at.prev, pixel) ELSE at.strings[k]]
        BY <3>1, <3>2, <3>3, <3>4 DEF Taught
      <3>6. StringOf(at, node) = str[node]
        <4>1. CASE node # new
          BY <3>1, <3>2, <4>1 DEF StringOf
        <4>2. CASE node = new
          <5>1. Head(str[node]) = Head(at.prev)
            <6>1. at.prev \in Seq(Nat)
              BY <1>3 DEF Reader
            <6>. QED
              BY <2>2, <3>1, <4>2, <6>1, HeadTailAppend
          <5>. QED
            BY <2>2, <3>1, <3>2, <3>3, <4>2, <5>1 DEF StringOf
        <4>. QED
          BY <4>1, <4>2
      <3>. QED
        BY <3>1, <3>2, <3>3, <3>4, <3>5, <3>6
    <2>. QED
      BY <2>1, <2>2
  <1>6. t = Emit(at, str[node])
    <2>1. t = Obey(at, node, len)
      BY DEF ReadOn, at
    <2>2. InitDictLen(len) = D /\ str[node] # << >>
      BY <1>2
    <2>. HIDE DEF D
    <2>. QED
      BY <1>1, <1>5, <2>1, <2>2 DEF Obey
  <1>7. NextLen(at) = IF s.len < MaxCodeLen /\ c.dictPos = Pow2[s.len] THEN s.len + 1 ELSE s.len
    BY <1>3, <1>5 DEF NextLen
  <1>8. NextLen(at) \in Nat
    BY <1>7 DEF Reader
  <1>. HIDE DEF t
  <1>9. /\ DOMAIN t = DOMAIN at /\ t.ended = at.ended /\ t.broken = at.broken
        /\ t.offset = at.offset /\ t.out = at.out \o str[node]
        /\ t.prev = str[node] /\ t.len = NextLen(at)
        /\ t.strings = Taught(at, str[node])
    BY <1>3, <1>6 DEF Emit, Reader
  <1>10. Reader(t)
    <2>1. at.out \o str[node] \in Seq(Nat)
      BY <1>2, <1>3, ConcatProperties DEF Reader
    <2>. QED
      BY <1>2, <1>3, <1>8, <1>9, <2>1 DEF Reader
  <1>11. StringRead(s, t, c, str, node)
    BY <1>3, <1>5, <1>7, <1>9, <1>10 DEF StringRead
  <1>. QED
    BY <1>11 DEF t

\* A clear code starts a new dictionary.
LEMMA ReadClear ==
    ASSUME NEW len \in 3..MaxCodeLen, NEW s, Reader(s)
    PROVE  LET t == ReadOn(s, InitDictLen(len), len)
           IN  /\ Reader(t) /\ t.ended = s.ended /\ t.broken = s.broken
               /\ t.offset = s.offset + s.len
               /\ t.out = s.out /\ t.prev = << >> /\ t.len = len
               /\ t.strings = Colors(InitDictLen(len))
  <1>. DEFINE t == ReadOn(s, InitDictLen(len), len)
  <1>1. len \in Nat /\ << >> \in Seq(Nat)
    BY MaxDictLenNat
  <1>2. t = [[s EXCEPT !.offset = @ + s.len] EXCEPT !.len = len, !.prev = << >>,
                    !.strings = Colors(InitDictLen(len))]
    BY DEF ReadOn, Obey
  <1>. HIDE DEF t
  <1>. QED
    BY <1>1, <1>2 DEF Reader, t

\* The end code ends it.
LEMMA ReadEnd ==
    ASSUME NEW len \in 3..MaxCodeLen, NEW s, Reader(s)
    PROVE  LET t == ReadOn(s, InitDictLen(len) + 1, len)
           IN  /\ Reader(t) /\ t.ended = TRUE /\ t.broken = s.broken
               /\ t.offset = s.offset + s.len
               /\ t.out = s.out
  <1>. DEFINE t == ReadOn(s, InitDictLen(len) + 1, len)
  <1>1. InitDictLen(len) + 1 # InitDictLen(len)
    BY InitDictLenBounds
  <1>2. t = [[s EXCEPT !.offset = @ + s.len] EXCEPT !.ended = TRUE]
    BY <1>1 DEF ReadOn, Obey
  <1>. HIDE DEF t
  <1>3. /\ DOMAIN t = DOMAIN s /\ t.ended = TRUE /\ t.broken = s.broken
        /\ t.offset = s.offset + s.len
        /\ t.out = s.out /\ t.prev = s.prev /\ t.len = s.len
    BY <1>2 DEF Reader
  <1>4. Reader(t)
    BY <1>3 DEF Reader
  <1>. QED
    BY <1>3, <1>4 DEF t

--------------------------------------------------------------------------------
(* The reader in step with the encoder *)

\* rd[i] is the reader after i codes: it knows how long the next one is.
RunOf(rd, codes, len) ==
    /\ rd[0] = Opened(len)
    /\ \A i \in 1..Len(codes) : rd[i] = ReadOn(rd[i - 1], codes[i], len)
    /\ \A i \in 0..Len(codes) :
          /\ Reader(rd[i]) /\ rd[i].ended = FALSE /\ rd[i].broken = FALSE
          /\ rd[i].len = Grown(CountAfter(codes, len)[i], InitDictLen(len)).len

\* s is the reader after all the codes.
RunEnds(codes, len, s) == \E rd : RunOf(rd, codes, len) /\ s = rd[Len(codes)]

LEMMA RunEndIs ==
    ASSUME NEW codes \in Seq(Nat), NEW len, NEW s, RunEnds(codes, len, s)
    PROVE  /\ Reader(s) /\ s.ended = FALSE /\ s.broken = FALSE
           /\ s.len = Grown(LastCount(codes, len), InitDictLen(len)).len
  <1>1. Len(codes) \in 0..Len(codes)
    OBVIOUS
  <1>. QED
    BY <1>1 DEF RunEnds, RunOf, LastCount

LEMMA RunAppend ==
    ASSUME NEW codes \in Seq(Nat), NEW len \in 3..MaxCodeLen, NEW x \in Nat,
           NEW s, RunEnds(codes, len, s),
           NEW t, t = ReadOn(s, x, len),
           Reader(t), t.ended = FALSE, t.broken = FALSE,
           t.len = Grown(CountStep(LastCount(codes, len), x, len), InitDictLen(len)).len
    PROVE  RunEnds(Append(codes, x), len, t)
  <1>0. PICK rd : RunOf(rd, codes, len) /\ s = rd[Len(codes)]
    BY DEF RunEnds
  <1>. DEFINE L == Len(codes)
              more == Append(codes, x)
              r == [i \in 0..(L + 1) |-> IF i = L + 1 THEN t ELSE rd[i]]
  <1>1. /\ more \in Seq(Nat) /\ Len(more) = L + 1 /\ L \in Nat
        /\ more[L + 1] = x /\ \A i \in 1..L : more[i] = codes[i]
    BY AppendProperties
  <1>2. /\ \A i \in 0..L : CountAfter(more, len)[i] = CountAfter(codes, len)[i]
        /\ CountAfter(more, len)[L + 1] = CountStep(LastCount(codes, len), x, len)
    BY <1>1, CountAppend DEF LastCount
  <1>3. r[L + 1] = t /\ \A i \in 0..L : r[i] = rd[i]
    BY <1>1
  <1>. HIDE DEF r, more, L
  <1>4. r[0] = Opened(len)
    BY <1>0, <1>1, <1>3 DEF RunOf
  <1>5. ASSUME NEW i \in 1..(L + 1) PROVE r[i] = ReadOn(r[i - 1], more[i], len)
    <2>1. CASE i = L + 1
      <3>1. i - 1 = L /\ L \in 0..L
        BY <1>1, <2>1
      <3>. QED
        BY <1>0, <1>1, <1>3, <2>1, <3>1 DEF L
    <2>2. CASE i # L + 1
      <3>1. i \in 1..L /\ i \in 0..L /\ i - 1 \in 0..L
        BY <1>1, <2>2
      <3>. QED
        BY <1>0, <1>1, <1>3, <3>1 DEF RunOf, L
    <2>. QED
      BY <2>1, <2>2
  <1>6. ASSUME NEW i \in 0..(L + 1)
        PROVE  /\ Reader(r[i]) /\ r[i].ended = FALSE /\ r[i].broken = FALSE
               /\ r[i].len = Grown(CountAfter(more, len)[i], InitDictLen(len)).len
    <2>1. CASE i = L + 1
      BY <1>2, <1>3, <2>1
    <2>2. CASE i # L + 1
      <3>1. i \in 0..L
        BY <1>1, <2>2
      <3>. QED
        BY <1>0, <1>2, <1>3, <3>1 DEF RunOf, L
    <2>. QED
      BY <2>1, <2>2
  <1>7. RunOf(r, more, len)
    BY <1>1, <1>4, <1>5, <1>6 DEF RunOf
  <1>. QED
    BY <1>1, <1>3, <1>7 DEF L, more, RunEnds

\* The reader lets its codes grow when create_byte_list does.
LEMMA LengthKept ==
    ASSUME NEW codes, NEW len \in 3..MaxCodeLen, CodesInv(codes, len),
           NEW x \in Nat, x # InitDictLen(len), NEW dictPos \in Nat,
           dictPos = InitDictLen(len) + 1 + LastCount(codes, len).dictPos
    PROVE  LET now == Grown(LastCount(codes, len), InitDictLen(len)).len
           IN  Grown(CountStep(LastCount(codes, len), x, len), InitDictLen(len)).len =
                  IF now < MaxCodeLen /\ dictPos = Pow2[now] THEN now + 1 ELSE now
  <1>. DEFINE D == InitDictLen(len)
              s == LastCount(codes, len)
              g == Grown(s, D)
              t == CountStep(s, x, len)
  <1>1. /\ g \in Counts /\ g.dictPos = s.dictPos /\ g.n = Pow2[g.len]
        /\ s.dictPos \in Nat /\ D \in Nat
    <2>1. CountInv(codes, len) /\ codes \in Seq(Nat)
      BY DEF CodesInv
    <2>2. g \in Counts /\ g.dictPos = s.dictPos /\ g.n = Pow2[g.len]
      BY <2>1, NextCount
    <2>3. s \in Counts
      BY <2>1 DEF CountInv
    <2>4. D \in Nat
      BY InitDictLenBounds
    <2>. HIDE DEF g, s, D
    <2>. QED
      BY <2>2, <2>3, <2>4 DEF Counts
  <1>2. t = [g EXCEPT !.dictPos = @ + 1]
    BY DEF CountStep
  <1>. HIDE DEF g, s, D, t
  <1>3. t.len = g.len /\ t.n = g.n /\ t.dictPos = s.dictPos + 1 /\ t \in Counts
        /\ g.n \in Nat /\ g.len \in Nat
    BY <1>1, <1>2 DEF Counts
  <1>4. (t.n - D = t.dictPos) <=> (dictPos = Pow2[g.len])
    BY <1>1, <1>3 DEF s, D
  <1>5. Grown(t, D).len = IF t.len < MaxCodeLen /\ t.n - D = t.dictPos THEN t.len + 1 ELSE t.len
    BY <1>3 DEF Grown, Counts
  <1>. QED
    BY <1>3, <1>4, <1>5 DEF t, g, s, D

LEMMA LengthReset ==
    ASSUME NEW len \in 3..MaxCodeLen, NEW s
    PROVE  /\ Grown(CountStep(s, InitDictLen(len), len), InitDictLen(len)).len = len
           /\ Grown(CountReset(len), InitDictLen(len)).len = len
  <1>. DEFINE D == InitDictLen(len)
  <1>1. D \in Nat /\ D >= 3
    BY InitDictLenBounds
  <1>2. CountReset(len).n = 2 * D /\ CountReset(len).len = len /\ CountReset(len).dictPos = 1
    BY DEF CountReset
  <1>3. 2 * D - D # 1
    BY <1>1
  <1>. HIDE DEF D
  <1>4. Grown(CountReset(len), D) = CountReset(len)
    BY <1>2, <1>3 DEF Grown
  <1>. QED
    BY <1>2, <1>4 DEF CountStep, D

\* t is the reader after a code of the encoder's dictionary.
StringKnown(t, c, str, node, out) ==
    /\ t.out = out
    /\ t.prev = str[node]
    /\ DOMAIN t.strings = Nodes(c)
    /\ \A k \in Nodes(c) : t.strings[k] = str[k]

LEMMA StringSent ==
    ASSUME NEW c, SizesFit(c), TreeFits(c), NEW im \in Seq(Nat), NEW len \in 3..MaxCodeLen,
           c.initDictLen = InitDictLen(len), CodesInv(c.codes, len),
           c.pos \in 1..Len(im), ~BadIndex(c, im),
           c.dictPos = InitDictLen(len) + 1 + LastCount(c.codes, len).dictPos,
           NEW s, RunEnds(c.codes, len, s), s.out = SubSeq(im, 1, c.pos - 1),
           NEW end, end = MatchEnd(c, im), NEW node, node = NodeAt(c, im)[end],
           NEW str, TreeSpells(c, str), Knows(s, c, str, im[c.pos])
    PROVE  \E t : /\ RunEnds(Append(c.codes, node), len, t)
                  /\ StringKnown(t, c, str, node, SubSeq(im, 1, end))
  <1>. DEFINE D == InitDictLen(len)
              codes == c.codes
              p == c.pos
              now == Grown(LastCount(codes, len), D).len
              t == ReadOn(s, node, len)
  <1>1. /\ p \in 1..Len(im) /\ p \in Nat /\ Len(im) \in Nat /\ im[p] \in Nat
        /\ D \in Nat /\ codes \in Seq(Nat) /\ Len(codes) \in Nat
    <2>1. D \in Nat
      BY InitDictLenBounds
    <2>2. codes \in Seq(Nat)
      BY DEF CodesInv
    <2>3. Len(codes) \in Nat
      BY <2>2
    <2>4. p \in 1..Len(im)
      OBVIOUS
    <2>. HIDE DEF p, codes, D
    <2>. QED
      BY <2>1, <2>2, <2>3, <2>4
  <1>2. /\ end \in p..Len(im) /\ node \in Nodes(c)
    BY <1>1, NextMatch
  <1>3. /\ node \in Nat /\ node # D /\ node # -1 /\ c.dictPos \in Nat
    <2>1. node \in Nat /\ c.dictPos \in Nat
      BY <1>2, NodePlaces
    <2>2. node \in (0..(D - 1)) \union ((D + 2)..(c.dictPos - 1))
      BY <1>2 DEF Nodes
    <2>. HIDE DEF D
    <2>. QED
      BY SMTT(40), <1>1, <2>1, <2>2
  <1>4. /\ Reader(s) /\ s.ended = FALSE /\ s.broken = FALSE /\ s.len = now
    BY <1>1, RunEndIs
  <1>5. str[node] = SubSeq(im, p, end)
    <2>1. NodeAt(c, im)[end] # -1
      BY <1>3
    <2>. QED
      BY <1>1, <1>2, <2>1, SpellsMatch
  <1>. HIDE DEF now
  <1>6. Head(str[node]) = im[p]
    <2>1. p \in 1..Len(im) /\ end \in p..Len(im)
      BY <1>1, <1>2
    <2>. QED
      BY <1>1, <1>5, <2>1, HeadTailOfSubSeq
  <1>7. /\ Reader(t) /\ t.ended = FALSE /\ t.broken = FALSE
        /\ t.out = s.out \o str[node]
        /\ t.prev = str[node]
        /\ DOMAIN t.strings = Nodes(c)
        /\ \A k \in Nodes(c) : t.strings[k] = str[k]
        /\ t.len = IF now < MaxCodeLen /\ c.dictPos = Pow2[now] THEN now + 1 ELSE now
    <2>1. Knows(s, c, str, im[p]) /\ c.initDictLen = InitDictLen(len) /\ SizesFit(c) /\ TreeSpells(c, str)
      OBVIOUS
    <2>. HIDE DEF p, D, codes
    <2>3. PICK pixel \in Nat : pixel = im[p]
      BY <1>1
    <2>4. Knows(s, c, str, pixel) /\ Head(str[node]) = pixel /\ Reader(s) /\ node \in Nodes(c)
      BY <1>2, <1>4, <1>6, <2>1, <2>3
    <2>2. StringRead(s, t, c, str, node)
      BY <2>1, <2>4, ReadString
    <2>. HIDE DEF t
    <2>. QED
      BY <1>4, <2>2 DEF StringRead
  <1>8. t.len = Grown(CountStep(LastCount(codes, len), node, len), D).len
    BY <1>1, <1>3, <1>7, LengthKept DEF now
  <1>9. t.out = SubSeq(im, 1, end)
    <2>. HIDE DEF p, t
    <2>1. /\ 1 \in 1..(Len(im) + 1) /\ p - 1 \in (1 - 1)..Len(im)
          /\ end \in (p - 1)..Len(im) /\ p \in Nat
      BY SMTT(40), <1>1, <1>2
    <2>2. SubSeq(im, 1, p - 1) \o SubSeq(im, (p - 1) + 1, end) = SubSeq(im, 1, end)
      BY <1>1, <2>1, ConcatAdjacentSubSeq
    <2>3. (p - 1) + 1 = p
      BY <2>1
    <2>. QED
      BY <1>5, <1>7, <2>2, <2>3 DEF p
  <1>10. RunEnds(Append(codes, node), len, t)
    <2>1. t = ReadOn(s, node, len)
      OBVIOUS
    <2>2. RunEnds(codes, len, s)
      OBVIOUS
    <2>. HIDE DEF t, codes
    <2>. QED
      BY <1>1, <1>3, <1>7, <1>8, <2>1, <2>2, RunAppend
  <1>. HIDE DEF t
  <1>12. StringKnown(t, c, str, node, SubSeq(im, 1, end))
    BY <1>7, <1>9 DEF StringKnown
  <1>. QED
    BY <1>10, <1>12

\* t is the reader s after a clear code.
ClearRead(s, t, dict) ==
    t.out = s.out /\ t.prev = << >> /\ t.strings = Colors(dict)

\* A clear code leaves the reader with the dictionary of the encoder.
LEMMA ClearSent ==
    ASSUME NEW codes \in Seq(Nat), NEW len \in 3..MaxCodeLen, NEW s, RunEnds(codes, len, s)
    PROVE  \E t : /\ RunEnds(Append(codes, InitDictLen(len)), len, t)
                  /\ ClearRead(s, t, InitDictLen(len))
  <1>. DEFINE D == InitDictLen(len)
              t == ReadOn(s, D, len)
  <1>1. D \in Nat
    BY InitDictLenBounds
  <1>2. Reader(s) /\ s.ended = FALSE /\ s.broken = FALSE
    BY RunEndIs
  <1>3. /\ Reader(t) /\ t.ended = FALSE /\ t.broken = FALSE
        /\ t.out = s.out /\ t.prev = << >> /\ t.len = len
        /\ t.strings = Colors(D)
    BY <1>2, ReadClear
  <1>4. t.len = Grown(CountStep(LastCount(codes, len), D, len), D).len
    BY <1>3, LengthReset
  <1>5. RunEnds(Append(codes, D), len, t)
    <2>1. t = ReadOn(s, D, len)
      OBVIOUS
    <2>. HIDE DEF t
    <2>. QED
      BY <1>1, <1>3, <1>4, <2>1, RunAppend
  <1>6. ClearRead(s, t, D)
    BY <1>3 DEF ClearRead
  <1>. QED
    BY <1>5, <1>6, Zenon

\* The reader knows the colours, as the encoder does.
LEMMA KnowsColors ==
    ASSUME NEW c, NEW D \in Nat, c.initDictLen = D, c.dictPos = D + 2,
           NEW s, s.prev = << >>, s.strings = Colors(D), NEW pixel
    PROVE  Knows(s, c, Colors(D), pixel)
  <1>1. Below(D, D + 2) = 0..(D - 1)
    <2>1. (D + 2)..(D + 2 - 1) = {}
      OBVIOUS
    <2>. QED
      BY <2>1 DEF Below
  <1>2. DOMAIN s.strings = 0..(D - 1)
    BY DEF Colors
  <1>. QED
    BY <1>1, <1>2 DEF Knows

\* A reader of the codes has every pixel up to the next, and the encoder's
\* dictionary but for its last entry.
ReaderAt(c, im, len) ==
    /\ TreeOwn(c)
    /\ \E s : /\ RunEnds(c.codes, len, s)
              /\ s.out = SubSeq(im, 1, c.pos - 1)
              /\ c.pos <= Len(im) =>
                    \E str : TreeSpells(c, str) /\ Knows(s, c, str, im[c.pos])

ReaderKeepsUp == result = "encoding" => ReaderAt(ctx, image, codeLen)

LEMMA ReaderStarts ==
    ASSUME NEW im, NEW len \in 3..MaxCodeLen
    PROVE  ReaderAt(Context(InitDictLen(len)), im, len)
  <1>. DEFINE D == InitDictLen(len)
              start == Context(D)
              first == Opened(len)
              rd == [i \in 0..0 |-> first]
  <1>1. len \in 3..MaxCodeLen /\ len \in Nat
    BY MaxDictLenNat
  <1>2. D \in Nat /\ D >= 3 /\ 2 * D <= MaxDictLen /\ D >= 2 /\ D + 2 <= MaxDictLen
    <2>1. D \in Nat /\ D >= 3 /\ 2 * D <= MaxDictLen
      BY <1>1, InitDictLenBounds
    <2>. QED
      BY <2>1, MaxDictLenNat
  <1>. DEFINE c == [initDictLen |-> D, colors |-> 0..(D - 1),
                    pos |-> 1, codes |-> << >>, dictPos |-> 0, mapPos |-> 0,
                    treeInit |-> << >>, treeList |-> << >>, treeMap |-> << >>]
  <1>4. start = ResetDict(c)
    BY Zenon DEF Context
  <1>5. /\ c.initDictLen = D /\ c.colors = 0..(D - 1) /\ c.pos = 1 /\ c.codes = << >>
        /\ DOMAIN c = {"initDictLen", "colors", "pos", "codes", "dictPos", "mapPos",
                       "treeInit", "treeList", "treeMap"}
    OBVIOUS
  <1>. HIDE DEF c, start
  <1>6. /\ start.initDictLen = D /\ start.dictPos = D + 2
        /\ start.pos = 1 /\ start.codes = Append(<< >>, D)
    BY <1>2, <1>4, <1>5, ResetInv
  <1>7. TreeOwn(start) /\ TreeSpells(start, Colors(D))
    BY <1>2, <1>4, <1>5, SpellsReset
  <1>8. /\ first.out = << >> /\ first.len = len /\ first.ended = FALSE /\ first.broken = FALSE
        /\ Reader(first)
    <2>1. /\ DOMAIN first = {"offset", "len", "prev", "strings", "out", "ended", "broken"}
          /\ first.offset = 0 /\ first.prev = << >>
          /\ first.out = << >> /\ first.len = len /\ first.ended = FALSE /\ first.broken = FALSE
      BY DEF Opened
    <2>2. << >> \in Seq(Nat)
      OBVIOUS
    <2>. HIDE DEF first
    <2>. QED
      BY <1>1, <2>1, <2>2 DEF Reader
  <1>9. << >> \in Seq(Nat) /\ Len(<< >>) = 0
    OBVIOUS
  <1>10. RunEnds(<< >>, len, first)
    <2>1. CountAfter(<< >>, len)[0] = CountReset(len)
      <3>1. IsCount(CountAfter(<< >>, len), << >>, len)
        BY <1>1, <1>9, CountAfterDef
      <3>. QED
        BY <1>9, <3>1 DEF IsCount
    <2>2. Grown(CountAfter(<< >>, len)[0], D).len = len
      BY <1>1, <2>1, LengthReset
    <2>3. rd[0] = first
      OBVIOUS
    <2>. HIDE DEF first, rd, D
    <2>4. \A i \in 0..0 : i = 0
      OBVIOUS
    <2>5. RunOf(rd, << >>, len)
      BY <1>8, <1>9, <2>2, <2>3, <2>4 DEF RunOf, first, D
    <2>. QED
      BY <1>9, <2>3, <2>5 DEF RunEnds
  <1>11. \E t : RunEnds(Append(<< >>, D), len, t) /\ ClearRead(first, t, D)
    <2>. HIDE DEF first
    <2>. QED
      BY <1>1, <1>9, <1>10, ClearSent
  <1>12. PICK t : RunEnds(start.codes, len, t) /\ ClearRead(first, t, D)
    BY <1>6, <1>11
  <1>13. t.out = << >> /\ Knows(t, start, Colors(D), im[start.pos])
    BY <1>2, <1>6, <1>8, <1>12, KnowsColors DEF ClearRead
  <1>15. SubSeq(im, 1, start.pos - 1) = << >>
    BY <1>6, SubSeqEmpty
  <1>. QED
    BY <1>7, <1>12, <1>13, <1>15, Zenon DEF ReaderAt, start, D

LEMMA ReaderKeeps ==
    ASSUME NEW c, NEW im, NEW len, EncoderAt(c, im, len), ReaderAt(c, im, len),
           c.pos <= Len(im), ~BadIndex(c, im), NEW d, d = CrawlTree(c, im)
    PROVE  ReaderAt(d, im, len)
  <1>. DEFINE D == InitDictLen(len)
              L == Len(im)
              codes == c.codes
              end == MatchEnd(c, im)
              node == NodeAt(c, im)[end]
              color == im[end + 1]
              sent == Sent(c, Append(codes, node), end + 1)
  <1>1. /\ im \in Seq(Nat) /\ len \in 3..MaxCodeLen
        /\ DictInv(c) /\ c.initDictLen = D /\ CodesInv(codes, len)
        /\ c.pos \in 1..L /\ ~BadIndex(c, im)
        /\ d = CrawlTree(c, im)
    BY DEF EncoderAt
  <1>2. /\ D \in Nat /\ D >= 3 /\ 2 * D <= MaxDictLen /\ D >= 2 /\ D + 2 <= MaxDictLen
        /\ MaxDictLen \in Nat /\ L \in Nat /\ c.pos \in Nat /\ c.pos <= L
    BY <1>1, InitDictLenBounds, MaxDictLenNat
  <1>3. SizesFit(c) /\ TreeFits(c) /\ TreeOwn(c)
    BY <1>1 DEF DictInv, ReaderAt
  <1>4. /\ end \in c.pos..L
        /\ node \in Nodes(c)
        /\ end < L => color \in c.colors
    BY <1>1, <1>3, NextMatch
  <1>5. codes \in Seq(Nat) /\ node \in Nat /\ c.dictPos \in Nat /\ Len(codes) \in Nat
    <2>1. codes \in Seq(Nat)
      BY <1>1 DEF CodesInv
    <2>. HIDE DEF codes, node
    <2>. QED
      BY <1>3, <1>4, <2>1, NodePlaces
  <1>6. c.dictPos = D + 1 + LastCount(codes, len).dictPos
    BY <1>1, <1>2 DEF EncoderAt, InStepWithCount
  <1>7. PICK s : /\ RunEnds(codes, len, s)
                 /\ s.out = SubSeq(im, 1, c.pos - 1)
                 /\ \E str : TreeSpells(c, str) /\ Knows(s, c, str, im[c.pos])
    <2>1. c.pos <= Len(im)
      BY <1>2
    <2>2. ReaderAt(c, im, len)
      OBVIOUS
    <2>. HIDE DEF D, L, end, node, color, sent
    <2>. QED
      BY <2>1, <2>2, Zenon DEF ReaderAt
  <1>8. PICK str : TreeSpells(c, str) /\ Knows(s, c, str, im[c.pos])
    BY <1>7
  <1>9. \E t : /\ RunEnds(Append(codes, node), len, t)
               /\ StringKnown(t, c, str, node, SubSeq(im, 1, end))
    BY <1>1, <1>3, <1>6, <1>7, <1>8, StringSent
  <1>10. PICK t : /\ RunEnds(Append(codes, node), len, t)
                  /\ StringKnown(t, c, str, node, SubSeq(im, 1, end))
    BY <1>9
  <1>11. d = IF end = L THEN sent
                ELSE IF DictFull(c) THEN ResetDict(sent)
                ELSE AddChild(sent, node, color)
    BY <1>1, Zenon DEF CrawlTree, Sent
  <1>12. /\ SizesFit(sent) /\ TreeFits(sent) /\ TreeOwn(sent) /\ TreeSpells(sent, str)
         /\ sent.codes = Append(codes, node) /\ sent.pos = end + 1
         /\ sent.initDictLen = D /\ sent.dictPos = c.dictPos
         /\ sent.colors = c.colors /\ Nodes(sent) = Nodes(c)
         /\ DOMAIN sent = DOMAIN c
    <2>1. PICK x, p : x = Append(codes, node) /\ p = end + 1
      OBVIOUS
    <2>2. sent = Sent(c, x, p)
      BY <2>1
    <2>. HIDE DEF sent, codes, node, end, D
    <2>3. /\ DictInv(sent) /\ sent.codes = x /\ sent.pos = p
          /\ sent.initDictLen = c.initDictLen
      BY <1>1, <2>2, SentInv
    <2>4. /\ sent.dictPos = c.dictPos
          /\ sent.colors = c.colors /\ Nodes(sent) = Nodes(c)
          /\ DOMAIN sent = DOMAIN c
      BY <1>1, <2>2, SentInv
    <2>5. TreeOwn(sent) /\ TreeSpells(sent, str)
      BY <1>3, <1>8, <2>2, SentTree
    <2>. QED
      BY <1>1, <2>1, <2>3, <2>4, <2>5 DEF DictInv
  <1>13. Append(codes, node) \in Seq(Nat)
    BY <1>5, AppendProperties
  <1>14. end \in Nat /\ c.pos <= end /\ end <= L /\ (end + 1) - 1 = end
    BY <1>2, <1>4
  <1>. HIDE DEF D, end, node, sent, codes, color
  <1>15. CASE end = L
    <2>1. d = sent
      BY <1>11, <1>15
    <2>2. ~(d.pos <= L)
      BY <1>2, <1>12, <1>14, <1>15, <2>1
    <2>3. d.codes = Append(codes, node) /\ d.pos - 1 = end /\ TreeOwn(d)
      BY <1>12, <1>14, <2>1
    <2>. QED
      BY <1>1, <1>10, <2>2, <2>3 DEF ReaderAt, StringKnown
  <1>16. CASE end # L /\ DictFull(c)
    <2>1. d = ResetDict(sent)
      BY <1>11, <1>16
    <2>2. /\ c.colors = 0..(D - 1)
          /\ DOMAIN c = {"initDictLen", "colors", "pos", "codes", "dictPos", "mapPos",
                           "treeInit", "treeList", "treeMap"}
      BY <1>1, <1>3 DEF SizesFit
    <2>3. /\ d.initDictLen = D /\ d.dictPos = D + 2
          /\ d.pos = end + 1 /\ d.codes = Append(sent.codes, D)
      BY SMTT(60), <1>2, <1>12, <2>1, <2>2, ResetInv
    <2>4. TreeOwn(d) /\ TreeSpells(d, Colors(D))
      BY <1>2, <1>12, <2>1, <2>2, SpellsReset
    <2>5. \E u : /\ RunEnds(Append(Append(codes, node), D), len, u)
                 /\ ClearRead(t, u, D)
      BY <1>1, <1>10, <1>13, ClearSent DEF D
    <2>6. PICK u : RunEnds(d.codes, len, u) /\ ClearRead(t, u, D)
      BY <1>12, <2>3, <2>5
    <2>7. Knows(u, d, Colors(D), im[d.pos])
      BY <1>2, <2>3, <2>6, KnowsColors DEF ClearRead
    <2>8. u.out = SubSeq(im, 1, d.pos - 1)
      BY <1>10, <1>14, <2>3, <2>6 DEF ClearRead, StringKnown
    <2>. QED
      BY <1>1, <2>4, <2>6, <2>7, <2>8 DEF ReaderAt
  <1>17. CASE end # L /\ ~DictFull(c)
    <2>. DEFINE ext == Extended(str, sent, node, color)
    <2>1. d = AddChild(sent, node, color)
      BY <1>11, <1>17
    <2>2. /\ color \in sent.colors /\ node \in Nodes(sent)
          /\ sent.dictPos < MaxDictLen
      BY SMTT(60), <1>2, <1>4, <1>5, <1>12, <1>14, <1>17 DEF DictFull
    <2>3. /\ d.initDictLen = D /\ d.pos = end + 1
          /\ d.codes = Append(codes, node) /\ d.dictPos = c.dictPos + 1
      BY <1>12, <2>1, AddChildKeeps
    <2>4. TreeOwn(d)
      BY <1>12, <2>1, <2>2, AddOwn
    <2>5. TreeSpells(d, ext)
      BY <1>12, <2>1, <2>2, SpellsAdd
    <2>6. Nodes(c) = Below(D, c.dictPos) /\ c.dictPos \notin Nodes(c)
          /\ c.dictPos >= D + 2
      BY <1>1, <1>2, <1>3, <1>5 DEF Nodes, Below, SizesFit
    <2>7. /\ \A k \in Nodes(c) : ext[k] = str[k]
          /\ ext[c.dictPos] = Append(str[node], color)
      BY <1>12, <2>6 DEF Extended
    <2>8. str[node] # << >>
      BY <1>4, <1>8 DEF TreeSpells
    <2>9. Knows(t, d, ext, color)
      <3>1. t.prev = str[node] /\ DOMAIN t.strings = Nodes(c)
            /\ \A k \in Nodes(c) : t.strings[k] = str[k]
        BY <1>10 DEF StringKnown
      <3>2. d.dictPos - 1 = c.dictPos /\ d.dictPos > D + 2
        BY <1>2, <1>5, <2>3, <2>6
      <3>. HIDE DEF ext
      <3>. QED
        BY <2>3, <2>6, <2>7, <2>8, <3>1, <3>2 DEF Knows
    <2>10. t.out = SubSeq(im, 1, d.pos - 1)
      BY <1>10, <1>14, <2>3 DEF StringKnown
    <2>11. im[d.pos] = color
      BY <2>3 DEF color
    <2>. HIDE DEF ext
    <2>. QED
      BY <1>1, <1>10, <2>3, <2>4, <2>5, <2>9, <2>10, <2>11 DEF ReaderAt
  <1>. QED
    BY <1>15, <1>16, <1>17

LEMMA KeepsUpInit == EncoderInit => ReaderKeepsUp
  BY InitCodeLenBounds, ReaderStarts DEF EncoderInit, ReaderKeepsUp

LEMMA KeepsUpStep ==
    ASSUME EncoderInv, ReaderKeepsUp, [EncoderNext]_encoderVars
    PROVE  ReaderKeepsUp'
  <1>1. CASE Crawl
    <2>1. /\ EncoderAt(ctx, image, codeLen) /\ ReaderAt(ctx, image, codeLen)
          /\ ctx.pos <= Len(image) /\ ~BadIndex(ctx, image)
      BY <1>1 DEF EncoderInv, ReaderKeepsUp, Crawl
    <2>2. ctx' = CrawlTree(ctx, image) /\ UNCHANGED <<image, codeLen>>
      BY <1>1 DEF Crawl
    <2>3. ReaderAt(ctx', image, codeLen)
      BY <2>1, <2>2, ReaderKeeps
    <2>. QED
      BY <2>2, <2>3 DEF ReaderKeepsUp
  <1>2. CASE CrawlFails \/ Pack
    <2>1. result' # "encoding"
      BY <1>2 DEF CrawlFails, Pack
    <2>. QED
      BY <2>1 DEF ReaderKeepsUp
  <1>3. CASE UNCHANGED encoderVars
    BY <1>3 DEF encoderVars, ReaderKeepsUp
  <1>. QED
    BY <1>1, <1>2, <1>3 DEF EncoderNext

--------------------------------------------------------------------------------
(* The bits of a number *)

LEMMA Quotient ==
    ASSUME NEW a \in Nat, NEW m \in Nat, m > 0
    PROVE  /\ a \div m \in Nat
           /\ (a \div m) * m <= a
           /\ a < (a \div m) * m + m
  OBVIOUS

LEMMA QuotientIs ==
    ASSUME NEW a \in Nat, NEW m \in Nat, m > 0, NEW q \in Nat, q * m <= a, a < q * m + m
    PROVE  a \div m = q
  <1>. DEFINE d == a \div m
  <1>1. d \in Nat /\ d * m <= a /\ a < d * m + m
    BY Quotient
  <1>. HIDE DEF d
  <1>2. ASSUME NEW x \in Nat, NEW y \in Nat, x < y, y * m <= a, a < x * m + m PROVE FALSE
    <2>1. PICK k \in Nat : y = x + 1 + k
      <3>1. y - x - 1 \in Nat /\ y = x + 1 + (y - x - 1)
        BY <1>2
      <3>. QED
        BY <3>1
    <2>2. y * m = x * m + m + k * m
      BY <2>1
    <2>3. k * m \in Nat /\ x * m \in Nat /\ y * m \in Nat
      OBVIOUS
    <2>. QED
      BY <1>2, <2>2, <2>3
  <1>3. ~(d < q) /\ ~(q < d)
    BY <1>1, <1>2
  <1>. QED
    BY <1>1, <1>3 DEF d

Bit(c, k) == (c \div Pow2[k]) % 2

\* What is left of a number without its low bits.
LEMMA HighBits ==
    ASSUME NEW c \in Nat, NEW k \in Nat
    PROVE  /\ c \div Pow2[k] \in Nat
           /\ Bit(c, k) \in {0, 1}
           /\ c \div Pow2[k] = 2 * (c \div Pow2[k + 1]) + Bit(c, k)
  <1>. DEFINE m == Pow2[k]
              q == c \div m
              b == q % 2
              h == q \div 2
  <1>1. m \in Nat /\ m > 0 /\ Pow2[k + 1] = 2 * m
    BY Pow2Grows, Pow2Step
  <1>2. q \in Nat /\ q * m <= c /\ c < q * m + m
    BY <1>1, Quotient
  <1>. HIDE DEF m, q
  <1>3. h \in Nat /\ b \in {0, 1} /\ q = 2 * h + b
    BY <1>2
  <1>. HIDE DEF h, b
  <1>4. q * m = h * (2 * m) + b * m
    BY <1>1, <1>2, <1>3
  <1>5. b * m = 0 \/ b * m = m
    BY <1>1, <1>3
  <1>6. h * (2 * m) \in Nat /\ 2 * m \in Nat /\ 2 * m > 0
    BY <1>1, <1>3
  <1>7. h * (2 * m) <= c /\ c < h * (2 * m) + 2 * m
    <2>. HIDE DEF h
    <2>1. PICK hm \in Nat : hm = h * (2 * m)
      BY <1>6
    <2>2. PICK qm \in Nat : qm = q * m
      BY <1>1, <1>2
    <2>3. qm = hm \/ qm = hm + m
      BY <1>4, <1>5, <2>1, <2>2
    <2>4. hm <= c /\ c < hm + 2 * m
      BY <1>1, <1>2, <2>1, <2>2, <2>3
    <2>. QED
      BY <2>1, <2>4
  <1>8. c \div (2 * m) = h
    BY <1>3, <1>6, <1>7, QuotientIs
  <1>. QED
    BY <1>1, <1>2, <1>3, <1>8 DEF Bit, m, q, b

LEMMA NoHighBits ==
    ASSUME NEW c \in Nat, NEW len \in Nat, c < Pow2[len], NEW k \in Nat, len <= k
    PROVE  c \div Pow2[k] = 0 /\ Bit(c, k) = 0
  <1>1. Pow2[k] \in Nat /\ Pow2[len] \in Nat /\ Pow2[len] <= Pow2[k]
    BY Pow2Grows, Pow2Monotone
  <1>2. c < Pow2[k] /\ Pow2[k] > 0
    BY <1>1
  <1>. DEFINE m == Pow2[k]
  <1>3. m \in Nat /\ m > 0 /\ c < m
    BY <1>1, <1>2
  <1>. HIDE DEF m
  <1>4. c \div m = 0
    BY <1>3, 0 * m = 0, QuotientIs
  <1>. QED
    BY <1>4 DEF Bit, m

\* The low bits of a number, added up.
Low(c, k) == c - (c \div Pow2[k]) * Pow2[k]

LEMMA LowBits ==
    ASSUME NEW c \in Nat
    PROVE  /\ Low(c, 0) = 0
           /\ \A k \in Nat : Low(c, k + 1) = Low(c, k) + (IF Bit(c, k) = 1 THEN Pow2[k] ELSE 0)
           /\ \A len \in Nat : c < Pow2[len] => Low(c, len) = c
  <1>1. Low(c, 0) = 0
    <2>1. Pow2[0] = 1 /\ c \div 1 = c
      BY Pow2Step
    <2>. QED
      BY <2>1 DEF Low
  <1>2. ASSUME NEW k \in Nat
        PROVE  Low(c, k + 1) = Low(c, k) + (IF Bit(c, k) = 1 THEN Pow2[k] ELSE 0)
    <2>. DEFINE m == Pow2[k]
                q == c \div m
                h == c \div Pow2[k + 1]
                b == Bit(c, k)
    <2>1. m \in Nat /\ Pow2[k + 1] = 2 * m
      BY Pow2Grows, Pow2Step
    <2>2. q \in Nat /\ h \in Nat /\ b \in {0, 1} /\ q = 2 * h + b
      <3>1. k + 1 \in Nat
        OBVIOUS
      <3>2. c \div Pow2[k + 1] \in Nat
        BY <3>1, HighBits
      <3>3. c \div Pow2[k] \in Nat /\ Bit(c, k) \in {0, 1}
            /\ c \div Pow2[k] = 2 * (c \div Pow2[k + 1]) + Bit(c, k)
        BY HighBits
      <3>. QED
        BY <3>2, <3>3
    <2>3. Low(c, k) = c - q * m /\ Low(c, k + 1) = c - h * (2 * m)
      BY <2>1 DEF Low
    <2>. HIDE DEF m, q, h, b
    <2>4. q * m = h * (2 * m) + b * m
      BY <2>1, <2>2
    <2>5. h * (2 * m) \in Nat /\ q * m \in Nat
      BY <2>1, <2>2
    <2>6. b * m = IF b = 1 THEN m ELSE 0
      BY <2>1, <2>2
    <2>7. Low(c, k + 1) = Low(c, k) + (IF b = 1 THEN m ELSE 0)
      <3>1. PICK hm \in Nat, qm \in Nat : hm = h * (2 * m) /\ qm = q * m
        BY <2>5
      <3>2. qm = hm + (IF b = 1 THEN m ELSE 0)
        BY <2>4, <2>6, <3>1
      <3>. QED
        BY <2>1, <2>3, <3>1, <3>2
    <2>. QED
      BY <2>7 DEF m, b
  <1>3. ASSUME NEW len \in Nat, c < Pow2[len] PROVE Low(c, len) = c
    <2>1. c \div Pow2[len] = 0 /\ Pow2[len] \in Nat
      BY <1>3, NoHighBits, Pow2Grows
    <2>. QED
      BY <2>1 DEF Low
  <1>. QED
    BY <1>1, <1>2, <1>3

--------------------------------------------------------------------------------
(* Codes to bytes and back *)

\* f gives the place of the first bit of every code, and the end.
IsStart(f, codes, lens) ==
    f = [i \in 1..(Len(codes) + 1) |-> IF i = 1 THEN 0 ELSE f[i - 1] + lens[i - 1]]

\* The places of the 1 bits.
OnesOf(f, codes) ==
    UNION {{f[i] + k : k \in {k \in 0..MaxCodeLen : (codes[i] \div Pow2[k]) % 2 = 1}} :
              i \in DOMAIN codes}

BytesOf(f, codes) ==
    [b \in 1..((f[Len(codes) + 1] + 7) \div 8) |->
        {k \in 0..7 : 8 * (b - 1) + k \in OnesOf(f, codes)}]

Starts(codes, lens) == CHOOSE f : IsStart(f, codes, lens)

LEMMA ByteListIs ==
    ASSUME NEW codes, NEW len
    PROVE  ByteList(codes, len) = BytesOf(Starts(codes, CodeLengths(codes, len)), codes)
  BY Zenon DEF ByteList, BytesOf, Starts, IsStart, OnesOf

LEMMA StartOnce ==
    ASSUME NEW codes \in Seq(Nat), NEW lens, NEW f, IsStart(f, codes, lens)
    PROVE  Starts(codes, lens) = f
  <1>. DEFINE g == Starts(codes, lens)
              L == Len(codes)
              P == {k \in Nat : k + 1 <= L + 1 => g[k + 1] = f[k + 1]}
  <1>1. IsStart(g, codes, lens)
    BY DEF Starts
  <1>2. L \in Nat
    OBVIOUS
  <1>. HIDE DEF g, L
  <1>9. /\ f[1] = 0 /\ \A i \in 2..(L + 1) : f[i] = f[i - 1] + lens[i - 1]
        /\ g[1] = 0 /\ \A i \in 2..(L + 1) : g[i] = g[i - 1] + lens[i - 1]
    <2>1. f[1] = 0 /\ \A i \in 2..(L + 1) : f[i] = f[i - 1] + lens[i - 1]
      BY SMTT(40), <1>2 DEF IsStart, L
    <2>2. g[1] = 0 /\ \A i \in 2..(L + 1) : g[i] = g[i - 1] + lens[i - 1]
      BY SMTT(40), <1>1, <1>2 DEF IsStart, L
    <2>. QED
      BY <2>1, <2>2
  <1>3. 0 \in P
    BY <1>9
  <1>4. ASSUME NEW k \in Nat, k \in P PROVE k + 1 \in P
    <2>. SUFFICES ASSUME (k + 1) + 1 <= L + 1 PROVE g[(k + 1) + 1] = f[(k + 1) + 1]
      OBVIOUS
    <2>1. g[k + 1] = f[k + 1] /\ (k + 1) + 1 \in 2..(L + 1)
          /\ ((k + 1) + 1) - 1 = k + 1
      BY <1>2, <1>4
    <2>. QED
      BY <1>9, <2>1
  <1>5. Nat \subseteq P
    <2>. HIDE DEF P
    <2>. QED
      BY <1>3, <1>4, AllNat
  <1>6. ASSUME NEW i \in 1..(L + 1) PROVE g[i] = f[i]
    <2>1. i - 1 \in Nat /\ (i - 1) + 1 = i /\ i <= L + 1
      BY <1>2
    <2>. QED
      BY <1>5, <2>1
  <1>7. /\ f = [i \in 1..(L + 1) |-> f[i]]
        /\ g = [i \in 1..(L + 1) |-> g[i]]
    BY <1>1, Zenon DEF IsStart, L
  <1>8. g = f
    BY <1>6, <1>7
  <1>. QED
    BY <1>8 DEF g

LEMMA StartGrows ==
    ASSUME NEW codes \in Seq(Nat), NEW lens \in [1..Len(codes) -> Nat],
           NEW f, IsStart(f, codes, lens)
    PROVE  /\ f[1] = 0
           /\ \A i \in 1..(Len(codes) + 1) : f[i] \in Nat
           /\ \A i \in 1..Len(codes) : f[i + 1] = f[i] + lens[i]
           /\ \A i, j \in 1..(Len(codes) + 1) : i <= j => f[i] <= f[j]
  <1>. DEFINE L == Len(codes)
              P == {k \in Nat : k + 1 <= L + 1 => f[k + 1] \in Nat}
  <1>1. L \in Nat
    OBVIOUS
  <1>2. f[1] = 0 /\ \A i \in 2..(L + 1) : f[i] = f[i - 1] + lens[i - 1]
    BY <1>1 DEF IsStart
  <1>3. \A i \in 1..L : lens[i] \in Nat
    OBVIOUS
  <1>. HIDE DEF L
  <1>4. \A i \in 1..L : f[i + 1] = f[i] + lens[i]
    <2>. SUFFICES ASSUME NEW i \in 1..L PROVE f[i + 1] = f[i] + lens[i]
      OBVIOUS
    <2>1. i + 1 \in 2..(L + 1) /\ (i + 1) - 1 = i
      BY <1>1
    <2>. QED
      BY <1>2, <2>1
  <1>5. 0 \in P
    BY <1>1, <1>2
  <1>6. ASSUME NEW k \in Nat, k \in P PROVE k + 1 \in P
    <2>. SUFFICES ASSUME (k + 1) + 1 <= L + 1 PROVE f[(k + 1) + 1] \in Nat
      OBVIOUS
    <2>1. f[k + 1] \in Nat /\ k + 1 \in 1..L
      BY <1>1, <1>6
    <2>. QED
      BY <1>3, <1>4, <2>1
  <1>7. Nat \subseteq P
    <2>. HIDE DEF P
    <2>. QED
      BY <1>5, <1>6, AllNat
  <1>8. ASSUME NEW i \in 1..(L + 1) PROVE f[i] \in Nat
    <2>1. i - 1 \in Nat /\ (i - 1) + 1 = i /\ i <= L + 1
      BY <1>1
    <2>. QED
      BY <1>7, <2>1
  <1>9. ASSUME NEW i \in 1..(L + 1), NEW j \in 1..(L + 1), i <= j PROVE f[i] <= f[j]
    <2>. DEFINE Q == {k \in Nat : i + k <= L + 1 => f[i] <= f[i + k]}
    <2>1. 0 \in Q
      BY <1>1, <1>8
    <2>2. ASSUME NEW k \in Nat, k \in Q PROVE k + 1 \in Q
      <3>. SUFFICES ASSUME i + (k + 1) <= L + 1 PROVE f[i] <= f[i + (k + 1)]
        OBVIOUS
      <3>1. i + k \in 1..L /\ i + (k + 1) = (i + k) + 1 /\ i + k \in 1..(L + 1)
        BY <1>1
      <3>2. f[i] <= f[i + k] /\ f[i + k] \in Nat /\ f[i] \in Nat /\ lens[i + k] \in Nat
        BY <1>1, <1>3, <1>8, <2>2, <3>1
      <3>3. f[i + (k + 1)] = f[i + k] + lens[i + k]
        BY <1>4, <3>1
      <3>. QED
        BY <3>2, <3>3
    <2>3. Nat \subseteq Q
      <3>. HIDE DEF Q
      <3>. QED
        BY <2>1, <2>2, AllNat
    <2>4. j - i \in Nat /\ i + (j - i) = j
      BY <1>1, <1>9
    <2>. QED
      BY <1>1, <2>3, <2>4
  <1>. QED
    BY <1>2, <1>4, <1>8, <1>9 DEF L

\* The bits of different codes have different places.
LEMMA BitPlaces ==
    ASSUME NEW codes \in Seq(Nat), NEW lens \in [1..Len(codes) -> 0..MaxCodeLen],
           \A i \in 1..Len(codes) : codes[i] < Pow2[lens[i]],
           NEW f, IsStart(f, codes, lens),
           NEW i \in 1..Len(codes), NEW k \in Nat, k < lens[i]
    PROVE  f[i] + k \in OnesOf(f, codes) <=> Bit(codes[i], k) = 1
  <1>. DEFINE L == Len(codes)
              OnesAt(j) == {x \in 0..MaxCodeLen : (codes[j] \div Pow2[x]) % 2 = 1}
  <1>1. L \in Nat /\ MaxCodeLen \in Nat /\ \A j \in 1..L : codes[j] \in Nat /\ lens[j] \in Nat
    BY MaxDictLenNat
  <1>2. lens \in [1..L -> Nat]
    BY <1>1
  <1>3. /\ \A j \in 1..(L + 1) : f[j] \in Nat
        /\ \A j \in 1..L : f[j + 1] = f[j] + lens[j]
        /\ \A j, m \in 1..(L + 1) : j <= m => f[j] <= f[m]
    BY <1>2, StartGrows
  <1>4. /\ OnesOf(f, codes) = UNION {{f[j] + x : x \in OnesAt(j)} : j \in DOMAIN codes}
        /\ DOMAIN codes = 1..L
    BY DEF OnesOf
  <1>5. ASSUME Bit(codes[i], k) = 1 PROVE f[i] + k \in OnesOf(f, codes)
    <2>1. k \in 0..MaxCodeLen
      BY <1>1
    <2>2. k \in OnesAt(i)
      BY <1>5, <2>1 DEF Bit
    <2>. HIDE DEF OnesAt
    <2>3. f[i] + k \in {f[i] + x : x \in OnesAt(i)}
      BY <2>2
    <2>. HIDE DEF OnesAt
    <2>4. {f[i] + x : x \in OnesAt(i)} \in {{f[j] + x : x \in OnesAt(j)} : j \in DOMAIN codes}
      BY <1>4
    <2>. QED
      BY <1>4, <2>3, <2>4, Zenon
  <1>6. ASSUME f[i] + k \in OnesOf(f, codes) PROVE Bit(codes[i], k) = 1
    <2>0. PICK j \in 1..L : f[i] + k \in {f[j] + x : x \in OnesAt(j)}
      <3>. HIDE DEF OnesAt
      <3>. QED
        BY <1>4, <1>6
    <2>1. PICK x \in OnesAt(j) : f[i] + k = f[j] + x
      <3>. HIDE DEF OnesAt
      <3>. QED
        BY <2>0
    <2>2. x \in Nat /\ Bit(codes[j], x) = 1
      BY <1>1 DEF Bit
    <2>. HIDE DEF OnesAt
    <2>3. x < lens[j]
      <3>1. CASE lens[j] <= x
        BY SMTT(40), <1>1, <2>2, <3>1, NoHighBits
      <3>. QED
        BY <1>1, <2>2, <3>1
    <2>4. /\ f[i + 1] = f[i] + lens[i] /\ f[j + 1] = f[j] + lens[j]
          /\ i + 1 \in 1..(L + 1) /\ j + 1 \in 1..(L + 1)
          /\ i \in 1..(L + 1) /\ j \in 1..(L + 1)
      BY <1>1, <1>3
    <2>5. i = j
      <3>1. ~(i < j)
        <4>. SUFFICES ASSUME i < j PROVE FALSE
          OBVIOUS
        <4>1. i + 1 <= j
          OBVIOUS
        <4>2. f[i + 1] <= f[j]
          BY <1>3, <2>4, <4>1
        <4>3. f[i] \in Nat /\ f[j] \in Nat /\ lens[i] \in Nat
          BY <1>1, <1>3, <2>4
        <4>4. f[i] + lens[i] <= f[j] /\ f[i] + k = f[j] + x /\ x \in Nat
          BY <2>1, <2>2, <2>4, <4>2
        <4>. HIDE DEF L
        <4>. QED
          BY SMTT(40), <4>3, <4>4
      <3>2. ~(j < i)
        <4>. SUFFICES ASSUME j < i PROVE FALSE
          OBVIOUS
        <4>1. j + 1 <= i
          OBVIOUS
        <4>2. f[j + 1] <= f[i]
          BY <1>3, <2>4, <4>1
        <4>3. f[i] \in Nat /\ f[j] \in Nat /\ lens[j] \in Nat
          BY <1>1, <1>3, <2>4
        <4>4. f[j] + lens[j] <= f[i] /\ f[i] + k = f[j] + x /\ x \in Nat
          BY <2>1, <2>2, <2>4, <4>2
        <4>. HIDE DEF L
        <4>. QED
          BY SMTT(40), <2>3, <4>3, <4>4
      <3>. QED
        BY <3>1, <3>2
    <2>6. x = k
      <3>1. f[i] \in Nat
        BY <1>3, <2>4
      <3>. QED
        BY <2>1, <2>2, <2>5, <3>1
    <2>. QED
      BY <2>2, <2>5, <2>6
  <1>. QED
    BY <1>5, <1>6

\* A bit of the bytes.
LEMMA ByteBit ==
    ASSUME NEW codes, NEW f, f[Len(codes) + 1] \in Nat, NEW n \in Nat, n < f[Len(codes) + 1]
    PROVE  n % 8 \in BytesOf(f, codes)[n \div 8 + 1] <=> n \in OnesOf(f, codes)
  <1>. DEFINE b == n \div 8 + 1
              total == f[Len(codes) + 1]
  <1>1. b \in 1..((total + 7) \div 8)
    OBVIOUS
  <1>2. n % 8 \in 0..7 /\ b \in Nat /\ 8 * (b - 1) + (n % 8) = n
    <2>1. n % 8 \in 0..7 /\ n \div 8 \in Nat
      OBVIOUS
    <2>3. n = 8 * (n \div 8) + (n % 8)
      OBVIOUS
    <2>2. b - 1 = n \div 8 /\ b \in Nat
      BY <2>1
    <2>. HIDE DEF b
    <2>. QED
      BY <2>1, <2>2, <2>3
  <1>. HIDE DEF b
  <1>3. BytesOf(f, codes)[b] = {k \in 0..7 : 8 * (b - 1) + k \in OnesOf(f, codes)}
    BY <1>1 DEF BytesOf
  <1>4. n % 8 \in BytesOf(f, codes)[b] <=> n \in OnesOf(f, codes)
    <2>1. PICK r \in 0..7 : r = n % 8
      BY <1>2
    <2>2. r \in BytesOf(f, codes)[b] <=> 8 * (b - 1) + r \in OnesOf(f, codes)
      BY <1>3
    <2>3. 8 * (b - 1) + r = n
      BY <1>2, <2>1
    <2>. QED
      BY <2>1, <2>2, <2>3
  <1>. QED
    BY <1>4 DEF b

\* v gives the number that the first bits of a code stand for.
IsValue(v, s, bytes) ==
    v = [k \in 0..s.len |->
            IF k = 0 THEN 0
            ELSE v[k - 1] + (IF (s.offset + (k - 1)) % 8 \in bytes[(s.offset + (k - 1)) \div 8 + 1]
                             THEN Pow2[k - 1] ELSE 0)]

LEMMA CodeAtIs ==
    ASSUME NEW s, NEW bytes
    PROVE  CodeAt(s, bytes) = (CHOOSE v : IsValue(v, s, bytes))[s.len]
  BY Zenon DEF CodeAt, IsValue

LEMMA CodeRead ==
    ASSUME NEW s, s.offset \in Nat, s.len \in Nat, NEW bytes, NEW c \in Nat, c < Pow2[s.len],
           \A k \in Nat : k < s.len =>
              ((s.offset + k) % 8 \in bytes[(s.offset + k) \div 8 + 1] <=> Bit(c, k) = 1)
    PROVE  CodeAt(s, bytes) = c
  <1>. DEFINE w == [k \in 0..s.len |-> Low(c, k)]
              v == CHOOSE v : IsValue(v, s, bytes)
              One(k) == (s.offset + k) % 8 \in bytes[(s.offset + k) \div 8 + 1]
              P == {k \in Nat : k <= s.len => v[k] = Low(c, k)}
  <1>1. /\ Low(c, 0) = 0
        /\ \A k \in Nat : Low(c, k + 1) = Low(c, k) + (IF Bit(c, k) = 1 THEN Pow2[k] ELSE 0)
        /\ Low(c, s.len) = c
    BY LowBits
  <1>2. \A k \in Nat : k < s.len => (One(k) <=> Bit(c, k) = 1)
    OBVIOUS
  <1>. HIDE DEF One
  <1>3. ASSUME NEW k \in 0..s.len
        PROVE  w[k] = IF k = 0 THEN 0
                      ELSE w[k - 1] + (IF One(k - 1) THEN Pow2[k - 1] ELSE 0)
    <2>1. CASE k = 0
      BY <1>1, <2>1
    <2>2. CASE k # 0
      <3>1. k - 1 \in Nat /\ k - 1 < s.len /\ (k - 1) + 1 = k /\ k - 1 \in 0..s.len
        BY <2>2
      <3>2. w[k] = Low(c, k) /\ w[k - 1] = Low(c, k - 1)
        BY <3>1
      <3>3. Low(c, k) = Low(c, k - 1) + (IF Bit(c, k - 1) = 1 THEN Pow2[k - 1] ELSE 0)
        BY <1>1, <3>1
      <3>. HIDE DEF w
      <3>. QED
        BY <1>2, <2>2, <3>1, <3>2, <3>3
    <2>. QED
      BY <2>1, <2>2
  <1>4. IsValue(w, s, bytes)
    <2>1. w = [k \in 0..s.len |-> w[k]]
      OBVIOUS
    <2>. HIDE DEF w
    <2>. QED
      BY <1>3, <2>1 DEF IsValue, One
  <1>5. IsValue(v, s, bytes)
    <2>. HIDE DEF w
    <2>. QED
      BY <1>4
  <1>. HIDE DEF v, w
  <1>6. \A k \in 0..s.len : v[k] = IF k = 0 THEN 0
                                  ELSE v[k - 1] + (IF One(k - 1) THEN Pow2[k - 1] ELSE 0)
    BY <1>5 DEF IsValue, One
  <1>7. 0 \in P
    BY <1>1, <1>6
  <1>8. ASSUME NEW k \in Nat, k \in P PROVE k + 1 \in P
    <2>. SUFFICES ASSUME k + 1 <= s.len PROVE v[k + 1] = Low(c, k + 1)
      OBVIOUS
    <2>1. v[k] = Low(c, k) /\ k + 1 \in 0..s.len /\ k + 1 # 0 /\ (k + 1) - 1 = k /\ k < s.len
      BY <1>8
    <2>2. v[k + 1] = v[k] + (IF One(k) THEN Pow2[k] ELSE 0)
      BY <1>6, <2>1
    <2>. QED
      BY <1>1, <1>2, <2>1, <2>2
  <1>9. Nat \subseteq P
    <2>. HIDE DEF P
    <2>. QED
      BY <1>7, <1>8, AllNat
  <1>10. v[s.len] = c
    BY <1>1, <1>9
  <1>. QED
    BY <1>10, CodeAtIs DEF v

\* One turn of the reader.
OnceRead(s, bytes, len) ==
    IF s.ended \/ s.broken \/ s.offset + s.len > 8 * Len(bytes)
    THEN s ELSE ReadOn(s, CodeAt(s, bytes), len)

IsRead(g, bytes, len) ==
    g = [k \in 0..(3 * Len(bytes)) |->
            IF k = 0 THEN Opened(len) ELSE OnceRead(g[k - 1], bytes, len)]

LEMMA ReadAllIs ==
    ASSUME NEW bytes, NEW len
    PROVE  ReadAll(bytes, len) = (CHOOSE g : IsRead(g, bytes, len))[3 * Len(bytes)]
  BY Zenon DEF ReadAll, IsRead, OnceRead

\* n turns of the reader, the last of which is the end.
Turns(r, bytes, len, n) ==
    /\ r[0] = Opened(len)
    /\ \A k \in Nat : k < n => r[k + 1] = OnceRead(r[k], bytes, len)
    /\ r[n].ended = TRUE

\* A reader that has ended after n turns stays as it is.
LEMMA ReadToEnd ==
    ASSUME NEW bytes, NEW len, NEW n \in Nat, n <= 3 * Len(bytes), Len(bytes) \in Nat,
           NEW r, Turns(r, bytes, len, n)
    PROVE  ReadAll(bytes, len) = r[n]
  <1>. DEFINE N == 3 * Len(bytes)
              w == [k \in 0..N |-> IF k <= n THEN r[k] ELSE r[n]]
              v == CHOOSE g : IsRead(g, bytes, len)
              P == {k \in Nat : k <= N => v[k] = w[k]}
  <1>. USE DEF Turns
  <1>1. N \in Nat /\ n <= N
    OBVIOUS
  <1>2. OnceRead(r[n], bytes, len) = r[n]
    BY DEF OnceRead
  <1>. HIDE DEF N
  <1>3. \A k \in 0..N : w[k] = IF k <= n THEN r[k] ELSE r[n]
    OBVIOUS
  <1>4. w = [k \in 0..N |-> w[k]]
    OBVIOUS
  <1>. HIDE DEF w
  <1>5. ASSUME NEW k \in 0..N
        PROVE  w[k] = IF k = 0 THEN Opened(len) ELSE OnceRead(w[k - 1], bytes, len)
    <2>1. CASE k = 0
      BY <1>1, <1>3, <2>1
    <2>2. CASE k # 0
      <3>1. k - 1 \in Nat /\ (k - 1) + 1 = k /\ k - 1 \in 0..N
        BY <1>1, <2>2
      <3>2. CASE k <= n
        <4>1. k - 1 < n /\ k - 1 <= n
          BY <3>1, <3>2
        <4>2. w[k] = r[(k - 1) + 1] /\ w[k - 1] = r[k - 1]
          BY <1>3, <3>1, <3>2, <4>1
        <4>3. r[(k - 1) + 1] = OnceRead(r[k - 1], bytes, len)
          BY <3>1, <4>1
        <4>. QED
          BY <2>2, <4>2, <4>3
      <3>3. CASE ~(k <= n)
        <4>1. w[k] = r[n] /\ w[k - 1] = r[n]
          <5>1. k - 1 = n \/ ~(k - 1 <= n)
            BY <3>1, <3>3
          <5>. QED
            BY <1>3, <3>1, <3>3, <5>1
        <4>. QED
          BY <1>2, <2>2, <4>1
      <3>. QED
        BY <3>2, <3>3
    <2>. QED
      BY <2>1, <2>2
  <1>6. IsRead(w, bytes, len)
    BY <1>4, <1>5 DEF IsRead, N
  <1>7. IsRead(v, bytes, len)
    BY <1>6
  <1>. HIDE DEF v
  <1>8. \A k \in 0..N : v[k] = IF k = 0 THEN Opened(len) ELSE OnceRead(v[k - 1], bytes, len)
    BY <1>7 DEF IsRead, N
  <1>9. 0 \in P
    BY <1>1, <1>5, <1>8
  <1>10. ASSUME NEW k \in Nat, k \in P PROVE k + 1 \in P
    <2>. SUFFICES ASSUME k + 1 <= N PROVE v[k + 1] = w[k + 1]
      OBVIOUS
    <2>1. v[k] = w[k] /\ k + 1 \in 0..N /\ k + 1 # 0 /\ (k + 1) - 1 = k
      BY <1>1, <1>10
    <2>. QED
      BY <1>5, <1>8, <2>1
  <1>11. Nat \subseteq P
    <2>. HIDE DEF P
    <2>. QED
      BY <1>9, <1>10, AllNat
  <1>12. v[N] = w[N]
    BY <1>1, <1>11
  <1>13. w[N] = r[n]
    <2>1. N \in 0..N /\ (N <= n => N = n)
      BY <1>1
    <2>. QED
      BY <1>3, <2>1
  <1>. QED
    BY <1>12, <1>13, ReadAllIs DEF v, N

\* No code is longer than it may be, or shorter than the first.
LEMMA LengthsBound ==
    ASSUME NEW codes \in Seq(Nat), NEW len \in 3..MaxCodeLen
    PROVE  CodeLengths(codes, len) \in [1..Len(codes) -> len..MaxCodeLen]
  <1>. DEFINE D == InitDictLen(len)
              L == Len(codes)
              f == CountAfter(codes, len)
              P == {k \in Nat : k <= L => f[k].len \in len..MaxCodeLen}
  <1>1. L \in Nat /\ len \in Nat /\ MaxCodeLen \in Nat
    BY MaxDictLenNat
  <1>2. IsCount(f, codes, len) /\ f \in [0..L -> Counts]
    BY CountAfterDef
  <1>3. CountReset(len).len = len
    BY DEF CountReset
  <1>4. ASSUME NEW s \in Counts, s.len \in len..MaxCodeLen
        PROVE  /\ Grown(s, D).len \in len..MaxCodeLen
               /\ [Grown(s, D) EXCEPT !.dictPos = @ + 1].len \in len..MaxCodeLen
    <2>1. Grown(s, D).len = IF s.len < MaxCodeLen /\ s.n - D = s.dictPos THEN s.len + 1 ELSE s.len
      BY <1>4 DEF Grown, Counts
    <2>. HIDE DEF D
    <2>2. Grown(s, D).len \in len..MaxCodeLen
      BY <1>1, <1>4, <2>1
    <2>. QED
      BY <2>2
  <1>. HIDE DEF f, L, D
  <1>5. \A k \in 0..L : f[k] \in Counts
    BY <1>2
  <1>6. \A k \in 0..L : f[k] = IF k = 0 THEN CountReset(len)
                               ELSE IF codes[k] = D THEN CountReset(len)
                               ELSE [Grown(f[k - 1], D) EXCEPT !.dictPos = @ + 1]
    BY <1>2 DEF IsCount, L, D
  <1>7. len \in len..MaxCodeLen
    BY <1>1
  <1>8. 0 \in P
    <2>1. 0 \in 0..L
      BY <1>1
    <2>2. f[0] = CountReset(len)
      BY <1>6, <2>1
    <2>. QED
      BY <1>3, <1>7, <2>2
  <1>9. ASSUME NEW k \in Nat, k \in P PROVE k + 1 \in P
    <2>. SUFFICES ASSUME k + 1 <= L PROVE f[k + 1].len \in len..MaxCodeLen
      OBVIOUS
    <2>1. f[k].len \in len..MaxCodeLen /\ k + 1 \in 0..L /\ k \in 0..L /\ k + 1 # 0 /\ (k + 1) - 1 = k
      BY <1>1, <1>9
    <2>2. f[k + 1] = CountReset(len) \/ f[k + 1] = [Grown(f[k], D) EXCEPT !.dictPos = @ + 1]
      BY <1>6, <2>1
    <2>3. [Grown(f[k], D) EXCEPT !.dictPos = @ + 1].len \in len..MaxCodeLen
      BY <1>4, <1>5, <2>1
    <2>. QED
      BY <1>3, <1>7, <2>2, <2>3
  <1>10. Nat \subseteq P
    <2>. HIDE DEF P
    <2>. QED
      BY <1>8, <1>9, AllNat
  <1>11. ASSUME NEW i \in 1..L PROVE Grown(f[i - 1], D).len \in len..MaxCodeLen
    <2>1. i - 1 \in Nat /\ i - 1 <= L /\ i - 1 \in 0..L
      BY <1>1
    <2>. QED
      BY <1>4, <1>5, <1>10, <2>1
  <1>12. CodeLengths(codes, len) = [i \in 1..L |-> Grown(f[i - 1], D).len]
    BY DEF CodeLengths, f, L, D
  <1>. QED
    BY <1>11, <1>12 DEF L

LEMMA OffsetStep ==
    ASSUME NEW s, Reader(s), NEW x, NEW len
    PROVE  ReadOn(s, x, len).offset = s.offset + s.len
  <1>. DEFINE at == [s EXCEPT !.offset = @ + s.len]
  <1>1. at.offset = s.offset + s.len /\ DOMAIN at = DOMAIN s
    BY DEF Reader
  <1>2. {"offset", "len", "prev", "strings", "out", "ended", "broken"} = DOMAIN at
    BY <1>1 DEF Reader
  <1>. HIDE DEF at
  <1>3. Obey(at, x, len).offset = at.offset
    <2>1. CASE x = InitDictLen(len)
      BY <1>2, <2>1 DEF Obey
    <2>2. CASE x # InitDictLen(len) /\ x = InitDictLen(len) + 1
      BY <1>2, <2>2 DEF Obey
    <2>3. CASE x # InitDictLen(len) /\ x # InitDictLen(len) + 1 /\ StringOf(at, x) = << >>
      BY <1>2, <2>3 DEF Obey
    <2>4. CASE x # InitDictLen(len) /\ x # InitDictLen(len) + 1 /\ StringOf(at, x) # << >>
      <3>1. Obey(at, x, len) = Emit(at, StringOf(at, x))
        BY <2>4 DEF Obey
      <3>. QED
        BY <1>2, <3>1 DEF Emit
    <2>. QED
      BY <2>1, <2>2, <2>3, <2>4
  <1>. QED
    BY <1>1, <1>3 DEF ReadOn, at

\* r[i] is the reader after i codes, the last of which is the end code.
FullRun(r, codes, len, out) ==
    /\ r[0] = Opened(len)
    /\ \A i \in 0..(Len(codes) - 1) :
          /\ Reader(r[i]) /\ r[i].ended = FALSE /\ r[i].broken = FALSE
          /\ r[i].len = CodeLengths(codes, len)[i + 1]
          /\ r[i + 1] = ReadOn(r[i], codes[i + 1], len)
    /\ r[Len(codes)].ended = TRUE /\ r[Len(codes)].broken = FALSE
    /\ r[Len(codes)].out = out

LEMMA EndRun ==
    ASSUME NEW codes \in Seq(Nat), NEW len \in 3..MaxCodeLen, NEW s, RunEnds(codes, len, s)
    PROVE  \E r : FullRun(r, Append(codes, InitDictLen(len) + 1), len, s.out)
  <1>. DEFINE D == InitDictLen(len)
              L == Len(codes)
              more == Append(codes, D + 1)
              t == ReadOn(s, D + 1, len)
  <1>1. D + 1 \in Nat /\ L \in Nat
    BY InitDictLenBounds
  <1>2. /\ more \in Seq(Nat) /\ Len(more) = L + 1
        /\ more[L + 1] = D + 1 /\ \A i \in 1..L : more[i] = codes[i]
    BY <1>1, AppendProperties
  <1>3. \A i \in 0..L : CountAfter(more, len)[i] = CountAfter(codes, len)[i]
    BY <1>1, CountAppend
  <1>4. PICK rd : RunOf(rd, codes, len) /\ s = rd[L]
    BY DEF RunEnds
  <1>5. Reader(s) /\ s.broken = FALSE
    BY RunEndIs
  <1>6. t.ended = TRUE /\ t.broken = FALSE /\ t.out = s.out
    BY <1>5, ReadEnd
  <1>. DEFINE r == [i \in 0..(L + 1) |-> IF i = L + 1 THEN t ELSE rd[i]]
  <1>7. r[L + 1] = t /\ \A i \in 0..L : r[i] = rd[i]
    BY <1>1
  <1>8. t = ReadOn(rd[L], more[L + 1], len)
    BY <1>2, <1>4
  <1>. HIDE DEF r, t, more, L, D
  <1>9. r[0] = Opened(len)
    BY <1>1, <1>4, <1>7 DEF RunOf
  <1>10. ASSUME NEW i \in 0..L
         PROVE  /\ Reader(r[i]) /\ r[i].ended = FALSE /\ r[i].broken = FALSE
                /\ r[i].len = CodeLengths(more, len)[i + 1]
                /\ r[i + 1] = ReadOn(r[i], more[i + 1], len)
    <2>1. /\ Reader(rd[i]) /\ rd[i].ended = FALSE /\ rd[i].broken = FALSE
          /\ rd[i].len = Grown(CountAfter(codes, len)[i], D).len
      BY <1>4 DEF RunOf, L, D
    <2>2. CodeLengths(more, len)[i + 1] = Grown(CountAfter(more, len)[i], D).len
      <3>1. i + 1 \in 1..Len(more) /\ (i + 1) - 1 = i
        BY <1>1, <1>2
      <3>. QED
        BY <3>1 DEF CodeLengths, D
    <2>3. r[i + 1] = ReadOn(rd[i], more[i + 1], len)
      <3>1. CASE i = L
        BY <1>7, <1>8, <3>1
      <3>2. CASE i # L
        <4>1. i + 1 \in 1..L /\ i + 1 \in 0..L /\ (i + 1) - 1 = i
          BY <1>1, <3>2
        <4>2. rd[i + 1] = ReadOn(rd[i], codes[i + 1], len)
          BY <1>4, <4>1 DEF RunOf, L
        <4>. QED
          BY <1>2, <1>7, <4>1, <4>2
      <3>. QED
        BY <3>1, <3>2
    <2>. QED
      BY <1>3, <1>7, <2>1, <2>2, <2>3
  <1>11. Len(more) - 1 = L
    BY <1>1, <1>2
  <1>12. FullRun(r, more, len, s.out)
    BY <1>2, <1>6, <1>7, <1>9, <1>10, <1>11 DEF FullRun
  <1>. QED
    BY <1>12 DEF more, D

\* The bytes of the codes are read as the codes.
LEMMA BytesRead ==
    ASSUME NEW codes \in Seq(Nat), codes # << >>, NEW len \in 3..MaxCodeLen, Fit(codes, len),
           NEW r, NEW out, FullRun(r, codes, len, out),
           NEW bytes, bytes = ByteList(codes, len)
    PROVE  /\ bytes \in Seq(SUBSET (0..7))
           /\ ImageOrNone(ReadAll(bytes, len), Len(bytes)) = out
  <1>. DEFINE n == Len(codes)
              lens == CodeLengths(codes, len)
              f == [i \in 1..(n + 1) |-> r[i - 1].offset]
              total == f[n + 1]
  <1>1. n \in Nat /\ n > 0 /\ len \in Nat /\ MaxCodeLen \in Nat
    BY MaxDictLenNat
  <1>2. /\ r[0] = Opened(len)
        /\ \A i \in 0..(n - 1) :
              /\ Reader(r[i]) /\ r[i].ended = FALSE /\ r[i].broken = FALSE
              /\ r[i].len = lens[i + 1]
              /\ r[i + 1] = ReadOn(r[i], codes[i + 1], len)
        /\ r[n].ended = TRUE /\ r[n].broken = FALSE /\ r[n].out = out
    BY DEF FullRun
  <1>3. lens \in [1..n -> len..MaxCodeLen]
    BY LengthsBound
  <1>4. lens \in [1..n -> Nat] /\ lens \in [1..n -> 0..MaxCodeLen] /\ \A i \in 1..n : lens[i] >= 3
    <2>. HIDE DEF lens, n
    <2>. QED
      BY <1>1, <1>3
  <1>5. \A i \in 1..n : codes[i] < Pow2[lens[i]]
    BY DEF Fit
  <1>. HIDE DEF lens
  <1>6. \A i \in 1..(n + 1) : f[i] = r[i - 1].offset
    OBVIOUS
  <1>7. f = [i \in 1..(n + 1) |-> f[i]]
    OBVIOUS
  <1>. HIDE DEF f, n
  <1>8. ASSUME NEW i \in 1..(n + 1) PROVE f[i] = IF i = 1 THEN 0 ELSE f[i - 1] + lens[i - 1]
    <2>1. CASE i = 1
      <3>1. f[i] = r[0].offset
        BY <1>6, <2>1
      <3>. QED
        BY <1>2, <2>1, <3>1 DEF Opened
    <2>2. CASE i # 1
      <3>. DEFINE k == i - 2
      <3>1. k \in 0..(n - 1) /\ k + 1 = i - 1 /\ i - 1 \in 1..(n + 1) /\ (i - 1) - 1 = k
        BY <1>1, <2>2
      <3>. HIDE DEF k
      <3>2. f[i] = r[k + 1].offset /\ f[i - 1] = r[k].offset
        BY <1>6, <3>1
      <3>3. r[k + 1].offset = r[k].offset + r[k].len
        BY <1>2, <3>1, OffsetStep
      <3>. QED
        BY <1>2, <2>2, <3>1, <3>2, <3>3
    <2>. QED
      BY <2>1, <2>2
  <1>9. IsStart(f, codes, lens)
    BY <1>7, <1>8 DEF IsStart, n
  <1>10. bytes = BytesOf(f, codes)
    BY <1>9, StartOnce, ByteListIs DEF lens
  <1>11. /\ \A i \in 1..(n + 1) : f[i] \in Nat
         /\ \A i \in 1..n : f[i + 1] = f[i] + lens[i]
         /\ \A i, j \in 1..(n + 1) : i <= j => f[i] <= f[j]
         /\ f[1] = 0
    BY <1>4, <1>9, StartGrows DEF n
  <1>12. total \in Nat
    BY <1>1, <1>11
  <1>13. /\ bytes \in Seq(SUBSET (0..7)) /\ Len(bytes) = (total + 7) \div 8
         /\ total <= 8 * Len(bytes) /\ total > 8 * (Len(bytes) - 1) /\ Len(bytes) \in Nat
    <2>1. (total + 7) \div 8 \in Nat /\ total <= 8 * ((total + 7) \div 8)
          /\ total > 8 * ((total + 7) \div 8 - 1)
      BY SMTT(40), <1>12
    <2>2. bytes = [b \in 1..((total + 7) \div 8) |->
                        {k \in 0..7 : 8 * (b - 1) + k \in OnesOf(f, codes)}]
      BY <1>10 DEF BytesOf, n
    <2>. HIDE DEF total
    <2>3. \A b \in 1..((total + 7) \div 8) :
              {k \in 0..7 : 8 * (b - 1) + k \in OnesOf(f, codes)} \in SUBSET (0..7)
      OBVIOUS
    <2>4. bytes \in [1..((total + 7) \div 8) -> SUBSET (0..7)]
      BY <2>2, <2>3
    <2>5. bytes \in Seq(SUBSET (0..7)) /\ Len(bytes) = (total + 7) \div 8
      <3>1. PICK m \in Nat : m = (total + 7) \div 8
        BY <2>1
      <3>2. bytes \in [1..m -> SUBSET (0..7)]
        BY <2>4, <3>1
      <3>3. bytes \in Seq(SUBSET (0..7)) /\ DOMAIN bytes = 1..m
        BY <3>2, SeqDef
      <3>4. Len(bytes) = m
        BY <3>3, LenProperties
      <3>. QED
        BY <3>1, <3>3, <3>4
    <2>. QED
      BY <2>1, <2>5
  <1>14. ASSUME NEW i \in 0..(n - 1) PROVE r[i + 1] = OnceRead(r[i], bytes, len)
    <2>. DEFINE s == r[i]
                c == codes[i + 1]
    <2>1. /\ i + 1 \in 1..n /\ i + 1 \in 1..(n + 1) /\ (i + 1) - 1 = i
          /\ (i + 1) + 1 \in 1..(n + 1) /\ n + 1 \in 1..(n + 1)
      BY <1>1
    <2>2. s.offset = f[i + 1] /\ s.len = lens[i + 1]
      BY <1>2, <1>6, <2>1
    <2>3. f[i + 1] \in Nat /\ lens[i + 1] \in Nat
          /\ f[(i + 1) + 1] = f[i + 1] + lens[i + 1] /\ f[(i + 1) + 1] <= total
      BY SMTT(40), <1>4, <1>11, <2>1
    <2>4. c \in Nat /\ c < Pow2[lens[i + 1]]
      BY <1>5, <2>1 DEF n
    <2>5. ASSUME NEW k \in Nat, k < s.len
          PROVE  (s.offset + k) % 8 \in bytes[(s.offset + k) \div 8 + 1] <=> Bit(c, k) = 1
      <3>. DEFINE q == f[i + 1] + k
      <3>1. q \in Nat /\ q < total
        BY SMTT(40), <1>12, <2>2, <2>3, <2>5
      <3>2. q \in OnesOf(f, codes) <=> Bit(c, k) = 1
        BY <1>4, <1>5, <1>9, <2>1, <2>2, <2>5, BitPlaces DEF n
      <3>. HIDE DEF q
      <3>3. q % 8 \in BytesOf(f, codes)[q \div 8 + 1] <=> q \in OnesOf(f, codes)
        BY <1>12, <3>1, ByteBit DEF n
      <3>. QED
        BY <1>10, <2>2, <3>2, <3>3 DEF q
    <2>6. CodeAt(s, bytes) = c
      <3>. HIDE DEF s, c
      <3>. QED
        BY <2>2, <2>3, <2>4, <2>5, CodeRead
    <2>7. ~(s.offset + s.len > 8 * Len(bytes))
      <3>1. PICK a \in Nat, b \in Nat : a = f[i + 1] /\ b = lens[i + 1]
        BY <2>3
      <3>. DEFINE e == f[(i + 1) + 1]
      <3>2. s.offset + s.len = e /\ e <= total /\ e \in Nat
        BY <2>2, <2>3, <3>1
      <3>. HIDE DEF s, total, e
      <3>. QED
        BY <1>12, <1>13, <3>2
    <2>. QED
      BY <1>2, <2>6, <2>7 DEF OnceRead
  <1>15. n <= 3 * Len(bytes)
    <2>. DEFINE P == {k \in Nat : k <= n => f[k + 1] >= 3 * k}
    <2>1. 0 \in P
      BY <1>11
    <2>2. ASSUME NEW k \in Nat, k \in P PROVE k + 1 \in P
      <3>. SUFFICES ASSUME k + 1 <= n PROVE f[(k + 1) + 1] >= 3 * (k + 1)
        OBVIOUS
      <3>1. f[k + 1] >= 3 * k /\ k + 1 \in 1..n /\ k + 1 \in 1..(n + 1)
        BY <1>1, <2>2
      <3>2. f[(k + 1) + 1] = f[k + 1] + lens[k + 1] /\ f[k + 1] \in Nat
            /\ lens[k + 1] >= 3 /\ lens[k + 1] \in Nat
        BY <1>4, <1>11, <3>1
      <3>. QED
        BY <3>1, <3>2
    <2>3. Nat \subseteq P
      <3>. HIDE DEF P
      <3>. QED
        BY <2>1, <2>2, AllNat
    <2>4. total >= 3 * n
      BY <1>1, <2>3
    <2>. HIDE DEF total, P
    <2>. QED
      BY <1>1, <1>12, <1>13, <2>4
  <1>16. ReadAll(bytes, len) = r[n]
    <2>1. \A k \in Nat : k < n => r[k + 1] = OnceRead(r[k], bytes, len)
      <3>. SUFFICES ASSUME NEW k \in Nat, k < n PROVE r[k + 1] = OnceRead(r[k], bytes, len)
        OBVIOUS
      <3>1. k \in 0..(n - 1)
        BY <1>1
      <3>. QED
        BY <1>14, <3>1
    <2>2. Turns(r, bytes, len, n)
      BY <1>2, <2>1 DEF Turns
    <2>3. Len(bytes) \in Nat
      BY <1>13
    <2>. HIDE DEF total
    <2>. QED
      BY <1>1, <1>15, <2>2, <2>3, ReadToEnd
  <1>17. r[n].offset = total
    <2>1. n + 1 \in 1..(n + 1) /\ (n + 1) - 1 = n
      BY <1>1
    <2>. QED
      BY <1>6, <2>1
  <1>. QED
    BY <1>2, <1>13, <1>16, <1>17 DEF ImageOrNone

--------------------------------------------------------------------------------
(* The blocks *)

LEMMA TimesGrows ==
    ASSUME NEW B \in Nat, NEW i \in Nat, NEW j \in Nat, i <= j
    PROVE  i * B <= j * B /\ i * B \in Nat
  <1>1. PICK k \in Nat : j = i + k
    <2>1. j - i \in Nat /\ j = i + (j - i)
      OBVIOUS
    <2>. QED
      BY <2>1
  <1>2. j * B = i * B + k * B
    BY <1>1
  <1>3. k * B \in Nat /\ i * B \in Nat
    OBVIOUS
  <1>. QED
    BY <1>2, <1>3

BlockCount(bytes) == (Len(bytes) + BlockSize - 1) \div BlockSize
BlockEnd(bytes, i) == IF i * BlockSize < Len(bytes) THEN i * BlockSize ELSE Len(bytes)

\* The last block that is not empty holds the last byte.
LEMMA BlocksCover ==
    ASSUME NEW bytes, Len(bytes) \in Nat
    PROVE  /\ BlockCount(bytes) \in Nat
           /\ Len(bytes) <= BlockCount(bytes) * BlockSize
           /\ \A i \in Nat : i < BlockCount(bytes) => i * BlockSize < Len(bytes)
  <1>. DEFINE N == Len(bytes)
              B == BlockSize
              m == BlockCount(bytes)
  <1>1. B \in Nat /\ B > 0
    BY LzwAssumption
  <1>. HIDE DEF N, B
  <1>2. N \in Nat /\ N + B - 1 \in Nat
    BY <1>1 DEF N
  <1>3. m = (N + B - 1) \div B
    BY DEF BlockCount, N, B
  <1>4. m \in Nat /\ m * B <= N + B - 1 /\ N + B - 1 < m * B + B
    <2>. DEFINE a == N + B - 1
    <2>1. a \in Nat /\ m = a \div B
      BY <1>2, <1>3
    <2>. HIDE DEF a
    <2>2. a \div B \in Nat /\ (a \div B) * B <= a /\ a < (a \div B) * B + B
      BY <1>1, <2>1, Quotient
    <2>3. m \in Nat /\ m * B <= a /\ a < m * B + B
      BY <2>1, <2>2
    <2>. QED
      BY <2>3 DEF a
  <1>. HIDE DEF m
  <1>5. m * B \in Nat
    BY <1>1, <1>4
  <1>6. N <= m * B
    BY <1>1, <1>2, <1>4, <1>5
  <1>7. ASSUME NEW i \in Nat, i < m PROVE i * B < N
    <2>1. i + 1 \in Nat /\ i + 1 <= m
      BY <1>4, <1>7
    <2>2. (i + 1) * B <= m * B /\ i * B \in Nat
      BY <1>1, <1>4, <2>1, TimesGrows
    <2>3. (i + 1) * B = i * B + B
      BY <1>1
    <2>. QED
      BY <1>1, <1>2, <1>4, <1>5, <2>2, <2>3
  <1>. QED
    BY <1>4, <1>6, <1>7 DEF m, N, B

\* The bytes of a block.
LEMMA BlockIs ==
    ASSUME NEW S, NEW bytes \in Seq(S)
    PROVE  /\ ByteListBlock(bytes) \in Seq(Seq(S))
           /\ Len(ByteListBlock(bytes)) = BlockCount(bytes) + 1
           /\ \A i \in 1..(BlockCount(bytes) + 1) :
                 ByteListBlock(bytes)[i] = SubSeq(bytes, (i - 1) * BlockSize + 1, BlockEnd(bytes, i))
  <1>. DEFINE m == BlockCount(bytes)
              block(i) == SubSeq(bytes, (i - 1) * BlockSize + 1, BlockEnd(bytes, i))
  <1>1. m \in Nat /\ Len(bytes) \in Nat /\ BlockSize \in Nat
    BY LzwAssumption, BlocksCover
  <1>2. ByteListBlock(bytes) = [i \in 1..(m + 1) |-> block(i)]
    BY DEF ByteListBlock, BlockCount, BlockEnd
  <1>3. ASSUME NEW i \in 1..(m + 1) PROVE block(i) \in Seq(S)
    <2>. DEFINE lo == (i - 1) * BlockSize + 1
                hi == BlockEnd(bytes, i)
    <2>1. i - 1 \in Nat /\ i \in Nat
      BY <1>1
    <2>2. (i - 1) * BlockSize \in Nat /\ i * BlockSize \in Nat
      BY <1>1, <2>1
    <2>3. hi \in Nat /\ hi <= Len(bytes)
      BY <1>1, <2>2 DEF BlockEnd
    <2>4. lo \in Int /\ lo >= 1
      BY <2>2
    <2>. HIDE DEF lo, hi
    <2>5. \A k \in lo..hi : bytes[k] \in S
      BY <1>1, <2>3, <2>4
    <2>6. SubSeq(bytes, lo, hi) \in Seq(S)
      BY <2>3, <2>4, <2>5, SubSeqProperties
    <2>. QED
      BY <2>6 DEF lo, hi
  <1>. HIDE DEF m, block
  <1>4. ByteListBlock(bytes) \in [1..(m + 1) -> Seq(S)]
    BY <1>2, <1>3
  <1>5. m + 1 \in Nat
    BY <1>1
  <1>6. ByteListBlock(bytes) \in Seq(Seq(S)) /\ DOMAIN ByteListBlock(bytes) = 1..(m + 1)
    BY <1>4, <1>5, SeqDef
  <1>7. Len(ByteListBlock(bytes)) = m + 1
    BY <1>5, <1>6, LenProperties
  <1>8. \A i \in 1..(m + 1) : ByteListBlock(bytes)[i] = block(i)
    BY <1>2
  <1>. QED
    BY <1>6, <1>7, <1>8 DEF m, block

IsFlat(f, seqs) ==
    f = [i \in 1..Len(seqs) |-> IF i = 1 THEN seqs[i] ELSE f[i - 1] \o seqs[i]]

LEMMA FlattenIs ==
    ASSUME NEW seqs, Len(seqs) # 0
    PROVE  FlattenSeq(seqs) = (CHOOSE f : IsFlat(f, seqs))[Len(seqs)]
  BY Zenon DEF FlattenSeq, IsFlat

\* Sequences that continue each other in a longer one add up to it.
LEMMA FlattenParts ==
    ASSUME NEW seqs, Len(seqs) \in Nat, Len(seqs) # 0, NEW w,
           w[1] = seqs[1],
           \A i \in 2..Len(seqs) : w[i] = w[i - 1] \o seqs[i]
    PROVE  FlattenSeq(seqs) = w[Len(seqs)]
  <1>. DEFINE m == Len(seqs)
              u == [i \in 1..m |-> w[i]]
              v == CHOOSE f : IsFlat(f, seqs)
              P == {k \in Nat : k + 1 <= m => v[k + 1] = u[k + 1]}
  <1>1. m \in Nat /\ m # 0
    OBVIOUS
  <1>2. \A i \in 2..m : w[i] = w[i - 1] \o seqs[i]
    OBVIOUS
  <1>. HIDE DEF m
  <1>3. \A i \in 1..m : u[i] = w[i]
    OBVIOUS
  <1>4. u = [i \in 1..m |-> u[i]]
    OBVIOUS
  <1>. HIDE DEF u
  <1>5. ASSUME NEW i \in 1..m
        PROVE  u[i] = IF i = 1 THEN seqs[i] ELSE u[i - 1] \o seqs[i]
    <2>1. CASE i = 1
      BY <1>3, <2>1
    <2>2. CASE i # 1
      <3>1. i \in 2..m /\ i - 1 \in 1..m
        BY <1>1, <2>2
      <3>. QED
        BY <1>2, <1>3, <2>2, <3>1
    <2>. QED
      BY <2>1, <2>2
  <1>6. IsFlat(u, seqs)
    BY <1>4, <1>5 DEF IsFlat, m
  <1>7. IsFlat(v, seqs)
    BY <1>6
  <1>. HIDE DEF v
  <1>8. \A i \in 1..m : v[i] = IF i = 1 THEN seqs[i] ELSE v[i - 1] \o seqs[i]
    BY <1>7 DEF IsFlat, m
  <1>9. 0 \in P
    <2>1. 1 \in 1..m
      BY <1>1
    <2>2. v[1] = u[1]
      BY <1>5, <1>8, <2>1
    <2>. QED
      BY <2>2
  <1>10. ASSUME NEW k \in Nat, k \in P PROVE k + 1 \in P
    <2>. SUFFICES ASSUME (k + 1) + 1 <= m PROVE v[(k + 1) + 1] = u[(k + 1) + 1]
      OBVIOUS
    <2>1. /\ v[k + 1] = u[k + 1] /\ (k + 1) + 1 \in 1..m /\ (k + 1) + 1 # 1
          /\ ((k + 1) + 1) - 1 = k + 1
      BY <1>1, <1>10
    <2>. HIDE DEF P
    <2>2. v[(k + 1) + 1] = v[k + 1] \o seqs[(k + 1) + 1]
      BY <1>8, <2>1
    <2>3. u[(k + 1) + 1] = u[k + 1] \o seqs[(k + 1) + 1]
      BY <1>5, <2>1
    <2>. QED
      BY <2>1, <2>2, <2>3
  <1>11. Nat \subseteq P
    <2>. HIDE DEF P
    <2>. QED
      BY <1>9, <1>10, AllNat
  <1>12. v[m] = u[m]
    <2>1. m - 1 \in Nat /\ (m - 1) + 1 = m /\ (m - 1) + 1 <= m
      BY <1>1
    <2>2. m - 1 \in P
      BY <1>11, <2>1
    <2>. QED
      BY <2>1, <2>2
  <1>13. u[m] = w[m]
    BY <1>1, <1>3
  <1>. QED
    BY <1>12, <1>13, FlattenIs DEF v, m

\* The first empty block is the last one.
LEMMA FirstEmpty ==
    ASSUME NEW S, NEW bytes \in Seq(S)
    PROVE  Unblocked(ByteListBlock(bytes))
               = FlattenSeq(SubSeq(ByteListBlock(bytes), 1, BlockCount(bytes)))
  <1>. DEFINE m == BlockCount(bytes)
              bl == ByteListBlock(bytes)
              B == BlockSize
              N == Len(bytes)
              Ends(i) == i \in DOMAIN bl /\ bl[i] = << >> /\ \A j \in 1..(i - 1) : bl[j] # << >>
  <1>1. /\ m \in Nat /\ N \in Nat /\ B \in Nat /\ N <= m * B
        /\ \A i \in Nat : i < m => i * B < N
    BY LzwAssumption, BlocksCover
  <1>2. B > 0
    BY LzwAssumption
  <1>3. /\ DOMAIN bl = 1..(m + 1)
        /\ \A i \in 1..(m + 1) : bl[i] = SubSeq(bytes, (i - 1) * B + 1, BlockEnd(bytes, i))
    <2>1. bl \in Seq(Seq(S)) /\ Len(bl) = m + 1
      BY BlockIs
    <2>2. DOMAIN bl = 1..(m + 1)
      <3>. HIDE DEF bl, m
      <3>. QED
        BY <2>1, LenProperties
    <2>. QED
      BY <2>2, BlockIs
  <1>4. \A i \in Nat : BlockEnd(bytes, i) = IF i * B < N THEN i * B ELSE N
    BY DEF BlockEnd
  <1>. HIDE DEF m, bl, B, N
  <1>5. m + 1 \in 1..(m + 1) /\ (m + 1) - 1 = m /\ m + 1 \in Nat
    BY <1>1
  <1>6. bl[m + 1] = << >>
    <2>1. bl[m + 1] = SubSeq(bytes, m * B + 1, BlockEnd(bytes, m + 1))
      BY <1>3, <1>5
    <2>2. m * B \in Nat /\ (m + 1) * B = m * B + B
      BY <1>1
    <2>3. BlockEnd(bytes, m + 1) = N
      BY <1>1, <1>4, <1>5, <2>2
    <2>. QED
      BY <1>1, <2>1, <2>2, <2>3, SubSeqEmpty
  <1>7. ASSUME NEW i \in 1..m PROVE bl[i] # << >>
    <2>. DEFINE lo == (i - 1) * B + 1
                hi == BlockEnd(bytes, i)
    <2>1. i - 1 \in Nat /\ i \in Nat /\ i - 1 < m /\ i \in 1..(m + 1) /\ i * B = (i - 1) * B + B
      BY <1>1
    <2>2. (i - 1) * B \in Nat /\ (i - 1) * B < N
      BY <1>1, <2>1
    <2>3. bl[i] = SubSeq(bytes, lo, hi)
      BY <1>3, <2>1
    <2>4. hi = IF i * B < N THEN i * B ELSE N
      BY <1>4, <2>1
    <2>5. lo \in Int /\ hi \in Int /\ lo >= 1 /\ lo <= hi /\ hi <= N
      <3>1. PICK p \in Nat, q \in Nat : p = (i - 1) * B /\ q = i * B
        BY <2>1, <2>2, <1>1
      <3>. QED
        BY <1>1, <1>2, <2>1, <2>2, <2>4, <3>1
    <2>. HIDE DEF lo, hi
    <2>6. \A k \in lo..hi : bytes[k] \in S
      BY <1>1, <2>5 DEF N
    <2>7. Len(SubSeq(bytes, lo, hi)) = hi - lo + 1
      BY <2>5, <2>6, SubSeqProperties
    <2>8. hi - lo + 1 # 0
      BY <2>5
    <2>9. Len(<< >>) = 0
      OBVIOUS
    <2>. QED
      BY <2>3, <2>7, <2>8, <2>9
  <1>8. Ends(m + 1)
    BY <1>3, <1>5, <1>6, <1>7
  <1>9. ASSUME NEW i, Ends(i) PROVE i = m + 1
    <2>1. i \in 1..(m + 1)
      BY <1>3, <1>9
    <2>2. i \notin 1..m
      BY <1>7, <1>9
    <2>. QED
      BY <1>1, <2>1, <2>2
  <1>10. (CHOOSE i \in DOMAIN bl : bl[i] = << >> /\ \A j \in 1..(i - 1) : bl[j] # << >>) = m + 1
    BY <1>8, <1>9
  <1>11. Unblocked(bl) = FlattenSeq(SubSeq(bl, 1, (m + 1) - 1))
    BY <1>10 DEF Unblocked
  <1>. QED
    BY <1>5, <1>11 DEF bl, m

\* The bytes come out of the blocks as they went in.
BlocksHold(bytes) == Unblocked(ByteListBlock(bytes)) = bytes

LEMMA BlocksRead ==
    ASSUME NEW S, NEW bytes \in Seq(S)
    PROVE  BlocksHold(bytes)
  <1>. DEFINE m == BlockCount(bytes)
              bl == ByteListBlock(bytes)
              B == BlockSize
              N == Len(bytes)
              seqs == SubSeq(bl, 1, m)
              w == [i \in 1..m |-> SubSeq(bytes, 1, BlockEnd(bytes, i))]
  <1>1. /\ m \in Nat /\ N \in Nat /\ B \in Nat /\ N <= m * B
        /\ \A i \in Nat : i < m => i * B < N
    BY LzwAssumption, BlocksCover
  <1>2. /\ bl \in Seq(Seq(S)) /\ Len(bl) = m + 1
        /\ \A i \in 1..(m + 1) : bl[i] = SubSeq(bytes, (i - 1) * B + 1, BlockEnd(bytes, i))
    BY BlockIs
  <1>3. \A i \in Nat : BlockEnd(bytes, i) = IF i * B < N THEN i * B ELSE N
    BY DEF BlockEnd
  <1>4. Unblocked(bl) = FlattenSeq(seqs)
    BY FirstEmpty
  <1>5. SubSeq(bytes, 1, N) = bytes
    BY SubSeqFull
  <1>. HIDE DEF m, bl, B, N
  <1>6. Len(seqs) = m /\ \A i \in 1..m : seqs[i] = bl[i]
    <2>1. \A i \in 1..m : bl[i] \in Seq(S)
      <3>1. \A i \in 1..m : i \in 1..Len(bl)
        BY <1>1, <1>2
      <3>. QED
        BY <1>2, <3>1
    <2>2. Len(seqs) = IF 1 <= m THEN m - 1 + 1 ELSE 0
      BY <1>1, <2>1, SubSeqProperties
    <2>3. \A i \in 1..(m - 1 + 1) : seqs[i] = bl[1 + i - 1]
      BY <1>1, <2>1, SubSeqProperties
    <2>. HIDE DEF seqs
    <2>4. \A i \in 1..m : i \in 1..(m - 1 + 1) /\ 1 + i - 1 = i
      BY <1>1
    <2>. QED
      BY <1>1, <2>2, <2>3, <2>4
  <1>7. CASE m = 0
    <2>1. 0 * B = 0
      BY <1>1
    <2>2. N = 0
      BY <1>1, <1>7, <2>1
    <2>3. bytes = << >>
      BY <2>2, EmptySeq DEF N
    <2>4. seqs = << >>
      BY <1>1, <1>7, SubSeqEmpty
    <2>5. FlattenSeq(seqs) = seqs
      BY <1>6, <1>7 DEF FlattenSeq
    <2>. QED
      BY <1>4, <2>3, <2>4, <2>5 DEF BlocksHold, bl
  <1>8. CASE m # 0
    <2>. HIDE DEF seqs
    <2>1. \A i \in 1..m : w[i] = SubSeq(bytes, 1, BlockEnd(bytes, i))
      OBVIOUS
    <2>. HIDE DEF w
    <2>2. w[1] = seqs[1]
      <3>1. 1 \in 1..m /\ 1 \in 1..(m + 1) /\ (1 - 1) * B + 1 = 1
        BY <1>1, <1>8
      <3>2. seqs[1] = SubSeq(bytes, (1 - 1) * B + 1, BlockEnd(bytes, 1))
        <4>1. seqs[1] = bl[1]
          BY <1>6, <3>1
        <4>. QED
          BY <1>2, <3>1, <4>1, Zenon
      <3>3. w[1] = SubSeq(bytes, 1, BlockEnd(bytes, 1))
        BY <2>1, <3>1
      <3>. QED
        BY <3>1, <3>2, <3>3
    <2>3. ASSUME NEW i \in 2..Len(seqs) PROVE w[i] = w[i - 1] \o seqs[i]
      <3>. DEFINE p == (i - 1) * B
                  q == BlockEnd(bytes, i)
      <3>1. /\ i \in 1..m /\ i - 1 \in 1..m /\ i \in 1..(m + 1) /\ i \in Nat /\ i - 1 \in Nat
            /\ i - 1 < m /\ i * B = (i - 1) * B + B
        BY <1>1, <1>6
      <3>2. p \in Nat /\ p < N
        BY SMTT(40), <1>1, <3>1
      <3>3. BlockEnd(bytes, i - 1) = p
        BY <1>3, <3>1, <3>2
      <3>4. q = IF i * B < N THEN i * B ELSE N
        BY <1>3, <3>1
      <3>5. seqs[i] = SubSeq(bytes, p + 1, q)
        BY <1>2, <1>6, <3>1
      <3>6. w[i] = SubSeq(bytes, 1, q) /\ w[i - 1] = SubSeq(bytes, 1, p)
        BY <2>1, <3>1, <3>3
      <3>7. q \in p..N
        <4>1. PICK a \in Nat : a = i * B
          BY <1>1, <3>1
        <4>2. a >= p
          BY <1>1, <3>1, <3>2, <4>1
        <4>. HIDE DEF p, q
        <4>. QED
          BY <1>1, <3>2, <3>4, <4>1, <4>2
      <3>. HIDE DEF p, q
      <3>8. 1 \in 1..(N + 1) /\ p \in (1 - 1)..N
        BY <1>1, <3>2
      <3>9. SubSeq(bytes, 1, p) \o SubSeq(bytes, p + 1, q) = SubSeq(bytes, 1, q)
        BY <3>7, <3>8, ConcatAdjacentSubSeq DEF N
      <3>. QED
        BY <3>5, <3>6, <3>9
    <2>4. FlattenSeq(seqs) = w[m]
      <3>1. Len(seqs) \in Nat /\ Len(seqs) # 0
        BY <1>1, <1>6, <1>8
      <3>2. FlattenSeq(seqs) = w[Len(seqs)]
        BY <2>2, <2>3, <3>1, FlattenParts
      <3>. QED
        BY <1>6, <3>2
    <2>5. w[m] = bytes
      <3>1. m \in 1..m /\ m \in Nat
        BY <1>1, <1>8
      <3>2. BlockEnd(bytes, m) = N
        BY <1>1, <1>3
      <3>. QED
        BY <1>5, <2>1, <3>1, <3>2
    <2>. QED
      BY <1>4, <2>4, <2>5 DEF BlocksHold, bl
  <1>. QED
    BY <1>7, <1>8

--------------------------------------------------------------------------------
(* The image comes back *)

\* The codes of the whole image, packed and cut into blocks, are read as the image.
LEMMA PackReads ==
    ASSUME NEW c, NEW im, NEW len, EncoderAt(c, im, len), ReaderAt(c, im, len),
           c.pos > Len(im), NEW out,
           out = ByteListBlock(ByteList(EndCode(c).codes, len))
    PROVE  LzwDecode(out, len) = im
  <1>. DEFINE D == InitDictLen(len)
              codes == c.codes
              bytes == ByteList(EndCode(c).codes, len)
  <1>1. /\ im \in Seq(Nat) /\ len \in 3..MaxCodeLen
        /\ c.pos \in 1..(Len(im) + 1)
    BY DEF EncoderAt
  <1>2. codes \in Seq(Nat)
    BY DEF EncoderAt, CodesInv
  <1>3. /\ EndCode(c).codes = Append(codes, D + 1)
        /\ EndCode(c).codes \in Seq(Nat) /\ Fit(EndCode(c).codes, len)
    BY EndCodeKeeps DEF CodesInv
  <1>5. PICK s : RunEnds(codes, len, s) /\ s.out = SubSeq(im, 1, c.pos - 1)
    <2>1. ReaderAt(c, im, len)
      OBVIOUS
    <2>. QED
      BY <2>1, Zenon DEF ReaderAt
  <1>6. s.out = im
    <2>1. c.pos - 1 = Len(im)
      BY <1>1
    <2>. QED
      BY <1>1, <1>5, <2>1, SubSeqFull
  <1>7. \E r : FullRun(r, Append(codes, D + 1), len, s.out)
    BY <1>1, <1>2, <1>5, EndRun
  <1>8. PICK r : FullRun(r, EndCode(c).codes, len, im)
    BY <1>3, <1>6, <1>7
  <1>9. EndCode(c).codes # << >>
    <2>1. D + 1 \in Nat
      BY <1>1, InitDictLenBounds
    <2>. HIDE DEF D, codes
    <2>. QED
      BY <1>2, <1>3, <2>1, AppendProperties
  <1>10. PICK all : all = EndCode(c).codes
    OBVIOUS
  <1>11. bytes = ByteList(all, len)
    BY <1>10
  <1>. HIDE DEF bytes, codes, D
  <1>12. bytes \in Seq(SUBSET (0..7)) /\ ImageOrNone(ReadAll(bytes, len), Len(bytes)) = im
    <2>1. all \in Seq(Nat) /\ all # << >> /\ Fit(all, len) /\ FullRun(r, all, len, im)
      BY <1>3, <1>8, <1>9, <1>10
    <2>. QED
      BY <1>1, <1>11, <2>1, BytesRead
  <1>13. Unblocked(out) = bytes
    <2>1. BlocksHold(bytes)
      BY <1>12, BlocksRead
    <2>. QED
      BY <2>1 DEF BlocksHold, bytes
  <1>. QED
    BY <1>12, <1>13 DEF LzwDecode

\* What a reader of GIF files makes of the blocks LZW_GenerateStream leaves is the
\* image it was given, unless the codes did not fit in their buffer: the reader's
\* dictionary is one code behind the encoder's, and both agree on when codes get
\* longer, on what a full dictionary means, and on where a code lies in the bytes
\* and the bytes in the blocks.
THEOREM ImageIsReadBack == EncoderSpec => []RasterDecodes
  <1>. DEFINE Inv == EncoderInv /\ ReaderKeepsUp /\ RasterDecodes
  <1>1. EncoderInit => RasterDecodes
    BY DEF EncoderInit, RasterDecodes
  <1>2. ASSUME Inv, [EncoderNext]_encoderVars PROVE RasterDecodes'
    <2>1. CASE Crawl
      BY <2>1 DEF Crawl, RasterDecodes
    <2>2. CASE CrawlFails
      BY <2>2 DEF CrawlFails, RasterDecodes
    <2>3. CASE Pack /\ result' = "OK"
      <3>1. /\ EncoderAt(ctx, image, codeLen) /\ ReaderAt(ctx, image, codeLen)
            /\ ctx.pos > Len(image)
            /\ blocks' = ByteListBlock(ByteList(EndCode(ctx).codes, codeLen))
            /\ UNCHANGED <<image, codeLen>>
        BY <1>2, <2>3 DEF Pack, EncoderInv, ReaderKeepsUp
      <3>2. LzwDecode(blocks', codeLen) = image
        BY <3>1, PackReads
      <3>. QED
        BY <3>1, <3>2 DEF RasterDecodes
    <2>4. CASE UNCHANGED encoderVars \/ result' # "OK"
      BY <1>2, <2>4 DEF encoderVars, RasterDecodes
    <2>. QED
      BY <1>2, <2>1, <2>2, <2>3, <2>4 DEF EncoderNext
  <1>3. EncoderInit => Inv
    BY <1>1, EncoderStarts, KeepsUpInit
  <1>4. Inv /\ [EncoderNext]_encoderVars => Inv'
    BY <1>2, EncoderStep, KeepsUpStep
  <1>. QED
    BY <1>3, <1>4, PTL DEF EncoderSpec

--------------------------------------------------------------------------------
(* LZW_GenerateStream in one piece *)

\* The pixels before c's are colours.
PixelsColored(c, im) == \A i \in 1..(c.pos - 1) : im[i] < c.initDictLen

LEMMA MatchColored ==
    ASSUME NEW c, SizesFit(c), TreeFits(c), NEW im \in Seq(Nat), NEW p \in 1..Len(im), c.pos = p,
           NEW end \in p..Len(im), NodeAt(c, im)[end] # -1
    PROVE  \A i \in p..end : im[i] < c.initDictLen
  <1>. DEFINE node == NodeAt(c, im)
              P == {k \in Nat : p + k <= Len(im) /\ node[p + k] # -1
                                   => \A i \in p..(p + k) : im[i] < c.initDictLen}
  <1>1. /\ Len(im) \in Nat /\ p \in Nat /\ end \in Nat /\ c.initDictLen \in Nat
        /\ \A i \in p..Len(im) : im[i] \in Nat
    BY SMTT(60) DEF SizesFit
  <1>2. \A i \in p..Len(im) : node[i] =
                IF i = p THEN (IF im[p] >= c.initDictLen THEN -1 ELSE im[p])
                ELSE Reached(c, im, node[i - 1], i)
    BY NodeAtDef
  <1>. HIDE DEF node
  <1>3. 0 \in P
    <2>1. p + 0 = p /\ p \in p..Len(im) /\ \A i \in p..p : i = p
      BY <1>1
    <2>. QED
      BY <1>1, <1>2, <2>1
  <1>4. ASSUME NEW k \in Nat, k \in P PROVE k + 1 \in P
    <2>. SUFFICES ASSUME p + (k + 1) <= Len(im), node[p + (k + 1)] # -1,
                         NEW i \in p..(p + (k + 1))
                  PROVE  im[i] < c.initDictLen
      OBVIOUS
    <2>1. /\ p + (k + 1) \in p..Len(im) /\ p + (k + 1) # p
          /\ (p + (k + 1)) - 1 = p + k /\ p + k <= Len(im)
          /\ i \in p..(p + k) \/ i = p + (k + 1)
      BY <1>1
    <2>2. Reached(c, im, node[p + k], p + (k + 1)) # -1
      BY <1>2, <2>1
    <2>3. node[p + k] # -1 /\ ~(im[p + (k + 1)] >= c.initDictLen)
      BY <2>2 DEF Reached
    <2>4. \A j \in p..(p + k) : im[j] < c.initDictLen
      BY <1>4, <2>1, <2>3
    <2>5. im[p + (k + 1)] < c.initDictLen
      <3>1. im[p + (k + 1)] \in Nat
        BY <1>1, <2>1
      <3>. QED
        BY <1>1, <2>3, <3>1
    <2>. QED
      BY <2>1, <2>4, <2>5
  <1>5. Nat \subseteq P
    <2>. HIDE DEF P
    <2>. QED
      BY <1>3, <1>4, AllNat
  <1>6. end - p \in Nat /\ p + (end - p) = end
    BY <1>1
  <1>7. end - p \in P
    <2>. HIDE DEF P
    <2>. QED
      BY <1>5, <1>6
  <1>8. p + (end - p) <= Len(im) /\ node[p + (end - p)] # -1
    BY <1>1, <1>6 DEF node
  <1>. QED
    BY <1>6, <1>7, <1>8

\* A call of lzw_crawl_tree consumes the match.
LEMMA CrawlMoves ==
    ASSUME NEW c, DictInv(c), NEW im
    PROVE  CrawlTree(c, im).pos = MatchEnd(c, im) + 1
  <1>. DEFINE end == MatchEnd(c, im)
              node == NodeAt(c, im)[end]
              sent == Sent(c, Append(c.codes, node), end + 1)
  <1>1. CrawlTree(c, im) = IF end = Len(im) THEN sent
                           ELSE IF DictFull(c) THEN ResetDict(sent)
                           ELSE AddChild(sent, node, im[end + 1])
    BY Zenon DEF CrawlTree, Sent
  <1>2. SizesFit(sent) /\ sent.pos = end + 1
    <2>1. PICK x, p : x = Append(c.codes, node) /\ p = end + 1
      OBVIOUS
    <2>2. sent = Sent(c, x, p)
      BY <2>1
    <2>. HIDE DEF sent
    <2>3. DictInv(sent) /\ sent.pos = p
      BY <2>2, SentInv
    <2>. QED
      BY <2>1, <2>3 DEF DictInv
  <1>. HIDE DEF sent, node, end
  <1>3. AddChild(sent, node, im[end + 1]).pos = end + 1
    BY <1>2, AddChildKeeps
  <1>4. ResetDict(sent).pos = end + 1
    BY <1>2 DEF ResetDict, SizesFit
  <1>. QED
    BY <1>1, <1>2, <1>3, <1>4 DEF end

LEMMA ColoredKeeps ==
    ASSUME NEW c, NEW im, NEW len, EncoderAt(c, im, len), PixelsColored(c, im),
           c.pos <= Len(im), ~BadIndex(c, im), NEW d, d = CrawlTree(c, im)
    PROVE  PixelsColored(d, im)
  <1>. DEFINE end == MatchEnd(c, im)
  <1>1. /\ DictInv(c) /\ SizesFit(c) /\ TreeFits(c) /\ im \in Seq(Nat)
        /\ c.pos \in 1..Len(im) /\ c.initDictLen = InitDictLen(len)
    BY DEF EncoderAt, DictInv
  <1>2. d.pos = end + 1 /\ d.initDictLen = c.initDictLen
    BY <1>1, CrawlMoves, CrawlKeeps DEF EncoderAt
  <1>3. end \in c.pos..Len(im) /\ NodeAt(c, im)[end] # -1
    <2>1. end \in c.pos..Len(im) /\ NodeAt(c, im)[end] \in Nodes(c)
      BY <1>1, NextMatch
    <2>2. -1 \notin Nodes(c)
      BY <1>1 DEF Nodes, SizesFit
    <2>. QED
      BY <2>1, <2>2
  <1>4. \A i \in c.pos..end : im[i] < c.initDictLen
    BY <1>1, <1>3, MatchColored
  <1>5. \A i \in 1..end : i \in 1..(c.pos - 1) \/ i \in c.pos..end
    BY <1>1, <1>3
  <1>6. (end + 1) - 1 = end
    BY <1>1, <1>3
  <1>. HIDE DEF end
  <1>. QED
    BY <1>2, <1>4, <1>5, <1>6 DEF PixelsColored

\* One turn of the loop of lzw_generate, if there is one.
Turned(c, im) ==
    IF c.pos > Len(im) \/ BadIndex(c, im) THEN c ELSE CrawlTree(c, im)

IsTurns(f, im, len) ==
    f = [k \in 0..Len(im) |->
            IF k = 0 THEN Context(InitDictLen(len)) ELSE Turned(f[k - 1], im)]

LastTurn(im, len) == (CHOOSE f : IsTurns(f, im, len))[Len(im)]

LEMMA RasterIs ==
    ASSUME NEW im, NEW len
    PROVE  RasterOrError(im, len) =
              LET last == LastTurn(im, len)
                  done == IF last.pos <= Len(im) THEN last ELSE EndCode(last)
              IN  IF Overrun(done, im) THEN [result |-> "overrun", blocks |-> << >>]
                  ELSE IF last.pos <= Len(im) THEN [result |-> "EINDEX", blocks |-> << >>]
                  ELSE [result |-> "OK", blocks |-> ByteListBlock(ByteList(done.codes, len))]
  BY Zenon DEF RasterOrError, LastTurn, IsTurns, Turned

LEMMA TurnsExist ==
    ASSUME NEW im, Len(im) \in Nat, NEW len
    PROVE  \E f : IsTurns(f, im, len)
  <1>. DEFINE first == Context(InitDictLen(len))
              Upto(f, n) == f = [k \in 0..n |-> IF k = 0 THEN first ELSE Turned(f[k - 1], im)]
              P == {n \in Nat : \E f : Upto(f, n)}
  <1>. HIDE DEF first
  <1>1. 0 \in P
    <2>. DEFINE f == [k \in 0..0 |-> first]
    <2>1. Upto(f, 0)
      OBVIOUS
    <2>. HIDE DEF f, Upto
    <2>. QED
      BY <2>1
  <1>2. ASSUME NEW n \in Nat, n \in P PROVE n + 1 \in P
    <2>1. PICK f : Upto(f, n)
      BY <1>2
    <2>. DEFINE g == [k \in 0..(n + 1) |-> IF k = n + 1 THEN Turned(f[n], im) ELSE f[k]]
    <2>2. \A k \in 0..n : f[k] = IF k = 0 THEN first ELSE Turned(f[k - 1], im)
      BY <2>1
    <2>3. ASSUME NEW k \in 0..(n + 1)
          PROVE  g[k] = IF k = 0 THEN first ELSE Turned(g[k - 1], im)
      <3>1. CASE k = n + 1
        <4>1. g[k] = Turned(f[n], im) /\ k # 0 /\ k - 1 = n
          BY <3>1
        <4>2. g[n] = f[n]
          OBVIOUS
        <4>. QED
          BY <4>1, <4>2
      <3>2. CASE k # n + 1
        <4>1. k \in 0..n /\ g[k] = f[k] /\ (k # 0 => g[k - 1] = f[k - 1])
          BY <3>2
        <4>. QED
          BY <2>2, <4>1
      <3>. QED
        BY <3>1, <3>2
    <2>4. g = [k \in 0..(n + 1) |-> g[k]]
      OBVIOUS
    <2>. HIDE DEF g
    <2>5. Upto(g, n + 1)
      BY <2>3, <2>4
    <2>. HIDE DEF Upto
    <2>. QED
      BY <2>5
  <1>. HIDE DEF P
  <1>3. Nat \subseteq P
    BY <1>1, <1>2, AllNat
  <1>. QED
    BY <1>3 DEF P, IsTurns, first

\* The blocks of an image that is accepted are read as the image, and all its
\* pixels are colours.
LEMMA RasterReads ==
    ASSUME NEW im \in Seq(Nat), im # << >>, NEW len \in 3..MaxCodeLen,
           RasterOrError(im, len).result = "OK"
    PROVE  /\ LzwDecode(RasterOrError(im, len).blocks, len) = im
           /\ \A i \in 1..Len(im) : im[i] < InitDictLen(len)
  <1>. DEFINE turn == CHOOSE f : IsTurns(f, im, len)
              N == Len(im)
              last == LastTurn(im, len)
              Inv(c) == EncoderAt(c, im, len) /\ ReaderAt(c, im, len) /\ PixelsColored(c, im)
              P == {k \in Nat : k <= N => Inv(turn[k])}
  <1>1. N \in Nat
    OBVIOUS
  <1>2. IsTurns(turn, im, len)
    BY <1>1, TurnsExist
  <1>3. last = turn[N]
    BY DEF LastTurn
  <1>. HIDE DEF turn, last
  <1>4. \A k \in 0..N : turn[k] = IF k = 0 THEN Context(InitDictLen(len))
                                  ELSE Turned(turn[k - 1], im)
    BY <1>2 DEF IsTurns
  <1>. HIDE DEF N
  <1>5. 0 \in P
    <2>1. turn[0] = Context(InitDictLen(len))
      BY <1>1, <1>4
    <2>2. EncoderAt(turn[0], im, len) /\ ReaderAt(turn[0], im, len)
      BY <2>1, ContextStarts, ReaderStarts
    <2>3. turn[0].pos = 1
      BY <2>1 DEF Context, ResetDict
    <2>4. PixelsColored(turn[0], im)
      BY <2>3 DEF PixelsColored
    <2>. QED
      BY <2>2, <2>4
  <1>6. ASSUME NEW k \in Nat, k \in P PROVE k + 1 \in P
    <2>. SUFFICES ASSUME k + 1 <= N PROVE Inv(turn[k + 1])
      OBVIOUS
    <2>1. Inv(turn[k]) /\ k + 1 \in 0..N /\ k + 1 # 0 /\ (k + 1) - 1 = k
      BY <1>1, <1>6
    <2>. DEFINE c == turn[k]
                d == turn[k + 1]
    <2>2. d = Turned(c, im)
      BY <1>4, <2>1
    <2>3. Inv(c)
      BY <2>1
    <2>. HIDE DEF c, d
    <2>4. CASE c.pos > Len(im) \/ BadIndex(c, im)
      BY <2>2, <2>3, <2>4, Zenon DEF Turned, d
    <2>5. CASE ~(c.pos > Len(im) \/ BadIndex(c, im))
      <3>1. d = CrawlTree(c, im)
        BY <2>2, <2>5 DEF Turned
      <3>2. c.pos <= Len(im) /\ ~BadIndex(c, im)
        BY <2>3, <2>5 DEF EncoderAt
      <3>3. EncoderAt(d, im, len) /\ ReaderAt(d, im, len) /\ PixelsColored(d, im)
        BY <2>3, <3>1, <3>2, CrawlKeeps, ReaderKeeps, ColoredKeeps
      <3>. QED
        BY <3>3 DEF d
    <2>. QED
      BY <2>4, <2>5
  <1>7. Nat \subseteq P
    <2>. HIDE DEF P
    <2>. QED
      BY <1>5, <1>6, AllNat
  <1>8. Inv(last)
    BY <1>1, <1>3, <1>7
  <1>9. ~(last.pos <= Len(im))
    BY RasterIs DEF last
  <1>10. RasterOrError(im, len).blocks = ByteListBlock(ByteList(EndCode(last).codes, len))
    BY <1>9, RasterIs DEF last
  <1>11. last.pos \in 1..(Len(im) + 1) /\ last.initDictLen = InitDictLen(len)
    BY <1>8 DEF EncoderAt
  <1>12. last.pos > Len(im) /\ last.pos - 1 = Len(im)
    BY <1>9, <1>11
  <1>13. LzwDecode(RasterOrError(im, len).blocks, len) = im
    BY <1>8, <1>10, <1>12, PackReads
  <1>14. \A i \in 1..Len(im) : im[i] < InitDictLen(len)
    BY <1>8, <1>11, <1>12 DEF PixelsColored
  <1>. QED
    BY <1>13, <1>14

--------------------------------------------------------------------------------
(* Rows and columns *)

LEMMA Remainder ==
    ASSUME NEW a \in Nat, NEW m \in Nat, m > 0
    PROVE  /\ a % m \in 0..(m - 1)
           /\ a = (a \div m) * m + (a % m)
  OBVIOUS

\* Number i, counted from 1, is in a row and a column.
LEMMA RowColumn ==
    ASSUME NEW w \in Nat, w > 0, NEW h \in Nat, NEW i \in 1..(w * h)
    PROVE  /\ (i - 1) \div w \in 0..(h - 1)
           /\ (i - 1) % w \in 0..(w - 1)
           /\ i = ((i - 1) \div w) * w + ((i - 1) % w) + 1
  <1>. DEFINE q == (i - 1) \div w
              r == (i - 1) % w
  <1>1. i - 1 \in Nat /\ i - 1 < w * h /\ w * h \in Nat
    OBVIOUS
  <1>2. r \in 0..(w - 1) /\ i - 1 = q * w + r /\ q \in Nat
    BY <1>1, Remainder, Quotient
  <1>. HIDE DEF q, r
  <1>3. q < h
    <2>1. ASSUME q >= h PROVE FALSE
      <3>1. PICK k \in Nat : q = h + k
        <4>1. q - h \in Nat /\ q = h + (q - h)
          BY <1>2, <2>1
        <4>. QED
          BY <4>1
      <3>2. q * w = h * w + k * w /\ k * w \in Nat /\ h * w = w * h
        BY <3>1
      <3>. QED
        BY <1>1, <1>2, <3>2
    <2>. QED
      BY <1>2, <2>1
  <1>. QED
    BY <1>2, <1>3 DEF q, r

\* The number of a row and a column.
LEMMA NumberOf ==
    ASSUME NEW w \in Nat, w > 0, NEW h \in Nat, NEW q \in 0..(h - 1), NEW r \in 0..(w - 1)
    PROVE  /\ q * w + r + 1 \in 1..(w * h)
           /\ (q * w + r + 1) - 1 = q * w + r
           /\ (q * w + r) \div w = q
           /\ (q * w + r) % w = r
  <1>1. q * w \in Nat /\ r \in Nat /\ q * w + r \in Nat /\ w * h \in Nat /\ q \in Nat
    OBVIOUS
  <1>2. (q * w + r) \div w = q
    BY <1>1, QuotientIs
  <1>3. q * w + r = ((q * w + r) \div w) * w + ((q * w + r) % w) /\ (q * w + r) % w \in Int
    BY <1>1, Remainder
  <1>4. (q * w + r) % w = r
    BY <1>1, <1>2, <1>3
  <1>5. q * w + w <= w * h
    <2>1. PICK k \in Nat : h = q + 1 + k
      <3>1. h - q - 1 \in Nat /\ h = q + 1 + (h - q - 1)
        OBVIOUS
      <3>. QED
        BY <3>1
    <2>2. w * h = q * w + w + k * w /\ k * w \in Nat
      BY <2>1
    <2>. QED
      BY <1>1, <2>2
  <1>. QED
    BY <1>1, <1>2, <1>4, <1>5

--------------------------------------------------------------------------------
(* Interlaced rows *)

\* s has the n rows first, first + step, ...
RowsAre(s, first, step, n) ==
    /\ s \in Seq(Nat) /\ Len(s) = n
    /\ \A k \in 1..n : s[k] = first + (k - 1) * step

LEMMA PassIs ==
    ASSUME NEW first \in Nat, NEW step \in Nat, step > 0, NEW h \in Nat, NEW n \in Nat,
           n = (h - first + step - 1) \div step
    PROVE  RowsAre(Pass(first, step, h), first, step, n)
  <1>1. \A k \in 1..n : first + (k - 1) * step \in Nat
    OBVIOUS
  <1>2. Pass(first, step, h) = [k \in 1..n |-> first + (k - 1) * step]
    BY DEF Pass
  <1>. QED
    BY <1>1, <1>2 DEF RowsAre

\* s is followed by t in u.
JoinOf(u, s, t) ==
    /\ u \in Seq(Nat) /\ Len(u) = Len(s) + Len(t)
    /\ \A k \in 1..Len(s) : k \in 1..Len(u) /\ u[k] = s[k]
    /\ \A k \in 1..Len(t) : k + Len(s) \in 1..Len(u) /\ u[k + Len(s)] = t[k]

LEMMA Joined ==
    ASSUME NEW s \in Seq(Nat), NEW t \in Seq(Nat)
    PROVE  JoinOf(s \o t, s, t)
  <1>1. Len(s) \in Nat /\ Len(t) \in Nat
    OBVIOUS
  <1>2. s \o t \in Seq(Nat) /\ Len(s \o t) = Len(s) + Len(t)
    BY ConcatProperties
  <1>3. ASSUME NEW k \in 1..Len(s) PROVE k \in 1..Len(s \o t) /\ (s \o t)[k] = s[k]
    <2>1. k \in 1..Len(s \o t) /\ k \in 1..(Len(s) + Len(t)) /\ k <= Len(s)
      BY <1>1, <1>2
    <2>2. (s \o t)[k] = IF k <= Len(s) THEN s[k] ELSE t[k - Len(s)]
      BY <2>1, ConcatProperties
    <2>. QED
      BY <2>1, <2>2
  <1>4. ASSUME NEW k \in 1..Len(t)
        PROVE  k + Len(s) \in 1..Len(s \o t) /\ (s \o t)[k + Len(s)] = t[k]
    <2>1. /\ k + Len(s) \in 1..Len(s \o t) /\ k + Len(s) \in 1..(Len(s) + Len(t))
          /\ ~(k + Len(s) <= Len(s)) /\ (k + Len(s)) - Len(s) = k
      BY <1>1, <1>2
    <2>2. (s \o t)[k + Len(s)]
            = IF k + Len(s) <= Len(s) THEN s[k + Len(s)] ELSE t[(k + Len(s)) - Len(s)]
      BY <2>1, ConcatProperties
    <2>. QED
      BY <2>1, <2>2
  <1>. QED
    BY <1>2, <1>3, <1>4 DEF JoinOf

\* Every row is written once.
OrderOf(order, h) ==
    /\ order \in Seq(Nat) /\ Len(order) = h
    /\ \A k \in 1..h : order[k] \in 0..(h - 1)
    /\ \A row \in 0..(h - 1) : \E k \in 1..h : order[k] = row

LEMMA EveryRow ==
    ASSUME NEW h \in Nat, h > 0
    PROVE  OrderOf(RowOrder(h), h)
  <1>. DEFINE a == (h + 7) \div 8
              b == (h + 3) \div 8
              c == (h + 1) \div 4
              d == h \div 2
              A == Pass(0, 8, h)
              B == Pass(4, 8, h)
              C == Pass(2, 4, h)
              E == Pass(1, 2, h)
  <1>1. /\ a \in Nat /\ 8 * a <= h + 7 /\ h + 7 < 8 * a + 8
        /\ b \in Nat /\ 8 * b <= h + 3 /\ h + 3 < 8 * b + 8
        /\ c \in Nat /\ 4 * c <= h + 1 /\ h + 1 < 4 * c + 4
        /\ d \in Nat /\ 2 * d <= h /\ h < 2 * d + 2
    OBVIOUS
  <1>2. /\ a = (h - 0 + 8 - 1) \div 8 /\ b = (h - 4 + 8 - 1) \div 8
        /\ c = (h - 2 + 4 - 1) \div 4 /\ d = (h - 1 + 2 - 1) \div 2
    <2>1. h - 0 + 8 - 1 = h + 7 /\ h - 4 + 8 - 1 = h + 3 /\ h - 2 + 4 - 1 = h + 1 /\ h - 1 + 2 - 1 = h
      OBVIOUS
    <2>. QED
      BY <2>1
  <1>. HIDE DEF a, b, c, d
  <1>3. a + b + c + d = h
    BY <1>1
  <1>4. RowsAre(A, 0, 8, a)
    BY <1>1, <1>2, PassIs
  <1>5. RowsAre(B, 4, 8, b)
    BY <1>1, <1>2, PassIs
  <1>6. RowsAre(C, 2, 4, c)
    BY <1>1, <1>2, PassIs
  <1>7. RowsAre(E, 1, 2, d)
    BY <1>1, <1>2, PassIs
  <1>8. RowOrder(h) = A \o B \o C \o E
    BY DEF RowOrder
  <1>. HIDE DEF A, B, C, E
  <1>. DEFINE AB == A \o B
              ABC == AB \o C
              all == ABC \o E
  <1>9. JoinOf(AB, A, B)
    BY <1>4, <1>5, Joined DEF RowsAre
  <1>. HIDE DEF AB
  <1>10. JoinOf(ABC, AB, C)
    BY <1>6, <1>9, Joined DEF RowsAre, JoinOf
  <1>. HIDE DEF ABC
  <1>11. JoinOf(all, ABC, E)
    BY <1>7, <1>10, Joined DEF RowsAre, JoinOf
  <1>12. all = RowOrder(h)
    BY <1>8 DEF AB, ABC
  <1>. HIDE DEF all
  <1>a. Len(A) = a /\ Len(B) = b /\ Len(C) = c /\ Len(E) = d
    BY <1>4, <1>5, <1>6, <1>7 DEF RowsAre
  <1>b. Len(AB) = a + b /\ Len(ABC) = a + b + c /\ Len(all) = h /\ all \in Seq(Nat)
    BY <1>1, <1>3, <1>9, <1>10, <1>11, <1>a DEF JoinOf
  <1>13. \A k \in 1..a : k \in 1..h /\ all[k] = (k - 1) * 8
    <2>. TAKE k \in 1..a
    <2>1. k \in 1..(a + b) /\ k \in 1..(a + b + c) /\ k \in 1..h
      BY <1>1, <1>3
    <2>2. all[k] = ABC[k] /\ ABC[k] = AB[k] /\ AB[k] = A[k]
      BY <1>9, <1>10, <1>11, <1>a, <1>b, <2>1 DEF JoinOf
    <2>3. A[k] = 0 + (k - 1) * 8
      BY <1>4 DEF RowsAre
    <2>. QED
      BY <1>1, <2>1, <2>2, <2>3
  <1>14. \A k \in 1..b : k + a \in 1..h /\ all[k + a] = 4 + (k - 1) * 8
    <2>. TAKE k \in 1..b
    <2>1. k + a \in 1..(a + b) /\ k + a \in 1..(a + b + c) /\ k + a \in 1..h
      BY <1>1, <1>3
    <2>2. all[k + a] = ABC[k + a] /\ ABC[k + a] = AB[k + a] /\ AB[k + a] = B[k]
      BY <1>9, <1>10, <1>11, <1>a, <1>b, <2>1 DEF JoinOf
    <2>3. B[k] = 4 + (k - 1) * 8
      BY <1>5 DEF RowsAre
    <2>. QED
      BY <2>1, <2>2, <2>3
  <1>15. \A k \in 1..c : k + (a + b) \in 1..h /\ all[k + (a + b)] = 2 + (k - 1) * 4
    <2>. TAKE k \in 1..c
    <2>1. k + (a + b) \in 1..(a + b + c) /\ k + (a + b) \in 1..h
      BY <1>1, <1>3
    <2>2. all[k + (a + b)] = ABC[k + (a + b)] /\ ABC[k + (a + b)] = C[k]
      BY <1>10, <1>11, <1>a, <1>b, <2>1 DEF JoinOf
    <2>3. C[k] = 2 + (k - 1) * 4
      BY <1>6 DEF RowsAre
    <2>. QED
      BY <2>1, <2>2, <2>3
  <1>16. \A k \in 1..d : k + (a + b + c) \in 1..h /\ all[k + (a + b + c)] = 1 + (k - 1) * 2
    <2>. TAKE k \in 1..d
    <2>1. k + (a + b + c) \in 1..h
      BY <1>1, <1>3
    <2>2. all[k + (a + b + c)] = E[k]
      BY <1>11, <1>a, <1>b, <2>1 DEF JoinOf
    <2>3. E[k] = 1 + (k - 1) * 2
      BY <1>7 DEF RowsAre
    <2>. QED
      BY <2>1, <2>2, <2>3
  <1>17. ASSUME NEW k \in 1..h PROVE all[k] \in 0..(h - 1)
    <2>1. CASE k <= a
      <3>1. k \in 1..a
        BY <2>1
      <3>2. all[k] = (k - 1) * 8
        BY <1>13, <3>1
      <3>. QED
        BY <1>1, <3>1, <3>2
    <2>2. CASE ~(k <= a) /\ k <= a + b
      <3>1. k - a \in 1..b /\ (k - a) + a = k
        BY <1>1, <2>2
      <3>2. all[k] = 4 + ((k - a) - 1) * 8
        BY <1>14, <3>1
      <3>. QED
        BY <1>1, <3>1, <3>2
    <2>3. CASE ~(k <= a + b) /\ k <= a + b + c
      <3>1. k - a - b \in 1..c /\ (k - a - b) + (a + b) = k
        BY <1>1, <2>3
      <3>2. all[k] = 2 + ((k - a - b) - 1) * 4
        BY <1>15, <3>1
      <3>. QED
        BY <1>1, <3>1, <3>2
    <2>4. CASE ~(k <= a + b + c)
      <3>1. k - a - b - c \in 1..d /\ (k - a - b - c) + (a + b + c) = k
        BY <1>1, <1>3, <2>4
      <3>2. all[k] = 1 + ((k - a - b - c) - 1) * 2
        BY <1>16, <3>1
      <3>. QED
        BY <1>1, <3>1, <3>2
    <2>. QED
      BY <1>1, <2>1, <2>2, <2>3, <2>4
  <1>18. ASSUME NEW row \in 0..(h - 1) PROVE \E k \in 1..h : all[k] = row
    <2>1. row \in Nat /\ row < h
      OBVIOUS
    <2>2. \/ \E k \in 1..a : row = (k - 1) * 8
          \/ \E k \in 1..b : row = 4 + (k - 1) * 8
          \/ \E k \in 1..c : row = 2 + (k - 1) * 4
          \/ \E k \in 1..d : row = 1 + (k - 1) * 2
      <3>. DEFINE q == row \div 8
                  s == row % 8
      <3>1. q \in Nat /\ s \in 0..7 /\ row = 8 * q + s
        BY <2>1
      <3>. HIDE DEF q, s
      <3>2. CASE s = 0
        <4>1. q + 1 \in 1..a /\ row = ((q + 1) - 1) * 8
          BY <1>1, <2>1, <3>1, <3>2
        <4>. QED
          BY <4>1
      <3>3. CASE s = 4
        <4>1. q + 1 \in 1..b /\ row = 4 + ((q + 1) - 1) * 8
          BY <1>1, <2>1, <3>1, <3>3
        <4>. QED
          BY <4>1
      <3>4. CASE s = 2
        <4>1. 2 * q + 1 \in 1..c /\ row = 2 + ((2 * q + 1) - 1) * 4
          BY <1>1, <2>1, <3>1, <3>4
        <4>. QED
          BY <4>1
      <3>5. CASE s = 6
        <4>1. 2 * q + 2 \in 1..c /\ row = 2 + ((2 * q + 2) - 1) * 4
          BY <1>1, <2>1, <3>1, <3>5
        <4>. QED
          BY <4>1
      <3>6. CASE s \in {1, 3, 5, 7}
        <4>1. PICK t \in 0..3 : s = 2 * t + 1
          <5>1. s = 2 * 0 + 1 \/ s = 2 * 1 + 1 \/ s = 2 * 2 + 1 \/ s = 2 * 3 + 1
            BY <3>6
          <5>. QED
            BY <5>1
        <4>2. 4 * q + t + 1 \in 1..d /\ row = 1 + ((4 * q + t + 1) - 1) * 2
          BY <1>1, <2>1, <3>1, <4>1
        <4>. QED
          BY <4>2
      <3>. QED
        BY <3>1, <3>2, <3>3, <3>4, <3>5, <3>6
    <2>. QED
      BY <1>13, <1>14, <1>15, <1>16, <2>2
  <1>. QED
    BY <1>b, <1>12, <1>17, <1>18 DEF OrderOf

RowsBack(frame, block, read, n) ==
    /\ read \in Seq(Nat) /\ Len(read) = n
    /\ InRows(block, read) = frame.pixels
    /\ \A i \in 1..n : \E j \in 1..n : frame.pixels[i] = read[j]

\* A viewer puts the rows of an interlaced frame back in their order.
LEMMA RowsRestored ==
    ASSUME NEW frame, NEW block, NEW w \in Nat, w > 0, NEW h \in Nat, h > 0,
           frame.width = w, frame.height = h, frame.pixels \in [1..(w * h) -> Nat],
           block.width = w, block.height = h, NEW read,
           read = IF block.interlaced THEN Interlaced(frame) ELSE frame.pixels
    PROVE  RowsBack(frame, block, read, w * h)
  <1>. DEFINE order == RowOrder(block.height)
              place(row) == IF block.interlaced
                            THEN CHOOSE k \in DOMAIN order : order[k] = row ELSE row + 1
              px == frame.pixels
  <1>1. /\ order \in Seq(Nat) /\ Len(order) = h /\ DOMAIN order = 1..h
        /\ \A k \in 1..h : order[k] \in 0..(h - 1)
        /\ \A row \in 0..(h - 1) : \E k \in 1..h : order[k] = row
    <2>1. OrderOf(order, h)
      BY EveryRow
    <2>. HIDE DEF order
    <2>. QED
      BY <2>1 DEF OrderOf
  <1>2. w * h \in Nat /\ w * h # 0
    <2>1. 0 \in 0..(h - 1) /\ 0 \in 0..(w - 1)
      OBVIOUS
    <2>2. 0 * w + 0 + 1 \in 1..(w * h)
      BY <2>1, NumberOf
    <2>. QED
      BY <2>2
  <1>. HIDE DEF order
  <1>3. Interlaced(frame) = [i \in 1..(w * h) |->
              px[order[(i - 1) \div w + 1] * w + ((i - 1) % w) + 1]]
    BY DEF Interlaced, order
  <1>4. ASSUME NEW i \in 1..(w * h)
        PROVE  px[order[(i - 1) \div w + 1] * w + ((i - 1) % w) + 1] \in Nat
    <2>. DEFINE q == (i - 1) \div w
                r == (i - 1) % w
    <2>1. q \in 0..(h - 1) /\ r \in 0..(w - 1)
      BY RowColumn
    <2>. HIDE DEF q, r
    <2>2. q + 1 \in 1..h
      BY <2>1
    <2>3. order[q + 1] \in 0..(h - 1)
      BY <1>1, <2>2
    <2>4. order[q + 1] * w + r + 1 \in 1..(w * h)
      BY <2>1, <2>3, NumberOf
    <2>. QED
      BY <2>4 DEF q, r
  <1>5. Interlaced(frame) \in [1..(w * h) -> Nat]
    BY <1>3, <1>4
  <1>6. read \in [1..(w * h) -> Nat]
    BY <1>5
  <1>7. read \in Seq(Nat) /\ Len(read) = w * h /\ DOMAIN read = 1..(w * h)
    <2>. DEFINE n == w * h
    <2>1. n \in Nat /\ read \in [1..n -> Nat]
      BY <1>2, <1>6
    <2>. HIDE DEF n
    <2>2. read \in Seq(Nat) /\ Len(read) = n /\ DOMAIN read = 1..n
      BY <2>1
    <2>. QED
      BY <2>2 DEF n
  <1>8. InRows(block, read) =
            [i \in 1..(w * h) |-> read[(place((i - 1) \div w) - 1) * w + ((i - 1) % w) + 1]]
    <2>1. Len(read) = block.width * block.height
      BY <1>7
    <2>2. InRows(block, read) =
              [i \in DOMAIN read |->
                  read[(place((i - 1) \div block.width) - 1) * block.width
                          + ((i - 1) % block.width) + 1]]
      BY <2>1, Zenon DEF InRows, order
    <2>. HIDE DEF place
    <2>. QED
      BY <1>7, <2>2
  <1>9. ASSUME NEW i \in 1..(w * h)
        PROVE  /\ (place((i - 1) \div w) - 1) * w + ((i - 1) % w) + 1 \in 1..(w * h)
               /\ read[(place((i - 1) \div w) - 1) * w + ((i - 1) % w) + 1] = px[i]
    <2>. DEFINE q == (i - 1) \div w
                r == (i - 1) % w
                k == place(q)
    <2>1. q \in 0..(h - 1) /\ r \in 0..(w - 1) /\ i = q * w + r + 1
      BY RowColumn
    <2>. HIDE DEF q, r
    <2>2. CASE ~block.interlaced
      <3>1. k = q + 1 /\ (q + 1) - 1 = q
        BY <2>1, <2>2
      <3>2. read[q * w + r + 1] = px[i] /\ q * w + r + 1 \in 1..(w * h)
        BY <2>1, <2>2
      <3>. QED
        BY <3>1, <3>2 DEF q, r
    <2>3. CASE block.interlaced
      <3>1. k \in 1..h /\ order[k] = q
        BY <1>1, <2>1, <2>3
      <3>. HIDE DEF k
      <3>2. k - 1 \in 0..(h - 1) /\ (k - 1) + 1 = k
        BY <3>1
      <3>. DEFINE j == (k - 1) * w + r + 1
      <3>3. /\ j \in 1..(w * h) /\ j - 1 = (k - 1) * w + r
            /\ ((k - 1) * w + r) \div w = k - 1 /\ ((k - 1) * w + r) % w = r
        <4>1. /\ (k - 1) * w + r + 1 \in 1..(w * h)
              /\ ((k - 1) * w + r + 1) - 1 = (k - 1) * w + r
              /\ ((k - 1) * w + r) \div w = k - 1 /\ ((k - 1) * w + r) % w = r
          <5>1. ASSUME NEW t \in 0..(h - 1)
                PROVE  /\ t * w + r + 1 \in 1..(w * h)
                       /\ (t * w + r + 1) - 1 = t * w + r
                       /\ (t * w + r) \div w = t /\ (t * w + r) % w = r
            BY ZenonT(40), <2>1, NumberOf
          <5>. QED
            BY <3>2, <5>1
        <4>. QED
          BY <4>1
      <3>. HIDE DEF j
      <3>4. read[j] = px[order[(j - 1) \div w + 1] * w + ((j - 1) % w) + 1]
        BY <1>3, <2>3, <3>3
      <3>5. read[j] = px[order[(k - 1) + 1] * w + r + 1]
        BY <3>3, <3>4
      <3>6. read[j] = px[q * w + r + 1]
        BY <3>1, <3>2, <3>5
      <3>. QED
        BY <2>1, <3>3, <3>6 DEF j, k, q, r
    <2>. QED
      BY <2>2, <2>3
  <1>10. InRows(block, read) = [i \in 1..(w * h) |-> px[i]]
    <2>. DEFINE Source(i) == (place((i - 1) \div w) - 1) * w + ((i - 1) % w) + 1
    <2>1. InRows(block, read) = [i \in 1..(w * h) |-> read[Source(i)]]
      BY Zenon, <1>8
    <2>2. \A i \in 1..(w * h) : read[Source(i)] = px[i]
      BY Zenon, <1>9
    <2>. HIDE DEF Source
    <2>. QED
      BY <2>1, <2>2
  <1>11. \A i \in 1..(w * h) : \E j \in 1..(w * h) : px[i] = read[j]
    <2>. HIDE DEF place
    <2>. QED
      BY <1>9
  <1>12. px = [i \in 1..(w * h) |-> px[i]]
    OBVIOUS
  <1>. QED
    BY <1>7, <1>10, <1>11, <1>12 DEF RowsBack

--------------------------------------------------------------------------------
(* Tables and the length of their codes *)

\* The exponent is the least one.
LEMMA PowerFor ==
    ASSUME NEW n \in Nat
    PROVE  /\ NextPower2Ex(n) \in 0..n /\ n <= Pow2[NextPower2Ex(n)]
           /\ \A k \in Nat : n <= Pow2[k] => NextPower2Ex(n) <= k
  <1>. DEFINE T == {k \in Nat : n <= Pow2[k]}
              e == NextPower2Ex(n)
  <1>1. n \in T
    BY Pow2Grows
  <1>2. PICK m \in T : \A k \in T : m <= k
    BY <1>1, LeastNat
  <1>3. m \in 0..n /\ n <= Pow2[m]
    BY <1>1, <1>2
  <1>4. ASSUME NEW j \in 0..(m - 1) PROVE Pow2[j] < n
    <2>1. j \in Nat /\ m \in Nat /\ ~(m <= j)
      OBVIOUS
    <2>2. j \notin T
      BY <1>2, <2>1
    <2>. QED
      BY <2>1, <2>2, Pow2Grows
  <1>5. e \in 0..n /\ n <= Pow2[e] /\ \A j \in 0..(e - 1) : Pow2[j] < n
    BY <1>3, <1>4, Zenon DEF NextPower2Ex
  <1>. HIDE DEF e
  <1>6. ASSUME NEW k \in Nat, n <= Pow2[k] PROVE e <= k
    <2>1. ASSUME k < e PROVE FALSE
      <3>1. k \in 0..(e - 1)
        BY <1>5, <2>1
      <3>. QED
        BY <1>5, <1>6, <3>1, Pow2Grows
    <2>. QED
      BY <1>5, <2>1
  <1>. QED
    BY <1>5, <1>6 DEF e

\* The largest table has a power of two of entries.
LEMMA TableMax ==
    \E k \in 2..(MaxCodeLen - 1) : MaxTable = Pow2[k]
  BY RawAssumption

LEMMA TableMaxNat == MaxTable \in Nat /\ 4 <= MaxTable
  <1>1. PICK k \in 2..(MaxCodeLen - 1) : MaxTable = Pow2[k]
    BY TableMax
  <1>2. MaxCodeLen \in Nat
    BY LzwAssumption
  <1>3. k \in Nat /\ 2 <= k
    BY <1>2
  <1>4. Pow2[2] = 4
    <2>1. Pow2[0 + 1] = 2 * Pow2[0] /\ Pow2[1 + 1] = 2 * Pow2[1]
      BY Pow2Step
    <2>. QED
      BY <2>1, Pow2Step
  <1>5. Pow2[2] <= Pow2[k]
    BY <1>3, Pow2Monotone
  <1>. QED
    BY <1>1, <1>3, <1>4, <1>5, Pow2Grows

\* Codes for a table are not too long.
LEMMA TableCodes ==
    ASSUME NEW n \in Nat, n <= MaxTable
    PROVE  InitCodeLen(n) \in 3..MaxCodeLen
  <1>1. PICK k \in 2..(MaxCodeLen - 1) : MaxTable = Pow2[k]
    BY TableMax
  <1>2. MaxCodeLen \in Nat /\ ~(MaxCodeLen \in 0..3)
    BY LzwAssumption
  <1>3. k \in Nat /\ k <= MaxCodeLen - 1 /\ 4 <= MaxCodeLen
    BY <1>2
  <1>. DEFINE e == NextPower2Ex(n)
  <1>4. e \in Nat /\ e <= k
    <2>1. e \in 0..n /\ \A j \in Nat : n <= Pow2[j] => e <= j
      BY PowerFor
    <2>. HIDE DEF e
    <2>. QED
      BY <1>1, <1>3, <2>1
  <1>5. InitCodeLen(n) = IF e < 3 THEN 3 ELSE e + 1
    BY DEF InitCodeLen
  <1>. HIDE DEF e
  <1>6. CASE e < 3
    BY <1>2, <1>3, <1>5, <1>6
  <1>7. CASE ~(e < 3)
    BY <1>2, <1>3, <1>4, <1>5, <1>7
  <1>. QED
    BY <1>4, <1>6, <1>7

\* t is the table, filled up.
LEMMA PaddedIs ==
    ASSUME NEW t \in Seq(RGB)
    PROVE  /\ Padded(t) \in Seq(RGB) /\ Padded(t) # << >> /\ Len(t) <= Len(Padded(t))
           /\ \A i \in 1..Len(t) : Padded(t)[i] = t[i]
  <1>. DEFINE size == Pow2[NextPower2Ex(Len(t))]
              n == IF size < 2 THEN 2 ELSE size
              pad == [i \in 1..n |-> IF i <= Len(t) THEN t[i] ELSE Black]
  <1>1. Len(t) \in Nat /\ \A i \in 1..Len(t) : t[i] \in RGB
    OBVIOUS
  <1>2. size \in Nat /\ Len(t) <= size
    BY <1>1, PowerFor, Pow2Grows
  <1>3. Padded(t) = pad
    BY DEF Padded
  <1>. HIDE DEF size
  <1>4. n \in Nat /\ n # 0 /\ Len(t) <= n
    BY <1>1, <1>2
  <1>. HIDE DEF n
  <1>5. \A i \in 1..n : (IF i <= Len(t) THEN t[i] ELSE Black) \in RGB
    <2>. TAKE i \in 1..n
    <2>1. CASE i <= Len(t)
      BY <1>1, <1>4, <2>1
    <2>2. CASE ~(i <= Len(t))
      BY <2>2, RawAssumption
    <2>. QED
      BY <2>1, <2>2
  <1>6. pad \in Seq(RGB) /\ Len(pad) = n
    BY <1>4, <1>5
  <1>7. \A i \in 1..Len(t) : pad[i] = t[i]
    BY <1>1, <1>4
  <1>8. pad # << >>
    <2>. HIDE DEF pad
    <2>. QED
      BY <1>4, <1>6
  <1>. QED
    BY <1>3, <1>4, <1>6, <1>7, <1>8

\* The transparent index cgif picks lies beyond the table.
LEMMA FreeIndexIs ==
    ASSUME NEW n \in Nat, n < MaxTable
    PROVE  FreeIndex(n) \in n..(MaxTable - 1)
  <1>1. PICK m \in 2..(MaxCodeLen - 1) : MaxTable = Pow2[m]
    BY TableMax
  <1>2. m \in Nat /\ 2 <= m
    BY LzwAssumption
  <1>. DEFINE e == NextPower2Ex(n)
              k == IF e < 2 THEN 2 ELSE e
              x == IF Pow2[k] - 1 < n THEN Pow2[k + 1] - 1 ELSE Pow2[k] - 1
  <1>3. e \in Nat /\ n <= Pow2[e] /\ \A j \in Nat : n <= Pow2[j] => e <= j
    BY PowerFor
  <1>4. FreeIndex(n) = x % MaxTable
    BY Zenon DEF FreeIndex
  <1>. HIDE DEF e
  <1>5. k \in Nat /\ k <= m /\ e <= k /\ 2 <= k
    <2>1. n <= Pow2[m]
      BY <1>1, <1>2, Pow2Grows
    <2>2. e <= m
      BY <1>2, <1>3, <2>1
    <2>. QED
      BY <1>2, <1>3, <2>2
  <1>. HIDE DEF k
  <1>6. Pow2[k] \in Nat /\ Pow2[e] \in Nat /\ Pow2[m] \in Nat /\ Pow2[k + 1] = 2 * Pow2[k] /\ Pow2[e] <= Pow2[k] /\ Pow2[k] <= Pow2[m]
    BY <1>2, <1>3, <1>5, Pow2Step, Pow2Grows, Pow2Monotone
  <1>7. Pow2[k] # 0
    BY <1>5, Pow2Grows
  <1>8. x \in n..(MaxTable - 1)
    <2>1. CASE ~(Pow2[k] - 1 < n)
      BY <1>1, <1>6, <1>7, <2>1, TableMaxNat
    <2>2. CASE Pow2[k] - 1 < n
      <3>1. Pow2[k] = n /\ x = Pow2[k + 1] - 1
        BY <1>3, <1>6, <2>2
      <3>2. k < m
        BY <1>1, <1>2, <1>5, <3>1
      <3>3. Pow2[k + 1] <= Pow2[m] /\ Pow2[k + 1] \in Nat
        BY <1>2, <1>5, <3>2, Pow2Monotone, Pow2Grows
      <3>. HIDE DEF x
      <3>. QED
        BY <1>1, <1>6, <1>7, <3>1, <3>3, TableMaxNat
    <2>. QED
      BY <2>1, <2>2
  <1>. HIDE DEF x
  <1>9. x % MaxTable = x
    BY <1>8, TableMaxNat
  <1>. QED
    BY <1>4, <1>8, <1>9

--------------------------------------------------------------------------------
(* Pixels and windows *)

LEMMA SizesNat == Width \in Nat /\ Height \in Nat /\ Width > 0 /\ Height > 0
  BY CgifAssumption

\* Every pixel is in a row and a column, and every place has a pixel.
LEMMA PixelPlace ==
    ASSUME NEW p \in Pixels
    PROVE  /\ Row(p) \in 0..(Height - 1) /\ Column(p) \in 0..(Width - 1)
           /\ p = Row(p) * Width + Column(p) + 1
  <1>1. p \in 1..(Width * Height)
    BY DEF Pixels
  <1>. QED
    BY <1>1, SizesNat, RowColumn DEF Row, Column

LEMMA PlacePixel ==
    ASSUME NEW row \in 0..(Height - 1), NEW col \in 0..(Width - 1)
    PROVE  row * Width + col + 1 \in Pixels
  BY SizesNat, NumberOf DEF Pixels

\* A window within the picture.
WindowFits(w) ==
    /\ w.left \in Nat /\ w.top \in Nat /\ w.width \in Nat /\ w.height \in Nat
    /\ w.width > 0 /\ w.height > 0
    /\ w.left + w.width <= Width /\ w.top + w.height <= Height

InWindow(w, p) ==
    /\ Row(p) - w.top \in 0..(w.height - 1)
    /\ Column(p) - w.left \in 0..(w.width - 1)

\* The window's i-th pixel, as a pixel of the picture, and the other way round.
At(w, i) == (w.top + (i - 1) \div w.width) * Width + w.left + ((i - 1) % w.width) + 1
IndexIn(w, p) == (Row(p) - w.top) * w.width + Column(p) - w.left + 1

LEMMA WindowPixel ==
    ASSUME NEW w, WindowFits(w), NEW i \in 1..(w.width * w.height)
    PROVE  At(w, i) \in Pixels
  <1>. DEFINE ww == w.width
              hh == w.height
              q == (i - 1) \div ww
              r == (i - 1) % ww
  <1>1. /\ ww \in Nat /\ hh \in Nat /\ ww > 0 /\ hh > 0 /\ w.left \in Nat /\ w.top \in Nat
        /\ w.left + ww <= Width /\ w.top + hh <= Height
    BY DEF WindowFits
  <1>2. q \in 0..(hh - 1) /\ r \in 0..(ww - 1)
    BY <1>1, RowColumn
  <1>. HIDE DEF q, r, ww, hh
  <1>3. w.top + q \in 0..(Height - 1) /\ w.left + r \in 0..(Width - 1)
    BY <1>1, <1>2, SizesNat
  <1>4. (w.top + q) * Width + (w.left + r) + 1 \in Pixels
    BY <1>3, PlacePixel
  <1>5. (w.top + q) * Width \in Int /\ r \in Int
    BY <1>1, <1>2, SizesNat
  <1>6. At(w, i) = (w.top + q) * Width + w.left + r + 1
    BY DEF At, q, r, ww
  <1>7. (w.top + q) * Width + (w.left + r) + 1 = (w.top + q) * Width + w.left + r + 1
    BY <1>1, <1>5
  <1>. QED
    BY <1>4, <1>6, <1>7

LEMMA WindowIndex ==
    ASSUME NEW w, WindowFits(w), NEW p \in Pixels, InWindow(w, p)
    PROVE  IndexIn(w, p) \in 1..(w.width * w.height) /\ At(w, IndexIn(w, p)) = p
  <1>. DEFINE ww == w.width
              hh == w.height
              q == Row(p) - w.top
              r == Column(p) - w.left
              i == q * ww + r + 1
  <1>1. /\ ww \in Nat /\ hh \in Nat /\ ww > 0 /\ hh > 0 /\ w.left \in Nat /\ w.top \in Nat
    BY DEF WindowFits
  <1>2. q \in 0..(hh - 1) /\ r \in 0..(ww - 1)
    BY DEF InWindow
  <1>3. /\ Row(p) \in Nat /\ Column(p) \in Nat /\ p = Row(p) * Width + Column(p) + 1
    BY PixelPlace, SizesNat
  <1>4. w.top + q = Row(p) /\ w.left + r = Column(p)
    BY <1>1, <1>3
  <1>5. IndexIn(w, p) = q * ww + Column(p) - w.left + 1
    BY DEF IndexIn
  <1>. HIDE DEF q, ww, hh
  <1>6. q * ww \in Int
    BY <1>1, <1>2
  <1>7. IndexIn(w, p) = i
    BY <1>1, <1>3, <1>5, <1>6
  <1>. HIDE DEF r
  <1>8. i \in 1..(ww * hh) /\ (i - 1) \div ww = q /\ (i - 1) % ww = r
    <2>1. /\ q * ww + r + 1 \in 1..(ww * hh) /\ (q * ww + r + 1) - 1 = q * ww + r
          /\ (q * ww + r) \div ww = q /\ (q * ww + r) % ww = r
      BY <1>1, <1>2, NumberOf
    <2>. QED
      BY <2>1
  <1>. HIDE DEF i
  <1>9. At(w, i) = (w.top + (i - 1) \div ww) * Width + w.left + ((i - 1) % ww) + 1
    BY DEF At, ww
  <1>10. At(w, i) = (w.top + q) * Width + w.left + r + 1
    BY <1>8, <1>9
  <1>11. At(w, i) = Row(p) * Width + w.left + r + 1 /\ Row(p) * Width \in Int /\ r \in Int
    BY <1>2, <1>3, <1>4, <1>10, SizesNat
  <1>12. At(w, i) = p
    BY <1>1, <1>3, <1>4, <1>11
  <1>. QED
    BY <1>7, <1>8, <1>12 DEF ww, hh

LEMMA WholeWindow == WindowFits(Whole) /\ \A p \in Pixels : InWindow(Whole, p)
  <1>1. Whole.left = 0 /\ Whole.top = 0 /\ Whole.width = Width /\ Whole.height = Height
    BY DEF Whole
  <1>2. WindowFits(Whole)
    BY <1>1, SizesNat DEF WindowFits
  <1>3. ASSUME NEW p \in Pixels PROVE InWindow(Whole, p)
    <2>1. Row(p) \in 0..(Height - 1) /\ Column(p) \in 0..(Width - 1)
      BY PixelPlace
    <2>2. Row(p) - 0 = Row(p) /\ Column(p) - 0 = Column(p)
      BY <2>1, SizesNat
    <2>. QED
      BY <1>1, <2>1, <2>2 DEF InWindow
  <1>. QED
    BY <1>2, <1>3

LEMMA LeastIs ==
    ASSUME NEW T, T \subseteq Nat, T # {}
    PROVE  Min(T) \in T /\ \A k \in T : Min(T) <= k
  <1>1. \E m \in T : \A k \in T : m <= k
    BY LeastNat
  <1>. QED
    BY <1>1, Zenon DEF Min

LEMMA GreatestIs ==
    ASSUME NEW n \in Nat, NEW T, T \subseteq 0..n, T # {}
    PROVE  Max(T) \in T /\ \A k \in T : Max(T) >= k
  <1>. DEFINE S == {n - k : k \in T}
  <1>1. S \subseteq Nat /\ S # {}
    <2>1. \A k \in T : n - k \in Nat
      OBVIOUS
    <2>2. S \subseteq Nat
      BY <2>1
    <2>3. S # {}
      OBVIOUS
    <2>. QED
      BY <2>2, <2>3
  <1>2. \A k \in T : n - k \in S
    OBVIOUS
  <1>3. PICK s \in S : \A k \in S : s <= k
    <2>. HIDE DEF S
    <2>. QED
      BY <1>1, LeastNat
  <1>4. PICK m \in T : s = n - m
    OBVIOUS
  <1>. HIDE DEF S
  <1>5. \A k \in T : m >= k
    <2>. TAKE k \in T
    <2>1. n - m <= n - k
      BY <1>2, <1>3, <1>4
    <2>2. m \in 0..n /\ k \in 0..n
      OBVIOUS
    <2>. QED
      BY <2>1, <2>2
  <1>. QED
    BY <1>5, Zenon DEF Max

\* The window that is written has all that changed.
LEMMA DiffWindowFits ==
    ASSUME NEW cur, NEW bef
    PROVE  /\ WindowFits(DiffWindow(cur, bef))
           /\ \A p \in Changed(cur, bef) : InWindow(DiffWindow(cur, bef), p)
  <1>. DEFINE C == Changed(cur, bef)
              rows == {Row(p) : p \in C}
              cols == {Column(p) : p \in C}
              w == DiffWindow(cur, bef)
              l == Min(cols)
              t == Min(rows)
              r == Max(cols)
              b == Max(rows)
  <1>1. C \subseteq Pixels
    BY DEF Changed
  <1>2. w = IF rows = {} THEN [left |-> 0, top |-> 0, width |-> 1, height |-> 1]
            ELSE [left |-> l, top |-> t, width |-> r + 1 - l, height |-> b + 1 - t]
    BY Zenon DEF DiffWindow
  <1>. HIDE DEF C
  <1>3. rows \subseteq 0..(Height - 1) /\ cols \subseteq 0..(Width - 1)
    BY <1>1, PixelPlace
  <1>4. (rows = {} <=> C = {}) /\ (cols = {} <=> C = {})
    OBVIOUS
  <1>5. \A p \in C : Row(p) \in rows /\ Column(p) \in cols
    OBVIOUS
  <1>. HIDE DEF rows, cols, w
  <1>6. CASE C = {}
    <2>1. w.left = 0 /\ w.top = 0 /\ w.width = 1 /\ w.height = 1
      BY <1>2, <1>4, <1>6
    <2>2. WindowFits(w)
      BY <2>1, SizesNat DEF WindowFits
    <2>. QED
      BY <1>6, <2>2 DEF w, C
  <1>7. CASE C # {}
    <2>1. w.left = l /\ w.top = t /\ w.width = r + 1 - l /\ w.height = b + 1 - t
      BY <1>2, <1>4, <1>7
    <2>2. Height - 1 \in Nat /\ Width - 1 \in Nat /\ rows \subseteq Nat /\ cols \subseteq Nat
      BY <1>3, SizesNat
    <2>3. /\ l \in cols /\ t \in rows /\ r \in cols /\ b \in rows
          /\ \A k \in cols : l <= k /\ r >= k
          /\ \A k \in rows : t <= k /\ b >= k
      BY <1>3, <1>4, <1>7, <2>2, LeastIs, GreatestIs
    <2>. HIDE DEF l, t, r, b
    <2>4. /\ l \in 0..(Width - 1) /\ r \in 0..(Width - 1) /\ l <= r
          /\ t \in 0..(Height - 1) /\ b \in 0..(Height - 1) /\ t <= b
      BY <1>3, <2>3
    <2>5. WindowFits(w)
      BY <2>1, <2>4, SizesNat DEF WindowFits
    <2>6. ASSUME NEW p \in C PROVE InWindow(w, p)
      <3>1. l <= Column(p) /\ r >= Column(p) /\ t <= Row(p) /\ b >= Row(p)
        BY <1>5, <2>3
      <3>2. Row(p) \in 0..(Height - 1) /\ Column(p) \in 0..(Width - 1)
        BY <1>1, PixelPlace
      <3>. QED
        BY <2>1, <2>4, <3>1, <3>2, SizesNat DEF InWindow
    <2>. QED
      BY <2>5, <2>6 DEF w, C
  <1>. QED
    BY <1>6, <1>7

--------------------------------------------------------------------------------
(* Frames *)

FrameConfigs ==
    [attr : SUBSET {"LOCAL_TABLE", "INTERLACED", "ALPHA", "SET_TRANS"},
     gen : SUBSET {"USE_TRANSPARENCY", "DIFF_WINDOW"},
     palette : Seq(RGB), pixels : [Pixels -> 0..(MaxTable - 1)],
     delay : 0..MaxDelay, transIndex : 0..(MaxTable - 1)]

\* A frame that waits differs from the one that was added in its delay and in
\* the optimizations it may still get.
StandsFor(f, g) ==
    /\ f.attr = g.attr /\ f.palette = g.palette
    /\ f.pixels = g.pixels /\ f.transIndex = g.transIndex

\* f stands for one of the frames F that a program adds to a GIF as it should.
FrameOf(F, c, f) ==
    /\ c \in Configs /\ f \in FrameConfigs
    /\ F \subseteq FramesFor(c) /\ ProperFrames(c, F)
    /\ \E g \in F : ~InvalidIn(c, g) /\ StandsFor(f, g)

\* What follows from a frame for its colours.
FrameFits(c, f) ==
    /\ TableIn(c, f) \in Seq(RGB) /\ TableIn(c, f) # << >>
    /\ "LOCAL_TABLE" \in f.attr => f.palette # << >>
    /\ "LOCAL_TABLE" \notin f.attr => "NO_GLOBAL_TABLE" \notin c.attr /\ c.palette # << >>
    /\ ~InvalidIn(c, f)
    /\ \A p \in Pixels :
          \/ Keeps(f, f.pixels[p]) \/ SeenThrough(c, f, f.pixels[p])
          \/ f.pixels[p] < Len(TableIn(c, f)) \/ Refused(c, f, f.pixels[p])

Solid(c, f, p) == f.pixels[p] < Len(TableIn(c, f)) /\ ~Keeps(f, f.pixels[p])
Color(c, f, p) == TableIn(c, f)[f.pixels[p] + 1]

LEMMA StandsAlike ==
    ASSUME NEW c, NEW f, NEW g, StandsFor(f, g)
    PROVE  /\ TableIn(c, f) = TableIn(c, g) /\ InvalidIn(c, f) = InvalidIn(c, g)
           /\ \A x : /\ Keeps(f, x) = Keeps(g, x) /\ SeenThrough(c, f, x) = SeenThrough(c, g, x)
                     /\ Refused(c, f, x) = Refused(c, g, x)
           /\ \A p : Solid(c, f, p) = Solid(c, g, p) /\ Color(c, f, p) = Color(c, g, p)
  <1>1. f.attr = g.attr /\ f.palette = g.palette /\ f.pixels = g.pixels /\ f.transIndex = g.transIndex
    BY DEF StandsFor
  <1>2. TableIn(c, f) = TableIn(c, g)
    BY <1>1 DEF TableIn
  <1>3. InvalidIn(c, f) = InvalidIn(c, g)
    BY <1>1 DEF InvalidIn, AlphaIn
  <1>4. ASSUME NEW x
        PROVE  /\ Keeps(f, x) = Keeps(g, x) /\ SeenThrough(c, f, x) = SeenThrough(c, g, x)
               /\ Refused(c, f, x) = Refused(c, g, x)
    BY <1>1, <1>2 DEF Keeps, SeenThrough, Refused
  <1>5. ASSUME NEW p PROVE Solid(c, f, p) = Solid(c, g, p) /\ Color(c, f, p) = Color(c, g, p)
    BY <1>1, <1>2, <1>4 DEF Solid, Color
  <1>. QED
    BY <1>2, <1>3, <1>4, <1>5

LEMMA FrameFacts ==
    ASSUME NEW F, NEW c, NEW f, FrameOf(F, c, f)
    PROVE  FrameFits(c, f)
  <1>1. PICK g \in F : ~InvalidIn(c, g) /\ StandsFor(f, g)
    BY DEF FrameOf
  <1>2. c \in Configs /\ f \in FrameConfigs /\ g \in FramesFor(c) /\ ProperFrames(c, F)
    BY <1>1 DEF FrameOf
  <1>3. /\ c.palette \in Seq(RGB) /\ ("NO_GLOBAL_TABLE" \in c.attr \/ c.palette # << >>)
        /\ "LOCAL_TABLE" \in g.attr => g.palette # << >>
    BY <1>1, <1>2, CgifAssumption
  <1>4. f.attr = g.attr /\ f.palette = g.palette /\ f.pixels = g.pixels /\ f.transIndex = g.transIndex
    BY <1>1 DEF StandsFor
  <1>5. f.palette \in Seq(RGB)
    BY <1>2 DEF FrameConfigs
  <1>6. ~InvalidIn(c, f)
    BY <1>1, StandsAlike
  <1>7. "LOCAL_TABLE" \notin f.attr => "NO_GLOBAL_TABLE" \notin c.attr
    BY <1>6 DEF InvalidIn
  <1>8. TableIn(c, f) \in Seq(RGB) /\ TableIn(c, f) # << >>
    BY <1>3, <1>4, <1>5, <1>7 DEF TableIn
  <1>9. ASSUME NEW p \in Pixels
        PROVE  \/ Keeps(f, f.pixels[p]) \/ SeenThrough(c, f, f.pixels[p])
               \/ f.pixels[p] < Len(TableIn(c, f)) \/ Refused(c, f, f.pixels[p])
    <2>1. \/ Keeps(g, g.pixels[p]) \/ SeenThrough(c, g, g.pixels[p])
          \/ g.pixels[p] < Len(TableIn(c, g)) \/ Refused(c, g, g.pixels[p])
      BY <1>1, <1>2 DEF ProperFrames, Indexed
    <2>2. f.pixels[p] = g.pixels[p]
      BY <1>4
    <2>3. /\ TableIn(c, f) = TableIn(c, g)
          /\ Keeps(f, f.pixels[p]) = Keeps(g, f.pixels[p])
          /\ SeenThrough(c, f, f.pixels[p]) = SeenThrough(c, g, f.pixels[p])
          /\ Refused(c, f, f.pixels[p]) = Refused(c, g, f.pixels[p])
      BY <1>1, StandsAlike
    <2>. QED
      BY <2>1, <2>2, <2>3
  <1>. QED
    BY <1>3, <1>4, <1>6, <1>7, <1>8, <1>9 DEF FrameFits

\* A colour is transparent in every frame or in none.
LEMMA ColorsApart ==
    ASSUME NEW F, NEW c, NEW f, NEW g, FrameOf(F, c, f), FrameOf(F, c, g), NEW p \in Pixels,
           Solid(c, f, p), Solid(c, g, p), Color(c, f, p) = Color(c, g, p),
           SeenThrough(c, f, f.pixels[p])
    PROVE  SeenThrough(c, g, g.pixels[p])
  <1>1. PICK ff \in F : ~InvalidIn(c, ff) /\ StandsFor(f, ff)
    BY DEF FrameOf
  <1>2. PICK gg \in F : ~InvalidIn(c, gg) /\ StandsFor(g, gg)
    BY DEF FrameOf
  <1>3. f.pixels[p] = ff.pixels[p] /\ g.pixels[p] = gg.pixels[p]
    BY <1>1, <1>2 DEF StandsFor
  <1>4. /\ Solid(c, ff, p) /\ Solid(c, gg, p) /\ Color(c, ff, p) = Color(c, gg, p)
        /\ SeenThrough(c, ff, ff.pixels[p])
    <2>1. Solid(c, ff, p) = Solid(c, f, p) /\ Color(c, f, p) = Color(c, ff, p)
      BY <1>1, StandsAlike
    <2>2. Solid(c, gg, p) = Solid(c, g, p) /\ Color(c, g, p) = Color(c, gg, p)
      BY <1>2, StandsAlike
    <2>3. SeenThrough(c, f, f.pixels[p]) = SeenThrough(c, ff, f.pixels[p])
      BY <1>1, StandsAlike
    <2>. QED
      BY <1>3, <2>1, <2>2, <2>3
  <1>5. Apart(c, ff, gg)
    BY <1>1, <1>2 DEF FrameOf, ProperFrames
  <1>6. SeenThrough(c, gg, gg.pixels[p])
    BY <1>4, <1>5 DEF Solid, Color, Apart
  <1>7. SeenThrough(c, g, g.pixels[p]) = SeenThrough(c, gg, g.pixels[p])
    BY <1>2, StandsAlike
  <1>. QED
    BY <1>3, <1>6, <1>7

--------------------------------------------------------------------------------
(* The pictures that frames stand for *)

Pictures == [Pixels -> RGB \union {Clear}]

MeantIn(c, f, bef) ==
    [p \in Pixels |->
        IF Keeps(f, f.pixels[p]) THEN bef[p]
        ELSE IF SeenThrough(c, f, f.pixels[p]) \/ f.pixels[p] >= Len(TableIn(c, f)) THEN Clear
        ELSE TableIn(c, f)[f.pixels[p] + 1]]

LEMMA PixelRange ==
    ASSUME NEW f \in FrameConfigs, NEW p \in Pixels
    PROVE  f.pixels[p] \in Nat /\ f.pixels[p] < MaxTable
  <1>1. f.pixels \in [Pixels -> 0..(MaxTable - 1)]
    BY DEF FrameConfigs
  <1>2. f.pixels[p] \in 0..(MaxTable - 1)
    BY <1>1
  <1>. QED
    BY <1>2, TableMaxNat

LEMMA MeantPicture ==
    ASSUME NEW F, NEW c, NEW f, FrameOf(F, c, f), NEW bef \in Pictures
    PROVE  MeantIn(c, f, bef) \in Pictures
  <1>1. FrameFits(c, f) /\ f \in FrameConfigs
    BY FrameFacts DEF FrameOf
  <1>. DEFINE t == TableIn(c, f)
              v(p) == IF Keeps(f, f.pixels[p]) THEN bef[p]
                      ELSE IF SeenThrough(c, f, f.pixels[p]) \/ f.pixels[p] >= Len(t) THEN Clear
                      ELSE t[f.pixels[p] + 1]
  <1>2. t \in Seq(RGB)
    BY <1>1 DEF FrameFits
  <1>. HIDE DEF t
  <1>3. ASSUME NEW p \in Pixels PROVE v(p) \in RGB \union {Clear}
    <2>1. CASE Keeps(f, f.pixels[p])
      <3>1. bef[p] \in RGB \union {Clear}
        BY DEF Pictures
      <3>. QED
        BY <2>1, <3>1
    <2>2. CASE ~Keeps(f, f.pixels[p]) /\ (SeenThrough(c, f, f.pixels[p]) \/ f.pixels[p] >= Len(t))
      BY <2>2
    <2>3. CASE ~Keeps(f, f.pixels[p]) /\ ~(SeenThrough(c, f, f.pixels[p]) \/ f.pixels[p] >= Len(t))
      <3>1. f.pixels[p] \in Nat
        BY <1>1, PixelRange
      <3>2. f.pixels[p] + 1 \in 1..Len(t)
        BY <1>2, <2>3, <3>1
      <3>3. t[f.pixels[p] + 1] \in RGB
        BY <1>2, <3>2
      <3>. QED
        BY <2>3, <3>3
    <2>. QED
      BY <2>1, <2>2, <2>3
  <1>4. MeantIn(c, f, bef) = [p \in Pixels |-> v(p)]
    BY DEF MeantIn, t
  <1>. HIDE DEF v
  <1>. QED
    BY <1>3, <1>4 DEF Pictures

\* Where two frames are taken for equal, the second one leaves the picture as it is.
LEMMA SameMeans ==
    ASSUME NEW F, NEW cur, NEW bef, FrameOf(F, config, cur), FrameOf(F, config, bef),
           NEW R, NEW p \in Pixels,
           SamePixel(cur, bef, cur.pixels[p], bef.pixels[p])
    PROVE  MeantIn(config, cur, MeantIn(config, bef, R))[p] = MeantIn(config, bef, R)[p]
  <1>. DEFINE x == cur.pixels[p]
              y == bef.pixels[p]
              B == MeantIn(config, bef, R)
              t == TableIn(config, cur)
              u == TableIn(config, bef)
  <1>1. B[p] = IF Keeps(bef, y) THEN R[p]
               ELSE IF SeenThrough(config, bef, y) \/ y >= Len(u) THEN Clear ELSE u[y + 1]
    BY DEF MeantIn
  <1>2. MeantIn(config, cur, B)[p] =
               IF Keeps(cur, x) THEN B[p]
               ELSE IF SeenThrough(config, cur, x) \/ x >= Len(t) THEN Clear ELSE t[x + 1]
    BY DEF MeantIn
  <1>. HIDE DEF B
  <1>3. CASE Keeps(cur, x)
    BY <1>2, <1>3 DEF B
  <1>4. CASE ~Keeps(cur, x)
    <2>1. /\ ~Keeps(bef, y) /\ y < Len(u) /\ x < Len(t) /\ u[y + 1] = t[x + 1]
      BY <1>4 DEF SamePixel, Table
    <2>2. x \in Nat /\ y \in Nat /\ t \in Seq(RGB) /\ u \in Seq(RGB)
      BY PixelRange, FrameFacts DEF FrameOf, FrameFits
    <2>3. ~(x >= Len(t)) /\ ~(y >= Len(u))
      BY <2>1, <2>2
    <2>4. /\ Solid(config, cur, p) /\ Solid(config, bef, p)
          /\ Color(config, cur, p) = Color(config, bef, p)
      BY <1>4, <2>1 DEF Solid, Color
    <2>5. SeenThrough(config, cur, x) <=> SeenThrough(config, bef, y)
      BY <2>4, ColorsApart
    <2>. QED
      BY <1>1, <1>2, <1>4, <2>1, <2>3, <2>5 DEF B
  <1>. QED
    BY <1>3, <1>4

LEMMA MeantAgain ==
    ASSUME NEW F, NEW cur, NEW bef, FrameOf(F, config, cur), FrameOf(F, config, bef), NEW R \in Pictures,
           Changed(cur, bef) = {}
    PROVE  MeantIn(config, cur, MeantIn(config, bef, R)) = MeantIn(config, bef, R)
  <1>1. \A p \in Pixels : SamePixel(cur, bef, cur.pixels[p], bef.pixels[p])
    BY DEF Changed
  <1>2. \A p \in Pixels :
            MeantIn(config, cur, MeantIn(config, bef, R))[p] = MeantIn(config, bef, R)[p]
    BY <1>1, SameMeans
  <1>3. /\ MeantIn(config, bef, R) \in Pictures
        /\ MeantIn(config, cur, MeantIn(config, bef, R)) \in Pictures
    BY MeantPicture
  <1>. QED
    BY <1>2, <1>3 DEF Pictures

--------------------------------------------------------------------------------
(* The frame that is written *)

\* A frame in the queue.
QueueFrame(F, c, q) ==
    /\ q \in [config : FrameConfigs, disposal : {"LEAVE", "BACKGROUND"},
              transIndex : 0..(MaxTable - 1)]
    /\ FrameOf(F, c, q.config)
    /\ q.transIndex = IF {"ALPHA", "SET_TRANS"} \intersect q.config.attr # {}
                      THEN q.config.transIndex ELSE 0
    /\ q.disposal = "BACKGROUND" =>
          \/ AlphaIn(c, q.config)
          \/ "DIFF_WINDOW" \notin q.config.gen /\ "ANIMATED" \in c.attr

Uses(opt, q, bef) == opt \in Optimizations(q, bef)
WindowOf(q, bef) == IF Uses("DIFF_WINDOW", q, bef) THEN DiffWindow(q.config, bef[1]) ELSE Whole
TransOf(q, bef) == IF Uses("USE_TRANSPARENCY", q, bef) THEN FreeIndex(Len(Table(q.config)))
                   ELSE q.transIndex
Same(q, bef, p) == SamePixel(q.config, bef[1], q.config.pixels[p], bef[1].pixels[p])
RawPixels(q, bef, w) ==
    [i \in 1..(w.width * w.height) |->
        IF Uses("USE_TRANSPARENCY", q, bef) /\ Same(q, bef, At(w, i))
        THEN TransOf(q, bef) ELSE q.config.pixels[At(w, i)]]

\* The fields of the frame that is written.
RawIs(rf, q, bef) ==
    LET w == WindowOf(q, bef)
    IN  /\ rf.lct = IF "LOCAL_TABLE" \in q.config.attr THEN q.config.palette ELSE << >>
        /\ rf.pixels = RawPixels(q, bef, w)
        /\ rf.hasTrans <=> \/ HasAlpha(q.config) \/ Uses("USE_TRANSPARENCY", q, bef)
                           \/ "SET_TRANS" \in q.config.attr
        /\ rf.interlaced <=> "INTERLACED" \in q.config.attr
        /\ rf.left = w.left /\ rf.top = w.top
        /\ rf.width = w.width /\ rf.height = w.height
        /\ rf.delay = q.config.delay /\ rf.disposal = q.disposal
        /\ rf.transIndex = TransOf(q, bef)

LEMMA RawFrameIs ==
    ASSUME NEW q, NEW bef
    PROVE  RawIs(RawFrame(q, bef), q, bef)
  <1>. DEFINE w == WindowOf(q, bef)
              f == [lct |-> IF "LOCAL_TABLE" \in q.config.attr THEN q.config.palette ELSE << >>,
                    pixels |-> RawPixels(q, bef, w),
                    hasTrans |-> \/ HasAlpha(q.config) \/ Uses("USE_TRANSPARENCY", q, bef)
                                 \/ "SET_TRANS" \in q.config.attr,
                    interlaced |-> "INTERLACED" \in q.config.attr,
                    left |-> w.left, top |-> w.top, width |-> w.width, height |-> w.height,
                    delay |-> q.config.delay, disposal |-> q.disposal,
                    transIndex |-> TransOf(q, bef)]
  <1>1. RawFrame(q, bef) = f
    BY Zenon DEF RawFrame, WindowOf, RawPixels, TransOf, Same, Uses, At
  <1>2. RawIs(f, q, bef)
    <2>. DEFINE lct == IF "LOCAL_TABLE" \in q.config.attr THEN q.config.palette ELSE << >>
                pix == RawPixels(q, bef, w)
                has == \/ HasAlpha(q.config) \/ Uses("USE_TRANSPARENCY", q, bef)
                       \/ "SET_TRANS" \in q.config.attr
                t == TransOf(q, bef)
    <2>. HIDE DEF lct, pix, has, t, w
    <2>1. /\ f.lct = lct /\ f.pixels = pix /\ (f.hasTrans <=> has)
          /\ (f.interlaced <=> "INTERLACED" \in q.config.attr)
          /\ f.left = w.left /\ f.top = w.top /\ f.width = w.width /\ f.height = w.height
          /\ f.delay = q.config.delay /\ f.disposal = q.disposal /\ f.transIndex = t
      BY DEF lct, pix, has, t
    <2>. HIDE DEF f
    <2>. QED
      BY <2>1 DEF RawIs, lct, pix, has, t, w
  <1>. QED
    BY <1>1, <1>2

LEMMA WindowOfFits ==
    ASSUME NEW q, NEW bef
    PROVE  /\ WindowFits(WindowOf(q, bef))
           /\ \A p \in Pixels : ~InWindow(WindowOf(q, bef), p) =>
                    Uses("DIFF_WINDOW", q, bef) /\ Same(q, bef, p)
  <1>1. CASE Uses("DIFF_WINDOW", q, bef)
    <2>1. WindowOf(q, bef) = DiffWindow(q.config, bef[1])
      BY <1>1 DEF WindowOf
    <2>2. ASSUME NEW p \in Pixels, ~Same(q, bef, p) PROVE p \in Changed(q.config, bef[1])
      BY <2>2 DEF Changed, Same
    <2>. QED
      BY <1>1, <2>1, <2>2, DiffWindowFits
  <1>2. CASE ~Uses("DIFF_WINDOW", q, bef)
    <2>1. WindowOf(q, bef) = Whole
      BY <1>2 DEF WindowOf
    <2>. QED
      BY <2>1, WholeWindow
  <1>. QED
    BY <1>1, <1>2

\* What is left of the optimizations.
LEMMA UsesOnly ==
    ASSUME NEW opt, NEW q, NEW bef, Uses(opt, q, bef)
    PROVE  /\ opt \in q.config.gen /\ bef # << >> /\ ~HasAlpha(q.config)
           /\ opt = "USE_TRANSPARENCY" => /\ "SET_TRANS" \notin q.config.attr
                                          /\ Len(Table(q.config)) # MaxTable
  BY DEF Uses, Optimizations

\* The transparent index has a code.
LEMMA TransRange ==
    ASSUME NEW F, NEW q, NEW bef, QueueFrame(F, config, q), Len(Table(q.config)) <= MaxTable
    PROVE  /\ TransOf(q, bef) \in 0..(MaxTable - 1)
           /\ Len(Table(q.config)) \in Nat \ {0}
           /\ \/ TransOf(q, bef) = 0 \/ TransOf(q, bef) = q.config.transIndex
              \/ /\ TransOf(q, bef) = FreeIndex(Len(Table(q.config)))
                 /\ TransOf(q, bef) >= Len(Table(q.config))
           /\ Uses("USE_TRANSPARENCY", q, bef) => TransOf(q, bef) >= Len(Table(q.config))
  <1>. DEFINE n == Len(Table(q.config))
  <1>1. n \in Nat /\ n # 0
    <2>1. Table(q.config) \in Seq(RGB) /\ Table(q.config) # << >>
      BY FrameFacts DEF QueueFrame, FrameFits, Table
    <2>. QED
      BY <2>1
  <1>2. q.transIndex \in 0..(MaxTable - 1) /\ (q.transIndex = 0 \/ q.transIndex = q.config.transIndex)
    BY DEF QueueFrame
  <1>. HIDE DEF n
  <1>3. CASE Uses("USE_TRANSPARENCY", q, bef)
    <2>1. n # MaxTable /\ n <= MaxTable
      BY <1>3, UsesOnly DEF n
    <2>2. n < MaxTable
      BY <1>1, <2>1, TableMaxNat
    <2>3. FreeIndex(n) \in n..(MaxTable - 1)
      BY <1>1, <2>2, FreeIndexIs
    <2>4. TransOf(q, bef) = FreeIndex(n)
      BY <1>3 DEF TransOf, n
    <2>5. FreeIndex(n) \in 0..(MaxTable - 1) /\ FreeIndex(n) >= n
      BY <1>1, <2>3, TableMaxNat
    <2>. QED
      BY <1>1, <2>4, <2>5 DEF n
  <1>4. CASE ~Uses("USE_TRANSPARENCY", q, bef)
    <2>1. TransOf(q, bef) = q.transIndex
      BY <1>4 DEF TransOf
    <2>. QED
      BY <1>1, <1>2, <1>4, <2>1 DEF n
  <1>. QED
    BY <1>3, <1>4

\* The frame's pixels, and what the reader must know of them.
LEMMA RawPixelsAre ==
    ASSUME NEW F, NEW q, NEW bef, QueueFrame(F, config, q), Len(Table(q.config)) <= MaxTable,
           NEW w, w = WindowOf(q, bef)
    PROVE  RawPixels(q, bef, w) \in [1..(w.width * w.height) -> Nat]
  <1>1. TransOf(q, bef) \in Nat
    BY TransRange, TableMaxNat
  <1>2. WindowFits(w)
    BY WindowOfFits
  <1>3. ASSUME NEW i \in 1..(w.width * w.height) PROVE q.config.pixels[At(w, i)] \in Nat
    <2>1. At(w, i) \in Pixels
      BY <1>2, WindowPixel
    <2>2. q.config \in FrameConfigs
      BY DEF QueueFrame, FrameOf
    <2>. QED
      BY <2>1, <2>2, PixelRange
  <1>. QED
    BY <1>1, <1>3 DEF RawPixels

--------------------------------------------------------------------------------
(* The picture a viewer draws *)

\* The table of a frame, as the raw writer finds it.
LEMMA RawTable ==
    ASSUME NEW F, NEW q, NEW bef, NEW rf, QueueFrame(F, config, q), RawIs(rf, q, bef)
    PROVE  (IF rf.lct # << >> THEN rf.lct ELSE RawConfig.gct) = Table(q.config)
  <1>1. /\ "LOCAL_TABLE" \in q.config.attr => q.config.palette # << >>
        /\ "LOCAL_TABLE" \notin q.config.attr => "NO_GLOBAL_TABLE" \notin config.attr
    BY FrameFacts DEF QueueFrame, FrameFits
  <1>2. rf.lct = IF "LOCAL_TABLE" \in q.config.attr THEN q.config.palette ELSE << >>
    BY DEF RawIs
  <1>3. RawConfig.gct = IF "NO_GLOBAL_TABLE" \in config.attr THEN << >> ELSE config.palette
    BY DEF RawConfig
  <1>. QED
    BY <1>1, <1>2, <1>3 DEF Table, TableIn

LEMMA EffColors ==
    ASSUME NEW F, NEW q, NEW bef, NEW rf, QueueFrame(F, config, q), RawIs(rf, q, bef),
           Len(Table(q.config)) <= MaxTable
    PROVE  LET n == NumEffColors(RawConfig, rf)
               size == Len(Table(q.config))
           IN  /\ n \in Nat /\ n <= MaxTable
               /\ n \in {size, q.config.transIndex + 1, FreeIndex(size) + 1}
  <1>. DEFINE n == NumEffColors(RawConfig, rf)
              size == Len(Table(q.config))
              t == TransOf(q, bef)
  <1>1. size = Len(IF rf.lct # << >> THEN rf.lct ELSE RawConfig.gct)
    BY RawTable
  <1>2. n = IF RawConfig.animated /\ rf.hasTrans /\ rf.transIndex >= size
            THEN rf.transIndex + 1 ELSE size
    BY <1>1 DEF NumEffColors
  <1>3. rf.transIndex = t
    BY DEF RawIs
  <1>4. /\ t \in 0..(MaxTable - 1) /\ size \in Nat /\ size # 0
        /\ (t = 0 \/ t = q.config.transIndex \/ t = FreeIndex(size))
    BY TransRange
  <1>. HIDE DEF n, size, t
  <1>5. CASE RawConfig.animated /\ rf.hasTrans /\ rf.transIndex >= size
    <2>1. n = t + 1 /\ t >= size
      BY <1>2, <1>3, <1>5
    <2>2. t # 0
      BY <1>4, <2>1
    <2>. QED
      BY <1>4, <2>1, <2>2, TableMaxNat DEF n, size
  <1>6. CASE ~(RawConfig.animated /\ rf.hasTrans /\ rf.transIndex >= size)
    <2>1. n = size
      BY <1>2, <1>6
    <2>. QED
      BY <1>4, <2>1 DEF n, size
  <1>. QED
    BY <1>5, <1>6

\* A viewer finds the same table.
LEMMA TableOfIs ==
    ASSUME NEW F, NEW q, NEW bef, NEW rf, NEW len, NEW code, NEW stream,
           QueueFrame(F, config, q), RawIs(rf, q, bef), stream[1] = Header(RawConfig)
    PROVE  TableOf(stream, FrameBlock(RawConfig, rf, len, code)) = Padded(Table(q.config))
  <1>. DEFINE block == FrameBlock(RawConfig, rf, len, code)
  <1>1. block.table = IF rf.lct = << >> THEN << >> ELSE Padded(rf.lct)
    BY DEF FrameBlock
  <1>2. stream[1].table = IF RawConfig.gct = << >> THEN << >> ELSE Padded(RawConfig.gct)
    BY DEF Header
  <1>. HIDE DEF block
  <1>3. (IF rf.lct # << >> THEN rf.lct ELSE RawConfig.gct) = Table(q.config)
    BY RawTable
  <1>4. Table(q.config) \in Seq(RGB) /\ Table(q.config) # << >>
    BY FrameFacts DEF QueueFrame, FrameFits, Table
  <1>5. Padded(Table(q.config)) # << >>
    BY <1>4, PaddedIs
  <1>6. CASE rf.lct # << >>
    <2>1. rf.lct = Table(q.config)
      BY <1>3, <1>6
    <2>2. block.table = Padded(Table(q.config))
      BY <1>1, <1>6, <2>1
    <2>. QED
      BY <1>5, <2>2 DEF TableOf, block
  <1>7. CASE rf.lct = << >>
    <2>1. RawConfig.gct = Table(q.config)
      BY <1>3, <1>7
    <2>2. block.table = << >> /\ stream[1].table = Padded(Table(q.config))
      BY <1>1, <1>2, <1>4, <1>7, <2>1
    <2>. QED
      BY <2>2 DEF TableOf, block
  <1>. QED
    BY <1>6, <1>7

\* The pixels a viewer takes for transparent.
LEMMA TransIs ==
    ASSUME NEW c, NEW rf, NEW x
    PROVE  (\E e \in ToSet(GraphicExt(c, rf)) : e.trans = <<x>>)
                <=> rf.hasTrans /\ rf.transIndex = x
  <1>. DEFINE e == [disposal |-> rf.disposal, delay |-> rf.delay,
                    trans |-> IF rf.hasTrans THEN <<rf.transIndex>> ELSE << >>]
  <1>1. GraphicExt(c, rf) = IF c.animated \/ rf.hasTrans THEN <<e>> ELSE << >>
    BY DEF GraphicExt
  <1>2. e.trans = IF rf.hasTrans THEN <<rf.transIndex>> ELSE << >>
    OBVIOUS
  <1>. HIDE DEF e
  <1>3. ToSet(<<e>>) = {e} /\ ToSet(<< >>) = {}
    BY DEF ToSet
  <1>4. e.trans = <<x>> <=> rf.hasTrans /\ rf.transIndex = x
    <2>1. << >> # <<x>>
      OBVIOUS
    <2>. QED
      BY <1>2, <2>1
  <1>. QED
    BY <1>1, <1>3, <1>4

\* Transparent pixels are the ones the frame keeps, sees through, or shares with
\* the frame before.
LEMMA TransMeans ==
    ASSUME NEW F, NEW q, NEW bef, QueueFrame(F, config, q), Len(Table(q.config)) <= MaxTable,
           NEW x \in Nat,
           \/ Keeps(q.config, x) \/ SeenThrough(config, q.config, x)
           \/ x < Len(Table(q.config))
    PROVE  LET has == \/ HasAlpha(q.config) \/ Uses("USE_TRANSPARENCY", q, bef)
                      \/ "SET_TRANS" \in q.config.attr
           IN  /\ has /\ TransOf(q, bef) = x
                    <=> Keeps(q.config, x) \/ SeenThrough(config, q.config, x)
               /\ Keeps(q.config, x) => ~HasAlpha(q.config)
               /\ SeenThrough(config, q.config, x) => HasAlpha(q.config)
  <1>. DEFINE f == q.config
              t == TransOf(q, bef)
              n == Len(Table(f))
  <1>1. ~InvalidIn(config, f)
    BY FrameFacts DEF QueueFrame, FrameFits
  <1>2. q.transIndex = IF {"ALPHA", "SET_TRANS"} \intersect f.attr # {} THEN f.transIndex ELSE 0
    BY DEF QueueFrame
  <1>3. HasAlpha(f) <=> "TRANSPARENCY" \in config.attr \/ "ALPHA" \in f.attr
    BY DEF HasAlpha, AlphaIn
  <1>4. /\ HasAlpha(f) => "SET_TRANS" \notin f.attr
        /\ "TRANSPARENCY" \in config.attr => "ALPHA" \notin f.attr
    BY <1>1 DEF InvalidIn, AlphaIn, HasAlpha
  <1>5. n \in Nat /\ t \in Nat /\ (Uses("USE_TRANSPARENCY", q, bef) => t >= n)
    BY TransRange, TableMaxNat
  <1>6. ~Uses("USE_TRANSPARENCY", q, bef) => t = q.transIndex
    BY DEF TransOf
  <1>7. Uses("USE_TRANSPARENCY", q, bef) => ~HasAlpha(f) /\ "SET_TRANS" \notin f.attr
    BY UsesOnly
  <1>8. Keeps(f, x) <=> "SET_TRANS" \in f.attr /\ x = f.transIndex
    BY DEF Keeps
  <1>9. SeenThrough(config, f, x) <=> \/ "ALPHA" \in f.attr /\ x = f.transIndex
                                      \/ "TRANSPARENCY" \in config.attr /\ x = 0
    BY DEF SeenThrough
  <1>10. \/ Keeps(f, x) \/ SeenThrough(config, f, x) \/ x < n
    OBVIOUS
  <1>. HIDE DEF f, t, n
  <1>11. CASE Uses("USE_TRANSPARENCY", q, bef)
    <2>1. ~Keeps(f, x) /\ ~SeenThrough(config, f, x)
      BY <1>3, <1>7, <1>8, <1>9, <1>11
    <2>2. t # x
      BY <1>5, <1>10, <1>11, <2>1
    <2>. QED
      BY <2>1, <2>2 DEF f, t
  <1>12. CASE ~Uses("USE_TRANSPARENCY", q, bef)
    <2>1. t = IF "ALPHA" \in f.attr \/ "SET_TRANS" \in f.attr THEN f.transIndex ELSE 0
      <3>1. {"ALPHA", "SET_TRANS"} \intersect f.attr # {}
                <=> "ALPHA" \in f.attr \/ "SET_TRANS" \in f.attr
        OBVIOUS
      <3>. QED
        BY <1>2, <1>6, <1>12, <3>1
    <2>2. (HasAlpha(f) \/ "SET_TRANS" \in f.attr) /\ t = x
            <=> Keeps(f, x) \/ SeenThrough(config, f, x)
      BY <1>3, <1>4, <1>8, <1>9, <2>1
    <2>3. Keeps(f, x) => ~HasAlpha(f)
      BY <1>4, <1>8
    <2>4. SeenThrough(config, f, x) => HasAlpha(f)
      BY <1>3, <1>9
    <2>. QED
      BY <1>12, <2>2, <2>3, <2>4 DEF f, t
  <1>. QED
    BY <1>11, <1>12

\* What is on the screen before a frame: the picture of the frame before, which is
\* cleared away for an alpha channel.
CanvasFor(F, q, bef, canvas, picture) ==
    /\ picture \in Pictures
    /\ canvas = IF HasAlpha(q.config) THEN Blank ELSE picture
    /\ bef # << >> => \E b \in FrameConfigs, R \in Pictures :
                          bef = <<b>> /\ FrameOf(F, config, b) /\ picture = MeantIn(config, b, R)

\* Where the frame equals the one before, it leaves the picture as it is.
LEMMA SameKeeps ==
    ASSUME NEW F, NEW q, NEW bef, NEW canvas, NEW picture, CanvasFor(F, q, bef, canvas, picture),
           QueueFrame(F, config, q), bef # << >>, NEW p \in Pixels, Same(q, bef, p)
    PROVE  MeantIn(config, q.config, picture)[p] = picture[p]
  <1>1. PICK b \in FrameConfigs, R \in Pictures :
                  bef = <<b>> /\ FrameOf(F, config, b) /\ picture = MeantIn(config, b, R)
    BY DEF CanvasFor
  <1>2. bef[1] = b
    BY <1>1
  <1>3. SamePixel(q.config, b, q.config.pixels[p], b.pixels[p])
    BY <1>2 DEF Same
  <1>4. FrameOf(F, config, q.config)
    BY DEF QueueFrame
  <1>. QED
    BY <1>1, <1>3, <1>4, SameMeans

\* Codes stand for the indices of the pixels only.
LEMMA IndexCoded ==
    ASSUME NEW F, NEW q, NEW bef, NEW rf, QueueFrame(F, config, q), RawIs(rf, q, bef),
           Len(Table(q.config)) <= MaxTable, NEW p \in Pixels,
           q.config.pixels[p] < InitDictLen(InitCodeLen(NumEffColors(RawConfig, rf)))
    PROVE  \/ Keeps(q.config, q.config.pixels[p])
           \/ SeenThrough(config, q.config, q.config.pixels[p])
           \/ q.config.pixels[p] < Len(Table(q.config))
  <1>. DEFINE x == q.config.pixels[p]
              n == NumEffColors(RawConfig, rf)
              d == InitDictLen(InitCodeLen(n))
  <1>1. \/ Keeps(q.config, x) \/ SeenThrough(config, q.config, x)
        \/ x < Len(Table(q.config)) \/ Refused(config, q.config, x)
    BY FrameFacts DEF QueueFrame, FrameFits, Table
  <1>2. n \in Nat /\ n <= MaxTable
        /\ n \in {Len(Table(q.config)), q.config.transIndex + 1, FreeIndex(Len(Table(q.config))) + 1}
    BY EffColors
  <1>3. x \in Nat
    BY PixelRange DEF QueueFrame, FrameOf
  <1>4. d \in Nat
    BY <1>2, TableCodes, InitDictLenBounds
  <1>5. x < d
    OBVIOUS
  <1>. HIDE DEF n
  <1>6. Refused(config, q.config, x) => x >= d
    BY <1>2 DEF Refused, Table
  <1>. HIDE DEF x, d
  <1>7. ~Refused(config, q.config, x)
    BY <1>3, <1>4, <1>5, <1>6
  <1>. QED
    BY <1>1, <1>7 DEF x

\* One pixel of the picture.
LEMMA PixelDrawn ==
    ASSUME NEW F, NEW q, NEW bef, NEW rf, QueueFrame(F, config, q), RawIs(rf, q, bef),
           Len(Table(q.config)) <= MaxTable,
           NEW canvas, NEW picture, CanvasFor(F, q, bef, canvas, picture),
           \A i \in 1..(rf.width * rf.height) :
                rf.pixels[i] < InitDictLen(InitCodeLen(NumEffColors(RawConfig, rf))),
           NEW p \in Pixels, NEW w, w = WindowOf(q, bef), InWindow(w, p),
           NEW v, v = rf.pixels[IndexIn(w, p)]
    PROVE  MeantIn(config, q.config, picture)[p] =
                IF rf.hasTrans /\ rf.transIndex = v THEN canvas[p]
                ELSE IF v < Len(Padded(Table(q.config))) THEN Padded(Table(q.config))[v + 1]
                ELSE Clear
  <1>. DEFINE f == q.config
              x == f.pixels[p]
              t == Table(f)
              i == IndexIn(w, p)
              meant == MeantIn(config, f, picture)
  <1>1. WindowFits(w)
    BY WindowOfFits
  <1>2. i \in 1..(w.width * w.height) /\ At(w, i) = p
    BY <1>1, WindowIndex
  <1>3. /\ rf.width = w.width /\ rf.height = w.height /\ rf.transIndex = TransOf(q, bef)
        /\ rf.pixels = RawPixels(q, bef, w)
        /\ (rf.hasTrans <=> \/ HasAlpha(f) \/ Uses("USE_TRANSPARENCY", q, bef)
                            \/ "SET_TRANS" \in f.attr)
    BY DEF RawIs
  <1>4. v = IF Uses("USE_TRANSPARENCY", q, bef) /\ Same(q, bef, p) THEN TransOf(q, bef) ELSE x
    BY <1>2, <1>3 DEF RawPixels
  <1>5. v < InitDictLen(InitCodeLen(NumEffColors(RawConfig, rf)))
    BY <1>2, <1>3
  <1>6. picture \in Pictures /\ canvas = IF HasAlpha(f) THEN Blank ELSE picture
    BY DEF CanvasFor
  <1>7. meant[p] = IF Keeps(f, x) THEN picture[p]
                   ELSE IF SeenThrough(config, f, x) \/ x >= Len(t) THEN Clear ELSE t[x + 1]
    BY DEF MeantIn, Table
  <1>8. x \in Nat /\ f \in FrameConfigs
    BY PixelRange DEF QueueFrame, FrameOf
  <1>9. /\ t \in Seq(RGB) /\ Len(t) \in Nat /\ Len(Padded(t)) \in Nat /\ Len(t) <= Len(Padded(t))
        /\ \A k \in 1..Len(t) : Padded(t)[k] = t[k]
    <2>1. t \in Seq(RGB)
      BY FrameFacts DEF QueueFrame, FrameFits, Table
    <2>. HIDE DEF t
    <2>2. Padded(t) \in Seq(RGB) /\ Len(t) <= Len(Padded(t)) /\ \A k \in 1..Len(t) : Padded(t)[k] = t[k]
      BY <2>1, PaddedIs
    <2>. QED
      BY <2>1, <2>2
  <1>10. Blank[p] = Clear
    BY DEF Blank
  <1>11. CASE Uses("USE_TRANSPARENCY", q, bef) /\ Same(q, bef, p)
    <2>1. v = rf.transIndex /\ rf.hasTrans
      BY <1>3, <1>4, <1>11
    <2>2. ~HasAlpha(f) /\ bef # << >>
      BY <1>11, UsesOnly
    <2>3. meant[p] = picture[p]
      BY <1>11, <2>2, SameKeeps
    <2>4. canvas[p] = picture[p]
      BY <1>6, <2>2
    <2>. QED
      BY <2>1, <2>3, <2>4
  <1>12. CASE ~(Uses("USE_TRANSPARENCY", q, bef) /\ Same(q, bef, p))
    <2>1. v = x
      BY <1>4, <1>12
    <2>2. Keeps(f, x) \/ SeenThrough(config, f, x) \/ x < Len(t)
      BY <1>5, <2>1, IndexCoded
    <2>3. /\ rf.hasTrans /\ rf.transIndex = x <=> Keeps(f, x) \/ SeenThrough(config, f, x)
          /\ Keeps(f, x) => ~HasAlpha(f)
          /\ SeenThrough(config, f, x) => HasAlpha(f)
      BY <1>3, <1>8, <2>2, TransMeans
    <2>. HIDE DEF x, t, f, meant
    <2>4. CASE Keeps(f, x)
      <3>1. meant[p] = picture[p] /\ canvas[p] = picture[p]
        BY <1>6, <1>7, <2>3, <2>4
      <3>. QED
        BY <2>1, <2>3, <2>4, <3>1 DEF meant, f
    <2>5. CASE ~Keeps(f, x) /\ SeenThrough(config, f, x)
      <3>1. meant[p] = Clear /\ canvas[p] = Clear
        BY <1>6, <1>7, <1>10, <2>3, <2>5
      <3>. QED
        BY <2>1, <2>3, <2>5, <3>1 DEF meant, f
    <2>6. CASE ~Keeps(f, x) /\ ~SeenThrough(config, f, x)
      <3>1. x < Len(t) /\ ~(x >= Len(t))
        BY <1>8, <1>9, <2>2, <2>6
      <3>2. meant[p] = t[x + 1]
        BY <1>7, <2>6, <3>1
      <3>3. x + 1 \in 1..Len(t) /\ x < Len(Padded(t))
        BY <1>8, <1>9, <3>1
      <3>4. Padded(t)[x + 1] = t[x + 1]
        BY <1>9, <3>3
      <3>. QED
        BY <2>1, <2>3, <2>6, <3>2, <3>3, <3>4 DEF meant, f, t
    <2>. QED
      BY <2>4, <2>5, <2>6
  <1>. QED
    BY <1>11, <1>12

\* What a viewer draws is what the frame stands for.
LEMMA DrawnIs ==
    ASSUME NEW F, NEW q, NEW bef, NEW rf, QueueFrame(F, config, q), RawIs(rf, q, bef),
           Len(Table(q.config)) <= MaxTable,
           NEW canvas, NEW picture, CanvasFor(F, q, bef, canvas, picture),
           \A i \in 1..(rf.width * rf.height) :
                rf.pixels[i] < InitDictLen(InitCodeLen(NumEffColors(RawConfig, rf))),
           NEW len, NEW code, NEW block, block = FrameBlock(RawConfig, rf, len, code)
    PROVE  Drawn(Padded(Table(q.config)), block, rf.pixels, canvas)
                = MeantIn(config, q.config, picture)
  <1>. DEFINE w == WindowOf(q, bef)
              T == Padded(Table(q.config))
              v(p) == rf.pixels[IndexIn(w, p)]
              meant == MeantIn(config, q.config, picture)
              drawn(p) == IF ~InWindow(w, p) THEN canvas[p]
                          ELSE IF rf.pixels = << >> THEN Clear
                          ELSE IF \E e \in ToSet(GraphicExt(RawConfig, rf)) : e.trans = <<v(p)>>
                          THEN canvas[p]
                          ELSE IF v(p) < Len(T) THEN T[v(p) + 1] ELSE Clear
  <1>1. /\ rf.width = w.width /\ rf.height = w.height /\ rf.left = w.left /\ rf.top = w.top
        /\ rf.pixels = RawPixels(q, bef, w)
    BY DEF RawIs
  <1>2. /\ block.left = w.left /\ block.top = w.top /\ block.width = w.width
        /\ block.height = w.height /\ block.ext = GraphicExt(RawConfig, rf)
    BY <1>1 DEF FrameBlock
  <1>3. WindowFits(w) /\ \A p \in Pixels : ~InWindow(w, p) =>
                    Uses("DIFF_WINDOW", q, bef) /\ Same(q, bef, p)
    BY WindowOfFits
  <1>. HIDE DEF w, T
  <1>4. Drawn(T, block, rf.pixels, canvas) = [p \in Pixels |-> drawn(p)]
    BY <1>2 DEF Drawn, InWindow, IndexIn
  <1>5. ASSUME NEW p \in Pixels PROVE drawn(p) = meant[p]
    <2>1. CASE ~InWindow(w, p)
      <3>1. Uses("DIFF_WINDOW", q, bef) /\ Same(q, bef, p)
        BY <1>3, <2>1
      <3>2. ~HasAlpha(q.config) /\ bef # << >>
        BY <3>1, UsesOnly
      <3>3. meant[p] = picture[p]
        BY <3>1, <3>2, SameKeeps
      <3>4. canvas[p] = picture[p]
        BY <3>2 DEF CanvasFor
      <3>. QED
        BY <2>1, <3>3, <3>4
    <2>2. CASE InWindow(w, p)
      <3>1. IndexIn(w, p) \in 1..(w.width * w.height)
        BY <1>3, <2>2, WindowIndex
      <3>2. rf.pixels # << >>
        <4>1. DOMAIN rf.pixels = 1..(w.width * w.height)
          BY <1>1 DEF RawPixels
        <4>2. DOMAIN << >> = {}
          OBVIOUS
        <4>. QED
          BY <3>1, <4>1, <4>2
      <3>3. (\E e \in ToSet(GraphicExt(RawConfig, rf)) : e.trans = <<v(p)>>)
                <=> rf.hasTrans /\ rf.transIndex = v(p)
        <4>1. \A x : (\E e \in ToSet(GraphicExt(RawConfig, rf)) : e.trans = <<x>>)
                        <=> rf.hasTrans /\ rf.transIndex = x
          BY TransIs
        <4>. QED
          BY <4>1
      <3>4. meant[p] = IF rf.hasTrans /\ rf.transIndex = v(p) THEN canvas[p]
                       ELSE IF v(p) < Len(T) THEN T[v(p) + 1] ELSE Clear
        BY <2>2, PixelDrawn DEF w, T
      <3>. QED
        BY <2>2, <3>2, <3>3, <3>4
    <2>. QED
      BY <2>1, <2>2
  <1>6. meant = [p \in Pixels |-> meant[p]]
    BY DEF MeantIn
  <1>7. Drawn(T, block, rf.pixels, canvas) = meant
    <2>. HIDE DEF drawn, meant
    <2>. QED
      BY <1>4, <1>5, <1>6
  <1>. QED
    BY <1>7 DEF T

--------------------------------------------------------------------------------
(* A stream that goes on *)

\* A sequence of blocks.
Blocks(stream) == \E S : stream \in Seq(S)

LEMMA BlocksAppend ==
    ASSUME NEW stream, Blocks(stream), NEW block
    PROVE  /\ Blocks(Append(stream, block)) /\ Len(stream) \in Nat
           /\ Len(Append(stream, block)) = Len(stream) + 1
           /\ \A i \in 1..Len(stream) : Append(stream, block)[i] = stream[i]
           /\ Append(stream, block)[Len(stream) + 1] = block
  <1>1. PICK S : stream \in Seq(S)
    BY DEF Blocks
  <1>. DEFINE T == S \union {block}
  <1>2. stream \in Seq(T)
    <2>1. S \subseteq T
      OBVIOUS
    <2>. HIDE DEF T
    <2>. QED
      BY <1>1, <2>1, SeqMonotonic
  <1>3. block \in T
    OBVIOUS
  <1>. HIDE DEF T
  <1>4. /\ Append(stream, block) \in Seq(T)
        /\ Len(Append(stream, block)) = Len(stream) + 1
        /\ \A i \in 1..Len(stream) : Append(stream, block)[i] = stream[i]
        /\ Append(stream, block)[Len(stream) + 1] = block
    BY <1>2, <1>3, AppendProperties
  <1>5. Len(stream) \in Nat
    BY <1>1
  <1>. QED
    BY <1>4, <1>5 DEF Blocks

Start == [canvas |-> Blank, picture |-> Blank, movie |-> << >>]

IsPlayed(f, stream) ==
    f = [k \in 0..Len(stream) |->
            IF k = 0 THEN Start ELSE Play(f[k - 1], stream, stream[k])]

LEMMA PlayedDef ==
    ASSUME NEW stream
    PROVE  Played(stream) = (CHOOSE f : IsPlayed(f, stream))[Len(stream)]
  BY Zenon DEF Played, IsPlayed, Start

LEMMA PlayedExists ==
    ASSUME NEW stream, Len(stream) \in Nat
    PROVE  \E f : IsPlayed(f, stream)
  <1>. DEFINE Upto(f, n) == f = [k \in 0..n |-> IF k = 0 THEN Start ELSE Play(f[k - 1], stream, stream[k])]
              P == {n \in Nat : \E f : Upto(f, n)}
  <1>1. 0 \in P
    <2>. DEFINE f == [k \in 0..0 |-> Start]
    <2>1. Upto(f, 0)
      OBVIOUS
    <2>. HIDE DEF f, Upto
    <2>. QED
      BY <2>1
  <1>2. ASSUME NEW n \in Nat, n \in P PROVE n + 1 \in P
    <2>1. PICK f : Upto(f, n)
      BY <1>2
    <2>. DEFINE g == [k \in 0..(n + 1) |->
                        IF k = n + 1 THEN Play(f[n], stream, stream[n + 1]) ELSE f[k]]
    <2>2. \A k \in 0..n : f[k] = IF k = 0 THEN Start ELSE Play(f[k - 1], stream, stream[k])
      BY <2>1
    <2>3. ASSUME NEW k \in 0..(n + 1)
          PROVE  g[k] = IF k = 0 THEN Start ELSE Play(g[k - 1], stream, stream[k])
      <3>1. CASE k = n + 1
        <4>1. g[k] = Play(f[n], stream, stream[k]) /\ k # 0 /\ k - 1 = n
          BY <3>1
        <4>2. g[n] = f[n]
          OBVIOUS
        <4>. QED
          BY <4>1, <4>2
      <3>2. CASE k # n + 1
        <4>1. k \in 0..n /\ g[k] = f[k] /\ (k # 0 => g[k - 1] = f[k - 1])
          BY <3>2
        <4>. QED
          BY <2>2, <4>1
      <3>. QED
        BY <3>1, <3>2
    <2>4. g = [k \in 0..(n + 1) |-> g[k]]
      OBVIOUS
    <2>. HIDE DEF g
    <2>5. Upto(g, n + 1)
      BY <2>3, <2>4
    <2>. HIDE DEF Upto
    <2>. QED
      BY <2>5
  <1>. HIDE DEF P
  <1>3. Len(stream) \in P
    BY <1>1, <1>2, AllNat
  <1>. QED
    BY <1>3 DEF P, IsPlayed

\* A viewer that comes to the end of the stream.
LEMMA PlayedEnds ==
    ASSUME NEW stream, Len(stream) \in Nat, NEW f, IsPlayed(f, stream)
    PROVE  Played(stream) = f[Len(stream)]
  <1>. DEFINE g == CHOOSE h : IsPlayed(h, stream)
              N == Len(stream)
              P == {k \in Nat : k <= N => f[k] = g[k]}
  <1>1. IsPlayed(g, stream)
    BY PlayedExists
  <1>2. Played(stream) = g[N]
    BY PlayedDef
  <1>. HIDE DEF g
  <1>3. \A k \in 0..N : f[k] = IF k = 0 THEN Start ELSE Play(f[k - 1], stream, stream[k])
    BY DEF IsPlayed
  <1>4. \A k \in 0..N : g[k] = IF k = 0 THEN Start ELSE Play(g[k - 1], stream, stream[k])
    BY <1>1 DEF IsPlayed
  <1>. HIDE DEF N
  <1>5. N \in Nat
    BY DEF N
  <1>6. 0 \in P
    BY <1>3, <1>4, <1>5
  <1>7. ASSUME NEW k \in Nat, k \in P PROVE k + 1 \in P
    <2>. SUFFICES ASSUME k + 1 <= N PROVE f[k + 1] = g[k + 1]
      OBVIOUS
    <2>1. k + 1 \in 0..N /\ k + 1 # 0 /\ (k + 1) - 1 = k /\ k <= N
      BY <1>5
    <2>2. f[k] = g[k]
      BY <1>7, <2>1
    <2>. QED
      BY <1>3, <1>4, <2>1, <2>2
  <1>8. N \in P
    <2>. HIDE DEF P
    <2>. QED
      BY <1>5, <1>6, <1>7, AllNat
  <1>. QED
    BY <1>2, <1>5, <1>8 DEF N

LEMMA PlayedAppend ==
    ASSUME NEW stream, Blocks(stream), Len(stream) # 0, NEW block
    PROVE  Played(Append(stream, block)) = Play(Played(stream), stream, block)
  <1>. DEFINE N == Len(stream)
              next == Append(stream, block)
  <1>1. /\ N \in Nat /\ Len(next) = N + 1 /\ next[N + 1] = block
        /\ \A i \in 1..N : next[i] = stream[i]
    BY BlocksAppend
  <1>2. PICK f : IsPlayed(f, stream)
    BY <1>1, PlayedExists
  <1>3. Played(stream) = f[N]
    BY <1>1, <1>2, PlayedEnds
  <1>4. \A k \in 0..N : f[k] = IF k = 0 THEN Start ELSE Play(f[k - 1], stream, stream[k])
    BY <1>2 DEF IsPlayed
  <1>5. N # 0
    OBVIOUS
  <1>. HIDE DEF N, next
  <1>6. next[1] = stream[1]
    BY <1>1, <1>5
  <1>7. \A s, b : Play(s, next, b) = Play(s, stream, b)
    BY <1>6 DEF Play, TableOf
  <1>. DEFINE h == [k \in 0..(N + 1) |-> IF k = N + 1 THEN Play(f[N], stream, block) ELSE f[k]]
  <1>8. ASSUME NEW k \in 0..(N + 1)
        PROVE  h[k] = IF k = 0 THEN Start ELSE Play(h[k - 1], next, next[k])
    <2>1. CASE k = N + 1
      <3>1. h[k] = Play(f[N], stream, block) /\ k # 0 /\ k - 1 = N
        BY <1>1, <2>1
      <3>2. h[N] = f[N]
        BY <1>1
      <3>3. next[k] = block
        BY <1>1, <2>1
      <3>. HIDE DEF h
      <3>. QED
        BY <1>7, <3>1, <3>2, <3>3
    <2>2. CASE k # N + 1
      <3>1. k \in 0..N /\ h[k] = f[k] /\ (k # 0 => h[k - 1] = f[k - 1] /\ k \in 1..N)
        BY <1>1, <2>2
      <3>2. k # 0 => next[k] = stream[k]
        BY <1>1, <3>1
      <3>. HIDE DEF h
      <3>. QED
        BY <1>4, <1>7, <3>1, <3>2
    <2>. QED
      BY <2>1, <2>2
  <1>9. h = [k \in 0..(N + 1) |-> h[k]] /\ h[N + 1] = Play(f[N], stream, block)
    BY <1>1
  <1>. HIDE DEF h
  <1>10. IsPlayed(h, next)
    BY <1>1, <1>8, <1>9 DEF IsPlayed
  <1>11. Played(next) = h[N + 1]
    BY <1>1, <1>10, PlayedEnds
  <1>. QED
    BY <1>3, <1>9, <1>11 DEF N, next

\* Nothing is seen of a header.
LEMMA PlayedHeader ==
    ASSUME NEW header, header.kind # "frame"
    PROVE  Played(<<header>>) = Start
  <1>. DEFINE stream == <<header>>
              f == [k \in 0..1 |-> Start]
  <1>1. Len(stream) = 1 /\ stream[1] = header
    OBVIOUS
  <1>. HIDE DEF stream
  <1>2. ASSUME NEW k \in 0..1
        PROVE  f[k] = IF k = 0 THEN Start ELSE Play(f[k - 1], stream, stream[k])
    <2>1. CASE k = 0
      BY <2>1
    <2>2. CASE k = 1
      <3>1. Play(Start, stream, header) = Start
        BY DEF Play
      <3>. QED
        BY <1>1, <2>2, <3>1
    <2>. QED
      BY <2>1, <2>2
  <1>3. f = [k \in 0..1 |-> f[k]] /\ f[1] = Start
    OBVIOUS
  <1>. HIDE DEF f
  <1>4. IsPlayed(f, stream)
    BY <1>1, <1>2, <1>3 DEF IsPlayed
  <1>. QED
    BY <1>1, <1>3, <1>4, PlayedEnds DEF stream

--------------------------------------------------------------------------------
(* A story that goes on *)

TimeIn(c, f) ==
    IF "ANIMATED" \in c.attr \/ AlphaIn(c, f) \/ "SET_TRANS" \in f.attr THEN f.delay ELSE 0

FollowIn(c, s, f) ==
    [picture |-> MeantIn(c, f, s.picture),
     movie   |-> Shown(s.movie, MeantIn(c, f, s.picture), TimeIn(c, f))]

Untold == [picture |-> Blank, movie |-> << >>]

IsTold(g, c, frames) ==
    g = [k \in 0..Len(frames) |-> IF k = 0 THEN Untold ELSE FollowIn(c, g[k - 1], frames[k])]

StoryIn(c, frames) == (CHOOSE g : IsTold(g, c, frames))[Len(frames)]

LEMMA FollowIs == \A s, f : Follow(s, f) = FollowIn(config, s, f)
  BY DEF Follow, FollowIn, Meant, MeantIn, TimeOf, TimeIn, Table, HasAlpha

LEMMA StoryIs == \A frames : Story(frames) = StoryIn(config, frames)
  BY Zenon DEF Story, StoryIn, IsTold, Untold, Follow, FollowIn, Meant, MeantIn, TimeOf, TimeIn,
               Table, HasAlpha

LEMMA ToldExists ==
    ASSUME NEW c, NEW frames, Len(frames) \in Nat
    PROVE  \E g : IsTold(g, c, frames)
  <1>. DEFINE Upto(f, n) == f = [k \in 0..n |-> IF k = 0 THEN Untold ELSE FollowIn(c, f[k - 1], frames[k])]
              P == {n \in Nat : \E f : Upto(f, n)}
  <1>1. 0 \in P
    <2>. DEFINE f == [k \in 0..0 |-> Untold]
    <2>1. Upto(f, 0)
      OBVIOUS
    <2>. HIDE DEF f, Upto
    <2>. QED
      BY <2>1
  <1>2. ASSUME NEW n \in Nat, n \in P PROVE n + 1 \in P
    <2>1. PICK f : Upto(f, n)
      BY <1>2
    <2>. DEFINE g == [k \in 0..(n + 1) |->
                        IF k = n + 1 THEN FollowIn(c, f[n], frames[n + 1]) ELSE f[k]]
    <2>2. \A k \in 0..n : f[k] = IF k = 0 THEN Untold ELSE FollowIn(c, f[k - 1], frames[k])
      BY <2>1
    <2>3. ASSUME NEW k \in 0..(n + 1)
          PROVE  g[k] = IF k = 0 THEN Untold ELSE FollowIn(c, g[k - 1], frames[k])
      <3>1. CASE k = n + 1
        <4>1. g[k] = FollowIn(c, f[n], frames[k]) /\ k # 0 /\ k - 1 = n
          BY <3>1
        <4>2. g[n] = f[n]
          OBVIOUS
        <4>. QED
          BY <4>1, <4>2
      <3>2. CASE k # n + 1
        <4>1. k \in 0..n /\ g[k] = f[k] /\ (k # 0 => g[k - 1] = f[k - 1])
          BY <3>2
        <4>. QED
          BY <2>2, <4>1
      <3>. QED
        BY <3>1, <3>2
    <2>4. g = [k \in 0..(n + 1) |-> g[k]]
      OBVIOUS
    <2>. HIDE DEF g
    <2>5. Upto(g, n + 1)
      BY <2>3, <2>4
    <2>. HIDE DEF Upto
    <2>. QED
      BY <2>5
  <1>. HIDE DEF P
  <1>3. Len(frames) \in P
    BY <1>1, <1>2, AllNat
  <1>. QED
    BY <1>3 DEF P, IsTold

LEMMA StoryEnds ==
    ASSUME NEW c, NEW frames, Len(frames) \in Nat, NEW f, IsTold(f, c, frames)
    PROVE  StoryIn(c, frames) = f[Len(frames)]
  <1>. DEFINE g == CHOOSE h : IsTold(h, c, frames)
              N == Len(frames)
              P == {k \in Nat : k <= N => f[k] = g[k]}
  <1>1. IsTold(g, c, frames)
    BY ToldExists
  <1>2. StoryIn(c, frames) = g[N]
    BY DEF StoryIn
  <1>. HIDE DEF g
  <1>3. \A k \in 0..N : f[k] = IF k = 0 THEN Untold ELSE FollowIn(c, f[k - 1], frames[k])
    BY DEF IsTold
  <1>4. \A k \in 0..N : g[k] = IF k = 0 THEN Untold ELSE FollowIn(c, g[k - 1], frames[k])
    BY <1>1 DEF IsTold
  <1>. HIDE DEF N
  <1>5. N \in Nat
    BY DEF N
  <1>6. 0 \in P
    BY <1>3, <1>4, <1>5
  <1>7. ASSUME NEW k \in Nat, k \in P PROVE k + 1 \in P
    <2>. SUFFICES ASSUME k + 1 <= N PROVE f[k + 1] = g[k + 1]
      OBVIOUS
    <2>1. k + 1 \in 0..N /\ k + 1 # 0 /\ (k + 1) - 1 = k /\ k <= N
      BY <1>5
    <2>2. f[k] = g[k]
      BY <1>7, <2>1
    <2>. QED
      BY <1>3, <1>4, <2>1, <2>2
  <1>8. N \in P
    <2>. HIDE DEF P
    <2>. QED
      BY <1>5, <1>6, <1>7, AllNat
  <1>. QED
    BY <1>2, <1>5, <1>8 DEF N

LEMMA StoryBegins ==
    ASSUME NEW c
    PROVE  StoryIn(c, << >>) = Untold
  <1>. DEFINE frames == << >>
  <1>1. Len(frames) = 0 /\ Len(frames) \in Nat
    OBVIOUS
  <1>. HIDE DEF frames
  <1>2. PICK g : IsTold(g, c, frames)
    BY <1>1, ToldExists
  <1>3. g[0] = Untold
    BY <1>1, <1>2 DEF IsTold
  <1>. QED
    BY <1>1, <1>2, <1>3, StoryEnds DEF frames

LEMMA StoryAppend ==
    ASSUME NEW c, NEW frames, Blocks(frames), NEW f
    PROVE  StoryIn(c, Append(frames, f)) = FollowIn(c, StoryIn(c, frames), f)
  <1>. DEFINE N == Len(frames)
              next == Append(frames, f)
  <1>1. /\ N \in Nat /\ Len(next) = N + 1 /\ next[N + 1] = f
        /\ \A i \in 1..N : next[i] = frames[i]
    BY BlocksAppend
  <1>2. PICK g : IsTold(g, c, frames)
    BY <1>1, ToldExists
  <1>3. StoryIn(c, frames) = g[N]
    BY <1>1, <1>2, StoryEnds
  <1>4. \A k \in 0..N : g[k] = IF k = 0 THEN Untold ELSE FollowIn(c, g[k - 1], frames[k])
    BY <1>2 DEF IsTold
  <1>. HIDE DEF N, next
  <1>. DEFINE h == [k \in 0..(N + 1) |-> IF k = N + 1 THEN FollowIn(c, g[N], f) ELSE g[k]]
  <1>5. ASSUME NEW k \in 0..(N + 1)
        PROVE  h[k] = IF k = 0 THEN Untold ELSE FollowIn(c, h[k - 1], next[k])
    <2>1. CASE k = N + 1
      <3>1. h[k] = FollowIn(c, g[N], f) /\ k # 0 /\ k - 1 = N
        BY <1>1, <2>1
      <3>2. h[N] = g[N]
        BY <1>1
      <3>3. next[k] = f
        BY <1>1, <2>1
      <3>. HIDE DEF h
      <3>. QED
        BY <3>1, <3>2, <3>3
    <2>2. CASE k # N + 1
      <3>1. k \in 0..N /\ h[k] = g[k] /\ (k # 0 => h[k - 1] = g[k - 1] /\ k \in 1..N)
        BY <1>1, <2>2
      <3>2. k # 0 => next[k] = frames[k]
        BY <1>1, <3>1
      <3>. HIDE DEF h
      <3>. QED
        BY <1>4, <3>1, <3>2
    <2>. QED
      BY <2>1, <2>2
  <1>6. h = [k \in 0..(N + 1) |-> h[k]] /\ h[N + 1] = FollowIn(c, g[N], f)
    BY <1>1
  <1>. HIDE DEF h
  <1>7. IsTold(h, c, next)
    BY <1>1, <1>5, <1>6 DEF IsTold
  <1>8. StoryIn(c, next) = h[N + 1]
    BY <1>1, <1>7, StoryEnds
  <1>. QED
    BY <1>3, <1>6, <1>8 DEF N, next

--------------------------------------------------------------------------------
(* Movies *)

Movies == Seq([picture : Pictures, time : Nat])

LEMMA ShownIs ==
    ASSUME NEW m \in Movies, NEW pic \in Pictures, NEW t \in Nat
    PROVE  /\ Shown(m, pic, t) \in Movies /\ Shown(m, pic, t) # << >>
           /\ \A u \in Nat : Shown(Shown(m, pic, t), pic, u) = Shown(m, pic, t + u)
  <1>. DEFINE Scenes == [picture : Pictures, time : Nat]
              n == Len(m)
              new == [picture |-> pic, time |-> t]
              s == Shown(m, pic, t)
  <1>1. m \in Seq(Scenes) /\ n \in Nat
    BY DEF Movies
  <1>2. new \in Scenes
    OBVIOUS
  <1>3. CASE m # << >> /\ m[n].picture = pic
    <2>. DEFINE last == m[n]
                longer == [picture |-> pic, time |-> last.time + t]
    <2>1. n \in 1..n /\ last \in Scenes
      <3>. HIDE DEF Scenes
      <3>1. n # 0
        BY <1>1, <1>3
      <3>2. n \in 1..n
        BY <1>1, <3>1
      <3>. QED
        BY <1>1, <3>2
    <2>2. last.time \in Nat /\ last = [picture |-> pic, time |-> last.time]
      BY <1>3, <2>1
    <2>3. longer \in Scenes /\ longer = [last EXCEPT !.time = @ + t]
      BY <2>2
    <2>4. s = [m EXCEPT ![n] = longer]
      <3>1. s = [m EXCEPT ![n].time = @ + t]
        BY <1>3 DEF Shown
      <3>2. [m EXCEPT ![n].time = @ + t] = [m EXCEPT ![n] = [last EXCEPT !.time = @ + t]]
        OBVIOUS
      <3>. QED
        BY <2>3, <3>1, <3>2
    <2>. HIDE DEF Scenes, s
    <2>5. s \in Seq(Scenes) /\ Len(s) = n /\ s[n] = longer
      BY <1>1, <2>1, <2>3, <2>4, ExceptSeq
    <2>6. s # << >>
      BY <2>1, <2>5
    <2>7. ASSUME NEW u \in Nat PROVE Shown(s, pic, u) = Shown(m, pic, t + u)
      <3>1. Shown(s, pic, u) = [s EXCEPT ![n].time = @ + u]
        <4>1. s # << >> /\ s[Len(s)].picture = pic /\ Len(s) = n
          BY <2>5, <2>6
        <4>. QED
          BY <4>1 DEF Shown
      <3>2. Shown(m, pic, t + u) = [m EXCEPT ![n].time = @ + (t + u)]
        BY <1>3 DEF Shown
      <3>3. [s EXCEPT ![n].time = @ + u] = [m EXCEPT ![n] = [longer EXCEPT !.time = @ + u]]
        BY <1>1, <2>1, <2>4
      <3>4. [longer EXCEPT !.time = @ + u] = [last EXCEPT !.time = @ + (t + u)]
        <4>1. [longer EXCEPT !.time = @ + u] = [picture |-> pic, time |-> (last.time + t) + u]
          OBVIOUS
        <4>2. [last EXCEPT !.time = @ + (t + u)] = [picture |-> pic, time |-> last.time + (t + u)]
          BY <2>2
        <4>3. (last.time + t) + u = last.time + (t + u)
          BY <2>2
        <4>. QED
          BY <4>1, <4>2, <4>3
      <3>. QED
        BY <3>1, <3>2, <3>3, <3>4
    <2>. QED
      BY <2>5, <2>6, <2>7 DEF Movies, Scenes, s
  <1>4. CASE ~(m # << >> /\ m[n].picture = pic)
    <2>1. s = Append(m, new)
      BY <1>4 DEF Shown
    <2>. HIDE DEF Scenes, new
    <2>2. /\ s \in Seq(Scenes) /\ s # << >> /\ Len(s) = n + 1 /\ s[n + 1] = new
          /\ \A i \in 1..n : s[i] = m[i]
      BY <1>1, <1>2, <2>1, AppendProperties
    <2>3. ASSUME NEW u \in Nat PROVE Shown(s, pic, u) = Shown(m, pic, t + u)
      <3>. DEFINE later == [picture |-> pic, time |-> t + u]
      <3>1. new.picture = pic /\ later = [new EXCEPT !.time = @ + u]
        BY DEF new
      <3>2. Shown(s, pic, u) = [s EXCEPT ![n + 1].time = @ + u]
        BY <2>2, <3>1 DEF Shown
      <3>3. Shown(m, pic, t + u) = Append(m, later)
        BY <1>4 DEF Shown
      <3>4. later \in Scenes
        BY DEF Scenes
      <3>. HIDE DEF later
      <3>5. n + 1 \in 1..Len(s)
        BY <1>1, <2>2
      <3>6. Shown(s, pic, u) = [s EXCEPT ![n + 1] = later]
        BY <2>2, <3>1, <3>2, <3>5
      <3>7. /\ [s EXCEPT ![n + 1] = later] \in Seq(Scenes) /\ Len([s EXCEPT ![n + 1] = later]) = n + 1
            /\ \A i \in 1..(n + 1) : [s EXCEPT ![n + 1] = later][i] = IF i = n + 1 THEN later ELSE s[i]
        BY <2>2, <3>4, <3>5, ExceptSeq
      <3>8. /\ Append(m, later) \in Seq(Scenes) /\ Len(Append(m, later)) = n + 1
            /\ \A i \in 1..n : Append(m, later)[i] = m[i]
            /\ Append(m, later)[n + 1] = later
        BY <1>1, <3>4, AppendProperties
      <3>9. ASSUME NEW i \in 1..(n + 1)
            PROVE  [s EXCEPT ![n + 1] = later][i] = Append(m, later)[i]
        <4>1. i = n + 1 \/ i \in 1..n
          BY <1>1
        <4>. QED
          BY <1>1, <2>2, <3>7, <3>8, <4>1
      <3>10. [s EXCEPT ![n + 1] = later] = Append(m, later)
        BY <3>7, <3>8, <3>9, SeqEqual
      <3>. QED
        BY <3>3, <3>6, <3>10
    <2>. QED
      BY <2>2, <2>3 DEF Movies, Scenes
  <1>. QED
    BY <1>3, <1>4

\* A story, and a viewer's state.
Tale(s) == s.picture \in Pictures /\ s.movie \in Movies

LEMMA FollowTale ==
    ASSUME NEW F, NEW c, NEW f, FrameOf(F, c, f), NEW s, Tale(s)
    PROVE  /\ Tale(FollowIn(c, s, f)) /\ FollowIn(c, s, f).movie # << >>
           /\ FollowIn(c, s, f).picture = MeantIn(c, f, s.picture)
           /\ FollowIn(c, s, f).movie = Shown(s.movie, MeantIn(c, f, s.picture), TimeIn(c, f))
  <1>. DEFINE pic == MeantIn(c, f, s.picture)
              t == TimeIn(c, f)
  <1>1. pic \in Pictures
    BY MeantPicture DEF Tale
  <1>2. t \in Nat
    <2>1. f.delay \in 0..MaxDelay
      BY DEF FrameOf, FrameConfigs
    <2>. QED
      BY <2>1, CgifAssumption DEF TimeIn
  <1>3. FollowIn(c, s, f) = [picture |-> pic, movie |-> Shown(s.movie, pic, t)]
    BY DEF FollowIn
  <1>4. s.movie \in Movies
    BY DEF Tale
  <1>. HIDE DEF pic, t
  <1>5. Shown(s.movie, pic, t) \in Movies /\ Shown(s.movie, pic, t) # << >>
    BY <1>1, <1>2, <1>4, ShownIs
  <1>6. FollowIn(c, s, f).picture = pic /\ FollowIn(c, s, f).movie = Shown(s.movie, pic, t)
    BY <1>3
  <1>. QED
    BY <1>1, <1>5, <1>6 DEF Tale, pic, t

\* A frame that changes nothing makes the one before last longer.
LEMMA FollowLonger ==
    ASSUME NEW F, NEW f, NEW g, NEW h,
           FrameOf(F, config, f), FrameOf(F, config, g), FrameOf(F, config, h),
           StandsFor(h, f), h.delay = f.delay + g.delay, "ANIMATED" \in config.attr,
           Changed(g, f) = {}, NEW s, Tale(s)
    PROVE  FollowIn(config, FollowIn(config, s, f), g) = FollowIn(config, s, h)
  <1>. DEFINE c == config
              pic == MeantIn(c, f, s.picture)
              one == FollowIn(c, s, f)
  <1>1. s.picture \in Pictures /\ s.movie \in Movies
    BY DEF Tale
  <1>2. one.picture = pic /\ one.movie = Shown(s.movie, pic, TimeIn(c, f))
    BY FollowTale
  <1>3. pic \in Pictures
    BY <1>1, MeantPicture
  <1>4. MeantIn(c, g, pic) = pic
    BY <1>1, MeantAgain
  <1>5. MeantIn(c, h, s.picture) = pic
    <2>1. /\ TableIn(c, h) = TableIn(c, f) /\ h.pixels = f.pixels
          /\ \A x : Keeps(h, x) = Keeps(f, x) /\ SeenThrough(c, h, x) = SeenThrough(c, f, x)
      BY StandsAlike DEF StandsFor
    <2>. QED
      BY <2>1 DEF MeantIn
  <1>6. /\ TimeIn(c, f) = f.delay /\ TimeIn(c, g) = g.delay /\ TimeIn(c, h) = f.delay + g.delay
        /\ f.delay \in Nat /\ g.delay \in Nat
    <2>1. f.delay \in 0..MaxDelay /\ g.delay \in 0..MaxDelay
      BY DEF FrameOf, FrameConfigs
    <2>. QED
      BY <2>1, CgifAssumption DEF TimeIn
  <1>7. FollowIn(c, one, g) = [picture |-> pic, movie |-> Shown(one.movie, pic, g.delay)]
    BY <1>2, <1>4, <1>6 DEF FollowIn
  <1>8. FollowIn(c, s, h) = [picture |-> pic, movie |-> Shown(s.movie, pic, f.delay + g.delay)]
    BY <1>5, <1>6 DEF FollowIn
  <1>. HIDE DEF pic
  <1>9. Shown(Shown(s.movie, pic, f.delay), pic, g.delay) = Shown(s.movie, pic, f.delay + g.delay)
    <2>1. PICK m \in Movies, t \in Nat, u \in Nat : m = s.movie /\ t = f.delay /\ u = g.delay
      BY <1>1, <1>6
    <2>2. Shown(Shown(m, pic, t), pic, u) = Shown(m, pic, t + u)
      BY <1>3, ShownIs
    <2>. QED
      BY <2>1, <2>2
  <1>. QED
    BY <1>2, <1>6, <1>7, <1>8, <1>9

--------------------------------------------------------------------------------
(* Writing a frame *)

RawConfigOf(c) ==
    [gct |-> IF "NO_GLOBAL_TABLE" \in c.attr THEN << >> ELSE c.palette,
     animated |-> "ANIMATED" \in c.attr, noLoop |-> "NO_LOOP" \in c.attr,
     numLoops |-> c.numLoops]

LEMMA RawConfigIs == RawConfig = RawConfigOf(config)
  BY DEF RawConfig, RawConfigOf

\* The raw stream while nothing has failed: a header, and frames.
RawOk(c, r) ==
    /\ r = [config |-> RawConfigOf(c), curResult |-> r.curResult, stream |-> r.stream]
    /\ r.curResult \in {"OK", "PENDING"}
    /\ Len(RawConfigOf(c).gct) <= MaxTable
    /\ Blocks(r.stream) /\ Len(r.stream) # 0
    /\ r.stream[1] = Header(RawConfigOf(c))
    /\ \A i \in 2..Len(r.stream) : r.stream[i].kind = "frame"

\* The codes of a frame.
CodeLenOf(r, rf) == InitCodeLen(NumEffColors(r.config, rf))
ReadOf(rf) == IF rf.interlaced THEN Interlaced(rf) ELSE rf.pixels
RasterOf(r, rf) == RasterOrError(ReadOf(rf), CodeLenOf(r, rf))
BlockOf(r, rf) == FrameBlock(r.config, rf, CodeLenOf(r, rf), RasterOf(r, rf).blocks)

\* A frame that is accepted is coded and appended.
LEMMA AddsFrame ==
    ASSUME NEW c, NEW r, RawOk(c, r), NEW rf, NEW failure,
           RawAddFrame(r, rf, failure).curResult = "OK"
    PROVE  /\ ~(Len(rf.lct) > MaxTable) /\ RasterOf(r, rf).result = "OK"
           /\ RawAddFrame(r, rf, failure) =
                 [config |-> RawConfigOf(c), curResult |-> "OK",
                  stream |-> Append(r.stream, BlockOf(r, rf))]
  <1>. DEFINE raster == RasterOf(r, rf)
              block == BlockOf(r, rf)
              Ends(x) == [r EXCEPT !.curResult = x]
              Written(x) == Write(Ends(x), block, failure)
              next == RawAddFrame(r, rf, failure)
  <1>1. r = [config |-> RawConfigOf(c), curResult |-> r.curResult, stream |-> r.stream]
        /\ r.curResult \in {"OK", "PENDING"}
    BY DEF RawOk
  <1>2. next = AddCoded(r, rf, CodeLenOf(r, rf), raster, failure)
    BY DEF RawAddFrame, CodeLenOf, RasterOf, ReadOf
  <1>3. next = IF Len(rf.lct) > MaxTable THEN Ends("ERROR")
               ELSE IF rf.interlaced /\ failure = "alloc" THEN Ends("EALLOC")
               ELSE IF raster.result # "OK" THEN Ends(raster.result)
               ELSE Written(IF failure = "write" THEN "EWRITE" ELSE "OK")
    BY <1>1, <1>2 DEF AddCoded, BlockOf
  <1>4. \A x : /\ Ends(x).curResult = x
               /\ Ends(x) = [config |-> RawConfigOf(c), curResult |-> x, stream |-> r.stream]
    BY <1>1
  <1>. HIDE DEF raster, block, Ends
  <1>5. \A x : Written(x) =
            [config |-> RawConfigOf(c), curResult |-> x,
             stream |-> Append(r.stream, IF failure = "write" THEN [kind |-> "torn"] ELSE block)]
    <2>. TAKE x
    <2>. DEFINE last == IF failure = "write" THEN [kind |-> "torn"] ELSE block
                rec == [config |-> RawConfigOf(c), curResult |-> x, stream |-> r.stream]
    <2>1. Written(x) = [Ends(x) EXCEPT !.stream = Append(@, last)]
      BY DEF Write
    <2>. HIDE DEF last
    <2>2. Ends(x) = rec
      BY <1>4
    <2>3. [rec EXCEPT !.stream = Append(@, last)] =
              [config |-> RawConfigOf(c), curResult |-> x, stream |-> Append(r.stream, last)]
      OBVIOUS
    <2>. HIDE DEF rec
    <2>. QED
      BY <2>1, <2>2, <2>3 DEF last
  <1>. HIDE DEF Written
  <1>6. \A x : Written(x).curResult = x
    BY <1>5
  <1>7. ~(Len(rf.lct) > MaxTable) /\ ~(rf.interlaced /\ failure = "alloc") /\ raster.result = "OK"
    BY <1>3, <1>4
  <1>8. failure # "write" /\ next = Written("OK")
    BY <1>3, <1>6, <1>7
  <1>. QED
    BY <1>5, <1>7, <1>8 DEF raster, block

\* The times of a frame.
LEMMA TimeWritten ==
    ASSUME NEW F, NEW q, NEW bef, NEW rf, QueueFrame(F, config, q), RawIs(rf, q, bef),
           bef # << >> => "ANIMATED" \in config.attr, NEW ext, ext = GraphicExt(RawConfig, rf)
    PROVE  (IF ext = << >> THEN 0 ELSE ext[1].delay) = TimeIn(config, q.config)
  <1>. DEFINE e == [disposal |-> rf.disposal, delay |-> rf.delay,
                    trans |-> IF rf.hasTrans THEN <<rf.transIndex>> ELSE << >>]
  <1>1. ext = IF "ANIMATED" \in config.attr \/ rf.hasTrans THEN <<e>> ELSE << >>
    BY DEF GraphicExt, RawConfig
  <1>2. /\ rf.delay = q.config.delay
        /\ (rf.hasTrans <=> \/ HasAlpha(q.config) \/ Uses("USE_TRANSPARENCY", q, bef)
                            \/ "SET_TRANS" \in q.config.attr)
    BY DEF RawIs
  <1>3. Uses("USE_TRANSPARENCY", q, bef) => "ANIMATED" \in config.attr
    BY UsesOnly
  <1>4. e.delay = q.config.delay
    BY <1>2
  <1>. HIDE DEF e
  <1>5. <<e>> # << >> /\ <<e>>[1] = e
    OBVIOUS
  <1>6. "ANIMATED" \in config.attr \/ rf.hasTrans
            <=> \/ "ANIMATED" \in config.attr \/ AlphaIn(config, q.config)
                \/ "SET_TRANS" \in q.config.attr
    BY <1>2, <1>3 DEF HasAlpha
  <1>7. CASE "ANIMATED" \in config.attr \/ rf.hasTrans
    <2>1. ext = <<e>> /\ TimeIn(config, q.config) = q.config.delay
      BY <1>1, <1>6, <1>7 DEF TimeIn
    <2>. QED
      BY <1>4, <1>5, <2>1
  <1>8. CASE ~("ANIMATED" \in config.attr \/ rf.hasTrans)
    <2>1. ext = << >> /\ TimeIn(config, q.config) = 0
      BY <1>1, <1>6, <1>8 DEF TimeIn
    <2>. QED
      BY <2>1
  <1>. QED
    BY <1>7, <1>8

\* What is left of the picture: a frame that is cleared away was written as a whole.
LEMMA DisposedIs ==
    ASSUME NEW F, NEW q, NEW bef, NEW rf, QueueFrame(F, config, q), RawIs(rf, q, bef),
           NEW len, NEW code, NEW block, block = FrameBlock(RawConfig, rf, len, code), NEW pic
    PROVE  Disposed(block, pic) = IF q.disposal = "LEAVE" THEN pic ELSE Blank
  <1>. DEFINE e == [disposal |-> rf.disposal, delay |-> rf.delay,
                    trans |-> IF rf.hasTrans THEN <<rf.transIndex>> ELSE << >>]
              w == WindowOf(q, bef)
  <1>1. block.ext = IF "ANIMATED" \in config.attr \/ rf.hasTrans THEN <<e>> ELSE << >>
    BY DEF GraphicExt, RawConfig, FrameBlock
  <1>2. /\ rf.disposal = q.disposal
        /\ HasAlpha(q.config) => rf.hasTrans
        /\ rf.left = w.left /\ rf.top = w.top /\ rf.width = w.width /\ rf.height = w.height
    BY DEF RawIs
  <1>3. e.disposal = q.disposal
    BY <1>2
  <1>. HIDE DEF e
  <1>4. ToSet(<<e>>) = {e} /\ ToSet(<< >>) = {}
    BY DEF ToSet
  <1>5. q.disposal \in {"LEAVE", "BACKGROUND"}
    BY DEF QueueFrame
  <1>6. CASE q.disposal = "LEAVE"
    <2>1. \A d \in ToSet(block.ext) : d.disposal = "LEAVE"
      BY <1>1, <1>3, <1>4, <1>6
    <2>. QED
      BY <1>6, <2>1 DEF Disposed
  <1>7. CASE q.disposal = "BACKGROUND"
    <2>1. HasAlpha(q.config) \/ ("DIFF_WINDOW" \notin q.config.gen /\ "ANIMATED" \in config.attr)
      BY <1>7 DEF QueueFrame, HasAlpha
    <2>2. ~(\A d \in ToSet(block.ext) : d.disposal = "LEAVE")
      BY <1>1, <1>2, <1>3, <1>4, <1>7, <2>1
    <2>3. w = Whole
      <3>1. ~Uses("DIFF_WINDOW", q, bef)
        BY <2>1, UsesOnly
      <3>. QED
        BY <3>1 DEF WindowOf
    <2>4. /\ block.left = Whole.left /\ block.top = Whole.top
          /\ block.width = Whole.width /\ block.height = Whole.height
      BY <1>2, <2>3 DEF FrameBlock
    <2>5. \A p \in Pixels : /\ Row(p) - block.top \in 0..(block.height - 1)
                            /\ Column(p) - block.left \in 0..(block.width - 1)
      BY <2>4, WholeWindow DEF InWindow
    <2>6. Disposed(block, pic) =
            [p \in Pixels |->
                IF /\ Row(p) - block.top \in 0..(block.height - 1)
                   /\ Column(p) - block.left \in 0..(block.width - 1)
                THEN Clear ELSE pic[p]]
      BY <2>2, Zenon DEF Disposed
    <2>7. Disposed(block, pic) = [p \in Pixels |-> Clear]
      BY <2>5, <2>6
    <2>. QED
      BY <1>7, <2>7 DEF Blank
  <1>. QED
    BY <1>5, <1>6, <1>7

\* The pixels of a frame that is accepted are read back, and all have codes.
LEMMA PixelsRead ==
    ASSUME NEW F, NEW r, RawOk(config, r), NEW q, NEW bef, QueueFrame(F, config, q),
           NEW rf, RawIs(rf, q, bef), Len(Table(q.config)) <= MaxTable,
           RasterOf(r, rf).result = "OK"
    PROVE  /\ PixelsOf(BlockOf(r, rf)) = rf.pixels
           /\ \A i \in 1..(rf.width * rf.height) :
                    rf.pixels[i] < InitDictLen(InitCodeLen(NumEffColors(RawConfig, rf)))
  <1>. DEFINE w == rf.width
              h == rf.height
              len == CodeLenOf(r, rf)
              read == ReadOf(rf)
              block == BlockOf(r, rf)
              code == RasterOf(r, rf).blocks
              win == WindowOf(q, bef)
  <1>1. r.config = RawConfig
    BY RawConfigIs DEF RawOk
  <1>2. len = InitCodeLen(NumEffColors(RawConfig, rf)) /\ len \in 3..MaxCodeLen
    BY <1>1, EffColors, TableCodes DEF CodeLenOf
  <1>3. WindowFits(win) /\ rf.width = win.width /\ rf.height = win.height
        /\ rf.pixels = RawPixels(q, bef, win)
    BY WindowOfFits DEF RawIs
  <1>4. w \in Nat /\ h \in Nat /\ w > 0 /\ h > 0
    BY <1>3 DEF WindowFits
  <1>5. rf.pixels \in [1..(w * h) -> Nat]
    BY <1>3, RawPixelsAre
  <1>6. /\ block.width = w /\ block.height = h /\ block.interlaced = rf.interlaced
        /\ block.codeSize = len - 1 /\ block.blocks = code
    BY DEF BlockOf, FrameBlock
  <1>7. read = IF block.interlaced THEN Interlaced(rf) ELSE rf.pixels
    BY <1>6 DEF ReadOf
  <1>8. RasterOf(r, rf) = RasterOrError(read, len)
    BY DEF RasterOf
  <1>. HIDE DEF w, h, len, read, block, code, win
  <1>9. /\ read \in Seq(Nat) /\ Len(read) = w * h
        /\ InRows(block, read) = rf.pixels
        /\ \A i \in 1..(w * h) : \E j \in 1..(w * h) : rf.pixels[i] = read[j]
    <2>1. rf.width = w /\ rf.height = h
      BY DEF w, h
    <2>. QED
      <3>1. RowsBack(rf, block, read, w * h)
        BY <1>4, <1>5, <1>6, <1>7, <2>1, RowsRestored
      <3>. QED
        BY <3>1 DEF RowsBack
  <1>10. read # << >>
    <2>1. 0 \in 0..(h - 1) /\ 0 \in 0..(w - 1)
      BY <1>4
    <2>2. 0 * w + 0 + 1 \in 1..(w * h)
      BY <1>4, <2>1, NumberOf
    <2>3. w * h \in Nat /\ Len(read) = w * h
      BY <1>4, <1>9
    <2>4. Len(read) # 0
      BY <2>2, <2>3
    <2>. QED
      BY <2>4
  <1>11. /\ LzwDecode(RasterOrError(read, len).blocks, len) = read
         /\ \A i \in 1..Len(read) : read[i] < InitDictLen(len)
    BY <1>2, <1>8, <1>9, <1>10, RasterReads
  <1>12. block.codeSize + 1 = len
    BY <1>2, <1>6, MaxDictLenNat
  <1>13. PixelsOf(block) = rf.pixels
    BY <1>6, <1>8, <1>9, <1>11, <1>12 DEF PixelsOf, code
  <1>14. ASSUME NEW i \in 1..(w * h) PROVE rf.pixels[i] < InitDictLen(len)
    <2>1. PICK j \in 1..(w * h) : rf.pixels[i] = read[j]
      BY <1>9
    <2>. QED
      BY <1>9, <1>11, <2>1
  <1>. QED
    BY <1>2, <1>13, <1>14 DEF block, w, h

\* A frame that is written shows what it stands for.
LEMMA FlushIs ==
    ASSUME NEW F, NEW r, RawOk(config, r), NEW q, NEW bef, QueueFrame(F, config, q),
           bef # << >> => "ANIMATED" \in config.attr, NEW failure,
           NEW s, s = Played(r.stream), Tale(s), CanvasFor(F, q, bef, s.canvas, s.picture),
           RawAddFrame(r, RawFrame(q, bef), failure).curResult = "OK"
    PROVE  LET r2 == RawAddFrame(r, RawFrame(q, bef), failure)
               t == Played(r2.stream)
               f == FollowIn(config, s, q.config)
           IN  /\ RawOk(config, r2)
               /\ t.picture = f.picture /\ t.movie = f.movie
               /\ t.canvas = IF q.disposal = "LEAVE" THEN f.picture ELSE Blank
  <1>. DEFINE rf == RawFrame(q, bef)
              r2 == RawAddFrame(r, rf, failure)
              block == BlockOf(r, rf)
              pic == MeantIn(config, q.config, s.picture)
              t == Played(r2.stream)
              f == FollowIn(config, s, q.config)
  <1>1. RawIs(rf, q, bef)
    BY RawFrameIs
  <1>a. r2.curResult = "OK"
    OBVIOUS
  <1>. HIDE DEF rf
  <1>2. /\ ~(Len(rf.lct) > MaxTable) /\ RasterOf(r, rf).result = "OK"
        /\ r2 = [config |-> RawConfigOf(config), curResult |-> "OK",
                 stream |-> Append(r.stream, block)]
    BY <1>a, AddsFrame
  <1>3. r.config = RawConfig /\ Blocks(r.stream) /\ Len(r.stream) # 0
        /\ r.stream[1] = Header(RawConfig) /\ Len(RawConfig.gct) <= MaxTable
        /\ \A i \in 2..Len(r.stream) : r.stream[i].kind = "frame"
    BY RawConfigIs DEF RawOk
  <1>4. Len(Table(q.config)) <= MaxTable
    <2>1. (IF rf.lct # << >> THEN rf.lct ELSE RawConfig.gct) = Table(q.config)
      BY <1>1, RawTable
    <2>2. Table(q.config) \in Seq(RGB)
      BY FrameFacts DEF QueueFrame, FrameFits, Table
    <2>3. Len(Table(q.config)) \in Nat
      BY <2>2
    <2>. QED
      BY <1>2, <1>3, <2>1, <2>3, TableMaxNat
  <1>5. /\ PixelsOf(block) = rf.pixels
        /\ \A i \in 1..(rf.width * rf.height) :
                rf.pixels[i] < InitDictLen(InitCodeLen(NumEffColors(RawConfig, rf)))
    BY <1>1, <1>2, <1>4, PixelsRead
  <1>6. block = FrameBlock(RawConfig, rf, CodeLenOf(r, rf), RasterOf(r, rf).blocks)
    BY <1>3 DEF BlockOf
  <1>. HIDE DEF block, r2
  <1>7. TableOf(r.stream, block) = Padded(Table(q.config))
    BY <1>1, <1>3, <1>6, TableOfIs
  <1>8. Drawn(Padded(Table(q.config)), block, rf.pixels, s.canvas) = pic
    BY <1>1, <1>4, <1>5, <1>6, DrawnIs
  <1>9. block.kind = "frame" /\ block.ext = GraphicExt(RawConfig, rf)
    BY <1>6 DEF FrameBlock
  <1>10. Played(Append(r.stream, block)) = Play(s, r.stream, block)
    BY <1>3, PlayedAppend
  <1>11. r2.stream = Append(r.stream, block)
    BY <1>2
  <1>. HIDE DEF pic
  <1>12. t = OnScreen(s, block, pic)
    BY <1>5, <1>7, <1>8, <1>9, <1>10, <1>11 DEF Play
  <1>. HIDE DEF t
  <1>13. (IF block.ext = << >> THEN 0 ELSE block.ext[1].delay) = TimeIn(config, q.config)
    BY <1>1, <1>9, TimeWritten
  <1>14. Disposed(block, pic) = IF q.disposal = "LEAVE" THEN pic ELSE Blank
    BY <1>1, <1>6, DisposedIs
  <1>15. t = [canvas |-> IF q.disposal = "LEAVE" THEN pic ELSE Blank, picture |-> pic,
              movie |-> Shown(s.movie, pic, TimeIn(config, q.config))]
    BY <1>12, <1>13, <1>14 DEF OnScreen
  <1>16. f.picture = pic /\ f.movie = Shown(s.movie, pic, TimeIn(config, q.config))
    BY DEF FollowIn, pic
  <1>. HIDE DEF f
  <1>17. /\ t.picture = f.picture /\ t.movie = f.movie
         /\ t.canvas = IF q.disposal = "LEAVE" THEN f.picture ELSE Blank
    BY <1>15, <1>16
  <1>18. RawOk(config, r2)
    <2>. DEFINE n == Len(r.stream)
                next == Append(r.stream, block)
    <2>1. /\ Blocks(next) /\ n \in Nat /\ Len(next) = n + 1 /\ next[n + 1] = block
          /\ \A i \in 1..n : next[i] = r.stream[i]
      BY <1>3, BlocksAppend
    <2>2. n # 0
      BY <1>3
    <2>3. \A i \in 2..n : r.stream[i].kind = "frame"
      BY <1>3
    <2>. HIDE DEF next, n
    <2>4. ASSUME NEW i \in 2..(n + 1) PROVE next[i].kind = "frame"
      <3>1. i = n + 1 \/ (i \in 2..n /\ i \in 1..n)
        BY <2>1
      <3>. QED
        BY <1>9, <2>1, <2>3, <3>1
    <2>5. next[1] = Header(RawConfigOf(config)) /\ Len(RawConfigOf(config).gct) <= MaxTable
      BY <1>3, <2>1, <2>2, RawConfigIs
    <2>6. /\ r2 = [config |-> RawConfigOf(config), curResult |-> r2.curResult, stream |-> r2.stream]
          /\ r2.curResult = "OK" /\ r2.stream = next
      BY <1>2 DEF next
    <2>7. Len(next) # 0
      BY <2>1
    <2>. QED
      BY <2>1, <2>4, <2>5, <2>6, <2>7 DEF RawOk
  <1>. QED
    BY <1>17, <1>18 DEF rf, r2, t, f

--------------------------------------------------------------------------------
(* The queue *)

LEMMA FrameThere ==
    ASSUME NEW F, NEW c, NEW q, QueueFrame(F, c, q)
    PROVE  /\ q # NoFrame
           /\ q = [config |-> q.config, disposal |-> q.disposal, transIndex |-> q.transIndex]
  <1>1. q = [config |-> q.config, disposal |-> q.disposal, transIndex |-> q.transIndex]
    BY DEF QueueFrame
  <1>2. "config" \in DOMAIN q
    BY <1>1
  <1>3. DOMAIN NoFrame = {}
    BY DEF NoFrame
  <1>. QED
    BY <1>1, <1>2, <1>3

LEMMA FrameAdded ==
    ASSUME NEW F, F \subseteq FramesFor(config), ProperFrames(config, F),
           NEW f \in F, config \in Configs, ~Invalid(f)
    PROVE  FrameOf(F, config, f)
  <1>1. f \in FrameConfigs
    BY CgifAssumption DEF FrameConfigs
  <1>2. StandsFor(f, f)
    BY DEF StandsFor
  <1>. QED
    BY <1>1, <1>2 DEF FrameOf, Invalid

\* The disposal of a frame: for the next one, and while there is no next one.
Linked(c, q, next) == q.disposal = IF AlphaIn(c, next.config) THEN "BACKGROUND" ELSE "LEAVE"
LastIn(c, q) == q.disposal = IF "TRANSPARENCY" \in c.attr THEN "BACKGROUND" ELSE "LEAVE"

\* The frames differ in the optimizations they may get and in their disposal.
Alike(q, r) == StandsFor(q.config, r.config) /\ q.config.delay = r.config.delay

\* Before f is put into the queue, and after it.
EnqueuedAt(F, c, next, queue, i, f) ==
    /\ next = [j \in Places |-> next[j]]
    /\ QueueFrame(F, c, next[i]) /\ next[i].config = f /\ LastIn(c, next[i])
    /\ \A j \in Places : j # i /\ j # i - 1 => next[j] = queue[j]
    /\ queue[i - 1] = NoFrame => next[i - 1] = NoFrame
    /\ queue[i - 1] # NoFrame => /\ QueueFrame(F, c, next[i - 1]) /\ Linked(c, next[i - 1], next[i])
                                 /\ Alike(next[i - 1], queue[i - 1])

\* A frame that gets a new disposal.
LEMMA SpoiledFits ==
    ASSUME NEW F, NEW q, QueueFrame(F, config, q), "ANIMATED" \in config.attr,
           NEW opts, "DIFF_WINDOW" \in opts
    PROVE  LET n == [q EXCEPT !.config.gen = @ \ opts, !.disposal = "BACKGROUND"]
           IN  QueueFrame(F, config, n) /\ Alike(n, q) /\ n.disposal = "BACKGROUND"
  <1>. DEFINE f == q.config
              g == [f EXCEPT !.gen = @ \ opts]
              n == [config |-> g, disposal |-> "BACKGROUND", transIndex |-> q.transIndex]
  <1>1. /\ FrameOf(F, config, f) /\ f \in FrameConfigs /\ q.transIndex \in 0..(MaxTable - 1)
        /\ q.transIndex = IF {"ALPHA", "SET_TRANS"} \intersect f.attr # {} THEN f.transIndex ELSE 0
    BY DEF QueueFrame, FrameOf
  <1>2. q = [config |-> f, disposal |-> q.disposal, transIndex |-> q.transIndex]
    BY FrameThere
  <1>3. [q EXCEPT !.config.gen = @ \ opts, !.disposal = "BACKGROUND"] = n
    <2>. HIDE DEF f
    <2>1. [q EXCEPT !.config.gen = @ \ opts, !.disposal = "BACKGROUND"]
            = [[q EXCEPT !.config.gen = @ \ opts] EXCEPT !.disposal = "BACKGROUND"]
      BY Zenon
    <2>. DEFINE d == q.disposal
                t == q.transIndex
                rec == [config |-> f, disposal |-> d, transIndex |-> t]
    <2>. HIDE DEF d, t
    <2>2. [rec EXCEPT !.config.gen = @ \ opts] = [config |-> g, disposal |-> d, transIndex |-> t]
      OBVIOUS
    <2>3. [[config |-> g, disposal |-> d, transIndex |-> t] EXCEPT !.disposal = "BACKGROUND"] = n
      BY DEF t
    <2>4. q = rec
      BY <1>2 DEF d, t
    <2>. HIDE DEF rec, g, n
    <2>. QED
      BY <2>1, <2>2, <2>3, <2>4
  <1>4. /\ g \in FrameConfigs /\ g.attr = f.attr /\ g.palette = f.palette /\ g.pixels = f.pixels
        /\ g.transIndex = f.transIndex /\ g.delay = f.delay /\ "DIFF_WINDOW" \notin g.gen
    BY <1>1 DEF FrameConfigs
  <1>5. n.config = g /\ n.disposal = "BACKGROUND" /\ n.transIndex = q.transIndex
    OBVIOUS
  <1>. HIDE DEF f, g
  <1>6. n \in [config : FrameConfigs, disposal : {"LEAVE", "BACKGROUND"}, transIndex : 0..(MaxTable - 1)]
    BY <1>1, <1>4
  <1>7. FrameOf(F, config, g)
    BY <1>1, <1>4 DEF FrameOf, StandsFor
  <1>. HIDE DEF n
  <1>8. QueueFrame(F, config, n)
    BY <1>1, <1>4, <1>5, <1>6, <1>7 DEF QueueFrame
  <1>9. Alike(n, q)
    BY <1>4, <1>5 DEF Alike, StandsFor, f
  <1>. QED
    BY <1>3, <1>5, <1>8, <1>9

LEMMA EnqueueIs ==
    ASSUME NEW F, NEW queue, NEW i \in 1..2, NEW f, FrameOf(F, config, f),
           queue[i - 1] # NoFrame => /\ QueueFrame(F, config, queue[i - 1])
                                     /\ LastIn(config, queue[i - 1]) /\ "ANIMATED" \in config.attr
    PROVE  EnqueuedAt(F, config, Enqueue(queue, i, f), queue, i, f)
  <1>. DEFINE disp == IF "TRANSPARENCY" \in config.attr THEN "BACKGROUND" ELSE "LEAVE"
              trans == IF {"ALPHA", "SET_TRANS"} \intersect f.attr # {} THEN f.transIndex ELSE 0
              new == [config |-> f, disposal |-> disp, transIndex |-> trans]
              next == Enqueue(queue, i, f)
              before == queue[i - 1]
              cleared == [before EXCEPT !.config.gen = @ \ Spoiled(f), !.disposal = "BACKGROUND"]
  <1>1. i \in Places /\ i - 1 \in Places /\ i # i - 1
    BY DEF Places
  <1>2. next = [j \in Places |->
                  IF j = i THEN new
                  ELSE IF j = i - 1 /\ queue[j] # NoFrame /\ HasAlpha(f)
                  THEN [queue[j] EXCEPT !.config.gen = @ \ Spoiled(f), !.disposal = "BACKGROUND"]
                  ELSE queue[j]]
    BY DEF Enqueue
  <1>3. QueueFrame(F, config, new) /\ new.config = f /\ new.disposal = disp
    <2>1. f \in FrameConfigs
      BY DEF FrameOf
    <2>2. f.transIndex \in 0..(MaxTable - 1)
      BY <2>1 DEF FrameConfigs
    <2>3. trans \in 0..(MaxTable - 1) /\ disp \in {"LEAVE", "BACKGROUND"}
      BY <2>2, TableMaxNat
    <2>4. disp = "BACKGROUND" => AlphaIn(config, f)
      BY DEF AlphaIn
    <2>5. new.config = f /\ new.disposal = disp /\ new.transIndex = trans
      OBVIOUS
    <2>6. trans = IF {"ALPHA", "SET_TRANS"} \intersect f.attr # {} THEN f.transIndex ELSE 0
      OBVIOUS
    <2>. HIDE DEF disp, trans
    <2>7. new \in [config : FrameConfigs, disposal : {"LEAVE", "BACKGROUND"},
                   transIndex : 0..(MaxTable - 1)]
      BY <2>1, <2>3
    <2>. HIDE DEF new
    <2>. QED
      BY <2>4, <2>5, <2>6, <2>7 DEF QueueFrame
  <1>4. LastIn(config, new)
    BY <1>3 DEF LastIn
  <1>. HIDE DEF new
  <1>5. next = [j \in Places |-> next[j]] /\ next[i] = new
    BY <1>1, <1>2
  <1>6. \A j \in Places : j # i /\ j # i - 1 => next[j] = queue[j]
    BY <1>2
  <1>7. next[i - 1] = IF before # NoFrame /\ HasAlpha(f) THEN cleared ELSE before
    BY <1>1, <1>2
  <1>8. "DIFF_WINDOW" \in Spoiled(f)
    BY DEF Spoiled
  <1>. HIDE DEF next, disp
  <1>9. ASSUME before # NoFrame
        PROVE  /\ QueueFrame(F, config, next[i - 1]) /\ Linked(config, next[i - 1], new)
               /\ Alike(next[i - 1], before)
    <2>1. QueueFrame(F, config, before) /\ LastIn(config, before) /\ "ANIMATED" \in config.attr
      BY <1>9
    <2>. HIDE DEF before
    <2>2. CASE HasAlpha(f)
      <3>1. next[i - 1] = cleared
        BY <1>7, <1>9, <2>2
      <3>. DEFINE opts == Spoiled(f)
      <3>. HIDE DEF opts
      <3>2. "DIFF_WINDOW" \in opts
        BY <1>8 DEF opts
      <3>3. LET n == [before EXCEPT !.config.gen = @ \ opts, !.disposal = "BACKGROUND"]
            IN  QueueFrame(F, config, n) /\ Alike(n, before) /\ n.disposal = "BACKGROUND"
        BY <2>1, <3>2, SpoiledFits
      <3>4. QueueFrame(F, config, cleared) /\ Alike(cleared, before) /\ cleared.disposal = "BACKGROUND"
        BY <3>3 DEF opts
      <3>. HIDE DEF cleared
      <3>. QED
        BY <1>3, <2>2, <3>1, <3>4 DEF Linked, HasAlpha
    <2>3. CASE ~HasAlpha(f)
      <3>1. next[i - 1] = before
        BY <1>7, <2>3
      <3>2. "TRANSPARENCY" \notin config.attr
        BY <2>3 DEF HasAlpha, AlphaIn
      <3>3. before.disposal = "LEAVE"
        BY <2>1, <3>2 DEF LastIn
      <3>4. Alike(before, before)
        BY DEF Alike, StandsFor
      <3>. QED
        BY <1>3, <2>1, <2>3, <3>1, <3>3, <3>4 DEF Linked, HasAlpha
    <2>. QED
      BY <2>2, <2>3
  <1>10. before = NoFrame => next[i - 1] = NoFrame
    BY <1>7
  <1>. QED
    BY <1>3, <1>4, <1>5, <1>6, <1>9, <1>10 DEF EnqueuedAt, next

--------------------------------------------------------------------------------
(* Stories of a queue *)

LEMMA FollowAlike ==
    ASSUME NEW c, NEW s, NEW t, s.picture = t.picture, s.movie = t.movie,
           NEW f, NEW g, StandsFor(f, g), f.delay = g.delay
    PROVE  FollowIn(c, s, f) = FollowIn(c, t, g)
  <1>1. /\ TableIn(c, f) = TableIn(c, g) /\ f.pixels = g.pixels /\ f.attr = g.attr
        /\ \A x : Keeps(f, x) = Keeps(g, x) /\ SeenThrough(c, f, x) = SeenThrough(c, g, x)
    BY StandsAlike DEF StandsFor
  <1>2. MeantIn(c, f, s.picture) = MeantIn(c, g, t.picture)
    BY <1>1 DEF MeantIn
  <1>3. TimeIn(c, f) = TimeIn(c, g)
    BY <1>1 DEF TimeIn, AlphaIn
  <1>. QED
    BY <1>2, <1>3 DEF FollowIn

LEMMA FollowSame ==
    ASSUME NEW c, NEW s, NEW t, s.picture = t.picture, s.movie = t.movie, NEW f
    PROVE  FollowIn(c, s, f) = FollowIn(c, t, f)
  BY DEF FollowIn

\* A movie goes on with the frames of a queue.
PlaceStory(c, queue, i, s) == IF queue[i] = NoFrame THEN s ELSE FollowIn(c, s, queue[i].config)
QueueStory(c, queue, s) == PlaceStory(c, queue, 2, PlaceStory(c, queue, 1, s))

LEMMA FollowQueueIs == \A s : FollowQueue(s) = QueueStory(config, aFrames, s)
  BY FollowIs DEF FollowQueue, QueueStory, PlaceStory

--------------------------------------------------------------------------------
(* The inductive invariant *)

\* The queue: frames from place 1 on, the one in place 0 is written already.  A
\* frame has the disposal the next one asks for.
QueueOk(F, c, queue, head, cur, frames) ==
    /\ queue = [i \in Places |-> queue[i]]
    /\ head \in 1..2
    /\ \A i \in Places : queue[i] # NoFrame => QueueFrame(F, c, queue[i])
    /\ head = 1 => queue[0] = NoFrame /\ queue[2] = NoFrame
    /\ head = 2 => queue[1] # NoFrame /\ queue[2] # NoFrame /\ "ANIMATED" \in c.attr
    /\ \A i \in 1..2 : queue[i - 1] # NoFrame /\ queue[i] # NoFrame =>
                            Linked(c, queue[i - 1], queue[i])
    /\ queue[head] # NoFrame => LastIn(c, queue[head])
    /\ cur = IF queue[1] = NoFrame THEN "PENDING" ELSE "OK"
    /\ Blocks(frames) /\ (frames = << >> <=> queue[1] = NoFrame)

\* A viewer after frame q: it shows what q stands for, and has it cleared away if
\* that is its disposal.
SeenAfter(c, q, s) ==
    /\ q = NoFrame => s.canvas = Blank /\ s.picture = Blank
    /\ q # NoFrame => /\ \E R \in Pictures : s.picture = MeantIn(c, q.config, R)
                      /\ s.canvas = IF q.disposal = "LEAVE" THEN s.picture ELSE Blank

\* The stream and the frames that wait show what was asked for.
TaleOk(c, queue, stream, frames) ==
    LET s == Played(stream)
        told == QueueStory(c, queue, s)
        story == StoryIn(c, frames)
    IN  /\ Tale(s) /\ SeenAfter(c, queue[0], s)
        /\ told.picture = story.picture /\ told.movie = story.movie

Going(F, c, queue, head, cur, r, frames) ==
    /\ QueueOk(F, c, queue, head, cur, frames)
    /\ RawOk(c, r)
    /\ queue[0] = NoFrame => r.curResult = "PENDING"
    /\ TaleOk(c, queue, r.stream, frames)

\* A GIF that is closed.
Written(c, r, frames) ==
    /\ Played(r.stream).movie = StoryIn(c, frames).movie
    /\ Complete(r.stream)
    /\ StoryIn(c, frames).movie # << >>

\* F holds what was added, and a program may add it.
Asks(F) ==
    /\ F \subseteq FramesFor(config) /\ ProperFrames(config, F)
    /\ ToSet(asked) \subseteq F
    /\ "ANIMATED" \in config.attr \/ Len(asked) <= 1

MovieInv ==
    /\ config \in Configs /\ asked \in Seq(FramesFor(config))
    /\ status \in {"none", "open", "null", "closed"}
    /\ status = "none" => /\ aFrames = [i \in Places |-> NoFrame] /\ iHEAD = 1
                          /\ curResult = "PENDING" /\ asked = << >>
    /\ status = "open" /\ Sound =>
            \A F : Asks(F) => Going(F, config, aFrames, iHEAD, curResult, raw, asked)
    /\ status = "closed" => aFrames = [i \in Places |-> NoFrame]
    /\ status = "closed" /\ Sound => \A F : Asks(F) => Written(config, raw, asked)

--------------------------------------------------------------------------------
(* Writing a frame of the queue *)

LEMMA AddResults ==
    ASSUME NEW c, NEW r, RawOk(c, r), NEW rf, NEW failure
    PROVE  RawAddFrame(r, rf, failure).curResult # "PENDING"
  <1>. DEFINE raster == RasterOf(r, rf)
              block == BlockOf(r, rf)
              Ends(x) == [r EXCEPT !.curResult = x]
              After(x) == Write(Ends(x), block, failure)
              next == RawAddFrame(r, rf, failure)
  <1>1. r = [config |-> RawConfigOf(c), curResult |-> r.curResult, stream |-> r.stream]
        /\ r.curResult \in {"OK", "PENDING"}
    BY DEF RawOk
  <1>2. next = AddCoded(r, rf, CodeLenOf(r, rf), raster, failure)
    BY DEF RawAddFrame, CodeLenOf, RasterOf, ReadOf
  <1>3. next = IF Len(rf.lct) > MaxTable THEN Ends("ERROR")
               ELSE IF rf.interlaced /\ failure = "alloc" THEN Ends("EALLOC")
               ELSE IF raster.result # "OK" THEN Ends(raster.result)
               ELSE After(IF failure = "write" THEN "EWRITE" ELSE "OK")
    BY <1>1, <1>2 DEF AddCoded, BlockOf
  <1>4. raster.result # "PENDING"
    BY RasterIs DEF RasterOf
  <1>5. \A x : Ends(x) = [config |-> RawConfigOf(c), curResult |-> x, stream |-> r.stream]
    BY <1>1
  <1>. HIDE DEF raster, block, Ends, next
  <1>6. \A x : After(x).curResult = x
    <2>. TAKE x
    <2>. DEFINE last == IF failure = "write" THEN [kind |-> "torn"] ELSE block
                rec == [config |-> RawConfigOf(c), curResult |-> x, stream |-> r.stream]
    <2>1. After(x) = [Ends(x) EXCEPT !.stream = Append(@, last)]
      BY DEF Write
    <2>. HIDE DEF last
    <2>2. Ends(x) = rec
      BY <1>5
    <2>3. [rec EXCEPT !.stream = Append(@, last)].curResult = x
      OBVIOUS
    <2>. HIDE DEF rec
    <2>. QED
      BY <2>1, <2>2, <2>3
  <1>7. \A x : Ends(x).curResult = x
    BY <1>5
  <1>. HIDE DEF After
  <1>. QED
    BY <1>3, <1>4, <1>6, <1>7 DEF next

\* The frame in place i is written: a viewer goes on with it.
LEMMA FlushPlace ==
    ASSUME NEW F, NEW i \in 1..2,
           QueueOk(F, config, aFrames, iHEAD, curResult, asked), aFrames[i] # NoFrame,
           NEW r, RawOk(config, r), NEW s, s = Played(r.stream), Tale(s),
           SeenAfter(config, aFrames[i - 1], s),
           NEW failure, FlushFrame(r, i, failure).curResult = "OK"
    PROVE  LET r2 == FlushFrame(r, i, failure)
               t == Played(r2.stream)
               f == FollowIn(config, s, aFrames[i].config)
           IN  /\ RawOk(config, r2) /\ Tale(t) /\ SeenAfter(config, aFrames[i], t)
               /\ t.picture = f.picture /\ t.movie = f.movie
  <1>. DEFINE q == aFrames[i]
              before == aFrames[i - 1]
              bef == IF before = NoFrame THEN << >> ELSE <<before.config>>
              r2 == FlushFrame(r, i, failure)
              t == Played(r2.stream)
              f == FollowIn(config, s, q.config)
  <1>1. i \in Places /\ i - 1 \in Places
    BY DEF Places
  <1>2. QueueFrame(F, config, q) /\ (before # NoFrame => QueueFrame(F, config, before))
    BY <1>1 DEF QueueOk
  <1>3. before # NoFrame => Linked(config, before, q)
    BY DEF QueueOk
  <1>4. r2 = RawAddFrame(r, RawFrame(q, bef), failure)
    BY DEF FlushFrame
  <1>5. before # NoFrame => "ANIMATED" \in config.attr
    <2>1. CASE iHEAD = 2
      BY <2>1 DEF QueueOk
    <2>2. CASE iHEAD = 1
      <3>1. aFrames[0] = NoFrame /\ aFrames[2] = NoFrame
        BY <2>2 DEF QueueOk
      <3>2. i = 1 /\ i - 1 = 0
        BY <3>1
      <3>. QED
        BY <3>1, <3>2
    <2>3. iHEAD = 1 \/ iHEAD = 2
      BY DEF QueueOk
    <2>. QED
      BY <2>1, <2>2, <2>3
  <1>. HIDE DEF q, before
  <1>6. before = NoFrame => bef = << >>
    OBVIOUS
  <1>7. before # NoFrame => bef = <<before.config>>
    OBVIOUS
  <1>. HIDE DEF bef, r2
  <1>8. CanvasFor(F, q, bef, s.canvas, s.picture)
    <2>1. s.picture \in Pictures
      BY DEF Tale
    <2>2. CASE before = NoFrame
      <3>1. s.canvas = Blank /\ s.picture = Blank
        BY <2>2 DEF SeenAfter, before
      <3>. QED
        BY <1>6, <2>1, <2>2, <3>1 DEF CanvasFor
    <2>3. CASE before # NoFrame
      <3>1. /\ \E R \in Pictures : s.picture = MeantIn(config, before.config, R)
            /\ s.canvas = IF before.disposal = "LEAVE" THEN s.picture ELSE Blank
        BY <2>3 DEF SeenAfter, before
      <3>2. before.disposal = IF HasAlpha(q.config) THEN "BACKGROUND" ELSE "LEAVE"
        BY <1>3, <2>3 DEF Linked, HasAlpha
      <3>3. FrameOf(F, config, before.config) /\ before.config \in FrameConfigs
        BY <1>2, <2>3 DEF QueueFrame, FrameOf
      <3>4. s.canvas = IF HasAlpha(q.config) THEN Blank ELSE s.picture
        BY <3>1, <3>2
      <3>5. \E b \in FrameConfigs, R \in Pictures :
                bef = <<b>> /\ FrameOf(F, config, b) /\ s.picture = MeantIn(config, b, R)
        BY <1>7, <2>3, <3>1, <3>3
      <3>. QED
        BY <2>1, <3>4, <3>5 DEF CanvasFor
    <2>. QED
      BY <2>2, <2>3
  <1>9. bef # << >> => "ANIMATED" \in config.attr
    BY <1>5, <1>6
  <1>10. r2.curResult = "OK"
    BY DEF r2
  <1>11. /\ RawOk(config, r2) /\ t.picture = f.picture /\ t.movie = f.movie
         /\ t.canvas = IF q.disposal = "LEAVE" THEN f.picture ELSE Blank
    BY <1>2, <1>4, <1>8, <1>9, <1>10, FlushIs
  <1>12. Tale(f) /\ f.picture = MeantIn(config, q.config, s.picture)
    BY <1>2, FollowTale DEF QueueFrame
  <1>. HIDE DEF t, f
  <1>13. Tale(t)
    BY <1>11, <1>12 DEF Tale
  <1>14. SeenAfter(config, q, t)
    <2>1. q # NoFrame
      BY DEF q
    <2>2. s.picture \in Pictures
      BY DEF Tale
    <2>. QED
      BY <1>11, <1>12, <2>1, <2>2 DEF SeenAfter
  <1>. QED
    BY <1>11, <1>13, <1>14 DEF q, r2, t, f

--------------------------------------------------------------------------------
(* The calls *)

\* The story goes on with the next frame.
LEMMA StoryGoes ==
    ASSUME NEW c, NEW frames, Blocks(frames), NEW told, NEW f,
           told.picture = StoryIn(c, frames).picture, told.movie = StoryIn(c, frames).movie
    PROVE  /\ StoryIn(c, Append(frames, f)) = FollowIn(c, told, f)
           /\ Blocks(Append(frames, f)) /\ Append(frames, f) # << >>
  <1>1. StoryIn(c, Append(frames, f)) = FollowIn(c, StoryIn(c, frames), f)
    BY StoryAppend
  <1>2. FollowIn(c, StoryIn(c, frames), f) = FollowIn(c, told, f)
    BY FollowSame
  <1>3. Len(frames) \in Nat /\ Len(Append(frames, f)) = Len(frames) + 1 /\ Blocks(Append(frames, f))
    BY BlocksAppend
  <1>4. Append(frames, f) # << >>
    BY <1>3
  <1>. QED
    BY <1>1, <1>2, <1>3, <1>4

\* Only an animation has a second frame.
LEMMA SecondFrame ==
    ASSUME NEW F, NEW f, "ANIMATED" \in config.attr \/ Len(Append(asked, f)) <= 1,
           QueueOk(F, config, aFrames, iHEAD, curResult, asked), aFrames[1] # NoFrame
    PROVE  "ANIMATED" \in config.attr
  <1>1. asked # << >> /\ Blocks(asked)
    BY DEF QueueOk
  <1>2. PICK S : asked \in Seq(S)
    BY <1>1 DEF Blocks
  <1>3. Len(asked) \in Nat /\ Len(asked) # 0
    BY <1>1, <1>2
  <1>4. Len(Append(asked, f)) = Len(asked) + 1
    BY <1>1, BlocksAppend
  <1>. QED
    BY <1>3, <1>4

\* A frame that is shown longer.
LEMMA LongerFits ==
    ASSUME NEW F, NEW q, QueueFrame(F, config, q), NEW d \in 0..MaxDelay
    PROVE  LET n == [q EXCEPT !.config.delay = d]
           IN  /\ QueueFrame(F, config, n) /\ StandsFor(n.config, q.config) /\ n.config.delay = d
               /\ n.disposal = q.disposal
  <1>. DEFINE f == q.config
              g == [f EXCEPT !.delay = d]
              disp == q.disposal
              trans == q.transIndex
              n == [config |-> g, disposal |-> disp, transIndex |-> trans]
  <1>1. /\ FrameOf(F, config, f) /\ f \in FrameConfigs
        /\ trans \in 0..(MaxTable - 1) /\ disp \in {"LEAVE", "BACKGROUND"}
        /\ trans = IF {"ALPHA", "SET_TRANS"} \intersect f.attr # {} THEN f.transIndex ELSE 0
        /\ disp = "BACKGROUND" => \/ AlphaIn(config, f)
                                  \/ "DIFF_WINDOW" \notin f.gen /\ "ANIMATED" \in config.attr
    BY DEF QueueFrame, FrameOf
  <1>2. q = [config |-> f, disposal |-> disp, transIndex |-> trans]
    BY FrameThere
  <1>3. /\ g \in FrameConfigs /\ g.attr = f.attr /\ g.palette = f.palette /\ g.pixels = f.pixels
        /\ g.transIndex = f.transIndex /\ g.delay = d /\ g.gen = f.gen
    BY <1>1 DEF FrameConfigs
  <1>4. [q EXCEPT !.config.delay = d] = n
    <2>. DEFINE rec == [config |-> f, disposal |-> disp, transIndex |-> trans]
    <2>. HIDE DEF f, disp, trans
    <2>1. [rec EXCEPT !.config.delay = d] = n
      OBVIOUS
    <2>. HIDE DEF n
    <2>. QED
      BY <1>2, <2>1
  <1>5. n.config = g /\ n.disposal = disp /\ n.transIndex = trans
    OBVIOUS
  <1>. HIDE DEF f, g, disp, trans
  <1>6. n \in [config : FrameConfigs, disposal : {"LEAVE", "BACKGROUND"}, transIndex : 0..(MaxTable - 1)]
    BY <1>1, <1>3
  <1>7. FrameOf(F, config, g) /\ StandsFor(g, f) /\ AlphaIn(config, g) = AlphaIn(config, f)
    BY <1>1, <1>3 DEF FrameOf, StandsFor, AlphaIn
  <1>. HIDE DEF n
  <1>8. QueueFrame(F, config, n)
    BY <1>1, <1>3, <1>5, <1>6, <1>7 DEF QueueFrame
  <1>. QED
    BY <1>3, <1>4, <1>5, <1>7, <1>8 DEF f, disp

\* A frame that shows what the last one shows makes it longer.
LEMMA IdenticalGoes ==
    ASSUME NEW F, Going(F, config, aFrames, iHEAD, curResult, raw, asked),
           F \subseteq FramesFor(config), ProperFrames(config, F), NEW f \in F,
           config \in Configs, ~Invalid(f), Identical(f),
           "ANIMATED" \in config.attr \/ Len(Append(asked, f)) <= 1
    PROVE  Going(F, config, [aFrames EXCEPT ![iHEAD].config.delay = (@ + f.delay) % (MaxDelay + 1)],
                 iHEAD, curResult, raw, Append(asked, f))
  <1>. DEFINE q == aFrames[iHEAD]
              d == q.config.delay + f.delay
              n == [q EXCEPT !.config.delay = d]
              next == [aFrames EXCEPT ![iHEAD] = n]
              s == Played(raw.stream)
              told == QueueStory(config, aFrames, s)
              story == StoryIn(config, asked)
  <1>1. /\ QueueOk(F, config, aFrames, iHEAD, curResult, asked) /\ RawOk(config, raw)
        /\ aFrames[0] = NoFrame => raw.curResult = "PENDING"
        /\ Tale(s) /\ SeenAfter(config, aFrames[0], s)
        /\ told.picture = story.picture /\ told.movie = story.movie
    BY DEF Going, TaleOk
  <1>2. /\ aFrames = [i \in Places |-> aFrames[i]] /\ iHEAD \in 1..2
        /\ iHEAD = 1 => aFrames[0] = NoFrame /\ aFrames[2] = NoFrame
        /\ iHEAD = 2 => aFrames[1] # NoFrame /\ aFrames[2] # NoFrame /\ "ANIMATED" \in config.attr
        /\ Blocks(asked) /\ (asked = << >> <=> aFrames[1] = NoFrame)
        /\ \A i \in Places : aFrames[i] # NoFrame => QueueFrame(F, config, aFrames[i])
    BY <1>1 DEF QueueOk
  <1>3. q # NoFrame /\ Changed(f, q.config) = {} /\ f.delay + q.config.delay <= MaxDelay
    BY DEF Identical, LastFrame
  <1>4. iHEAD \in Places /\ QueueFrame(F, config, q)
    BY <1>2, <1>3 DEF Places
  <1>5. aFrames[1] # NoFrame /\ "ANIMATED" \in config.attr
    BY <1>1, <1>2, <1>3, SecondFrame
  <1>6. FrameOf(F, config, f) /\ FrameOf(F, config, q.config)
    BY <1>4, FrameAdded DEF QueueFrame
  <1>7. d \in 0..MaxDelay /\ d % (MaxDelay + 1) = d
    <2>1. f.delay \in 0..MaxDelay /\ q.config.delay \in 0..MaxDelay /\ MaxDelay \in Nat
      BY <1>6, CgifAssumption DEF FrameOf, FrameConfigs
    <2>2. d \in Nat /\ d <= MaxDelay
      BY <1>3, <2>1
    <2>. HIDE DEF d
    <2>. QED
      BY <2>1, <2>2
  <1>8. [aFrames EXCEPT ![iHEAD].config.delay = (@ + f.delay) % (MaxDelay + 1)] = next
    <2>1. [aFrames EXCEPT ![iHEAD].config.delay = (@ + f.delay) % (MaxDelay + 1)]
            = [aFrames EXCEPT ![iHEAD] = [q EXCEPT !.config.delay = d % (MaxDelay + 1)]]
      OBVIOUS
    <2>. QED
      BY <1>7, <2>1
  <1>. HIDE DEF d
  <1>9. /\ QueueFrame(F, config, n) /\ StandsFor(n.config, q.config) /\ n.config.delay = d
        /\ n.disposal = q.disposal
    BY <1>4, <1>7, LongerFits
  <1>. HIDE DEF n
  <1>10. /\ next = [i \in Places |-> next[i]] /\ next[iHEAD] = n
         /\ \A i \in Places : i # iHEAD => next[i] = aFrames[i]
    BY <1>2, <1>4
  <1>11. n # NoFrame
    BY <1>9, FrameThere
  <1>. HIDE DEF next
  <1>12. \A i \in Places : next[i] = NoFrame <=> aFrames[i] = NoFrame
    BY <1>3, <1>4, <1>10, <1>11
  <1>13. \A i \in Places : next[i] # NoFrame =>
            /\ QueueFrame(F, config, next[i]) /\ next[i].disposal = aFrames[i].disposal
            /\ next[i].config.attr = aFrames[i].config.attr
    BY <1>2, <1>9, <1>10, <1>12 DEF StandsFor
  <1>14. told = FollowIn(config, PlaceStory(config, aFrames, iHEAD - 1, s), q.config)
         /\ QueueStory(config, next, s) = FollowIn(config, PlaceStory(config, aFrames, iHEAD - 1, s), n.config)
    <2>1. CASE iHEAD = 1
      <3>1. aFrames[0] = NoFrame /\ aFrames[2] = NoFrame /\ next[2] = NoFrame /\ next[1] = n
        BY <1>2, <1>10, <2>1 DEF Places
      <3>2. PlaceStory(config, aFrames, iHEAD - 1, s) = s
        BY <2>1, <3>1 DEF PlaceStory
      <3>. QED
        BY <1>3, <1>11, <2>1, <3>1, <3>2 DEF QueueStory, PlaceStory
    <2>2. CASE iHEAD = 2
      <3>1. next[1] = aFrames[1] /\ next[2] = n
        BY <1>10, <2>2 DEF Places
      <3>. QED
        BY <1>3, <1>11, <2>2, <3>1 DEF QueueStory, PlaceStory
    <2>. QED
      BY <1>2, <2>1, <2>2
  <1>15. Tale(PlaceStory(config, aFrames, iHEAD - 1, s))
    <2>1. iHEAD - 1 \in Places
      BY <1>2 DEF Places
    <2>2. aFrames[iHEAD - 1] # NoFrame => FrameOf(F, config, aFrames[iHEAD - 1].config)
      BY <1>2, <2>1 DEF QueueFrame
    <2>. QED
      BY <1>1, <2>2, FollowTale DEF PlaceStory
  <1>16. FollowIn(config, told, f) = QueueStory(config, next, s)
    <2>. DEFINE u == PlaceStory(config, aFrames, iHEAD - 1, s)
    <2>. HIDE DEF u
    <2>1. FrameOf(F, config, n.config) /\ Tale(u)
      BY <1>9, <1>15 DEF QueueFrame, u
    <2>2. n.config.delay = q.config.delay + f.delay
      BY <1>9 DEF d
    <2>3. FollowIn(config, FollowIn(config, u, q.config), f) = FollowIn(config, u, n.config)
      BY <1>3, <1>5, <1>6, <1>9, <2>1, <2>2, FollowLonger
    <2>. HIDE DEF told
    <2>. QED
      BY <1>14, <2>3 DEF u
  <1>. HIDE DEF told, story, s, q
  <1>17. /\ StoryIn(config, Append(asked, f)) = FollowIn(config, told, f)
         /\ Blocks(Append(asked, f)) /\ Append(asked, f) # << >>
    BY <1>1, <1>2, StoryGoes DEF story
  <1>18. 0 \in Places /\ 1 \in Places /\ 2 \in Places /\ iHEAD # 0
    BY <1>2 DEF Places
  <1>19. TaleOk(config, next, raw.stream, Append(asked, f))
    <2>1. next[0] = aFrames[0]
      BY <1>10, <1>18
    <2>. QED
      BY <1>1, <1>16, <1>17, <2>1 DEF TaleOk, s
  <1>20. QueueOk(F, config, next, iHEAD, curResult, Append(asked, f))
    <2>1. \A i \in 1..2 : aFrames[i - 1] # NoFrame /\ aFrames[i] # NoFrame =>
                            Linked(config, aFrames[i - 1], aFrames[i])
      BY <1>1 DEF QueueOk
    <2>2. ASSUME NEW i \in 1..2, next[i - 1] # NoFrame, next[i] # NoFrame
          PROVE  Linked(config, next[i - 1], next[i])
      <3>1. i \in Places /\ i - 1 \in Places
        BY DEF Places
      <3>2. Linked(config, aFrames[i - 1], aFrames[i])
        BY <1>12, <2>1, <2>2, <3>1
      <3>3. next[i - 1].disposal = aFrames[i - 1].disposal /\ next[i].config.attr = aFrames[i].config.attr
        BY <1>13, <2>2, <3>1
      <3>. QED
        BY <3>2, <3>3 DEF Linked, AlphaIn
    <2>3. LastIn(config, next[iHEAD])
      <3>1. LastIn(config, aFrames[iHEAD])
        BY <1>1, <1>3 DEF QueueOk, q
      <3>. QED
        BY <1>4, <1>10, <1>11, <1>13, <3>1 DEF LastIn
    <2>4. curResult = IF next[1] = NoFrame THEN "PENDING" ELSE "OK"
      BY <1>1, <1>12, <1>18 DEF QueueOk
    <2>5. next[1] # NoFrame
      BY <1>5, <1>12, <1>18
    <2>. QED
      BY <1>2, <1>10, <1>12, <1>13, <1>17, <1>18, <2>2, <2>3, <2>4, <2>5 DEF QueueOk
  <1>21. next[0] = NoFrame => raw.curResult = "PENDING"
    BY <1>1, <1>12, <1>18
  <1>. QED
    BY <1>1, <1>8, <1>19, <1>20, <1>21 DEF Going

--------------------------------------------------------------------------------
(* A frame that is put into the queue *)

\* There is room for a frame at place i: what is before it has shown the story.
Room(F, c, queue, i, r, frames) ==
    LET s == Played(r.stream)
        told == IF i = 1 THEN s ELSE PlaceStory(c, queue, 1, s)
    IN  /\ RawOk(c, r) /\ Tale(s) /\ SeenAfter(c, queue[0], s)
        /\ queue[0] = NoFrame => r.curResult = "PENDING"
        /\ Blocks(frames)
        /\ told.picture = StoryIn(c, frames).picture /\ told.movie = StoryIn(c, frames).movie
        /\ \A j \in Places : j < i /\ queue[j] # NoFrame => QueueFrame(F, c, queue[j])
        /\ i = 1 => queue[0] = NoFrame /\ queue[2] = NoFrame
        /\ i = 2 => queue[1] # NoFrame /\ LastIn(c, queue[1]) /\ "ANIMATED" \in c.attr
        /\ i = 2 /\ queue[0] # NoFrame => Linked(c, queue[0], queue[1])

LEMMA EnqueueGoes ==
    ASSUME NEW F, NEW queue, NEW i \in 1..2, NEW f, FrameOf(F, config, f),
           NEW r, NEW frames, Room(F, config, queue, i, r, frames)
    PROVE  Going(F, config, Enqueue(queue, i, f), i, "OK", r, Append(frames, f))
  <1>. DEFINE next == Enqueue(queue, i, f)
              s == Played(r.stream)
              told == IF i = 1 THEN s ELSE PlaceStory(config, queue, 1, s)
              more == Append(frames, f)
  <1>1. /\ RawOk(config, r) /\ Tale(s) /\ SeenAfter(config, queue[0], s)
        /\ queue[0] = NoFrame => r.curResult = "PENDING"
        /\ Blocks(frames)
        /\ told.picture = StoryIn(config, frames).picture /\ told.movie = StoryIn(config, frames).movie
        /\ \A j \in Places : j < i /\ queue[j] # NoFrame => QueueFrame(F, config, queue[j])
        /\ i = 1 => queue[0] = NoFrame /\ queue[2] = NoFrame
        /\ i = 2 => queue[1] # NoFrame /\ LastIn(config, queue[1]) /\ "ANIMATED" \in config.attr
        /\ i = 2 /\ queue[0] # NoFrame => Linked(config, queue[0], queue[1])
    BY DEF Room
  <1>. HIDE DEF s, told
  <1>2. /\ 0 \in Places /\ 1 \in Places /\ 2 \in Places /\ i \in Places /\ i - 1 \in Places
        /\ i = 1 \/ i = 2
        /\ \A j \in Places : j = 0 \/ j = 1 \/ j = 2
    BY DEF Places
  <1>3. queue[i - 1] # NoFrame => /\ QueueFrame(F, config, queue[i - 1])
                                  /\ LastIn(config, queue[i - 1]) /\ "ANIMATED" \in config.attr
    <2>1. CASE i = 1
      BY <1>1, <2>1
    <2>2. CASE i = 2
      BY <1>1, <1>2, <2>2
    <2>. QED
      BY <1>2, <2>1, <2>2
  <1>4. EnqueuedAt(F, config, next, queue, i, f)
    BY <1>3, EnqueueIs
  <1>. HIDE DEF next
  <1>5. /\ next = [j \in Places |-> next[j]]
        /\ QueueFrame(F, config, next[i]) /\ next[i].config = f /\ LastIn(config, next[i])
        /\ \A j \in Places : j # i /\ j # i - 1 => next[j] = queue[j]
        /\ queue[i - 1] = NoFrame => next[i - 1] = NoFrame
        /\ queue[i - 1] # NoFrame => /\ QueueFrame(F, config, next[i - 1]) /\ Linked(config, next[i - 1], next[i])
                                     /\ Alike(next[i - 1], queue[i - 1])
    BY <1>4 DEF EnqueuedAt
  <1>6. next[i] # NoFrame
    BY <1>5, FrameThere
  <1>7. next[0] = queue[0]
    <2>1. CASE i = 1
      BY <1>1, <1>5, <2>1
    <2>2. CASE i = 2
      BY <1>2, <1>5, <2>2
    <2>. QED
      BY <1>2, <2>1, <2>2
  <1>8. /\ i = 1 => next[2] = NoFrame
        /\ i = 2 => /\ next[1] # NoFrame /\ QueueFrame(F, config, next[1]) /\ Alike(next[1], queue[1])
                    /\ Linked(config, next[1], next[2])
    <2>1. CASE i = 1
      BY <1>1, <1>2, <1>5, <2>1
    <2>2. CASE i = 2
      <3>1. QueueFrame(F, config, next[1]) /\ Alike(next[1], queue[1]) /\ Linked(config, next[1], next[2])
        BY <1>1, <1>5, <2>2
      <3>. QED
        BY <2>2, <3>1, FrameThere
    <2>. QED
      BY <1>2, <2>1, <2>2
  <1>9. QueueStory(config, next, s) = FollowIn(config, told, f)
    <2>1. CASE i = 1
      BY <1>5, <1>6, <1>8, <2>1 DEF QueueStory, PlaceStory, told
    <2>2. CASE i = 2
      <3>1. QueueStory(config, next, s) = FollowIn(config, FollowIn(config, s, next[1].config), f)
        BY <1>5, <1>6, <1>8, <2>2 DEF QueueStory, PlaceStory
      <3>2. told = FollowIn(config, s, queue[1].config)
        BY <1>1, <2>2 DEF PlaceStory, told
      <3>3. StandsFor(next[1].config, queue[1].config) /\ next[1].config.delay = queue[1].config.delay
        BY <1>8, <2>2 DEF Alike
      <3>4. FollowIn(config, s, next[1].config) = FollowIn(config, s, queue[1].config)
        BY <3>3, FollowAlike
      <3>. QED
        BY <3>1, <3>2, <3>4
    <2>. QED
      BY <1>2, <2>1, <2>2
  <1>10. /\ StoryIn(config, more) = FollowIn(config, told, f)
         /\ Blocks(more) /\ more # << >>
    BY <1>1, StoryGoes
  <1>. HIDE DEF more
  <1>11. TaleOk(config, next, r.stream, more)
    BY <1>1, <1>7, <1>9, <1>10 DEF TaleOk, s
  <1>12. \A j \in Places : next[j] # NoFrame => QueueFrame(F, config, next[j])
    <2>. TAKE j \in Places
    <2>. HAVE next[j] # NoFrame
    <2>1. CASE j = i
      BY <1>5, <2>1
    <2>2. CASE j = 0
      BY <1>1, <1>2, <1>7, <2>2
    <2>3. CASE j = 1
      BY <1>2, <1>5, <1>8, <2>3
    <2>4. CASE j = 2
      BY <1>2, <1>5, <1>8, <2>4
    <2>. QED
      BY <1>2, <2>2, <2>3, <2>4
  <1>13. \A j \in 1..2 : next[j - 1] # NoFrame /\ next[j] # NoFrame =>
                            Linked(config, next[j - 1], next[j])
    <2>. TAKE j \in 1..2
    <2>. HAVE next[j - 1] # NoFrame /\ next[j] # NoFrame
    <2>1. CASE i = 1
      <3>1. j = 1 \/ j = 2
        OBVIOUS
      <3>2. next[0] = NoFrame /\ next[2] = NoFrame
        BY <1>1, <1>7, <1>8, <2>1
      <3>. QED
        BY <3>1, <3>2
    <2>2. CASE i = 2 /\ j = 2
      BY <1>8, <2>2
    <2>3. CASE i = 2 /\ j = 1
      <3>1. Linked(config, queue[0], queue[1])
        BY <1>1, <1>7, <2>3
      <3>2. next[1].config.attr = queue[1].config.attr
        BY <1>8, <2>3 DEF Alike, StandsFor
      <3>3. Linked(config, next[0], next[1])
        BY <1>7, <3>1, <3>2 DEF Linked, AlphaIn
      <3>. QED
        BY <2>3, <3>3
    <2>4. j = 1 \/ j = 2
      OBVIOUS
    <2>. QED
      BY <1>2, <2>1, <2>2, <2>3, <2>4
  <1>14. /\ i = 1 => next[0] = NoFrame /\ next[2] = NoFrame
         /\ i = 2 => next[1] # NoFrame /\ next[2] # NoFrame /\ "ANIMATED" \in config.attr
    BY <1>1, <1>6, <1>7, <1>8
  <1>15. next[1] # NoFrame
    BY <1>2, <1>6, <1>8
  <1>16. QueueOk(F, config, next, i, "OK", more)
    BY <1>5, <1>10, <1>12, <1>13, <1>14, <1>15 DEF QueueOk
  <1>. QED
    BY <1>1, <1>7, <1>11, <1>16 DEF Going, next, more

\* There is a free place in the queue.
LEMMA QueueGoes ==
    ASSUME NEW F, Going(F, config, aFrames, iHEAD, curResult, raw, asked),
           F \subseteq FramesFor(config), ProperFrames(config, F), NEW f \in F,
           config \in Configs, ~Invalid(f),
           "ANIMATED" \in config.attr \/ Len(Append(asked, f)) <= 1,
           NEW i \in iHEAD..2, aFrames[i] = NoFrame, \A j \in iHEAD..(i - 1) : aFrames[j] # NoFrame
    PROVE  Going(F, config, Enqueue(aFrames, i, f), i, "OK", raw, Append(asked, f))
  <1>. DEFINE s == Played(raw.stream)
              told == IF i = 1 THEN s ELSE PlaceStory(config, aFrames, 1, s)
              last == QueueStory(config, aFrames, s)
  <1>1. /\ QueueOk(F, config, aFrames, iHEAD, curResult, asked) /\ RawOk(config, raw)
        /\ aFrames[0] = NoFrame => raw.curResult = "PENDING"
        /\ Tale(s) /\ SeenAfter(config, aFrames[0], s)
        /\ last.picture = StoryIn(config, asked).picture /\ last.movie = StoryIn(config, asked).movie
    BY DEF Going, TaleOk
  <1>2. /\ iHEAD \in 1..2
        /\ iHEAD = 1 => aFrames[0] = NoFrame /\ aFrames[2] = NoFrame
        /\ iHEAD = 2 => aFrames[1] # NoFrame /\ aFrames[2] # NoFrame /\ "ANIMATED" \in config.attr
        /\ Blocks(asked)
        /\ \A j \in Places : aFrames[j] # NoFrame => QueueFrame(F, config, aFrames[j])
        /\ aFrames[iHEAD] # NoFrame => LastIn(config, aFrames[iHEAD])
    BY <1>1 DEF QueueOk
  <1>3. iHEAD = 1
    <2>1. ASSUME iHEAD = 2 PROVE FALSE
      <3>1. i = 2
        BY <2>1
      <3>. QED
        BY <1>2, <2>1, <3>1
    <2>. QED
      BY <1>2, <2>1
  <1>4. i \in 1..2 /\ (i = 1 \/ i = 2)
    BY <1>3
  <1>5. i = 2 => aFrames[1] # NoFrame /\ LastIn(config, aFrames[1]) /\ "ANIMATED" \in config.attr
    <2>. HAVE i = 2
    <2>1. aFrames[1] # NoFrame
      BY <1>3
    <2>. QED
      BY <1>1, <1>2, <1>3, <2>1, SecondFrame
  <1>6. told = last
    <2>1. CASE i = 1
      BY <1>2, <1>3, <2>1 DEF QueueStory, PlaceStory
    <2>2. CASE i = 2
      BY <1>2, <1>3, <2>2 DEF QueueStory, PlaceStory
    <2>. QED
      BY <1>4, <2>1, <2>2
  <1>. HIDE DEF told, last, s
  <1>7. /\ told.picture = StoryIn(config, asked).picture
        /\ told.movie = StoryIn(config, asked).movie
    BY <1>1, <1>6
  <1>8. Room(F, config, aFrames, i, raw, asked)
    BY <1>1, <1>2, <1>3, <1>5, <1>7 DEF Room, told, s
  <1>9. FrameOf(F, config, f)
    BY FrameAdded
  <1>. QED
    BY <1>4, <1>8, <1>9, EnqueueGoes

\* The queue is full, and the older of the frames is written.
LEMMA FlushGoes ==
    ASSUME NEW F, Going(F, config, aFrames, iHEAD, curResult, raw, asked),
           F \subseteq FramesFor(config), ProperFrames(config, F), NEW f \in F,
           config \in Configs, ~Invalid(f),
           \A j \in iHEAD..2 : aFrames[j] # NoFrame,
           NEW failure, FlushFrame(raw, 1, failure).curResult = "OK"
    PROVE  Going(F, config, Enqueue(Shifted(aFrames), 2, f), 2, "OK",
                 FlushFrame(raw, 1, failure), Append(asked, f))
  <1>. DEFINE s == Played(raw.stream)
              last == QueueStory(config, aFrames, s)
              r == FlushFrame(raw, 1, failure)
              t == Played(r.stream)
              one == FollowIn(config, s, aFrames[1].config)
              queue == Shifted(aFrames)
              told == PlaceStory(config, queue, 1, t)
  <1>1. /\ QueueOk(F, config, aFrames, iHEAD, curResult, asked) /\ RawOk(config, raw)
        /\ Tale(s) /\ SeenAfter(config, aFrames[0], s)
        /\ last.picture = StoryIn(config, asked).picture /\ last.movie = StoryIn(config, asked).movie
    BY DEF Going, TaleOk
  <1>2. /\ aFrames = [j \in Places |-> aFrames[j]] /\ iHEAD \in 1..2
        /\ iHEAD = 1 => aFrames[0] = NoFrame /\ aFrames[2] = NoFrame
        /\ iHEAD = 2 => aFrames[1] # NoFrame /\ aFrames[2] # NoFrame /\ "ANIMATED" \in config.attr
        /\ Blocks(asked)
        /\ \A j \in Places : aFrames[j] # NoFrame => QueueFrame(F, config, aFrames[j])
        /\ aFrames[iHEAD] # NoFrame => LastIn(config, aFrames[iHEAD])
        /\ \A j \in 1..2 : aFrames[j - 1] # NoFrame /\ aFrames[j] # NoFrame =>
                            Linked(config, aFrames[j - 1], aFrames[j])
    BY <1>1 DEF QueueOk
  <1>3. iHEAD = 2
    <2>1. 2 \in iHEAD..2
      BY <1>2
    <2>. QED
      BY <1>2, <2>1
  <1>4. /\ aFrames[1] # NoFrame /\ aFrames[2] # NoFrame /\ "ANIMATED" \in config.attr
        /\ Linked(config, aFrames[1], aFrames[2]) /\ LastIn(config, aFrames[2])
        /\ 0 \in Places /\ 1 \in Places /\ 2 \in Places
    <2>1. Linked(config, aFrames[2 - 1], aFrames[2])
      <3>1. 2 \in 1..2 /\ 2 - 1 = 1
        OBVIOUS
      <3>. QED
        BY <1>2, <1>3, <3>1
    <2>. QED
      BY <1>2, <1>3, <2>1 DEF Places
  <1>5. /\ RawOk(config, r) /\ Tale(t) /\ SeenAfter(config, aFrames[1], t)
        /\ t.picture = one.picture /\ t.movie = one.movie
    <2>. HIDE DEF s
    <2>1. s = Played(raw.stream)
      BY DEF s
    <2>2. SeenAfter(config, aFrames[1 - 1], s) /\ 1 \in 1..2
      BY <1>1
    <2>. QED
      BY <1>1, <1>4, <2>1, <2>2, FlushPlace
  <1>6. queue[0] = aFrames[1] /\ queue[1] = aFrames[2]
    <2>1. queue = [aFrames EXCEPT ![0] = aFrames[1], ![1] = aFrames[2]]
      BY DEF Shifted
    <2>2. 0 \in DOMAIN aFrames /\ 1 \in DOMAIN aFrames
      BY <1>2, <1>4
    <2>. QED
      BY <2>1, <2>2
  <1>. HIDE DEF r, s, t, queue
  <1>7. told = last
    <2>1. last = FollowIn(config, one, aFrames[2].config)
      BY <1>4 DEF QueueStory, PlaceStory
    <2>2. told = FollowIn(config, t, aFrames[2].config)
      BY <1>4, <1>6 DEF PlaceStory
    <2>. HIDE DEF one
    <2>3. FollowIn(config, t, aFrames[2].config) = FollowIn(config, one, aFrames[2].config)
      BY <1>5, FollowSame
    <2>. QED
      BY <2>1, <2>2, <2>3
  <1>. HIDE DEF told, last
  <1>8. /\ told.picture = StoryIn(config, asked).picture
        /\ told.movie = StoryIn(config, asked).movie
    BY <1>1, <1>7
  <1>9. \A j \in Places : j < 2 /\ queue[j] # NoFrame => QueueFrame(F, config, queue[j])
    <2>. TAKE j \in Places
    <2>1. j < 2 => j = 0 \/ j = 1
      BY DEF Places
    <2>. QED
      BY <1>2, <1>4, <1>6, <2>1
  <1>10. Room(F, config, queue, 2, r, asked)
    BY <1>2, <1>4, <1>5, <1>6, <1>8, <1>9 DEF Room, told, t
  <1>11. FrameOf(F, config, f) /\ 2 \in 1..2
    BY FrameAdded
  <1>. QED
    BY <1>10, <1>11, EnqueueGoes DEF queue, r

--------------------------------------------------------------------------------
(* A GIF that is closed *)

\* The frames that wait are written.
LEMMA RestShows ==
    ASSUME NEW F, Going(F, config, aFrames, iHEAD, curResult, raw, asked), curResult = "OK",
           NEW a, NEW b, NEW rest, rest = FlushRest(FlushRest(raw, 1, a), 2, b),
           rest.curResult \in {"OK", "PENDING"}
    PROVE  /\ RawOk(config, rest) /\ Played(rest.stream).movie = StoryIn(config, asked).movie
           /\ StoryIn(config, asked).movie # << >>
  <1>. DEFINE s == Played(raw.stream)
              r == FlushFrame(raw, 1, a)
              t == Played(r.stream)
              one == FollowIn(config, s, aFrames[1].config)
              last == QueueStory(config, aFrames, s)
  <1>1. /\ QueueOk(F, config, aFrames, iHEAD, curResult, asked) /\ RawOk(config, raw)
        /\ Tale(s) /\ SeenAfter(config, aFrames[0], s)
        /\ last.movie = StoryIn(config, asked).movie
    BY DEF Going, TaleOk
  <1>2. /\ aFrames[1] # NoFrame
        /\ \A j \in Places : aFrames[j] # NoFrame => QueueFrame(F, config, aFrames[j])
    BY <1>1 DEF QueueOk
  <1>3. 1 \in Places /\ 2 \in Places /\ 1 \in 1..2 /\ 2 \in 1..2 /\ 1 - 1 = 0 /\ 2 - 1 = 1
    BY DEF Places
  <1>4. raw.curResult \in {"OK", "PENDING"}
    BY <1>1 DEF RawOk
  <1>5. FlushRest(raw, 1, a) = r
    BY <1>2, <1>4 DEF FlushRest
  <1>6. r.curResult # "PENDING"
    BY <1>1, AddResults DEF FlushFrame
  <1>7. r.curResult = "OK"
    <2>. HIDE DEF r
    <2>1. ASSUME r.curResult # "OK" PROVE FALSE
      <3>1. r.curResult \notin {"OK", "PENDING"}
        BY <1>6, <2>1
      <3>2. rest = r
        BY <1>5, <3>1 DEF FlushRest
      <3>. QED
        BY <3>1, <3>2
    <2>. QED
      BY <2>1
  <1>8. /\ RawOk(config, r) /\ Tale(t) /\ SeenAfter(config, aFrames[1], t)
        /\ t.picture = one.picture /\ t.movie = one.movie
    <2>. HIDE DEF s
    <2>1. s = Played(raw.stream)
      BY DEF s
    <2>2. SeenAfter(config, aFrames[1 - 1], s)
      BY <1>1
    <2>. QED
      BY <1>1, <1>2, <1>3, <1>7, <2>1, <2>2, FlushPlace
  <1>9. FrameOf(F, config, aFrames[1].config)
    BY <1>2, <1>3 DEF QueueFrame
  <1>10. Tale(one) /\ one.movie # << >>
    BY <1>1, <1>9, FollowTale
  <1>11. CASE aFrames[2] = NoFrame
    <2>1. last = one
      BY <1>2, <1>11 DEF QueueStory, PlaceStory
    <2>2. rest = r
      BY <1>5, <1>11 DEF FlushRest
    <2>. HIDE DEF last, one, r
    <2>. QED
      BY <1>1, <1>8, <1>10, <2>1, <2>2
  <1>12. CASE aFrames[2] # NoFrame
    <2>. DEFINE two == FollowIn(config, one, aFrames[2].config)
                twot == FollowIn(config, t, aFrames[2].config)
    <2>1. last = two
      BY <1>2, <1>12 DEF QueueStory, PlaceStory
    <2>2. FrameOf(F, config, aFrames[2].config)
      BY <1>2, <1>3, <1>12 DEF QueueFrame
    <2>. HIDE DEF one, r, s, t, last
    <2>3. two.movie # << >>
      BY <1>10, <2>2, FollowTale
    <2>4. twot = two
      BY <1>8, FollowSame
    <2>5. rest = FlushFrame(r, 2, b)
      BY <1>5, <1>7, <1>12 DEF FlushRest
    <2>6. rest.curResult # "PENDING"
      BY <1>8, <2>5, AddResults DEF FlushFrame
    <2>7. FlushFrame(r, 2, b).curResult = "OK"
      BY <2>5, <2>6
    <2>8. t = Played(r.stream) /\ SeenAfter(config, aFrames[2 - 1], t)
      BY <1>3, <1>8 DEF t
    <2>9. RawOk(config, rest) /\ Played(rest.stream).movie = twot.movie
      BY <1>1, <1>3, <1>8, <1>12, <2>5, <2>7, <2>8, FlushPlace
    <2>. QED
      BY <1>1, <2>1, <2>3, <2>4, <2>9
  <1>. QED
    BY <1>11, <1>12

\* The terminator is written.
LEMMA EndShows ==
    ASSUME NEW c, NEW r, RawOk(c, r), NEW failure
    PROVE  LET n == RawClose(r, failure)
           IN  /\ n.curResult = IF failure = "write" THEN "EWRITE" ELSE r.curResult
               /\ failure # "write" =>
                     Complete(n.stream) /\ Played(n.stream) = Played(r.stream)
  <1>. DEFINE n == RawClose(r, failure)
              end == [kind |-> "end"]
              conf == RawConfigOf(c)
              stream == r.stream
              more == Append(stream, end)
  <1>1. /\ r = [config |-> conf, curResult |-> r.curResult, stream |-> stream]
        /\ Blocks(stream) /\ Len(stream) # 0 /\ stream[1] = Header(conf)
        /\ \A i \in 2..Len(stream) : stream[i].kind = "frame"
    BY DEF RawOk
  <1>2. CASE failure = "write"
    <2>. DEFINE torn == [r EXCEPT !.curResult = "EWRITE"]
                last == [kind |-> "torn"]
    <2>1. n = [torn EXCEPT !.stream = Append(@, last)]
      BY <1>2 DEF RawClose, Write
    <2>2. torn = [config |-> conf, curResult |-> "EWRITE", stream |-> stream]
      BY <1>1
    <2>. HIDE DEF conf, stream, last, n, torn
    <2>3. n.curResult = "EWRITE"
      BY <2>1, <2>2
    <2>. QED
      BY <1>2, <2>3 DEF n
  <1>3. CASE failure # "write"
    <2>. DEFINE res == r.curResult
    <2>1. n = [r EXCEPT !.stream = Append(@, end)]
      BY <1>3 DEF RawClose, Write
    <2>2. end.kind = "end"
      OBVIOUS
    <2>3. r = [config |-> conf, curResult |-> res, stream |-> stream]
      BY <1>1
    <2>. HIDE DEF conf, stream, end, n, res
    <2>4. n.curResult = res /\ n.stream = more
      BY <2>1, <2>3
    <2>5. Blocks(stream) /\ Len(stream) # 0
      BY <1>1
    <2>6. Played(more) = Play(Played(stream), stream, end)
      BY <2>5, PlayedAppend
    <2>7. Played(more) = Played(stream)
      BY <2>2, <2>6 DEF Play
    <2>8. /\ Blocks(more) /\ Len(stream) \in Nat /\ Len(more) = Len(stream) + 1
          /\ \A i \in 1..Len(stream) : more[i] = stream[i]
          /\ more[Len(stream) + 1] = end
      BY <2>5, BlocksAppend
    <2>. HIDE DEF more
    <2>9. more[1].kind = "header"
      <3>1. 1 \in 1..Len(stream)
        BY <2>5, <2>8
      <3>2. Header(conf).kind = "header"
        BY DEF Header
      <3>. QED
        BY <1>1, <2>8, <3>1, <3>2
    <2>10. \A i \in 2..(Len(more) - 1) : more[i].kind = "frame"
      <3>. TAKE i \in 2..(Len(more) - 1)
      <3>1. i \in 2..Len(stream) /\ i \in 1..Len(stream)
        BY <2>8
      <3>. QED
        BY <1>1, <2>8, <3>1
    <2>11. more[Len(more)].kind = "end"
      BY <2>2, <2>8
    <2>12. Complete(more)
      BY <2>9, <2>10, <2>11 DEF Complete
    <2>. QED
      BY <1>3, <2>4, <2>7, <2>12 DEF n, res, stream
  <1>. QED
    BY <1>2, <1>3

\* cgif_close says that all went well.
LEMMA CloseShows ==
    ASSUME NEW F, Sound => Going(F, config, aFrames, iHEAD, curResult, raw, asked),
           NEW a, NEW b, NEW failure, NEW fileFails, NEW rest,
           rest = IF curResult = "OK" THEN FlushRest(FlushRest(raw, 1, a), 2, b) ELSE raw,
           Outcome(rest.curResult, RawClose(rest, failure).curResult, fileFails) \in {"OK", "PENDING"}
    PROVE  Written(config, RawClose(rest, failure), asked)
  <1>. DEFINE n == RawClose(rest, failure)
              closed == n.curResult
              res == rest.curResult
  <1>. HIDE DEF n, closed, res
  <1>1. Outcome(res, closed, fileFails) \in {"OK", "PENDING"}
    BY DEF res, closed, n
  <1>2. closed = "OK" /\ (IF curResult = "OK" THEN res ELSE curResult) \in {"OK", "PENDING"}
    BY <1>1 DEF Outcome
  <1>3. Sound
    BY <1>2 DEF Sound
  <1>4. /\ Going(F, config, aFrames, iHEAD, curResult, raw, asked)
        /\ QueueOk(F, config, aFrames, iHEAD, curResult, asked) /\ RawOk(config, raw)
        /\ aFrames[0] = NoFrame => raw.curResult = "PENDING"
    BY <1>3 DEF Going
  <1>5. curResult = "OK"
    <2>1. ASSUME curResult # "OK" PROVE FALSE
      <3>1. curResult = "PENDING" /\ rest = raw
        BY <1>3, <2>1 DEF Sound
      <3>2. aFrames[1] = NoFrame
        BY <1>4, <2>1 DEF QueueOk
      <3>3. aFrames[0] = NoFrame
        BY <1>4, <3>2 DEF QueueOk
      <3>4. raw.curResult = "PENDING"
        BY <1>4, <3>3
      <3>5. closed = IF failure = "write" THEN "EWRITE" ELSE raw.curResult
        BY <1>4, <3>1, EndShows DEF closed, n
      <3>. QED
        BY <1>2, <3>4, <3>5
    <2>. QED
      BY <2>1
  <1>6. rest = FlushRest(FlushRest(raw, 1, a), 2, b) /\ rest.curResult \in {"OK", "PENDING"}
    BY <1>2, <1>5 DEF res
  <1>7. /\ RawOk(config, rest) /\ Played(rest.stream).movie = StoryIn(config, asked).movie
        /\ StoryIn(config, asked).movie # << >>
    BY <1>4, <1>5, <1>6, RestShows
  <1>8. /\ closed = IF failure = "write" THEN "EWRITE" ELSE rest.curResult
        /\ failure # "write" => Complete(n.stream) /\ Played(n.stream) = Played(rest.stream)
    BY <1>7, EndShows DEF closed, n
  <1>9. Complete(n.stream) /\ Played(n.stream) = Played(rest.stream)
    BY <1>2, <1>8
  <1>. QED
    BY <1>7, <1>9 DEF Written, n

--------------------------------------------------------------------------------
(* The movie *)

LEMMA NewGoes ==
    ASSUME NEW F, config \in Configs, NEW queue, queue = [i \in Places |-> NoFrame],
           NEW failure, NEW r, r \in RawNewGif(RawConfig, failure)
    PROVE  Going(F, config, queue, 1, "PENDING", r, << >>)
  <1>. DEFINE conf == RawConfigOf(config)
              header == Header(conf)
              stream == <<header>>
              s == Played(stream)
  <1>1. r = [config |-> conf, curResult |-> "PENDING", stream |-> stream] /\ Len(conf.gct) <= MaxTable
    <2>1. Len(conf.gct) \in Nat
      <3>1. conf.gct \in Seq(RGB)
        BY CgifAssumption DEF RawConfigOf
      <3>. HIDE DEF conf
      <3>. QED
        BY <3>1
    <2>2. MaxTable \in Nat
      BY TableMaxNat
    <2>3. ~(Len(conf.gct) > MaxTable)
      BY RawConfigIs DEF RawNewGif
    <2>. QED
      BY <2>1, <2>2, <2>3, RawConfigIs DEF RawNewGif
  <1>2. header.kind = "header"
    BY DEF Header
  <1>3. s = Start
    <2>. HIDE DEF header
    <2>1. header.kind # "frame"
      BY <1>2
    <2>. QED
      BY <2>1, PlayedHeader
  <1>. HIDE DEF conf, header
  <1>4. Blocks(stream) /\ Len(stream) = 1 /\ stream[1] = header
    <2>1. stream \in Seq({header})
      OBVIOUS
    <2>. QED
      BY <2>1 DEF Blocks
  <1>. HIDE DEF stream, s
  <1>5. RawOk(config, r)
    <2>1. r.curResult = "PENDING" /\ r.stream = stream
      BY <1>1
    <2>2. \A i \in 2..Len(stream) : stream[i].kind = "frame"
      BY <1>4
    <2>3. r.stream[1] = Header(RawConfigOf(config))
      BY <1>4, <2>1 DEF header, conf
    <2>4. /\ r = [config |-> RawConfigOf(config), curResult |-> r.curResult, stream |-> r.stream]
          /\ Len(RawConfigOf(config).gct) <= MaxTable
      BY <1>1, <2>1 DEF conf
    <2>5. Blocks(r.stream)
      BY Zenon, <1>4, <2>1
    <2>6. Len(r.stream) # 0 /\ r.curResult \in {"OK", "PENDING"}
      <3>1. Len(r.stream) = 1
        BY Zenon, <1>4, <2>1
      <3>. QED
        BY <2>1, <3>1
    <2>7. \A i \in 2..Len(r.stream) : r.stream[i].kind = "frame"
      BY Zenon, <2>1, <2>2
    <2>. QED
      BY <2>3, <2>4, <2>5, <2>6, <2>7 DEF RawOk
  <1>6. /\ 0 \in Places /\ 1 \in Places /\ 2 \in Places
        /\ queue[0] = NoFrame /\ queue[1] = NoFrame /\ queue[2] = NoFrame
        /\ \A i \in Places : queue[i] = NoFrame
    BY DEF Places
  <1>7. QueueOk(F, config, queue, 1, "PENDING", << >>)
    <2>1. Blocks(<< >>)
      BY DEF Blocks
    <2>2. \A i \in 1..2 : i \in Places
      BY DEF Places
    <2>3. queue = [i \in Places |-> queue[i]]
      OBVIOUS
    <2>. QED
      BY <1>6, <2>1, <2>2, <2>3 DEF QueueOk
  <1>8. r.stream = stream /\ r.curResult = "PENDING" /\ s = Played(stream)
    BY <1>1 DEF s
  <1>9. Tale(s) /\ s.canvas = Blank /\ s.picture = Blank /\ s.movie = << >>
    <2>1. s.canvas = Blank /\ s.picture = Blank /\ s.movie = << >>
      BY <1>3 DEF Start
    <2>2. Blank \in Pictures
      BY DEF Blank, Pictures
    <2>3. << >> \in Movies
      BY DEF Movies
    <2>. QED
      BY <2>1, <2>2, <2>3 DEF Tale
  <1>10. SeenAfter(config, queue[0], s)
    BY <1>6, <1>9 DEF SeenAfter
  <1>11. QueueStory(config, queue, s) = s
    BY <1>6 DEF QueueStory, PlaceStory
  <1>12. StoryIn(config, << >>).picture = Blank /\ StoryIn(config, << >>).movie = << >>
    BY StoryBegins DEF Untold
  <1>13. TaleOk(config, queue, r.stream, << >>)
    BY <1>8, <1>9, <1>10, <1>11, <1>12 DEF TaleOk
  <1>. QED
    BY <1>5, <1>7, <1>8, <1>13 DEF Going

LEMMA MovieBegins == Init => MovieInv
  BY DEF Init, MovieInv

\* What holds of the frames that were asked for, held before the last one.
LEMMA AskedBefore ==
    ASSUME asked \in Seq(FramesFor(config)), NEW f \in FramesFor(config), UNCHANGED config,
           asked' = Append(asked, f), NEW F, Asks(F)'
    PROVE  /\ Asks(F) /\ f \in F
           /\ F \subseteq FramesFor(config) /\ ProperFrames(config, F)
           /\ "ANIMATED" \in config.attr \/ Len(Append(asked, f)) <= 1
  <1>1. /\ F \subseteq FramesFor(config) /\ ProperFrames(config, F)
        /\ ToSet(asked') \subseteq F
        /\ "ANIMATED" \in config.attr \/ Len(asked') <= 1
    BY DEF Asks
  <1>2. /\ Len(asked) \in Nat /\ Len(asked') = Len(asked) + 1
        /\ DOMAIN asked = 1..Len(asked) /\ DOMAIN asked' = 1..(Len(asked) + 1)
        /\ \A k \in 1..Len(asked) : asked'[k] = asked[k]
        /\ asked'[Len(asked) + 1] = f
    BY AppendProperties
  <1>3. ToSet(asked) \subseteq ToSet(asked') /\ f \in ToSet(asked')
    BY <1>2 DEF ToSet
  <1>. QED
    BY <1>1, <1>2, <1>3 DEF Asks

LEMMA MovieGoes == MovieInv /\ [Next]_vars => MovieInv'
  <1>. SUFFICES ASSUME MovieInv, [Next]_vars PROVE MovieInv'
    OBVIOUS
  <1>1. /\ config \in Configs /\ asked \in Seq(FramesFor(config))
        /\ status \in {"none", "open", "null", "closed"}
        /\ status = "none" => /\ aFrames = [i \in Places |-> NoFrame] /\ iHEAD = 1
                              /\ curResult = "PENDING" /\ asked = << >>
        /\ status = "open" /\ Sound =>
                \A F : Asks(F) => Going(F, config, aFrames, iHEAD, curResult, raw, asked)
        /\ status = "closed" => aFrames = [i \in Places |-> NoFrame]
        /\ status = "closed" /\ Sound => \A F : Asks(F) => Written(config, raw, asked)
    BY DEF MovieInv
  <1>2. ASSUME NewGif PROVE MovieInv'
    <2>1. /\ status = "none" /\ UNCHANGED <<config, curResult, aFrames, iHEAD, asked>>
      BY <1>2 DEF NewGif
    <2>2. PICK failure \in Failures :
              LET new == RawNewGif(RawConfig, failure)
              IN  IF new = {} THEN status' = "null" /\ UNCHANGED raw
                  ELSE status' = "open" /\ raw' \in new
      BY <1>2 DEF NewGif
    <2>3. CASE RawNewGif(RawConfig, failure) = {}
      BY <1>1, <2>1, <2>2, <2>3 DEF MovieInv
    <2>4. CASE RawNewGif(RawConfig, failure) # {}
      <3>1. status' = "open" /\ raw' \in RawNewGif(RawConfig, failure)
        BY <2>2, <2>4
      <3>2. \A F : Going(F, config, aFrames, 1, "PENDING", raw', << >>)
        BY <1>1, <2>1, <3>1, NewGoes
      <3>3. \A F : Going(F, config', aFrames', iHEAD', curResult', raw', asked')
        BY <1>1, <2>1, <3>2
      <3>. QED
        BY <1>1, <2>1, <3>1, <3>3 DEF MovieInv
    <2>. QED
      BY <2>3, <2>4
  <1>3. ASSUME NEW f \in FramesFor(config), MayAdd(f), UNCHANGED <<status, config>>,
               ASSUME NEW F, Asks(F)', Sound'
               PROVE  Going(F, config', aFrames', iHEAD', curResult', raw', asked')
        PROVE  MovieInv'
    <2>1. status = "open" /\ asked' = Append(asked, f)
      BY <1>3 DEF MayAdd
    <2>2. asked' \in Seq(FramesFor(config'))
      BY <1>1, <1>3, <2>1, AppendProperties
    <2>3. Sound' => \A F : Asks(F)' => Going(F, config', aFrames', iHEAD', curResult', raw', asked')
      BY <1>3
    <2>. QED
      BY <1>1, <1>3, <2>1, <2>2, <2>3 DEF MovieInv
  <1>4. ASSUME NEW f \in FramesFor(config), MayAdd(f), UNCHANGED config, NEW F, Asks(F)'
        PROVE  /\ asked' = Append(asked, f) /\ config \in Configs /\ f \in F
               /\ F \subseteq FramesFor(config) /\ ProperFrames(config, F)
               /\ "ANIMATED" \in config.attr \/ Len(Append(asked, f)) <= 1
               /\ Going(F, config, aFrames, iHEAD, curResult, raw, asked)
    <2>1. status = "open" /\ Sound /\ asked' = Append(asked, f)
      BY <1>4 DEF MayAdd
    <2>2. /\ Asks(F) /\ f \in F
          /\ F \subseteq FramesFor(config) /\ ProperFrames(config, F)
          /\ "ANIMATED" \in config.attr \/ Len(Append(asked, f)) <= 1
      BY <1>1, <1>4, <2>1, AskedBefore
    <2>. QED
      BY <1>1, <2>1, <2>2
  <1>5. ASSUME NEW f \in FramesFor(config), AddInvalid(f) PROVE MovieInv'
    <2>1. MayAdd(f) /\ UNCHANGED <<status, config>> /\ ~Sound'
      BY <1>5 DEF AddInvalid, Sound
    <2>. QED
      BY <1>3, <2>1
  <1>6. ASSUME NEW f \in FramesFor(config), AddIdentical(f) PROVE MovieInv'
    <2>1. /\ MayAdd(f) /\ ~Invalid(f) /\ Identical(f)
          /\ aFrames' = [aFrames EXCEPT ![iHEAD].config.delay = (@ + f.delay) % (MaxDelay + 1)]
          /\ UNCHANGED <<status, config, curResult, iHEAD, raw>>
      BY <1>6 DEF AddIdentical
    <2>2. ASSUME NEW F, Asks(F)'
          PROVE  Going(F, config', aFrames', iHEAD', curResult', raw', asked')
      <3>1. /\ asked' = Append(asked, f) /\ config \in Configs /\ f \in F
            /\ F \subseteq FramesFor(config) /\ ProperFrames(config, F)
            /\ "ANIMATED" \in config.attr \/ Len(Append(asked, f)) <= 1
            /\ Going(F, config, aFrames, iHEAD, curResult, raw, asked)
        BY <1>4, <2>1, <2>2
      <3>2. Going(F, config, [aFrames EXCEPT ![iHEAD].config.delay = (@ + f.delay) % (MaxDelay + 1)],
                  iHEAD, curResult, raw, Append(asked, f))
        BY <2>1, <3>1, IdenticalGoes
      <3>. QED
        BY <2>1, <3>1, <3>2
    <2>. QED
      BY <1>3, <2>1, <2>2
  <1>7. ASSUME NEW f \in FramesFor(config), AddToQueue(f) PROVE MovieInv'
    <2>1. /\ MayAdd(f) /\ ~Invalid(f) /\ curResult' = "OK" /\ UNCHANGED <<status, config, raw>>
      BY <1>7 DEF AddToQueue
    <2>2. PICK i \in iHEAD..2 :
              /\ aFrames[i] = NoFrame /\ \A j \in iHEAD..(i - 1) : aFrames[j] # NoFrame
              /\ aFrames' = Enqueue(aFrames, i, f)
              /\ iHEAD' = i
      BY <1>7 DEF AddToQueue
    <2>3. ASSUME NEW F, Asks(F)'
          PROVE  Going(F, config', aFrames', iHEAD', curResult', raw', asked')
      <3>1. /\ asked' = Append(asked, f) /\ config \in Configs /\ f \in F
            /\ F \subseteq FramesFor(config) /\ ProperFrames(config, F)
            /\ "ANIMATED" \in config.attr \/ Len(Append(asked, f)) <= 1
            /\ Going(F, config, aFrames, iHEAD, curResult, raw, asked)
        BY <1>4, <2>1, <2>3
      <3>2. Going(F, config, Enqueue(aFrames, i, f), i, "OK", raw, Append(asked, f))
        BY <2>1, <2>2, <3>1, QueueGoes
      <3>. QED
        BY <2>1, <2>2, <3>1, <3>2
    <2>. QED
      BY <1>3, <2>1, <2>3
  <1>8. ASSUME NEW f \in FramesFor(config), AddAndFlush(f) PROVE MovieInv'
    <2>1. /\ MayAdd(f) /\ ~Invalid(f) /\ \A j \in iHEAD..2 : aFrames[j] # NoFrame
          /\ curResult' = raw'.curResult /\ UNCHANGED <<status, config>>
          /\ raw'.curResult = "OK" =>
                aFrames' = Enqueue(Shifted(aFrames), 2, f) /\ iHEAD' = 2
      BY <1>8 DEF AddAndFlush
    <2>2. PICK failure \in Failures : raw' = FlushFrame(raw, 1, failure)
      BY <1>8 DEF AddAndFlush
    <2>3. ASSUME NEW F, Asks(F)', Sound'
          PROVE  Going(F, config', aFrames', iHEAD', curResult', raw', asked')
      <3>1. /\ asked' = Append(asked, f) /\ config \in Configs /\ f \in F
            /\ F \subseteq FramesFor(config) /\ ProperFrames(config, F)
            /\ Going(F, config, aFrames, iHEAD, curResult, raw, asked)
        BY <1>4, <2>1, <2>3
      <3>2. RawOk(config, raw)
        BY <3>1 DEF Going
      <3>3. raw'.curResult # "PENDING"
        BY <2>2, <3>2, AddResults DEF FlushFrame
      <3>4. raw'.curResult = "OK"
        BY <2>1, <2>3, <3>3 DEF Sound
      <3>5. FlushFrame(raw, 1, failure).curResult = "OK"
        BY <2>2, <3>4
      <3>6. Going(F, config, Enqueue(Shifted(aFrames), 2, f), 2, "OK",
                  FlushFrame(raw, 1, failure), Append(asked, f))
        BY <2>1, <3>1, <3>5, FlushGoes
      <3>. QED
        BY <2>1, <2>2, <3>1, <3>4, <3>6
    <2>. QED
      BY <1>3, <2>1, <2>3
  <1>9. ASSUME Close PROVE MovieInv'
    <2>1. /\ status = "open" /\ status' = "closed" /\ aFrames' = [i \in Places |-> NoFrame]
          /\ UNCHANGED <<config, iHEAD, asked>>
      BY <1>9 DEF Close
    <2>2. PICK what \in {"first", "second", "end", "file"}, failure \in Failures :
            LET Fault(w) == IF w = what THEN failure ELSE "none"
                rest  == IF curResult = "OK"
                         THEN FlushRest(FlushRest(raw, 1, Fault("first")), 2, Fault("second"))
                         ELSE raw
            IN  /\ raw' = RawClose(rest, Fault("end"))
                /\ curResult' = Outcome(rest.curResult, raw'.curResult, Fault("file") = "write")
      BY <1>9 DEF Close
    <2>. DEFINE a == IF "first" = what THEN failure ELSE "none"
                b == IF "second" = what THEN failure ELSE "none"
                e == IF "end" = what THEN failure ELSE "none"
                lost == (IF "file" = what THEN failure ELSE "none") = "write"
                rest == IF curResult = "OK" THEN FlushRest(FlushRest(raw, 1, a), 2, b) ELSE raw
    <2>3. raw' = RawClose(rest, e) /\ curResult' = Outcome(rest.curResult, raw'.curResult, lost)
      BY <2>2
    <2>. HIDE DEF a, b, e, lost
    <2>4. \A F : Asks(F) /\ Sound => Going(F, config, aFrames, iHEAD, curResult, raw, asked)
      BY <1>1, <2>1
    <2>5. ASSUME Sound', NEW F, Asks(F) PROVE Written(config, RawClose(rest, e), asked)
      <3>1. rest = IF curResult = "OK" THEN FlushRest(FlushRest(raw, 1, a), 2, b) ELSE raw
        OBVIOUS
      <3>. HIDE DEF rest
      <3>2. Outcome(rest.curResult, RawClose(rest, e).curResult, lost) \in {"OK", "PENDING"}
        BY <2>3, <2>5 DEF Sound
      <3>. QED
        BY <2>4, <2>5, <3>1, <3>2, CloseShows
    <2>. HIDE DEF rest
    <2>6. ASSUME Sound', NEW F, Asks(F)' PROVE Written(config', raw', asked')
      <3>1. Asks(F)
        BY <2>1, <2>6 DEF Asks
      <3>. QED
        BY <2>1, <2>3, <2>5, <2>6, <3>1
    <2>. QED
      BY <1>1, <2>1, <2>6 DEF MovieInv
  <1>10. CASE UNCHANGED vars
    BY <1>1, <1>10 DEF MovieInv, vars, Sound, Asks
  <1>. QED
    BY <1>2, <1>5, <1>6, <1>7, <1>8, <1>9, <1>10 DEF Next, AddFrame

LEMMA MovieShows == MovieInv => ShowsWhatWasAsked
  <1>. SUFFICES ASSUME MovieInv, status \in {"open", "closed"}, Sound, Proper
                PROVE  /\ FollowQueue(Played(raw.stream)).movie = Asked
                       /\ status = "closed" => Complete(raw.stream) /\ Asked # << >>
    BY DEF ShowsWhatWasAsked
  <1>. DEFINE s == Played(raw.stream)
  <1>. HIDE DEF s
  <1>1. FollowQueue(s) = QueueStory(config, aFrames, s)
    BY FollowQueueIs
  <1>2. Asked = StoryIn(config, asked).movie
    BY StoryIs DEF Asked
  <1>. DEFINE F == ToSet(asked)
  <1>5. Asks(F)
    <2>1. asked \in Seq(FramesFor(config))
      BY DEF MovieInv
    <2>2. F \subseteq FramesFor(config)
      BY <2>1 DEF ToSet
    <2>. QED
      BY <2>2 DEF Proper, Asks
  <1>. HIDE DEF F
  <1>3. CASE status = "open"
    <2>1. TaleOk(config, aFrames, raw.stream, asked)
      BY <1>3, <1>5 DEF MovieInv, Going
    <2>2. QueueStory(config, aFrames, s).movie = StoryIn(config, asked).movie
      BY <2>1 DEF TaleOk, s
    <2>. QED
      BY <1>1, <1>2, <1>3, <2>2 DEF s
  <1>4. CASE status = "closed"
    <2>1. Written(config, raw, asked) /\ aFrames = [i \in Places |-> NoFrame]
      BY <1>4, <1>5 DEF MovieInv
    <2>2. aFrames[1] = NoFrame /\ aFrames[2] = NoFrame
      BY <2>1 DEF Places
    <2>3. QueueStory(config, aFrames, s) = s
      BY <2>2 DEF QueueStory, PlaceStory
    <2>4. s.movie = StoryIn(config, asked).movie
      BY <2>1 DEF Written, s
    <2>5. Complete(raw.stream) /\ StoryIn(config, asked).movie # << >>
      BY <2>1 DEF Written
    <2>. QED
      BY <1>1, <1>2, <2>3, <2>4, <2>5 DEF s
  <1>. QED
    BY <1>3, <1>4

\* A viewer shows the animation the program asked for, if the program is careful with
\* indices, transparent colours and second frames (Proper): whatever cgif_addframe has
\* done to the frames - written them as differences to the one before, with a
\* free index for what stays, in the window that changed, dropped one that shows
\* the same, cleared one away for an alpha channel, interlaced and compressed
\* them - the pictures and their times are those of the frames that were added,
\* and a GIF that cgif_close reports as written is complete.
THEOREM ViewerSeesWhatWasAsked == Spec => []ShowsWhatWasAsked
  <1>1. Spec => []MovieInv
    BY MovieBegins, MovieGoes, PTL DEF Spec
  <1>. QED
    BY <1>1, MovieShows, PTL

================================================================================
