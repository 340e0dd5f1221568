---------------------------------- MODULE Lzw ----------------------------------
(***************************************************************************)
(* The LZW encoder of cgif_raw.c: the dictionary tree, the codes, their    *)
(* variable length, and the packing into bytes and blocks.  One action is  *)
(* one call of lzw_crawl_tree, which consumes the longest string of pixels *)
(* that is in the dictionary.  Pixels are counted from 1.                  *)
(***************************************************************************)
EXTENDS Integers, Sequences, SequencesExt

CONSTANTS
    MaxCodeLen,     \* MAX_CODE_LEN, 12 in the code
    BlockSize       \* BLOCK_SIZE, 255 in the code

ASSUME LzwAssumption ==
    /\ MaxCodeLen \in Nat \ 0..3
    /\ BlockSize \in Nat \ {0}

\* 1 << n
Pow2[n \in Nat] == IF n = 0 THEN 1 ELSE 2 * Pow2[n - 1]

MaxDictLen == Pow2[MaxCodeLen]

\* Exponent of the least power of two that is not less than n.
NextPower2Ex(n) ==
    CHOOSE k \in 0..n : n <= Pow2[k] /\ \A j \in 0..(k - 1) : Pow2[j] < n

InitCodeLen(numEntries) ==
    IF NextPower2Ex(numEntries) < 3 THEN 3 ELSE NextPower2Ex(numEntries) + 1

InitDictLen(initCodeLen) == Pow2[initCodeLen - 1]

--------------------------------------------------------------------------------
(* The dictionary tree.  A node is a code; 0 stands for no child and for no *)
(* row, as in the code.  The rows of the map keep their entries when the    *)
(* dictionary is reset; a row that was never taken is not in the domain.    *)

Leaf == [map |-> 0, color |-> 0, child |-> 0]

\* Start of a new dictionary, announced by a clear code.
ResetDict(c) ==
    [c EXCEPT
        !.dictPos = c.initDictLen + 2,
        !.mapPos = 1,
        !.codes = Append(@, c.initDictLen),
        !.treeInit = [edge \in c.colors \X c.colors |-> 0],
        !.treeList = [node \in 0..(MaxDictLen - 1) |-> Leaf]]

Context(initDictLen) ==
    ResetDict([initDictLen |-> initDictLen, colors |-> 0..(initDictLen - 1),
               pos |-> 1, codes |-> << >>, dictPos |-> 0, mapPos |-> 0,
               treeInit |-> << >>, treeList |-> << >>, treeMap |-> << >>])

Child(c, node, color) ==
    LET entry == c.treeList[node]
    IN  IF node < c.initDictLen THEN c.treeInit[<<node, color>>]
        ELSE IF entry.child # 0 /\ entry.color = color THEN entry.child
        ELSE IF entry.map # 0 THEN c.treeMap[entry.map][color]
        ELSE 0

\* Mutant: a row taken before is not cleared.
TakeRow_Stale(c) ==
    [c EXCEPT !.mapPos = @ + 1,
              !.treeMap = [r \in DOMAIN @ \union {c.mapPos} |->
                    IF r \notin DOMAIN @ THEN [k \in c.colors |-> 0] ELSE @[r]]]

\* The next row of the map, cleared.
TakeRow(c) ==
    [c EXCEPT !.mapPos = @ + 1,
              !.treeMap = [r \in DOMAIN @ \union {c.mapPos} |->
                    IF r = c.mapPos THEN [k \in c.colors |-> 0] ELSE @[r]]]

\* The first child of a node has its place in the list, the others share a row.
AddChild(c, node, color) ==
    LET new   == c.dictPos
        entry == c.treeList[node]
        grown == [c EXCEPT !.dictPos = @ + 1]
    IN  CASE node < c.initDictLen ->
                [grown EXCEPT !.treeInit[<<node, color>>] = new]
          [] node >= c.initDictLen /\ entry.map # 0 ->
                [grown EXCEPT !.treeMap[entry.map][color] = new]
          [] node >= c.initDictLen /\ entry.map = 0 /\ entry.child = 0 ->
                [grown EXCEPT !.treeList[node] =
                    [map |-> 0, color |-> color, child |-> new]]
          [] OTHER ->
                [TakeRow(grown) EXCEPT !.treeList[node].map = c.mapPos,
                                       !.treeMap[c.mapPos][color] = new]

\* The node reached with pixels pos..i, or -1 if they are not in the dictionary.
NodeAt(c, image) ==
    LET node[i \in c.pos..Len(image)] ==
            IF image[i] >= c.initDictLen THEN -1
            ELSE IF i = c.pos THEN image[i]
            ELSE IF node[i - 1] = -1 THEN -1
            ELSE LET next == Child(c, node[i - 1], image[i])
                 IN  IF next = 0 THEN -1 ELSE next
    IN  node

\* Last pixel of the longest match; pos - 1 if the first one is no colour.
MatchEnd(c, image) ==
    CHOOSE i \in (c.pos - 1)..Len(image) :
        /\ i >= c.pos => NodeAt(c, image)[i] # -1
        /\ i < Len(image) => NodeAt(c, image)[i + 1] = -1

\* A pixel that is looked at is no colour: CGIF_EINDEX.
BadIndex(c, image) ==
    LET end == MatchEnd(c, image)
    IN  end < Len(image) /\ image[end + 1] >= c.initDictLen

DictFull(c) == c.dictPos >= MaxDictLen

\* One code for the longest match, and a new entry or a new dictionary.
CrawlTree(c, image) ==
    LET end  == MatchEnd(c, image)
        node == NodeAt(c, image)[end]
        sent == [c EXCEPT !.codes = Append(@, node), !.pos = end + 1]
    IN  IF end = Len(image) THEN sent
        ELSE IF DictFull(c) THEN ResetDict(sent)
        ELSE AddChild(sent, node, image[end + 1])

EndCode(c) == [c EXCEPT !.codes = Append(@, c.initDictLen + 1)]

\* Mutant: the clear code or the end code was forgotten.
CodePlaces_NoEnd(image) == Len(image) + 1

\* The places of pLZWData: one for each pixel, one clear code and the end code.
CodePlaces(image) == Len(image) + 2

\* A code was written past them; what the program does from then on is undefined.
Overrun(c, image) == Len(c.codes) > CodePlaces(image)

--------------------------------------------------------------------------------
(* Codes to bytes.  A byte is the set of the places of its 1 bits.         *)

\* Mutant: the next code is not taken into account.
CountReset_FromZero(initCodeLen) ==
    [len |-> initCodeLen, n |-> 2 * InitDictLen(initCodeLen), dictPos |-> 0]

\* The count after a clear code: it takes the next code into account.
CountReset(initCodeLen) ==
    [len |-> initCodeLen, n |-> 2 * InitDictLen(initCodeLen), dictPos |-> 1]

\* Codes get longer when the count reaches the threshold n.
Grown(s, dict) ==
    IF s.len < MaxCodeLen /\ s.n - dict = s.dictPos
    THEN [s EXCEPT !.len = @ + 1, !.n = 2 * @] ELSE s

\* The count after i codes.  It counts the codes since the last clear code, and
\* knows nothing of the dictionary.
CountAfter(codes, initCodeLen) ==
    LET dict == InitDictLen(initCodeLen)
        count[i \in 0..Len(codes)] ==
            IF i = 0 THEN CountReset(initCodeLen)
            ELSE IF codes[i] = dict THEN CountReset(initCodeLen)
            ELSE [Grown(count[i - 1], dict) EXCEPT !.dictPos = @ + 1]
    IN  count

\* The length of every code.
CodeLengths(codes, initCodeLen) ==
    LET count == CountAfter(codes, initCodeLen)
    IN  [i \in 1..Len(codes) |-> Grown(count[i - 1], InitDictLen(initCodeLen)).len]

ByteList(codes, initCodeLen) ==
    LET lens == CodeLengths(codes, initCodeLen)
        start[i \in 1..(Len(codes) + 1)] ==
            IF i = 1 THEN 0 ELSE start[i - 1] + lens[i - 1]
        ones == UNION {{start[i] + k : k \in {k \in 0..MaxCodeLen :
                            (codes[i] \div Pow2[k]) % 2 = 1}} : i \in DOMAIN codes}
    IN  [b \in 1..((start[Len(codes) + 1] + 7) \div 8) |->
            {k \in 0..7 : 8 * (b - 1) + k \in ones}]

\* Full blocks, a shorter one for the rest, and an empty one as terminator.
ByteListBlock(bytes) ==
    [i \in 1..((Len(bytes) + BlockSize - 1) \div BlockSize + 1) |->
        SubSeq(bytes, (i - 1) * BlockSize + 1,
               IF i * BlockSize < Len(bytes) THEN i * BlockSize ELSE Len(bytes))]

\* LZW_GenerateStream in one piece, for the callers.  "overrun" is not a value it
\* returns: it stands for what is undefined.
RasterOrError(image, initCodeLen) ==
    LET Turn(c) ==
            IF c.pos > Len(image) \/ BadIndex(c, image) THEN c ELSE CrawlTree(c, image)
        turn[k \in 0..Len(image)] ==
            IF k = 0 THEN Context(InitDictLen(initCodeLen)) ELSE Turn(turn[k - 1])
        last == turn[Len(image)]
        done == IF last.pos <= Len(image) THEN last ELSE EndCode(last)
    IN  IF Overrun(done, image) THEN [result |-> "overrun", blocks |-> << >>]
        ELSE IF last.pos <= Len(image) THEN [result |-> "EINDEX", blocks |-> << >>]
        ELSE [result |-> "OK",
              blocks |-> ByteListBlock(ByteList(done.codes, initCodeLen))]

================================================================================
