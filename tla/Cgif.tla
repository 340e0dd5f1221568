---------------------------------- MODULE Cgif ---------------------------------
(***************************************************************************)
(* The GIF writer of cgif.c: a program opens a GIF, adds frames and closes *)
(* it.  Frames wait in a queue of three, because a frame may have to be    *)
(* drawn differently once the next one is known, and because a frame is    *)
(* written as the difference to the one before it.                         *)
(***************************************************************************)
EXTENDS CgifRaw, FiniteSets

CONSTANTS
    Width, Height,  \* of the GIF and of every frame
    MaxDelay,       \* 0xFFFF in the code
    Configs,        \* CGIF_Config: [attr, gen (sets of flags), palette, numLoops]
    FramesFor(_),   \* CGIF_FrameConfig a program may add to a GIF of a Config:
                    \* [attr, gen (sets of flags), palette, pixels, delay, transIndex]
    MaxFrames       \* bound of the model: frames a program adds at most

Places == 0..2      \* SIZE_FRAME_QUEUE
Pixels == 1..(Width * Height)
Row(p) == (p - 1) \div Width
Column(p) == (p - 1) % Width

\* A table that is used has a colour.
ASSUME CgifAssumption ==
    /\ Width \in Nat \ {0} /\ Height \in Nat \ {0}
    /\ MaxDelay \in Nat /\ MaxFrames \in Nat
    /\ \A c \in Configs :
          /\ c.palette \in Seq(RGB)
          /\ "NO_GLOBAL_TABLE" \in c.attr \/ c.palette # << >>
          /\ FramesFor(c) \subseteq
                [attr : SUBSET {"LOCAL_TABLE", "INTERLACED", "ALPHA", "SET_TRANS"},
                 gen : SUBSET {"USE_TRANSPARENCY", "DIFF_WINDOW"},
                 palette : Seq(RGB), pixels : [Pixels -> 0..(MaxTable - 1)],
                 delay : 0..MaxDelay, transIndex : 0..(MaxTable - 1)]
          /\ \A f \in FramesFor(c) : "LOCAL_TABLE" \in f.attr => f.palette # << >>

VARIABLES
    status,         \* the handle: "none", "open", "null" or "closed"
    config,         \* pGIF->config
    curResult,
    aFrames,        \* the queue; place 0 holds the frame that was written last
    iHEAD,
    raw,            \* pGIFRaw
    asked           \* history: the frames handed over so far
vars == <<status, config, curResult, aFrames, iHEAD, raw, asked>>

NoFrame == << >>    \* NULL in the queue

TableIn(c, f) == IF "LOCAL_TABLE" \in f.attr THEN f.palette ELSE c.palette
Table(f) == TableIn(config, f)

AlphaIn(c, f) == "TRANSPARENCY" \in c.attr \/ "ALPHA" \in f.attr
HasAlpha(f) == AlphaIn(config, f)

\* Pixels with index x of frame f keep what was there before.
Keeps(f, x) == "SET_TRANS" \in f.attr /\ x = f.transIndex

--------------------------------------------------------------------------------
(* Comparing frames.                                                       *)

\* cmpPixel: the pixels show the same colour, or the new one keeps the old one.
SamePixel(cur, bef, iCur, iBef) ==
    \/ Keeps(cur, iCur)
    \/ /\ ~Keeps(bef, iBef)
       /\ iBef < Len(Table(bef)) /\ iCur < Len(Table(cur))
       /\ Table(bef)[iBef + 1] = Table(cur)[iCur + 1]

Changed(cur, bef) == {p \in Pixels : ~SamePixel(cur, bef, cur.pixels[p], bef.pixels[p])}

Whole == [left |-> 0, top |-> 0, width |-> Width, height |-> Height]

\* The least window with all that changed; one pixel if nothing did.
DiffWindow(cur, bef) ==
    LET rows == {Row(p) : p \in Changed(cur, bef)}
        cols == {Column(p) : p \in Changed(cur, bef)}
    IN  IF rows = {} THEN [left |-> 0, top |-> 0, width |-> 1, height |-> 1]
        ELSE [left |-> Min(cols), top |-> Min(rows),
              width |-> Max(cols) + 1 - Min(cols), height |-> Max(rows) + 1 - Min(rows)]

--------------------------------------------------------------------------------
(* Writing one frame.                                                      *)

\* An index the frame does not use: the last one of the least table, or of the
\* next larger one.
FreeIndex(numEntries) ==
    LET pow2 == IF NextPower2Ex(numEntries) < 2 THEN 2 ELSE NextPower2Ex(numEntries)
    IN  (IF Pow2[pow2] - 1 < numEntries THEN Pow2[pow2 + 1] - 1 ELSE Pow2[pow2] - 1) % MaxTable

\* The optimizations that are left for a frame; bef is << >> for the first one.
Optimizations(frame, bef) ==
    {opt \in frame.config.gen :
        /\ bef # << >> /\ ~HasAlpha(frame.config)
        /\ opt = "USE_TRANSPARENCY" => /\ "SET_TRANS" \notin frame.config.attr
                                       /\ Len(Table(frame.config)) # MaxTable}

RawFrame(frame, bef) ==
    LET cur    == frame.config
        opts   == Optimizations(frame, bef)
        window == IF "DIFF_WINDOW" \in opts THEN DiffWindow(cur, bef[1]) ELSE Whole
        transIndex == IF "USE_TRANSPARENCY" \in opts THEN FreeIndex(Len(Table(cur)))
                      ELSE frame.transIndex
        \* The window's i-th pixel, as a pixel of the whole frame.
        At(i)  == (window.top + (i - 1) \div window.width) * Width
                        + window.left + ((i - 1) % window.width) + 1
        pixels == [i \in 1..(window.width * window.height) |->
                    IF /\ "USE_TRANSPARENCY" \in opts
                       /\ SamePixel(cur, bef[1], cur.pixels[At(i)], bef[1].pixels[At(i)])
                    THEN transIndex ELSE cur.pixels[At(i)]]
    IN  [lct |-> IF "LOCAL_TABLE" \in cur.attr THEN cur.palette ELSE << >>,
         pixels |-> pixels,
         hasTrans |-> HasAlpha(cur) \/ "USE_TRANSPARENCY" \in opts \/ "SET_TRANS" \in cur.attr,
         interlaced |-> "INTERLACED" \in cur.attr,
         left |-> window.left, top |-> window.top,
         width |-> window.width, height |-> window.height,
         delay |-> cur.delay, disposal |-> frame.disposal, transIndex |-> transIndex]

\* flushFrame: frame i of the queue, which follows frame i - 1.
FlushFrame(r, i, failure) ==
    LET bef == IF aFrames[i - 1] = NoFrame THEN << >> ELSE <<aFrames[i - 1].config>>
    IN  RawAddFrame(r, RawFrame(aFrames[i], bef), failure)

--------------------------------------------------------------------------------
(* The calls of a program.                                                 *)

Init ==
    /\ status = "none"
    /\ config \in Configs
    /\ curResult = "PENDING"
    /\ aFrames = [i \in Places |-> NoFrame]
    /\ iHEAD = 1
    /\ raw = [config |-> << >>, curResult |-> "PENDING", stream |-> << >>]
    /\ asked = << >>

RawConfig ==
    [gct |-> IF "NO_GLOBAL_TABLE" \in config.attr THEN << >> ELSE config.palette,
     animated |-> "ANIMATED" \in config.attr, noLoop |-> "NO_LOOP" \in config.attr,
     numLoops |-> config.numLoops]

\* cgif_newgif: a handle, or NULL if the file, the memory or a write fails.
NewGif ==
    /\ status = "none"
    /\ \E failure \in Failures :
          LET new == RawNewGif(RawConfig, failure)
          IN  IF new = {} THEN status' = "null" /\ UNCHANGED raw
              ELSE status' = "open" /\ raw' \in new
    /\ UNCHANGED <<config, curResult, aFrames, iHEAD, asked>>

Sound == curResult \in {"OK", "PENDING"}

\* Flags that contradict each other, or no colour table at all.
InvalidIn(c, f) ==
    \/ AlphaIn(c, f) /\ "SET_TRANS" \in f.attr
    \/ "TRANSPARENCY" \in c.attr /\ "ALPHA" \in f.attr
    \/ "LOCAL_TABLE" \notin f.attr /\ "NO_GLOBAL_TABLE" \in c.attr
Invalid(f) == InvalidIn(config, f)

LastFrame == aFrames[iHEAD]

\* The frame shows what the last one shows, and their delays can be added.
Identical(f) ==
    /\ LastFrame # NoFrame
    /\ f.delay + LastFrame.config.delay <= MaxDelay
    /\ "KEEP_IDENT" \notin config.gen
    /\ Changed(f, LastFrame.config) = {}

\* One more frame may be added, to a GIF that is not animated too.
MayAdd(f) ==
    /\ status = "open" /\ Sound
    /\ Len(asked) < MaxFrames
    /\ asked' = Append(asked, f)

AddInvalid(f) ==
    /\ MayAdd(f)
    /\ Invalid(f)
    /\ curResult' = "ERROR"
    /\ UNCHANGED <<status, config, aFrames, iHEAD, raw>>

AddIdentical(f) ==
    /\ MayAdd(f)
    /\ ~Invalid(f) /\ Identical(f)
    /\ aFrames' = [aFrames EXCEPT ![iHEAD].config.delay =
                        (@ + f.delay) % (MaxDelay + 1)]
    /\ UNCHANGED <<status, config, curResult, iHEAD, raw>>

\* Mutant: the frame before keeps its window when an alpha channel follows.
Spoiled_OnlyGlobal(f) ==
    IF "TRANSPARENCY" \in config.attr THEN {"USE_TRANSPARENCY", "DIFF_WINDOW"} ELSE {}

\* The optimizations the frame before f loses if f has an alpha channel.
Spoiled(f) ==
    IF "TRANSPARENCY" \in config.attr THEN {"USE_TRANSPARENCY", "DIFF_WINDOW"}
    ELSE {"DIFF_WINDOW"}

\* The queue with f at place i; the frame before it is cleared away, as a whole,
\* if f has an alpha channel.
Enqueue(queue, i, f) ==
    [j \in Places |->
        IF j = i
        THEN [config |-> f,
              disposal |-> IF "TRANSPARENCY" \in config.attr THEN "BACKGROUND" ELSE "LEAVE",
              transIndex |-> IF {"ALPHA", "SET_TRANS"} \intersect f.attr # {}
                             THEN f.transIndex ELSE 0]
        ELSE IF j = i - 1 /\ queue[j] # NoFrame /\ HasAlpha(f)
        THEN [queue[j] EXCEPT !.config.gen = @ \ Spoiled(f), !.disposal = "BACKGROUND"]
        ELSE queue[j]]

\* The frame that was written stays for the next one to be compared with.
Shifted(queue) == [queue EXCEPT ![0] = queue[1], ![1] = queue[2]]

AddToQueue(f) ==
    /\ MayAdd(f)
    /\ ~Invalid(f) /\ ~Identical(f)
    /\ \E i \in iHEAD..2 :
          /\ aFrames[i] = NoFrame /\ \A j \in iHEAD..(i - 1) : aFrames[j] # NoFrame
          /\ aFrames' = Enqueue(aFrames, i, f)
          /\ iHEAD' = i
    /\ curResult' = "OK"
    /\ UNCHANGED <<status, config, raw>>

\* The queue is full: the older of the two frames that wait is written first.
AddAndFlush(f) ==
    /\ MayAdd(f)
    /\ ~Invalid(f) /\ ~Identical(f)
    /\ \A j \in iHEAD..2 : aFrames[j] # NoFrame
    /\ \E failure \in Failures : raw' = FlushFrame(raw, 1, failure)
    /\ IF raw'.curResult = "OK"
       THEN /\ aFrames' = Enqueue(Shifted(aFrames), 2, f)
            /\ iHEAD' = 2
       ELSE /\ aFrames' = [aFrames EXCEPT ![0] = NoFrame]
            /\ UNCHANGED iHEAD
    /\ curResult' = raw'.curResult
    /\ UNCHANGED <<status, config>>

\* Frame i, if there is one and nothing failed before.
FlushRest(r, i, failure) ==
    IF aFrames[i] = NoFrame \/ r.curResult \notin {"OK", "PENDING"} THEN r
    ELSE FlushFrame(r, i, failure)

\* What cgif_close returns: the last error there was.
Outcome(rest, closed, fileFails) ==
    IF fileFails THEN "ECLOSE"
    ELSE IF closed # "OK" THEN (IF closed = "PENDING" THEN "ERROR" ELSE closed)
    ELSE IF curResult = "OK" THEN rest ELSE curResult

\* cgif_close: the frames that wait, the terminator, and the file.  Bound of the
\* model: one thing fails at most.
Close ==
    /\ status = "open"
    /\ \E what \in {"first", "second", "end", "file"}, failure \in Failures :
          LET At(w) == IF w = what THEN failure ELSE "none"
              rest  == IF curResult = "OK"
                       THEN FlushRest(FlushRest(raw, 1, At("first")), 2, At("second"))
                       ELSE raw
          IN  /\ raw' = RawClose(rest, At("end"))
              /\ curResult' = Outcome(rest.curResult, raw'.curResult, At("file") = "write")
    /\ status' = "closed"
    /\ aFrames' = [i \in Places |-> NoFrame]
    /\ UNCHANGED <<config, iHEAD, asked>>

AddFrame == \E f \in FramesFor(config) :
                AddInvalid(f) \/ AddIdentical(f) \/ AddToQueue(f) \/ AddAndFlush(f)

Next == NewGif \/ AddFrame \/ Close

Spec == Init /\ [][Next]_vars

================================================================================
