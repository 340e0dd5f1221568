--------------------------------- MODULE CgifRaw -------------------------------
(***************************************************************************)
(* The raw GIF stream of cgif_raw.c: header, frames and terminator, as     *)
(* operators that take the stream's state and return the next one.  The    *)
(* stream is the sequence of the blocks written.  A write that fails leaves *)
(* a torn block; the calls go on writing, as the code does.                *)
(***************************************************************************)
EXTENDS Lzw

CONSTANTS
    MaxTable,       \* entries of a colour table at most, 256 in the code
    RGB,            \* the colours
    Black           \* the colour of the padding bytes

\* A table has a power of two of entries, and codes for all of them exist.
ASSUME RawAssumption ==
    /\ MaxTable \in {Pow2[k] : k \in 2..(MaxCodeLen - 1)}
    /\ Black \in RGB

\* What may go wrong within a call: nothing, a write, an allocation.
Failures == {"none", "write", "alloc"}

Write(raw, block, failure) ==
    [raw EXCEPT !.stream = Append(@, IF failure = "write" THEN [kind |-> "torn"]
                                     ELSE block)]

\* A table is filled up to a power of two, two entries at least.
Padded(palette) ==
    LET size == Pow2[NextPower2Ex(Len(palette))]
    IN  [i \in 1..(IF size < 2 THEN 2 ELSE size) |->
            IF i <= Len(palette) THEN palette[i] ELSE Black]

\* The header, the global table, and the number of loops of an animation.
Header(config) ==
    [kind  |-> "header",
     table |-> IF config.gct = << >> THEN << >> ELSE Padded(config.gct),
     loops |-> IF config.animated /\ ~config.noLoop THEN <<config.numLoops>> ELSE << >>]

\* No state if the table is too large or a write fails.
RawNewGif(config, failure) ==
    IF Len(config.gct) > MaxTable \/ failure # "none" THEN {}
    ELSE {[config |-> config, curResult |-> "PENDING", stream |-> <<Header(config)>>]}

\* The rows first, first + step, ... below height.
Pass(first, step, height) ==
    [k \in 1..((height - first + step - 1) \div step) |-> first + (k - 1) * step]

\* Rows in the order they are written in: every 8th, every 8th from row 4,
\* every 4th from row 2, every 2nd from row 1.
RowOrder(height) ==
    Pass(0, 8, height) \o Pass(4, 8, height) \o Pass(2, 4, height) \o Pass(1, 2, height)

Interlaced(frame) ==
    [i \in 1..(frame.width * frame.height) |->
        frame.pixels[RowOrder(frame.height)[(i - 1) \div frame.width + 1] * frame.width
                        + ((i - 1) % frame.width) + 1]]

\* Colours the codes must stand for; a transparent index may lie beyond the table.
NumEffColors(config, frame) ==
    LET size == Len(IF frame.lct # << >> THEN frame.lct ELSE config.gct)
    IN  IF config.animated /\ frame.hasTrans /\ frame.transIndex >= size
        THEN frame.transIndex + 1 ELSE size

GraphicExt(config, frame) ==
    IF config.animated \/ frame.hasTrans
    THEN <<[disposal |-> frame.disposal, delay |-> frame.delay,
            trans |-> IF frame.hasTrans THEN <<frame.transIndex>> ELSE << >>]>>
    ELSE << >>

FrameBlock(config, frame, codeLen, blocks) ==
    [kind |-> "frame", ext |-> GraphicExt(config, frame),
     left |-> frame.left, top |-> frame.top,
     width |-> frame.width, height |-> frame.height, interlaced |-> frame.interlaced,
     table |-> IF frame.lct = << >> THEN << >> ELSE Padded(frame.lct),
     codeSize |-> codeLen - 1, blocks |-> blocks]

AddCoded(raw, frame, codeLen, raster, failure) ==
    LET Ends(result) == [raw EXCEPT !.curResult = result]
    IN  CASE raw.curResult \notin {"OK", "PENDING"} -> raw
          [] raw.curResult \in {"OK", "PENDING"} /\ Len(frame.lct) > MaxTable -> Ends("ERROR")
          [] OTHER ->
                IF frame.interlaced /\ failure = "alloc" THEN Ends("EALLOC")
                ELSE IF raster.result # "OK" THEN Ends(raster.result)
                ELSE Write(Ends(IF failure = "write" THEN "EWRITE" ELSE "OK"),
                           FrameBlock(raw.config, frame, codeLen, raster.blocks), failure)

RawAddFrame(raw, frame, failure) ==
    LET codeLen == InitCodeLen(NumEffColors(raw.config, frame))
    IN  AddCoded(raw, frame, codeLen,
                 RasterOrError(IF frame.interlaced THEN Interlaced(frame)
                               ELSE frame.pixels, codeLen),
                 failure)

RawClose(raw, failure) ==
    Write(IF failure = "write" THEN [raw EXCEPT !.curResult = "EWRITE"] ELSE raw,
          [kind |-> "end"], failure)

================================================================================
