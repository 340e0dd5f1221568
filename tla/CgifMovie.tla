------------------------------- MODULE CgifMovie -------------------------------
(***************************************************************************)
(* What a viewer shows of the stream Cgif writes, and that this is the     *)
(* animation the program asked for.                                        *)
(***************************************************************************)
EXTENDS Cgif, LzwReader

CONSTANT Clear      \* what is seen where nothing was drawn

\* Nothing is drawn for pixels with index x of frame f.
SeenThrough(c, f, x) ==
    \/ "ALPHA" \in f.attr /\ x = f.transIndex
    \/ "TRANSPARENCY" \in c.attr /\ x = 0

\* x is no index of f, whatever room its codes leave for a transparent one.
Refused(c, f, x) ==
    \A n \in {Len(TableIn(c, f)), f.transIndex + 1, FreeIndex(Len(TableIn(c, f))) + 1} :
        x >= InitDictLen(InitCodeLen(n))

\* Every index is in the table, or one that cgif refuses: an index in between has
\* the colour of the padding.
Indexed(c, f) ==
    \A p \in Pixels : \/ Keeps(f, f.pixels[p]) \/ SeenThrough(c, f, f.pixels[p])
                      \/ f.pixels[p] < Len(TableIn(c, f)) \/ Refused(c, f, f.pixels[p])

\* No pixel is transparent in f and opaque in g, with the same colour in the table:
\* cmpPixel compares colours only, and takes the two for equal.
Apart(c, f, g) ==
    LET Solid(h, p) == h.pixels[p] < Len(TableIn(c, h)) /\ ~Keeps(h, h.pixels[p])
        Color(h, p)  == TableIn(c, h)[h.pixels[p] + 1]
    IN  \A p \in Pixels :
            /\ Solid(f, p) /\ Solid(g, p) /\ Color(f, p) = Color(g, p)
            /\ SeenThrough(c, f, f.pixels[p])
            => SeenThrough(c, g, g.pixels[p])

ProperFrames(c, frames) ==
    \A f \in {h \in frames : ~InvalidIn(c, h)} :
        /\ Indexed(c, f)
        /\ \A g \in {h \in frames : ~InvalidIn(c, h)} : Apart(c, f, g)

\* What the program has seen to so far: neither cgif.h nor the calls ask for it.
Proper ==
    /\ "ANIMATED" \in config.attr \/ Len(asked) <= 1
    /\ ProperFrames(config, ToSet(asked))

--------------------------------------------------------------------------------
(* A viewer of GIF files.                                                  *)

TableOf(stream, block) == IF block.table # << >> THEN block.table ELSE stream[1].table

\* The block's pixels in the order of its rows; << >> if they cannot be decoded.
InRows(block, read) ==
    LET order == RowOrder(block.height)
        place(row) == IF block.interlaced
                      THEN CHOOSE k \in DOMAIN order : order[k] = row ELSE row + 1
    IN  IF Len(read) # block.width * block.height THEN << >>
        ELSE [i \in DOMAIN read |->
                read[(place((i - 1) \div block.width) - 1) * block.width
                        + ((i - 1) % block.width) + 1]]

PixelsOf(block) == InRows(block, LzwDecode(block.blocks, block.codeSize + 1))

\* The picture with the block drawn over canvas.
Drawn(table, block, pixels, canvas) ==
    LET Inside(p) == /\ Row(p) - block.top \in 0..(block.height - 1)
                     /\ Column(p) - block.left \in 0..(block.width - 1)
        Index(p) == pixels[(Row(p) - block.top) * block.width
                                + Column(p) - block.left + 1]
        Trans(p) == \E e \in ToSet(block.ext) : e.trans = <<Index(p)>>
    IN  [p \in Pixels |->
            IF ~Inside(p) THEN canvas[p]
            ELSE IF pixels = << >> THEN Clear
            ELSE IF Trans(p) THEN canvas[p]
            ELSE IF Index(p) < Len(table) THEN table[Index(p) + 1] ELSE Clear]

\* What is left of it for the next one.
Disposed(block, picture) ==
    IF \A e \in ToSet(block.ext) : e.disposal = "LEAVE" THEN picture
    ELSE [p \in Pixels |->
            IF /\ Row(p) - block.top \in 0..(block.height - 1)
               /\ Column(p) - block.left \in 0..(block.width - 1)
            THEN Clear ELSE picture[p]]

\* m followed by a picture shown for a time; equal pictures in a row are one
\* picture shown for the sum of their times.
Shown(m, picture, time) ==
    IF m # << >> /\ m[Len(m)].picture = picture
    THEN [m EXCEPT ![Len(m)].time = @ + time]
    ELSE Append(m, [picture |-> picture, time |-> time])

OnScreen(s, block, picture) ==
    [canvas  |-> Disposed(block, picture),
     picture |-> picture,
     movie   |-> Shown(s.movie, picture,
                       IF block.ext = << >> THEN 0 ELSE block.ext[1].delay)]

Blank == [p \in Pixels |-> Clear]

\* The viewer comes to a block of the stream.
Play(s, stream, block) ==
    IF block.kind # "frame" THEN s
    ELSE OnScreen(s, block, Drawn(TableOf(stream, block), block, PixelsOf(block), s.canvas))

\* The movie of the stream, its last picture, and the canvas it ends with.
Played(stream) ==
    LET played[k \in 0..Len(stream)] ==
            IF k = 0 THEN [canvas |-> Blank, picture |-> Blank, movie |-> << >>]
            ELSE Play(played[k - 1], stream, stream[k])
    IN  played[Len(stream)]

--------------------------------------------------------------------------------
(* What the program asked for.                                             *)

\* The picture a frame stands for, after the picture bef.
Meant(f, bef) ==
    [p \in Pixels |->
        LET index == f.pixels[p]
        IN  IF Keeps(f, index) THEN bef[p]
            ELSE IF SeenThrough(config, f, index) \/ index >= Len(Table(f)) THEN Clear
            ELSE Table(f)[index + 1]]

\* A frame that is written without a graphic extension has no time.
TimeOf(f) ==
    IF "ANIMATED" \in config.attr \/ HasAlpha(f) \/ "SET_TRANS" \in f.attr THEN f.delay ELSE 0

\* A movie goes on with a frame.
Follow(s, f) ==
    LET picture == Meant(f, s.picture)
    IN  [picture |-> picture, movie |-> Shown(s.movie, picture, TimeOf(f))]

Story(frames) ==
    LET told[k \in 0..Len(frames)] ==
            IF k = 0 THEN [picture |-> Blank, movie |-> << >>]
            ELSE Follow(told[k - 1], frames[k])
    IN  told[Len(frames)]

Asked == Story(asked).movie

\* Header, frames and terminator are all there.
Complete(stream) ==
    /\ stream[1].kind = "header" /\ stream[Len(stream)].kind = "end"
    /\ \A i \in 2..(Len(stream) - 1) : stream[i].kind = "frame"

\* A movie goes on with the frames that wait.
FollowQueue(s) ==
    LET FollowPlace(t, i) == IF aFrames[i] = NoFrame THEN t ELSE Follow(t, aFrames[i].config)
    IN  FollowPlace(FollowPlace(s, 1), 2)

\* As long as no call returned an error, the stream followed by the frames that
\* wait shows every picture the program added, for its time, although frames are
\* written as differences to the one before, dropped, cleared away for an alpha
\* channel, interlaced and compressed.  A GIF that cgif_close reports as written
\* is complete: no frame was refused, no write failed, no buffer of codes was
\* overrun.  This holds of programs that add frames as in Proper, and of no others:
\* cgif takes theirs too, and reports success for a GIF that shows something else.
ShowsWhatWasAsked ==
    (status \in {"open", "closed"} /\ Sound /\ Proper) =>
        /\ FollowQueue(Played(raw.stream)).movie = Asked
        /\ status = "closed" => Complete(raw.stream) /\ Asked # << >>

================================================================================
