------------------------------- MODULE LzwEncoder ------------------------------
(***************************************************************************)
(* LZW_GenerateStream as a state machine: one step is one turn of the loop *)
(* of lzw_generate, then the codes are packed.                             *)
(***************************************************************************)
EXTENDS LzwReader

CONSTANTS
    Images,         \* the images that may be encoded, sequences of indices
    NumColors       \* the sizes the colour table may have

ASSUME EncoderAssumption ==
    /\ Images \subseteq Seq(Nat) \ {<< >>}
    /\ NumColors \subseteq 1..256
    /\ \A n \in NumColors : InitCodeLen(n) <= MaxCodeLen

VARIABLES
    image,          \* pImageData
    codeLen,        \* initCodeLen
    ctx,            \* LZWGenState
    result,         \* "encoding" until LZW_GenerateStream returns, "overrun" from
                    \* the first code past the buffer of codes on
    blocks          \* byteListBlock
encoderVars == <<image, codeLen, ctx, result, blocks>>

EncoderInit ==
    /\ image \in Images
    /\ codeLen \in {InitCodeLen(n) : n \in NumColors}
    /\ ctx = Context(InitDictLen(codeLen))
    /\ result = "encoding"
    /\ blocks = << >>

Crawl ==
    /\ result = "encoding"
    /\ ctx.pos <= Len(image)
    /\ ~BadIndex(ctx, image)
    /\ ctx' = CrawlTree(ctx, image)
    /\ result' = IF Overrun(ctx', image) THEN "overrun" ELSE result
    /\ UNCHANGED <<image, codeLen, blocks>>

CrawlFails ==
    /\ result = "encoding"
    /\ ctx.pos <= Len(image)
    /\ BadIndex(ctx, image)
    /\ result' = "EINDEX"
    /\ UNCHANGED <<image, codeLen, ctx, blocks>>

Pack ==
    /\ result = "encoding"
    /\ ctx.pos > Len(image)
    /\ ctx' = EndCode(ctx)
    /\ IF Overrun(ctx', image)
       THEN result' = "overrun" /\ UNCHANGED blocks
       ELSE /\ blocks' = ByteListBlock(ByteList(ctx'.codes, codeLen))
            /\ result' = "OK"
    /\ UNCHANGED <<image, codeLen>>

EncoderNext == Crawl \/ CrawlFails \/ Pack

EncoderSpec == EncoderInit /\ [][EncoderNext]_encoderVars

--------------------------------------------------------------------------------

\* A reader that follows the GIF rules gets the pixels back: it builds its own
\* dictionary one code late, and decides for itself when codes get longer
\* (lzw_generate, create_byte_list and create_byte_list_block together).
RasterDecodes ==
    result = "OK" => LzwDecode(blocks, codeLen) = image

\* Every code has room in the length create_byte_list gives it, although that
\* function counts codes and never looks at the dictionary: at each moment, and
\* not only for the finished sequence.
CodesFit ==
    LET lens == CodeLengths(ctx.codes, codeLen)
    IN  \A i \in DOMAIN ctx.codes : ctx.codes[i] < Pow2[lens[i]]

\* What LZW_GenerateStream writes to its buffers: MAX_DICT_LEN nodes and
\* MAX_DICT_LEN / 2 + 1 rows at most, which is what it allocates.  The buffer of
\* codes has room for one clear code, and each reset of the dictionary writes one
\* more: it is too small for some images, but for none that has fewer pixels than
\* it takes to fill the dictionary once (3840 for 256 colours).
SpaceNeeded ==
    /\ ctx.dictPos <= MaxDictLen
    /\ ctx.mapPos - 1 <= MaxDictLen \div 2 + 1
    /\ result = "overrun" => Len(image) >= MaxDictLen - ctx.initDictLen

================================================================================
