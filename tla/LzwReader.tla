-------------------------------- MODULE LzwReader ------------------------------
(***************************************************************************)
(* What a reader of GIF files does with the blocks of an image: the        *)
(* reference the encoder is checked against.                               *)
(***************************************************************************)
EXTENDS Lzw

\* The bytes up to the empty block.
Unblocked(blocks) ==
    LET end == CHOOSE i \in DOMAIN blocks :
                    blocks[i] = << >> /\ \A j \in 1..(i - 1) : blocks[j] # << >>
    IN  FlattenSeq(SubSeq(blocks, 1, end - 1))

\* The number whose bits are next.
CodeAt(s, bytes) ==
    LET isOne(k) == (s.offset + k) % 8 \in bytes[(s.offset + k) \div 8 + 1]
        value[k \in 0..s.len] ==
            IF k = 0 THEN 0
            ELSE value[k - 1] + (IF isOne(k - 1) THEN Pow2[k - 1] ELSE 0)
    IN  value[s.len]

\* The reader's dictionary maps codes to strings.  It gets an entry with every
\* code but the first after a clear code.
NextEntry(s) == Cardinality(DOMAIN s.strings) + 2
Learns(s)    == s.prev # << >> /\ NextEntry(s) < MaxDictLen

\* What a code stands for; the entry that is not there yet begins and ends with
\* the same pixel.  << >> if the code makes no sense.
StringOf(s, code) ==
    IF code \in DOMAIN s.strings THEN s.strings[code]
    ELSE IF s.prev # << >> /\ code = NextEntry(s) THEN Append(s.prev, Head(s.prev))
    ELSE << >>

\* The dictionary with the entry for the code before, which ends with the first
\* pixel of this one.
Taught(s, string) ==
    IF ~Learns(s) THEN s.strings
    ELSE [k \in DOMAIN s.strings \union {NextEntry(s)} |->
            IF k = NextEntry(s) THEN Append(s.prev, Head(string)) ELSE s.strings[k]]

\* Codes get longer when the code to come would not fit.
NextLen(s) ==
    IF s.len < MaxCodeLen /\ NextEntry(s) + (IF Learns(s) THEN 1 ELSE 0) = Pow2[s.len]
    THEN s.len + 1 ELSE s.len

Emit(s, string) ==
    [s EXCEPT !.out = @ \o string, !.prev = string,
              !.strings = Taught(s, string), !.len = NextLen(s)]

\* The dictionary of the reader after a clear code.
Colors(dict) == [k \in 0..(dict - 1) |-> <<k>>]

\* A clear code, the end code, or a string.
Obey(s, code, codeLen) ==
    LET dict == InitDictLen(codeLen)
    IN  IF code = dict
        THEN [s EXCEPT !.len = codeLen, !.prev = << >>,
                       !.strings = Colors(dict)]
        ELSE IF code = dict + 1 THEN [s EXCEPT !.ended = TRUE]
        ELSE IF StringOf(s, code) = << >> THEN [s EXCEPT !.broken = TRUE]
        ELSE Emit(s, StringOf(s, code))

\* The next code has been read.
ReadOn(s, code, codeLen) == Obey([s EXCEPT !.offset = @ + s.len], code, codeLen)

Opened(codeLen) ==
    [offset |-> 0, len |-> codeLen, prev |-> << >>, strings |-> Colors(InitDictLen(codeLen)),
     out |-> << >>, ended |-> FALSE, broken |-> FALSE]

\* No code is shorter than three bits, so a byte has three codes at most.
ReadAll(bytes, codeLen) ==
    LET Once(s) ==
            IF s.ended \/ s.broken \/ s.offset + s.len > 8 * Len(bytes)
            THEN s ELSE ReadOn(s, CodeAt(s, bytes), codeLen)
        read[k \in 0..(3 * Len(bytes))] ==
            IF k = 0 THEN Opened(codeLen) ELSE Once(read[k - 1])
    IN  read[3 * Len(bytes)]

\* The pixels, or a value that is no image if the codes make no sense, or the
\* bytes do not end with the end code.
ImageOrNone(last, length) ==
    IF last.ended /\ ~last.broken /\ last.offset > 8 * (length - 1)
    THEN last.out ELSE <<-1>>

LzwDecode(blocks, codeLen) ==
    LET bytes == Unblocked(blocks)
    IN  ImageOrNone(ReadAll(bytes, codeLen), Len(bytes))

================================================================================
