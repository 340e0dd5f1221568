---------------------------------- MODULE MCLzw --------------------------------
(***************************************************************************)
(* LzwEncoder on small instances: codes of at most 5 bits, so that the     *)
(* dictionary of 32 entries is full after 26 codes.                        *)
(***************************************************************************)
EXTENDS LzwEncoder

\* Every image of two colours with up to 8 pixels, and some with an index that
\* is no colour.
Short == UNION {[1..n -> {0, 1}] : n \in 1..8} \union [1..3 -> {0, 3, 4}]

\* All pairs of four colours occur once: no match is longer than a pixel.
Pairs == <<0, 0, 1, 0, 2, 0, 3, 1, 1, 2, 1, 3, 2, 2, 3, 3, 0>>

\* Longer images: the dictionary fills up and is started again, and the rows of
\* the tree's map are taken again.
Mixed == {[i \in 1..70 |-> ((((i + k) * i) % 29) % 3)] : k \in 1..14}
Long == {Pairs \o Pairs \o Reverse(Pairs) \o Pairs, [i \in 1..80 |-> 0]}
            \union {Pairs \o start \o <<8, 1>> : start \in [1..2 -> {0, 3}]}
            \union Mixed

\* All pairs of neighbours of eight colours differ: with codes of 5 bits the
\* dictionary is full after 22 of them, and one clear code more is one code too
\* many for the buffer.
Varied == <<0, 0, 1, 1, 2, 2, 3, 3, 4, 4, 5, 5, 6, 6, 7, 7, 0, 2, 4, 6, 0, 3, 6, 1>>
Overruns == {SubSeq(Varied, 1, 23), Varied, Varied \o Varied, Varied \o <<8>>,
             Varied \o Varied \o Varied \o Varied}

MCImages == Short \union Long \union Overruns
================================================================================
