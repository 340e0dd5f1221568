------------------------------ MODULE MCFatDriver ------------------------------
(***************************************************************************)
(* FatDriver on small images: two bytes a cluster, sizes that wrap at 6.   *)
(***************************************************************************)
EXTENDS FatDriver, FatFormat

CONSTANTS fa, fb, sub       \* two files and a subdirectory

MCNames == {fa, fb, sub}

DirEntry(name, attr, first, size) ==
    [name |-> name, attr |-> attr, first |-> first, size |-> size]

\* Clusters 0..9 (0 and 1 are reserved) with these links, all others ends, as
\* they are read from the bytes of the image.
Table(links) ==
    LET entries == [c \in Nat |-> IF c \in DOMAIN links THEN links[c]
                                  ELSE EndOfChain]
    IN  [c \in 0..9 |-> ReadFatEntry(Packed(entries), c)]

NoChains == [n \in MCNames |-> <<>>]

\* A label, a deleted entry, a file in three clusters out of order that ends in
\* the middle of the last one, and a subdirectory.
Scattered ==
    [dir |-> <<DirEntry(fb, {"volume_id"}, 0, 0), DirEntry(Free, {}, 3, 5),
               DirEntry(fa, {"archive"}, 3, 5),
               DirEntry(sub, {"directory"}, 6, 0)>>,
     fat |-> Table(3 :> 5 @@ 5 :> 4),
     last |-> 9,
     chain |-> [NoChains EXCEPT ![fa] = <<3, 5, 4>>]]

\* A file that fills its clusters exactly, and an empty one.
ExactFit ==
    [dir |-> <<DirEntry(fa, {}, 2, 4), DirEntry(fb, {}, 0, 0)>>,
     fat |-> Table(2 :> 4),
     last |-> 9,
     chain |-> [NoChains EXCEPT ![fa] = <<2, 4>>]]

\* Not served: a file longer than a uint16_t counts, and a read-only one.
Long ==
    [dir |-> <<DirEntry(fa, {}, 2, 8), DirEntry(fb, {"read_only"}, 6, 1)>>,
     fat |-> Table(2 :> 3 @@ 3 :> 7 @@ 7 :> 5),
     last |-> 9,
     chain |-> [NoChains EXCEPT ![fa] = <<2, 3, 7, 5>>, ![fb] = <<6>>]]

\* Defective: the image file was cut off after cluster 4.
CutOff == [Scattered EXCEPT !.last = 4]

\* Defective: a chain shorter than the size of its file.
ShortChain == [Scattered EXCEPT !.fat = Table(3 :> 5)]

AllImages == {Scattered, ExactFit, Long, CutOff, ShortChain}

\* Two files of a cluster each.
TwoFiles ==
    [dir |-> <<DirEntry(fa, {}, 2, 2), DirEntry(fb, {}, 3, 2)>>,
     fat |-> Table(<<>>),
     last |-> 9,
     chain |-> [NoChains EXCEPT ![fa] = <<2>>, ![fb] = <<3>>]]

OneImage == {TwoFiles}

--------------------------------------------------------------------------------
(* The numbers in an image *)

Low(n)  == n % 256
High(n) == n \div 256

\* The header of a floppy disk: 512 bytes a sector, 1 sector a cluster, 1 reserved
\* sector, 2 tables of 9 sectors, 224 entries in the root directory.
Floppy ==
    [b \in 0..511 |->
        CASE b = 12 -> High(512) [] b = 13 -> 1 [] b = 14 -> 1 [] b = 16 -> 2
          [] b = 17 -> 224 [] b = 22 -> 9 [] OTHER -> 0]

\* Its table, its directory and its first cluster follow each other.
ASSUME FloppyLayout ==
    LET fs == ReadHeader(Floppy)
    IN  /\ TableStart(fs) = 512
        /\ RootStart(fs) = TableStart(fs) + 2 * 9 * 512
        /\ ClusterStart(fs, 2) = RootStart(fs) + 224 * 32
        /\ ClusterStart(fs, 3) = ClusterStart(fs, 2) + 512

\* Dates and times come back from the bytes they are written to.
ASSUME DatesReadBack ==
    \A day \in {1, 31}, month \in 1..12, year \in {1980, 1999, 2107} :
        LET word == day + 32 * month + 512 * (year - 1980)
        IN  ReadDate([b \in 0..1 |-> IF b = 0 THEN Low(word) ELSE High(word)], 0)
                = [tm_mday |-> day, tm_mon |-> month - 1, tm_year |-> year - 1900]

ASSUME TimesReadBack ==
    \A second \in {0, 58}, minute \in 0..59, hour \in {0, 9, 23} :
        LET word == second \div 2 + 32 * minute + 2048 * hour
        IN  ReadTime([b \in 0..1 |-> IF b = 0 THEN Low(word) ELSE High(word)], 0)
                = [tm_sec |-> second, tm_min |-> minute, tm_hour |-> hour]
================================================================================
