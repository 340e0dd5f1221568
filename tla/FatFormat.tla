-------------------------------- MODULE FatFormat ------------------------------
(***************************************************************************)
(* The bytes of a FAT12 image, as fuse_fat_solution.c takes them apart:    *)
(* numbers, the table of 12-bit entries, the header, dates and times.      *)
(* Bytes are counted from 0.                                               *)
(***************************************************************************)
EXTENDS Integers

Bits12 == 0..4095
Uint16 == 2^16

ReadUint16(buf, at) == 256 * buf[at + 1] + buf[at]

\* The result is a uint16_t: the upper half of the number is lost.
ReadUint32(buf, at) ==
    (2^24 * buf[at + 3] + 2^16 * buf[at + 2] + 256 * buf[at + 1] + buf[at]) % Uint16

ReadDate(buf, at) ==
    [tm_mday |-> buf[at] % 32,
     tm_mon  |-> buf[at] \div 32 + 8 * (buf[at + 1] % 2) - 1,
     tm_year |-> 80 + buf[at + 1] \div 2]

ReadTime(buf, at) ==
    [tm_sec  |-> 2 * (buf[at] % 32),
     tm_min  |-> buf[at] \div 32 + 8 * (buf[at + 1] % 8),
     tm_hour |-> buf[at + 1] \div 8]

\* Two entries share three bytes.
ReadFatEntry(table, offset) ==
    LET first == (offset * 3) \div 2
    IN  IF offset % 2 = 1 THEN table[first] \div 16 + 16 * table[first + 1]
        ELSE table[first] + 256 * (table[first + 1] % 16)

ReadHeader(header) ==
    LET perSector == ReadUint16(header, 11)
        reserved  == ReadUint16(header, 14)
        sectors   == ReadUint16(header, 22)
        entries   == ReadUint16(header, 17)
        rootSectors == ((entries * 32 + (perSector - 1)) \div perSector) % Uint16
    IN  [n_bytes_per_sector |-> perSector, n_sectors_per_cluster |-> header[13],
         n_reserved_sectors |-> reserved, n_fat_copies |-> header[16],
         n_root_entries |-> entries, n_fat_sectors |-> sectors,
         n_root_sectors |-> rootSectors,
         first_data_sector |-> (reserved + sectors * header[16] + rootSectors) % Uint16]

\* The positions the driver seeks: the table, the directory, a cluster.
TableStart(fs) == fs.n_bytes_per_sector * fs.n_reserved_sectors

RootStart(fs) ==
    fs.n_bytes_per_sector * (fs.n_reserved_sectors + fs.n_fat_sectors * fs.n_fat_copies)

ClusterStart(fs, c) ==
    fs.first_data_sector * fs.n_bytes_per_sector
        + fs.n_sectors_per_cluster * fs.n_bytes_per_sector * (c - 2)

--------------------------------------------------------------------------------
(* What a formatter writes, for reference. *)

\* The bytes of a table.
Packed(entries) ==
    [b \in Nat |->
        LET even == entries[2 * (b \div 3)]
            odd  == entries[2 * (b \div 3) + 1]
        IN  IF b % 3 = 0 THEN even % 256
            ELSE IF b % 3 = 1 THEN even \div 256 + 16 * (odd % 16)
            ELSE odd \div 16]

================================================================================
