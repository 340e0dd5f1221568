---------------------------- MODULE FatDriverProofs ----------------------------
(***************************************************************************)
(* Proofs about the FAT12 driver with one callback at a time, for any      *)
(* image, cluster size, integer width, number of handles and of open       *)
(* files: types and cursors, the directory, and that a file that is left   *)
(* alone and asked for in order is answered with its own bytes.            *)
(***************************************************************************)
EXTENDS FatDriver, FatFormat, SequenceTheorems, TLAPS

--------------------------------------------------------------------------------
(* Images and positions *)

LEMMA ImageFacts ==
    ASSUME image \in Images
    PROVE  /\ image.dir \in Seq(Entry)
           /\ Len(image.dir) \in Nat
           /\ DOMAIN image.fat \subseteq Nat \ {EndOfChain}
           /\ \A c \in DOMAIN image.fat :
                 image.fat[c] \in DOMAIN image.fat \cup {EndOfChain}
           /\ \A k \in 1..Len(image.dir) :
                 /\ image.dir[k] \in Entry
                 /\ image.dir[k] \in Range(image.dir)
                 /\ image.dir[k].first \in DOMAIN image.fat
  <1>1. Readable(image)
    BY FatAssumption
  <1>2. image.dir \in Seq(Entry)
    BY <1>1 DEF Readable
  <1>3. \A k \in 1..Len(image.dir) :
          image.dir[k] \in Entry /\ image.dir[k] \in Range(image.dir)
    BY <1>2 DEF Range
  <1>. QED
    BY <1>1, <1>2, <1>3 DEF Readable

LEMMA AtType ==
    ASSUME image \in Images, NEW c \in Int, NEW o \in Nat
    PROVE  At(c, o) \in Byte
  <1>1. Extent(c) \in Nat
    BY ImageFacts, FatAssumption DEF Extent
  <1>. QED
    BY <1>1 DEF At, Byte

LEMMA AheadType ==
    ASSUME image \in Images, NEW p \in Byte, NEW n \in Nat
    PROVE  Ahead(p, n) \in Byte
  <1>1. p[1] \in Int /\ p[2] + n \in Nat
    BY DEF Byte
  <1>. QED
    BY <1>1, AtType DEF Ahead

LEMMA BytesType ==
    ASSUME image \in Images, NEW p \in Byte, NEW n \in Nat
    PROVE  /\ Bytes(p, n) \in Seq(Byte)
           /\ Len(Bytes(p, n)) = n
           /\ \A k \in 1..n : Bytes(p, n)[k] = Ahead(p, k - 1)
  <1>1. \A k \in 1..n : Ahead(p, k - 1) \in Byte
    BY AheadType
  <1>2. Bytes(p, n) \in [1..n -> Byte]
    BY <1>1 DEF Bytes
  <1>3. Bytes(p, n) \in Seq(Byte)
    BY <1>2, SeqDef
  <1>4. Len(Bytes(p, n)) = n
    BY <1>2, <1>3, LenProperties DEF Bytes
  <1>. QED
    BY <1>3, <1>4 DEF Bytes

\* An entry that is found is one of the directory's.
LEMMA FoundEntry ==
    ASSUME image \in Images, NEW p \in Byte, Listed(EntryAt(p))
    PROVE  /\ EntryAt(p) \in Entry
           /\ EntryAt(p) \in Range(image.dir)
           /\ EntryAt(p).first \in DOMAIN image.fat
           /\ StSize(EntryAt(p)) \in 0..(Word - 1)
  <1>1. p[1] = Root /\ p[2] < Len(image.dir)
    BY DEF EntryAt, Listed
  <1>2. /\ EntryAt(p) = image.dir[p[2] + 1]
        /\ p[2] + 1 \in 1..Len(image.dir)
    BY <1>1, ImageFacts DEF EntryAt, Byte
  <1>3. EntryAt(p) \in Entry
    BY <1>2, ImageFacts
  <1>4. EntryAt(p).size \in Nat
    BY <1>3 DEF Entry
  <1>5. StSize(EntryAt(p)) \in 0..(Word - 1)
    BY <1>4, FatAssumption DEF StSize
  <1>. QED
    BY <1>2, <1>3, <1>5, ImageFacts

--------------------------------------------------------------------------------
(* Cursors *)

LEMMA ModSmall ==
    ASSUME NEW x \in Nat, NEW w \in Nat, x < w
    PROVE  x % w = x
  OBVIOUS

LEMMA ChunkFacts ==
    ASSUME NEW f \in Cursor, NEW w \in Locals, w.size > 0,
           w.size <= f.n_bytes_remaining, NEW n, n = Chunk(w, f)
    PROVE  /\ n \in 1..w.size
           /\ f.current_offset_in_cluster + n <= ClusterSize
  BY SMTT(40), FatAssumption DEF Cursor, Locals, Chunk, Min2

\* Within a cluster, no uint16_t wraps.
LEMMA MovedFacts ==
    ASSUME NEW f \in Cursor, NEW n \in Nat, n <= f.n_bytes_remaining,
           f.current_offset_in_cluster + n <= ClusterSize
    PROVE  /\ Moved(f, n).is_open = f.is_open
           /\ Moved(f, n).current_cluster = f.current_cluster
           /\ Moved(f, n).current_offset_in_cluster =
                 f.current_offset_in_cluster + n
           /\ Moved(f, n).n_bytes_remaining = f.n_bytes_remaining - n
  <1>1. /\ f.n_bytes_remaining - n \in Nat
        /\ f.n_bytes_remaining - n < Word
        /\ f.current_offset_in_cluster + n \in Nat
        /\ f.current_offset_in_cluster + n < Word
    BY FatAssumption DEF Cursor
  <1>2. /\ (f.n_bytes_remaining - n) % Word = f.n_bytes_remaining - n
        /\ (f.current_offset_in_cluster + n) % Word =
              f.current_offset_in_cluster + n
    BY <1>1, ModSmall, FatAssumption
  <1>. QED
    BY <1>2 DEF Moved, Cursor
CursorOver(C, D, E) ==
    [is_open : BOOLEAN, current_cluster : C, current_offset_in_cluster : D,
     n_bytes_remaining : E]

LEMMA CursorUpdates ==
    ASSUME NEW C, NEW D, NEW E, NEW f \in CursorOver(C, D, E), NEW e \in E, NEW x
    PROVE  LET m == [f EXCEPT !.n_bytes_remaining = e,
                             !.current_offset_in_cluster = x]
           IN  /\ x \in D => m \in CursorOver(C, D, E)
               /\ \A d \in D :
                     [m EXCEPT !.current_offset_in_cluster = d]
                        \in CursorOver(C, D, E)
               /\ \A c \in C, d \in D :
                     [m EXCEPT !.current_cluster = c,
                               !.current_offset_in_cluster = d]
                        \in CursorOver(C, D, E)
  BY DEF CursorOver

\* A cursor that has not left its cluster, or is set back to the start of one.
LEMMA MovedType ==
    ASSUME NEW f \in Cursor, NEW n \in Nat, n <= f.n_bytes_remaining,
           f.current_offset_in_cluster + n <= ClusterSize
    PROVE  /\ f.current_offset_in_cluster + n # ClusterSize =>
                 Moved(f, n) \in Cursor
           /\ [Moved(f, n) EXCEPT !.current_offset_in_cluster = 0] \in Cursor
           /\ \A c \in Nat :
                 [Moved(f, n) EXCEPT !.current_cluster = c,
                                     !.current_offset_in_cluster = 0] \in Cursor
  <1>. DEFINE D == 0..(ClusterSize - 1)
              E == 0..(Word - 1)
              x == (f.current_offset_in_cluster + n) % Word
              e == (f.n_bytes_remaining - n) % Word
  <1>1. Cursor = CursorOver(Nat, D, E)
    BY DEF Cursor, CursorOver
  <1>2. /\ f.n_bytes_remaining - n \in E
        /\ f.current_offset_in_cluster + n \in 0..ClusterSize
        /\ 0 \in D /\ 0 \in Nat
    BY FatAssumption DEF Cursor
  <1>3. /\ e \in E
        /\ x = f.current_offset_in_cluster + n
    BY <1>2, ModSmall, FatAssumption
  <1>4. f.current_offset_in_cluster + n # ClusterSize => x \in D
    BY <1>2, <1>3, FatAssumption
  <1>. HIDE DEF x, e, D, E
  <1>5. Moved(f, n) = [f EXCEPT !.n_bytes_remaining = e,
                                !.current_offset_in_cluster = x]
    BY DEF Moved, x, e
  <1>. DEFINE m == Moved(f, n)
              T == CursorOver(Nat, D, E)
  <1>6. /\ x \in D => m \in T
        /\ \A d \in D : [m EXCEPT !.current_offset_in_cluster = d] \in T
        /\ \A c \in Nat, d \in D :
              [m EXCEPT !.current_cluster = c,
                        !.current_offset_in_cluster = d] \in T
    <2>. DEFINE mm == [f EXCEPT !.n_bytes_remaining = e,
                                !.current_offset_in_cluster = x]
    <2>1. f \in CursorOver(Nat, D, E)
      BY <1>1
    <2>2. /\ x \in D => mm \in CursorOver(Nat, D, E)
          /\ \A d \in D : [mm EXCEPT !.current_offset_in_cluster = d]
                             \in CursorOver(Nat, D, E)
          /\ \A c \in Nat, d \in D :
                [mm EXCEPT !.current_cluster = c,
                           !.current_offset_in_cluster = d]
                   \in CursorOver(Nat, D, E)
      BY <2>1, <1>3, CursorUpdates
    <2>. QED
      BY <1>5, <2>2
  <1>. HIDE DEF m, T
  <1>7. x \in D => m \in T
    BY <1>6
  <1>8. [m EXCEPT !.current_offset_in_cluster = 0] \in T
    BY <1>2, <1>6
  <1>9. \A c \in Nat :
          [m EXCEPT !.current_cluster = c, !.current_offset_in_cluster = 0] \in T
    BY <1>2, <1>6
  <1>. QED
    BY <1>1, <1>3, <1>4, <1>7, <1>8, <1>9 DEF m, T

--------------------------------------------------------------------------------
(***************************************************************************)
(* The locals over arbitrary sets of values: records are updated more      *)
(* easily when their fields' sets are opaque.                              *)
(***************************************************************************)
LocalsOver(PC, OP, O, NM, FD, S, N, B, L, R) ==
    [pc : PC, op : OP, o : O, name : NM, fd : FD, i : N, st : S, cluster : N,
     want : N, size : N, n : N, buf : B, list : L, res : R]

Places == {"idle", "seek", "scan", "copy", "copy_read", "reply", "aborted"}

Operations == {"none", "getattr", "readdir", "open", "read"}

Results == {"ok", "ENOENT", "ENOMEM"}

Stats == [dir : BOOLEAN, size : 0..(Word - 1)]

LEMMA LocalsIsOver ==
    Locals = LocalsOver(Places, Operations, Opens \cup {"none"},
                        Paths \cup {Top, Free}, Fds, Stats, Nat, Seq(Byte),
                        Seq(Names), Results)
  BY DEF Locals, LocalsOver, Places, Operations, Results, Stats

LEMMA UpdatesOver ==
    ASSUME NEW PC, NEW OP, NEW O, NEW NM, NEW FD, NEW S, NEW N, NEW B, NEW L,
           NEW R, NEW w \in LocalsOver(PC, OP, O, NM, FD, S, N, B, L, R),
           NEW pc \in PC, NEW n \in N, NEW m \in N, NEW b \in B, NEW l \in L,
           NEW r \in R, NEW s \in S
    PROVE  LET T == LocalsOver(PC, OP, O, NM, FD, S, N, B, L, R)
           IN  /\ [w EXCEPT !.pc = pc] \in T
               /\ [w EXCEPT !.st = s, !.cluster = n] \in T
               /\ [w EXCEPT !.i = n] \in T
               /\ [w EXCEPT !.i = n, !.list = l] \in T
               /\ [w EXCEPT !.size = n, !.pc = pc] \in T
               /\ [w EXCEPT !.res = r, !.pc = pc] \in T
               /\ [w EXCEPT !.pc = pc, !.n = n] \in T
               /\ [w EXCEPT !.buf = b, !.size = n, !.n = m] \in T
  BY DEF LocalsOver

LEMMA LocalsUpdates ==
    ASSUME NEW w \in Locals, NEW pc \in Places
    PROVE  /\ [w EXCEPT !.pc = pc] \in Locals
           /\ \A s \in Stats, n \in Nat :
                 [w EXCEPT !.st = s, !.cluster = n] \in Locals
           /\ \A n \in Nat : [w EXCEPT !.i = n] \in Locals
           /\ \A n \in Nat, l \in Seq(Names) :
                 [w EXCEPT !.i = n, !.list = l] \in Locals
           /\ \A n \in Nat : [w EXCEPT !.size = n, !.pc = pc] \in Locals
           /\ \A n \in Nat : [w EXCEPT !.pc = pc, !.n = n] \in Locals
           /\ \A r \in Results : [w EXCEPT !.res = r, !.pc = pc] \in Locals
           /\ \A b \in Seq(Byte), n, m \in Nat :
                 [w EXCEPT !.buf = b, !.size = n, !.n = m] \in Locals
  <1>1. /\ 0 \in Nat /\ "ok" \in Results
        /\ <<>> \in Seq(Byte) /\ <<>> \in Seq(Names)
    BY DEF Results
  <1>2. w.st \in Stats
    BY DEF Locals, Stats
  <1>. QED
    BY <1>1, <1>2, LocalsIsOver, UpdatesOver, ZenonT(60)

\* What parse_dir_entry leaves behind.
LEMMA ParsedFacts ==
    ASSUME image \in Images, NEW p \in Byte, NEW w \in Locals
    PROVE  LET v == Parsed(w, EntryAt(p))
           IN  /\ v \in Locals
               /\ v.pc = w.pc /\ v.op = w.op /\ v.o = w.o /\ v.name = w.name
               /\ v.fd = w.fd /\ v.i = w.i /\ v.buf = w.buf
               /\ v.list = w.list /\ v.res = w.res
               /\ Listed(EntryAt(p)) =>
                     v.st = Stat(EntryAt(p)) /\ v.cluster = EntryAt(p).first
  <1>. DEFINE e == EntryAt(p)
              v == Parsed(w, e)
  <1>1. CASE ~Listed(e)
    BY <1>1 DEF Parsed
  <1>2. CASE Listed(e)
    <2>1. Stat(e) \in Stats /\ e.first \in Nat
      <3>1. /\ StSize(e) \in 0..(Word - 1)
            /\ e \in Entry
        BY <1>2, FoundEntry
      <3>. QED
        BY <3>1 DEF Stat, Stats, Entry
    <2>. HIDE DEF e
    <2>2. v = [w EXCEPT !.st = Stat(e), !.cluster = e.first]
      BY <1>2 DEF Parsed
    <2>. HIDE DEF v
    <2>3. v \in Locals
      <3>1. "idle" \in Places
        BY DEF Places
      <3>2. [w EXCEPT !.st = Stat(e), !.cluster = e.first] \in Locals
        BY <2>1, <3>1, LocalsUpdates
      <3>. QED
        BY <2>2, <3>2
    <2>4. /\ v.pc = w.pc /\ v.op = w.op /\ v.o = w.o /\ v.name = w.name
          /\ v.fd = w.fd /\ v.i = w.i /\ v.buf = w.buf
          /\ v.list = w.list /\ v.res = w.res
          /\ v.st = Stat(e) /\ v.cluster = e.first
      BY <2>2 DEF Locals
    <2>. QED
      BY <2>3, <2>4 DEF v, e
  <1>. QED
    BY <1>1, <1>2

--------------------------------------------------------------------------------
(* The type of the state and the agreement between kernel and worker. *)

LEMMA IdleType ==
    /\ Idle \in Locals
    /\ Closed \in KernelFile
    /\ Fds # {}
  <1>1. 0 \in Fds
    BY FatAssumption DEF Fds
  <1>2. <<>> \in Seq(Byte) /\ <<>> \in Seq(Names) /\ 0 \in 0..(Word - 1)
    BY FatAssumption
  <1>. QED
    BY <1>1, <1>2 DEF Idle, NoStat, Closed, Locals, KernelFile

\* A step that begins a callback w without touching a file.
Asks(t, w) ==
    /\ worker[t].pc = "idle"
    /\ worker' = [worker EXCEPT ![t] = w]
    /\ w.op \in {"getattr", "readdir"} /\ w.res = "ok"
    /\ w.i = 0 /\ w.buf = <<>> /\ w.list = <<>>
    /\ w.pc = "seek" \/ (w.pc = "reply" /\ w.op = "getattr" /\ w.name = Top)
    /\ UNCHANGED <<image, img_pos, open_file, kfile>>

LEMMA AskSteps ==
    ASSUME NEW t \in Threads,
           \/ \E n \in Paths : GetAttr(t, n)
           \/ GetAttrTop(t)
           \/ \E n \in Names \cup {Top} : ReadDir(t, n)
    PROVE  \E w \in Locals : Asks(t, w)
  <1>1. ASSUME NEW n \in Names \cup {Top}, ReadDir(t, n)
        PROVE  \E w \in Locals : Asks(t, w)
    <2>1. [Idle EXCEPT !.pc = "seek", !.op = "readdir", !.name = n] \in Locals
      BY IdleType DEF Locals, Paths
    <2>2. Asks(t, [Idle EXCEPT !.pc = "seek", !.op = "readdir", !.name = n])
      BY <1>1 DEF ReadDir, Start, In, Goto, Idle, Asks
    <2>. QED
      BY <2>1, <2>2
  <1>2. ASSUME NEW n \in Paths, GetAttr(t, n)
        PROVE  \E w \in Locals : Asks(t, w)
    <2>1. [Idle EXCEPT !.pc = "seek", !.op = "getattr", !.name = n] \in Locals
      BY IdleType DEF Locals
    <2>2. Asks(t, [Idle EXCEPT !.pc = "seek", !.op = "getattr", !.name = n])
      BY <1>2 DEF GetAttr, Start, In, Goto, Idle, Asks
    <2>. QED
      BY <2>1, <2>2
  <1>3. CASE GetAttrTop(t)
    <2>. DEFINE w == [Idle EXCEPT !.pc = "reply", !.op = "getattr",
                                  !.name = Top, !.st.dir = TRUE]
    <2>1. w \in Locals
      BY IdleType DEF Locals
    <2>2. Asks(t, w)
      BY <1>3 DEF GetAttrTop, Start, In, Goto, Idle, Asks
    <2>. QED
      BY <2>1, <2>2
  <1>. QED
    BY <1>1, <1>2, <1>3

LEMMA AskStep ==
    ASSUME OneWorker, SerialInv, NEW t \in Threads, NEW w \in Locals, Asks(t, w)
    PROVE  SerialInv'
  <1>2. TypeOK'
    BY DEF SerialInv, TypeOK, Asks
  <1>3. worker'[t] = w
    BY DEF SerialInv, TypeOK, Asks
  <1>4. \A u \in Threads : u = t
    BY DEF OneWorker
  <1>5. InCallback(t)' /\ \A o \in Opens : InStep(t, o)'
    BY <1>3 DEF SerialInv, InCallback, InStep, Asks
  <1>6. CursorsLive'
    BY <1>3, <1>4 DEF SerialInv, CursorsLive, InUse, Opened, Asks
  <1>. QED
    BY <1>2, <1>4, <1>5, <1>6 DEF SerialInv, NeverMarked, Asks

LEMMA DisturbedFacts ==
    ASSUME kfile \in [Opens -> KernelFile], NEW q \in Opens
    PROVE  /\ Disturbed(q) \in [Opens -> KernelFile]
           /\ \A o \in Opens :
                 /\ Disturbed(q)[o].alone = (kfile[o].alone /\ o = q)
                 /\ Disturbed(q)[o] = [kfile[o] EXCEPT
                       !.alone = Disturbed(q)[o].alone]
                 /\ o = q => Disturbed(q)[o] = kfile[o]
  <1>1. \A o \in Opens :
           /\ Disturbed(q)[o] = [kfile[o] EXCEPT !.alone = @ /\ o = q]
           /\ kfile[o] \in KernelFile
    BY DEF Disturbed
  <1>2. \A o \in Opens : Disturbed(q)[o] \in KernelFile
    BY <1>1, ZenonT(60) DEF KernelFile
  <1>3. Disturbed(q) \in [Opens -> KernelFile]
    BY <1>2 DEF Disturbed
  <1>4. \A o \in Opens : Disturbed(q)[o].alone = (kfile[o].alone /\ o = q)
    BY <1>1 DEF KernelFile
  <1>5. Disturbed(q)[q] = kfile[q]
    <2>1. /\ kfile[q] \in KernelFile
          /\ Disturbed(q)[q] = [kfile[q] EXCEPT !.alone = kfile[q].alone]
      <3>1. kfile[q].alone \in BOOLEAN
        BY <1>1 DEF KernelFile
      <3>. QED
        BY <1>1, <3>1
    <2>. QED
      BY <2>1 DEF KernelFile
  <1>. QED
    BY <1>1, <1>3, <1>4, <1>5

\* A step of the kernel that leaves the other open files as they are, but that they
\* need not be alone any more.
OthersKeep(q) ==
    \A o \in Opens \ {q} :
        /\ kfile'[o].state = kfile[o].state
        /\ kfile'[o].name = kfile[o].name
        /\ kfile'[o].fh = kfile[o].fh
        /\ kfile'[o].data = kfile[o].data
        /\ kfile'[o].eof = kfile[o].eof
        /\ kfile'[o].in_order = kfile[o].in_order
        /\ kfile'[o].alone => kfile[o].alone

LEMMA OpenStep ==
    ASSUME OneWorker, SerialInv, NEW t \in Threads, NEW q \in Opens,
           NEW n \in Paths, Open(t, q, n)
    PROVE  SerialInv'
  <1>. DEFINE w0 == [Idle EXCEPT !.op = "open", !.o = q, !.name = n]
              fd0 == CHOOSE fd \in FreeFds : \A g \in FreeFds : fd <= g
              w == IF FreeFds = {} THEN [w0 EXCEPT !.pc = "reply", !.res = "ENOMEM"]
                   ELSE [w0 EXCEPT !.pc = "seek", !.fd = fd0]
              k == [kfile[q] EXCEPT !.state = "opening", !.alone = TRUE,
                                    !.in_order = TRUE]
  <1>1. /\ worker[t].pc = "idle" /\ kfile[q].state = "closed"
        /\ worker' = [worker EXCEPT ![t] = w]
        /\ kfile' = [Disturbed(q) EXCEPT ![q] = k]
        /\ UNCHANGED <<image, img_pos, open_file>>
    <2>1. Disturbed(q)[q] = kfile[q]
      BY DisturbedFacts DEF SerialInv, TypeOK
    <2>. QED
      BY <2>1, DisturbedFacts DEF Open, Start, In, Goto, SerialInv, TypeOK
  <1>2. FreeFds # {} => fd0 \in Fds
    <2>1. FreeFds = Fds
      BY DEF SerialInv, NeverMarked, FreeFds
    <2>2. 0 \in Fds /\ \A g \in Fds : 0 <= g
      BY FatAssumption DEF Fds
    <2>. QED
      BY <2>1, <2>2
  <1>3. w \in Locals
    <2>1. w0 \in Locals
      BY IdleType DEF Locals
    <2>. QED
      BY <1>2, <2>1, ZenonT(60) DEF Locals
  <1>4. /\ w.op = "open" /\ w.o = q /\ w.buf = <<>>
        /\ w.pc = "seek" \/ (w.pc = "reply" /\ w.res = "ENOMEM")
    BY DEF Idle
  <1>5. /\ k \in KernelFile
        /\ k.state = "opening" /\ k.alone /\ k.in_order
    BY DEF SerialInv, TypeOK, KernelFile
  <1>. HIDE DEF w, k
  <1>6. /\ TypeOK'
        /\ worker'[t] = w /\ kfile'[q] = k
        /\ OthersKeep(q)
        /\ \A o \in Opens \ {q} : ~kfile'[o].alone
    <2>1. /\ Disturbed(q) \in [Opens -> KernelFile]
          /\ \A o \in Opens \ {q} : ~Disturbed(q)[o].alone
          /\ \A o \in Opens : Disturbed(q)[o] = [kfile[o] EXCEPT
                !.alone = Disturbed(q)[o].alone]
      BY DisturbedFacts DEF SerialInv, TypeOK
    <2>2. \A o \in Opens \ {q} : kfile'[o] = Disturbed(q)[o]
      BY <1>1, <2>1
    <2>3. OthersKeep(q)
      BY <2>1, <2>2 DEF OthersKeep, SerialInv, TypeOK, KernelFile
    <2>. QED
      BY <1>1, <1>3, <1>5, <2>1, <2>2, <2>3 DEF SerialInv, TypeOK
  <1>7. \A u \in Threads : u = t
    BY DEF OneWorker
  <1>8. /\ InCallback(t)'
        /\ \A o \in Opens : InStep(t, o)'
    <2>1. InCallback(t)'
      BY <1>4, <1>6 DEF InCallback
    <2>2. InStep(t, q)'
      BY <1>4, <1>5, <1>6 DEF InStep
    <2>3. worker[t].op = "none"
      BY <1>1 DEF SerialInv, InCallback
    <2>4. ASSUME NEW o \in Opens \ {q}
          PROVE  InStep(t, o)'
      BY <1>4, <1>6, <2>3 DEF SerialInv, InStep, OthersKeep
    <2>. QED
      BY <2>1, <2>2, <2>4
  <1>9. \A fd \in Fds : InUse(fd)' => InUse(fd)
    BY <1>4, <1>5, <1>6, <1>7 DEF InUse, Opened, OthersKeep
  <1>10. CursorsLive'
    BY <1>1, <1>4, <1>6, <1>7, <1>9 DEF SerialInv, CursorsLive
  <1>. QED
    BY <1>1, <1>6, <1>7, <1>8, <1>10 DEF SerialInv, NeverMarked

\* A step that only walks on in the directory.
WalksOn(t, w) ==
    /\ worker[t].pc \in {"seek", "scan"}
    /\ worker' = [worker EXCEPT ![t] = w]
    /\ w.pc \in {"scan", "reply"}
    /\ w.op = worker[t].op /\ w.o = worker[t].o /\ w.buf = worker[t].buf
    /\ ~Opened(w)
    /\ img_pos' \in Byte
    /\ UNCHANGED <<image, open_file, kfile>>

LEMMA WalkStep ==
    ASSUME OneWorker, SerialInv, NEW t \in Threads, NEW w \in Locals,
           WalksOn(t, w)
    PROVE  SerialInv'
  <1>1. TypeOK'
    BY DEF SerialInv, TypeOK, WalksOn
  <1>2. worker'[t] = w
    BY DEF SerialInv, TypeOK, WalksOn
  <1>3. \A u \in Threads : u = t
    BY DEF OneWorker
  <1>4. InCallback(t)' /\ \A o \in Opens : InStep(t, o)'
    BY <1>2 DEF SerialInv, InCallback, InStep, WalksOn
  <1>5. CursorsLive'
    BY <1>2, <1>3 DEF SerialInv, CursorsLive, InUse, WalksOn
  <1>. QED
    BY <1>1, <1>3, <1>4, <1>5 DEF SerialInv, NeverMarked, WalksOn

LEMMA ScanSteps ==
    ASSUME SerialInv, NEW t \in Threads,
           \/ SeekDirectory(t)
           \/ ListEntry(t)
           \/ SkipEntry(t)
           \/ FoundAttr(t)
           \/ ScanEnds(t)
    PROVE  \E w \in Locals : WalksOn(t, w)
  <1>. DEFINE v == worker[t]
  <1>1. v \in Locals /\ img_pos \in Byte /\ image \in Images
    BY DEF SerialInv, TypeOK
  <1>2. Ahead(img_pos, 1) \in Byte
    BY <1>1, AheadType
  <1>3. CASE SeekDirectory(t)
    <2>. DEFINE w == [v EXCEPT !.pc = "scan"]
    <2>1. w \in Locals
      BY <1>1 DEF Locals
    <2>2. At(Root, 0) \in Byte
      BY <1>1, AtType DEF Root
    <2>3. WalksOn(t, w)
      BY <1>1, <1>3, <2>2 DEF SeekDirectory, In, Goto, WalksOn, Opened, Locals
    <2>. QED
      BY <2>1, <2>3
  <1>4. CASE ListEntry(t)
    <2>. DEFINE w == [v EXCEPT !.i = @ + 1, !.list = Filled(@, EntryAt(img_pos))]
    <2>1. Filled(v.list, EntryAt(img_pos)) \in Seq(Names)
      <3>1. v.list \in Seq(Names)
        BY <1>1 DEF Locals
      <3>2. Listed(EntryAt(img_pos)) => EntryAt(img_pos).name \in Names
        BY <1>1, FoundEntry DEF Listed, Entry
      <3>. QED
        BY <3>1, <3>2 DEF Filled
    <2>2. w \in Locals
      <3>1. v.i + 1 \in Nat /\ "scan" \in Places
        BY <1>1 DEF Locals, Places
      <3>. QED
        BY <1>1, <2>1, <3>1, LocalsUpdates
    <2>3. WalksOn(t, w)
      BY <1>1, <1>2, <1>4 DEF ListEntry, ReadEntry, In, Goto, WalksOn, Opened, Locals
    <2>. QED
      BY <2>2, <2>3
  <1>. DEFINE p == Parsed(v, EntryAt(img_pos))
  <1>p. /\ p \in Locals
        /\ p.pc = v.pc /\ p.op = v.op /\ p.o = v.o /\ p.buf = v.buf
    BY <1>1, ParsedFacts
  <1>5. CASE SkipEntry(t)
    <2>. DEFINE w == [p EXCEPT !.i = @ + 1]
    <2>1. w \in Locals
      <3>1. p.i + 1 \in Nat /\ "scan" \in Places
        BY <1>p DEF Locals, Places
      <3>. QED
        BY <1>p, <3>1, LocalsUpdates
    <2>2. /\ v.pc = "scan" /\ img_pos' = Ahead(img_pos, 1)
          /\ worker' = [worker EXCEPT ![t] = w]
          /\ UNCHANGED <<image, open_file, kfile>>
      BY <1>5 DEF SkipEntry, ReadEntry, In, Goto
    <2>3. w.pc = p.pc /\ w.op = p.op /\ w.o = p.o /\ w.buf = p.buf
      BY <1>p DEF Locals
    <2>4. WalksOn(t, w)
      BY <1>2, <1>p, <2>2, <2>3 DEF WalksOn, Opened
    <2>. QED
      BY <2>1, <2>4
  <1>6. CASE FoundAttr(t)
    <2>. DEFINE w == [p EXCEPT !.pc = "reply"]
    <2>1. w \in Locals
      <3>1. "reply" \in Places
        BY DEF Places
      <3>. QED
        BY <1>p, <3>1, LocalsUpdates
    <2>2. /\ v.pc = "scan" /\ v.op = "getattr" /\ img_pos' = Ahead(img_pos, 1)
          /\ worker' = [worker EXCEPT ![t] = w]
          /\ UNCHANGED <<image, open_file, kfile>>
      BY <1>6 DEF FoundAttr, ReadEntry, In, Goto, Return
    <2>3. w.pc = "reply" /\ w.op = p.op /\ w.o = p.o /\ w.buf = p.buf
      BY <1>p DEF Locals
    <2>4. WalksOn(t, w)
      BY <1>2, <1>p, <2>2, <2>3 DEF WalksOn, Opened
    <2>. QED
      BY <2>1, <2>4
  <1>7. CASE ScanEnds(t)
    <2>. DEFINE w == [v EXCEPT !.res = IF v.op = "readdir" THEN "ok" ELSE "ENOENT",
                               !.pc = "reply"]
    <2>1. w \in Locals
      <3>1. /\ "reply" \in Places /\ <<>> \in Seq(Byte) /\ 0 \in Nat
            /\ (IF v.op = "readdir" THEN "ok" ELSE "ENOENT") \in Results
        BY DEF Places, Results
      <3>. QED
        BY <1>1, <3>1, LocalsUpdates
    <2>2. WalksOn(t, w)
      BY <1>1, <1>7 DEF ScanEnds, In, Goto, Return, WalksOn, Opened, Locals
    <2>. QED
      BY <2>1, <2>2
  <1>. QED
    BY <1>3, <1>4, <1>5, <1>6, <1>7

LEMMA FoundOpenStep ==
    ASSUME OneWorker, SerialInv, NEW t \in Threads, FoundOpen(t)
    PROVE  SerialInv'
  <1>. DEFINE v == worker[t]
              e == EntryAt(img_pos)
              p == Parsed(v, e)
              w == [p EXCEPT !.pc = "reply"]
              f == CursorAt(open_file[v.fd], p)
  <1>1. /\ v \in Locals /\ img_pos \in Byte /\ image \in Images
        /\ v.fd \in Fds /\ open_file[v.fd] \in Cursor
    BY DEF SerialInv, TypeOK, Locals
  <1>p. /\ p \in Locals
        /\ p.op = v.op /\ p.o = v.o /\ p.fd = v.fd /\ p.buf = v.buf
        /\ Listed(e) => p.st = Stat(e) /\ p.cluster = e.first
    BY <1>1, ParsedFacts
  <1>2. /\ v.pc = "scan" /\ v.op = "open" /\ Listed(e)
        /\ img_pos' = Ahead(img_pos, 1)
        /\ open_file' = [open_file EXCEPT ![v.fd] = f]
        /\ worker' = [worker EXCEPT ![t] = w]
        /\ UNCHANGED <<image, kfile>>
    <2>1. /\ p.op = "open" /\ Listed(e) /\ v.pc = "scan"
          /\ img_pos' = Ahead(img_pos, 1)
          /\ open_file' = [open_file EXCEPT ![p.fd] = CursorAt(open_file[p.fd], p)]
          /\ worker' = [worker EXCEPT ![t] = w]
          /\ UNCHANGED <<image, kfile>>
      BY DEF FoundOpen, Matches, ReadEntry, In, Goto, Return
    <2>. QED
      BY <1>p, <2>1
  <1>3. /\ e.first \in DOMAIN image.fat
        /\ e.first \in Nat
        /\ StSize(e) \in 0..(Word - 1)
    BY <1>1, <1>2, FoundEntry, ImageFacts
  <1>4. /\ f \in Cursor
        /\ f.is_open = open_file[v.fd].is_open
        /\ f.current_cluster = e.first
    <2>1. 0 \in 0..(ClusterSize - 1)
      BY FatAssumption
    <2>2. p.cluster = e.first /\ p.st.size = StSize(e)
      BY <1>2, <1>p DEF Stat
    <2>. QED
      BY <1>1, <1>3, <2>1, <2>2 DEF CursorAt, Cursor
  <1>5. /\ w \in Locals
        /\ w.pc = "reply" /\ w.op = v.op /\ w.o = v.o /\ w.fd = v.fd
        /\ w.buf = v.buf
    <2>1. w \in Locals
      <3>1. "reply" \in Places
        BY DEF Places
      <3>. QED
        BY <1>p, <3>1, LocalsUpdates
    <2>2. w.pc = "reply" /\ w.op = p.op /\ w.o = p.o /\ w.fd = p.fd /\ w.buf = p.buf
      BY <1>p DEF Locals
    <2>. QED
      BY <1>p, <2>1, <2>2
  <1>6. Ahead(img_pos, 1) \in Byte
    BY <1>1, AheadType
  <1>. HIDE DEF f, w
  <1>7. TypeOK'
    BY <1>1, <1>2, <1>4, <1>5, <1>6 DEF SerialInv, TypeOK
  <1>8. worker'[t] = w
    BY <1>2 DEF SerialInv, TypeOK
  <1>9. \A u \in Threads : u = t
    BY DEF OneWorker
  <1>10. InCallback(t)' /\ \A o \in Opens : InStep(t, o)'
    BY <1>2, <1>5, <1>8 DEF SerialInv, InCallback, InStep
  <1>11. NeverMarked'
    BY <1>1, <1>2, <1>4 DEF SerialInv, TypeOK, NeverMarked
  <1>12. ASSUME NEW fd \in Fds, InUse(fd)'
         PROVE  open_file'[fd].current_cluster \in DOMAIN image.fat
    <2>1. CASE fd = v.fd
      BY <1>1, <1>2, <1>3, <1>4, <2>1 DEF SerialInv, TypeOK
    <2>2. CASE fd # v.fd
      <3>1. InUse(fd)
        BY <1>2, <1>5, <1>8, <1>9, <1>12, <2>2 DEF InUse
      <3>2. open_file[fd].current_cluster \in DOMAIN image.fat
        BY <3>1 DEF SerialInv, CursorsLive
      <3>. QED
        BY <1>2, <2>2, <3>2 DEF SerialInv, TypeOK
    <2>. QED
      BY <2>1, <2>2
  <1>13. CursorsLive'
    BY <1>2, <1>5, <1>8, <1>9, <1>12 DEF CursorsLive
  <1>. QED
    BY <1>2, <1>7, <1>9, <1>10, <1>11, <1>13 DEF SerialInv

LEMMA ReadStep ==
    ASSUME OneWorker, SerialInv, NEW t \in Threads, NEW q \in Opens,
           NEW offset, NEW want \in 1..MaxRead, Read(t, q, offset, want)
    PROVE  SerialInv'
  <1>. DEFINE k == kfile[q]
              l == Asked(k, offset)
              size == ReadSize(open_file[k.fh], want)
              w0 == [Idle EXCEPT !.op = "read", !.o = q, !.fd = k.fh,
                                 !.want = want, !.size = size]
              w == [w0 EXCEPT !.pc = IF w0.size = 0 THEN "reply" ELSE "copy"]
  <1>1. /\ k \in KernelFile /\ k.fh \in Fds
        /\ open_file[k.fh] \in Cursor
        /\ want \in Nat
    BY FatAssumption DEF SerialInv, TypeOK, KernelFile
  <1>2. /\ k.state = "open" /\ worker[t].pc = "idle"
        /\ worker' = [worker EXCEPT ![t] = w]
        /\ kfile' = [Disturbed(q) EXCEPT ![q] = l]
        /\ UNCHANGED <<image, img_pos, open_file>>
    <2>1. Disturbed(q)[q] = k /\ DOMAIN Disturbed(q) = Opens
      BY DisturbedFacts DEF SerialInv, TypeOK
    <2>2. k.state = "open" /\ worker[t].pc = "idle"
      BY DEF Read, In
    <2>3. worker' = [worker EXCEPT ![t] = w]
      BY DEF Read, Loop, Goto
    <2>4. UNCHANGED <<image, img_pos, open_file>>
      BY DEF Read
    <2>5. kfile' = [Disturbed(q) EXCEPT ![q] = Asked(Disturbed(q)[q], offset)]
      BY DEF Read
    <2>. QED
      BY <2>1, <2>2, <2>3, <2>4, <2>5
  <1>3. size \in Nat /\ size <= open_file[k.fh].n_bytes_remaining
    BY <1>1, FatAssumption DEF ReadSize, Min2, Cursor
  <1>. HIDE DEF size
  <1>4. w0 \in Locals
    BY <1>1, <1>3, IdleType DEF Locals
  <1>5. w \in Locals
    <2>1. (IF w0.size = 0 THEN "reply" ELSE "copy") \in Places
      BY DEF Places
    <2>. QED
      BY <1>4, <2>1, LocalsUpdates
  <1>6. /\ w.op = "read" /\ w.o = q /\ w.fd = k.fh /\ w.buf = <<>>
        /\ w.size = size
        /\ w.pc = IF size = 0 THEN "reply" ELSE "copy"
    BY DEF Idle
  <1>7. /\ l \in KernelFile
        /\ l.state = "reading" /\ l.fh = k.fh /\ l.alone = k.alone
    <2>1. /\ InOrder(k, offset) \in BOOLEAN
          /\ (IF InOrder(k, offset) THEN k.data ELSE <<>>) \in Seq(Byte)
      BY <1>1 DEF KernelFile, InOrder
    <2>. QED
      BY <1>1, <2>1 DEF KernelFile, Asked
  <1>. HIDE DEF w, l
  <1>8. /\ TypeOK'
        /\ worker'[t] = w /\ kfile'[q] = l
        /\ OthersKeep(q)
        /\ \A o \in Opens \ {q} : ~kfile'[o].alone
    <2>1. /\ Disturbed(q) \in [Opens -> KernelFile]
          /\ \A o \in Opens \ {q} : ~Disturbed(q)[o].alone
          /\ \A o \in Opens : Disturbed(q)[o] = [kfile[o] EXCEPT
                !.alone = Disturbed(q)[o].alone]
      BY DisturbedFacts DEF SerialInv, TypeOK
    <2>2. \A o \in Opens \ {q} : kfile'[o] = Disturbed(q)[o]
      BY <1>2, <2>1
    <2>3. OthersKeep(q)
      BY <2>1, <2>2 DEF OthersKeep, SerialInv, TypeOK, KernelFile
    <2>. QED
      BY <1>2, <1>5, <1>7, <2>1, <2>2, <2>3 DEF SerialInv, TypeOK
  <1>9. \A u \in Threads : u = t
    BY DEF OneWorker
  <1>10. worker[t].op = "none"
    BY <1>2 DEF SerialInv, InCallback
  <1>11. InCallback(t)' /\ \A o \in Opens : InStep(t, o)'
    <2>1. InCallback(t)'
      BY <1>3, <1>6, <1>8 DEF InCallback
    <2>2. InStep(t, q)'
      BY <1>6, <1>7, <1>8 DEF InStep
    <2>3. ASSUME NEW o \in Opens \ {q}
          PROVE  InStep(t, o)'
      BY <1>6, <1>8, <1>10 DEF SerialInv, InStep, OthersKeep
    <2>. QED
      BY <2>1, <2>2, <2>3
  <1>12. \A fd \in Fds : InUse(fd)' => InUse(fd)
    BY <1>2, <1>6, <1>7, <1>8, <1>9 DEF InUse, Opened, OthersKeep
  <1>13. CursorsLive'
    BY <1>2, <1>3, <1>6, <1>8, <1>9, <1>12 DEF SerialInv, CursorsLive
  <1>. QED
    BY <1>2, <1>8, <1>9, <1>11, <1>13 DEF SerialInv, NeverMarked

LEMMA SeekDataStep ==
    ASSUME OneWorker, SerialInv, NEW t \in Threads, SeekData(t)
    PROVE  SerialInv'
  <1>. DEFINE v == worker[t]
              f == open_file[v.fd]
              w == [v EXCEPT !.pc = "copy_read", !.n = Chunk(v, f)]
  <1>1. /\ v \in Locals /\ v.fd \in Fds /\ f \in Cursor /\ image \in Images
    BY DEF SerialInv, TypeOK, Locals
  <1>2. /\ v.pc = "copy"
        /\ img_pos' = At(f.current_cluster, f.current_offset_in_cluster)
        /\ worker' = [worker EXCEPT ![t] = w]
        /\ UNCHANGED <<image, open_file, kfile>>
    BY DEF SeekData, In, Goto
  <1>3. /\ v.op = "read" /\ v.size > 0 /\ v.size <= f.n_bytes_remaining
    BY <1>2 DEF SerialInv, InCallback, CursorsLive
  <1>4. Chunk(v, f) \in Nat
    BY <1>1, <1>3, ChunkFacts DEF Locals
  <1>5. /\ w \in Locals
        /\ w.pc = "copy_read" /\ w.op = v.op /\ w.o = v.o /\ w.fd = v.fd
        /\ w.buf = v.buf /\ w.size = v.size /\ w.n = Chunk(v, f)
    <2>1. w \in Locals
      <3>1. "copy_read" \in Places
        BY DEF Places
      <3>. QED
        BY <1>1, <1>4, <3>1, LocalsUpdates
    <2>. QED
      BY <1>1, <2>1 DEF Locals
  <1>6. At(f.current_cluster, f.current_offset_in_cluster) \in Byte
    BY <1>1, FatAssumption, AtType DEF Cursor
  <1>7. Chunk(w, f) = Chunk(v, f)
    BY <1>5 DEF Chunk
  <1>. HIDE DEF w
  <1>8. TypeOK'
    BY <1>2, <1>5, <1>6 DEF SerialInv, TypeOK
  <1>9. worker'[t] = w
    BY <1>2 DEF SerialInv, TypeOK
  <1>10. \A u \in Threads : u = t
    BY DEF OneWorker
  <1>11. InCallback(t)' /\ \A o \in Opens : InStep(t, o)'
    BY <1>2, <1>3, <1>5, <1>9 DEF SerialInv, InCallback, InStep
  <1>12. \A fd \in Fds : InUse(fd)' => InUse(fd)
    BY <1>2, <1>3, <1>5, <1>9, <1>10 DEF InUse, Opened
  <1>13. CursorsLive'
    BY <1>2, <1>3, <1>5, <1>7, <1>9, <1>10, <1>12 DEF SerialInv, CursorsLive, At, Extent, Chunk
  <1>. QED
    BY <1>2, <1>8, <1>10, <1>11, <1>13 DEF SerialInv, NeverMarked

\* The cursor g after one round of fat_read's loop, and the locals w.
CopiesTo(t, g, w) ==
    LET v == worker[t]
        f == open_file[v.fd]
    IN  /\ v.pc = "copy_read"
        /\ open_file' = [open_file EXCEPT ![v.fd] = g]
        /\ g.is_open = f.is_open
        /\ g.n_bytes_remaining = f.n_bytes_remaining - v.n
        /\ g.current_cluster \in DOMAIN image.fat
        /\ worker' = [worker EXCEPT ![t] = w]
        /\ w.op = v.op /\ w.o = v.o /\ w.fd = v.fd
        /\ w.buf = v.buf \o Bytes(img_pos, v.n)
        /\ w.size = v.size - v.n
        /\ w.pc = "reply" \/ (w.pc = "copy" /\ w.size > 0)
        /\ img_pos' \in Byte
        /\ UNCHANGED <<image, kfile>>

LEMMA CopiesToStep ==
    ASSUME OneWorker, SerialInv, NEW t \in Threads, NEW g \in Cursor,
           NEW w \in Locals, CopiesTo(t, g, w)
    PROVE  SerialInv'
  <1>. DEFINE v == worker[t]
  <1>1. v \in Locals /\ v.fd \in Fds /\ open_file[v.fd] \in Cursor
    BY DEF SerialInv, TypeOK, Locals
  <1>2. TypeOK'
    BY <1>1 DEF SerialInv, TypeOK, CopiesTo
  <1>3. worker'[t] = w
    BY DEF SerialInv, TypeOK, CopiesTo
  <1>4. \A u \in Threads : u = t
    BY DEF OneWorker
  <1>5. /\ v.op = "read"
        /\ v.n \in Nat /\ v.size <= open_file[v.fd].n_bytes_remaining
    BY <1>1 DEF SerialInv, InCallback, CursorsLive, CopiesTo, Locals
  <1>6. InCallback(t)' /\ \A o \in Opens : InStep(t, o)'
    BY <1>3, <1>5 DEF SerialInv, InCallback, InStep, CopiesTo
  <1>7. NeverMarked'
    BY <1>1 DEF SerialInv, TypeOK, NeverMarked, CopiesTo
  <1>8. open_file' = [open_file EXCEPT ![v.fd] = g] /\ open_file'[v.fd] = g
    BY <1>1 DEF SerialInv, TypeOK, CopiesTo
  <1>9. ASSUME NEW fd \in Fds, InUse(fd)'
        PROVE  open_file'[fd].current_cluster \in DOMAIN image'.fat
    <2>1. InUse(fd)
      BY <1>3, <1>4, <1>5, <1>9 DEF InUse, Opened, CopiesTo
    <2>2. open_file[fd].current_cluster \in DOMAIN image.fat
      BY <2>1 DEF SerialInv, CursorsLive
    <2>. QED
      BY <1>8, <2>2 DEF SerialInv, TypeOK, CopiesTo
  <1>10. w.pc = "copy" => w.size <= open_file'[w.fd].n_bytes_remaining
    <2>1. /\ w.size = v.size - v.n /\ w.fd = v.fd
          /\ g.n_bytes_remaining = open_file[v.fd].n_bytes_remaining - v.n
      BY DEF CopiesTo
    <2>2. v.size \in Nat
      BY <1>1 DEF Locals
    <2>3. open_file[v.fd].n_bytes_remaining \in Nat
      BY <1>1, FatAssumption DEF Cursor
    <2>. QED
      BY <1>5, <1>8, <2>1, <2>2, <2>3
  <1>11. CursorsLive'
    BY <1>3, <1>4, <1>9, <1>10 DEF CursorsLive, CopiesTo
  <1>. QED
    BY <1>2, <1>4, <1>6, <1>7, <1>11 DEF SerialInv, CopiesTo

LEMMA CopySteps ==
    ASSUME OneWorker, SerialInv, NEW t \in Threads,
           \/ CopyInCluster(t)
           \/ CopyToNextCluster(t)
           \/ CopyToEndOfChain(t)
    PROVE  \E g \in Cursor, w \in Locals : CopiesTo(t, g, w)
  <1>. DEFINE v == worker[t]
              f == open_file[v.fd]
              h == Moved(f, v.n)
              c == Copied(v)
              back == [h EXCEPT !.current_offset_in_cluster = 0]
              loop == [c EXCEPT !.pc = IF c.size = 0 THEN "reply" ELSE "copy"]
              ret == [c EXCEPT !.pc = "reply"]
  <1>1. /\ v \in Locals /\ v.fd \in Fds /\ f \in Cursor /\ image \in Images
        /\ img_pos \in Byte
    BY DEF SerialInv, TypeOK, Locals
  <1>2. /\ v.pc = "copy_read"
        /\ img_pos' = Ahead(img_pos, v.n)
        /\ UNCHANGED <<image, kfile>>
    BY DEF CopyInCluster, CopyToNextCluster, CopyToEndOfChain, ReadChunk, In
  <1>3. /\ v.size > 0 /\ v.size <= f.n_bytes_remaining /\ v.n = Chunk(v, f)
        /\ v.op = "read" /\ v.o \in Opens
    BY <1>2 DEF SerialInv, InCallback, CursorsLive
  <1>4. /\ v.n \in 1..v.size
        /\ f.current_offset_in_cluster + v.n <= ClusterSize
    BY <1>1, <1>3, ChunkFacts
  <1>5. v.n \in Nat /\ v.size \in Nat /\ v.n <= f.n_bytes_remaining
    <2>1. v.n \in Nat /\ v.size \in Nat
      BY <1>1 DEF Locals
    <2>2. f.n_bytes_remaining \in Nat
      BY <1>1, FatAssumption DEF Cursor
    <2>. HIDE DEF v, f
    <2>. QED
      BY <1>3, <1>4, <2>1, <2>2
  <1>6. /\ h.is_open = f.is_open
        /\ h.current_cluster = f.current_cluster
        /\ h.current_offset_in_cluster = f.current_offset_in_cluster + v.n
        /\ h.n_bytes_remaining = f.n_bytes_remaining - v.n
    BY <1>1, <1>4, <1>5, MovedFacts
  <1>7. f.current_cluster \in DOMAIN image.fat
    <2>1. kfile[v.o].state = "reading" /\ v.fd = kfile[v.o].fh
      BY <1>3 DEF SerialInv, InStep
    <2>. QED
      BY <1>1, <1>3, <2>1 DEF SerialInv, CursorsLive, InUse
  <1>8. Bytes(img_pos, v.n) \in Seq(Byte)
    BY <1>1, <1>5, BytesType
  <1>9. /\ c \in Locals
        /\ c.op = v.op /\ c.o = v.o /\ c.fd = v.fd
        /\ c.buf = v.buf \o Bytes(img_pos, v.n)
        /\ c.size = v.size - v.n
    <2>1. /\ v.buf \o Bytes(img_pos, v.n) \in Seq(Byte)
          /\ v.size - v.n \in Nat
      BY <1>1, <1>4, <1>5, <1>8 DEF Locals
    <2>2. c \in Locals
      <3>1. 0 \in Nat /\ "reply" \in Places
        BY DEF Places
      <3>. QED
        BY <1>1, <2>1, <3>1, LocalsUpdates DEF Copied
    <2>. QED
      BY <1>1, <2>2 DEF Copied, Locals
  <1>10. Ahead(img_pos, v.n) \in Byte
    BY <1>1, <1>5, AheadType
  <1>. HIDE DEF h, c
  <1>11. /\ loop \in Locals /\ ret \in Locals
         /\ \A w \in {loop, ret} :
               /\ w.op = v.op /\ w.o = v.o /\ w.fd = v.fd
               /\ w.buf = v.buf \o Bytes(img_pos, v.n)
               /\ w.size = v.size - v.n
               /\ w.pc = "reply" \/ (w.pc = "copy" /\ w.size > 0)
    <2>1. "reply" \in Places /\ "copy" \in Places
      BY DEF Places
    <2>2. loop \in Locals /\ ret \in Locals
      BY <1>9, <2>1, LocalsUpdates
    <2>3. c.size \in Nat
      BY <1>9 DEF Locals
    <2>4. /\ loop.op = c.op /\ loop.o = c.o /\ loop.fd = c.fd
          /\ loop.buf = c.buf /\ loop.size = c.size
          /\ loop.pc = IF c.size = 0 THEN "reply" ELSE "copy"
      BY <1>9 DEF Locals
    <2>5. /\ ret.op = c.op /\ ret.o = c.o /\ ret.fd = c.fd
          /\ ret.buf = c.buf /\ ret.size = c.size /\ ret.pc = "reply"
      BY <1>9 DEF Locals
    <2>. HIDE DEF loop, ret
    <2>6. c.size = 0 \/ c.size > 0
      BY <2>3
    <2>7. /\ loop.op = v.op /\ loop.o = v.o /\ loop.fd = v.fd
          /\ loop.buf = v.buf \o Bytes(img_pos, v.n)
          /\ loop.size = v.size - v.n
          /\ loop.pc = "reply" \/ (loop.pc = "copy" /\ loop.size > 0)
      BY <1>9, <2>4, <2>6, Zenon
    <2>8. /\ ret.op = v.op /\ ret.o = v.o /\ ret.fd = v.fd
          /\ ret.buf = v.buf \o Bytes(img_pos, v.n)
          /\ ret.size = v.size - v.n
      BY <1>9, <2>5, Zenon
    <2>. QED
      BY <2>2, <2>5, <2>7, <2>8, Zenon
  <1>. HIDE DEF loop, ret
  <1>12. CASE CopyInCluster(t)
    <2>1. /\ ~AtEndOfCluster(h)
          /\ open_file' = [open_file EXCEPT ![v.fd] = h]
          /\ worker' = [worker EXCEPT ![t] = loop]
      BY <1>12 DEF CopyInCluster, Loop, Goto, h, c, loop
    <2>2. h \in Cursor
      BY <1>1, <1>4, <1>5, <1>6, <2>1, MovedType DEF AtEndOfCluster, h
    <2>. QED
      BY <1>2, <1>6, <1>7, <1>10, <1>11, <2>1, <2>2 DEF CopiesTo
  <1>13. CASE CopyToNextCluster(t)
    <2>1. /\ image.fat[h.current_cluster] # EndOfChain
          /\ open_file' = [open_file EXCEPT ![v.fd] = NextCluster(h)]
          /\ worker' = [worker EXCEPT ![t] = loop]
      BY <1>13 DEF CopyToNextCluster, Loop, Goto, h, c, loop
    <2>2. /\ image.fat[h.current_cluster] \in DOMAIN image.fat
          /\ image.fat[h.current_cluster] \in Nat
      BY <1>1, <1>6, <1>7, <2>1, ImageFacts
    <2>3. NextCluster(h) \in Cursor
      BY <1>1, <1>4, <1>5, <2>2, MovedType DEF NextCluster, h
    <2>4. /\ NextCluster(h).is_open = f.is_open
          /\ NextCluster(h).n_bytes_remaining = f.n_bytes_remaining - v.n
          /\ NextCluster(h).current_cluster \in DOMAIN image.fat
      <3>1. NextCluster(h) = [h EXCEPT
              !.current_cluster = image.fat[h.current_cluster],
              !.current_offset_in_cluster = 0]
        BY DEF NextCluster
      <3>. QED
        BY <1>1, <1>6, <2>2, <3>1 DEF Moved, Cursor, h
    <2>. QED
      BY <1>2, <1>10, <1>11, <2>1, <2>3, <2>4 DEF CopiesTo
  <1>14. CASE CopyToEndOfChain(t)
    <2>1. /\ open_file' = [open_file EXCEPT ![v.fd] = back]
          /\ worker' = [worker EXCEPT ![t] = ret]
      BY <1>14 DEF CopyToEndOfChain, Return, Goto, h, c, ret
    <2>2. back \in Cursor
      BY <1>1, <1>4, <1>5, MovedType DEF h
    <2>3. /\ back.is_open = f.is_open
          /\ back.n_bytes_remaining = f.n_bytes_remaining - v.n
          /\ back.current_cluster \in DOMAIN image.fat
      BY <1>1, <1>6, <1>7 DEF Moved, Cursor, h
    <2>. QED
      BY <1>2, <1>10, <1>11, <2>1, <2>2, <2>3 DEF CopiesTo
  <1>. QED
    BY <1>12, <1>13, <1>14

LEMMA AbortStep ==
    ASSUME OneWorker, SerialInv, NEW t \in Threads, Abort(t)
    PROVE  SerialInv'
  <1>. DEFINE v == worker[t]
              w == [v EXCEPT !.pc = "aborted"]
  <1>1. v \in Locals
    BY DEF SerialInv, TypeOK
  <1>2. \A u \in Threads : u = t
    BY DEF OneWorker
  <1>3. /\ v.pc \in {"scan", "copy_read"}
        /\ worker' = [u \in Threads |-> [worker[u] EXCEPT !.pc = "aborted"]]
        /\ UNCHANGED <<image, img_pos, open_file, kfile>>
    BY DEF Abort, In
  <1>4. worker' = [u \in Threads |-> w] /\ worker'[t] = w
    BY <1>2, <1>3
  <1>5. /\ w \in Locals
        /\ w.pc = "aborted" /\ w.op = v.op /\ w.o = v.o /\ w.fd = v.fd
        /\ w.buf = v.buf
    <2>1. w \in Locals
      <3>1. "aborted" \in Places
        BY DEF Places
      <3>. QED
        BY <1>1, <3>1, LocalsUpdates
    <2>. QED
      BY <1>1, <2>1 DEF Locals
  <1>. HIDE DEF w
  <1>6. TypeOK'
    BY <1>3, <1>4, <1>5 DEF SerialInv, TypeOK
  <1>7. InCallback(t)' /\ \A o \in Opens : InStep(t, o)'
    BY <1>3, <1>4, <1>5 DEF SerialInv, InCallback, InStep
  <1>8. CursorsLive'
    BY <1>2, <1>3, <1>4, <1>5 DEF SerialInv, CursorsLive, InUse, Opened
  <1>. QED
    BY <1>2, <1>3, <1>6, <1>7, <1>8 DEF SerialInv, NeverMarked

LEMMA ReplyInfoStep ==
    ASSUME OneWorker, SerialInv, NEW t \in Threads, ReplyInfo(t)
    PROVE  SerialInv'
  <1>1. /\ worker[t].pc = "reply" /\ worker[t].op \in {"getattr", "readdir"}
        /\ worker' = [worker EXCEPT ![t] = Idle]
        /\ UNCHANGED <<image, img_pos, open_file, kfile>>
    BY DEF ReplyInfo, In, Goto
  <1>2. Idle.pc = "idle" /\ Idle.op = "none" /\ Idle.buf = <<>>
    BY DEF Idle
  <1>3. TypeOK'
    BY <1>1, IdleType DEF SerialInv, TypeOK
  <1>4. worker'[t] = Idle
    BY <1>1 DEF SerialInv, TypeOK
  <1>5. \A u \in Threads : u = t
    BY DEF OneWorker
  <1>6. InCallback(t)' /\ \A o \in Opens : InStep(t, o)'
    BY <1>1, <1>2, <1>4 DEF SerialInv, InCallback, InStep
  <1>7. CursorsLive'
    BY <1>1, <1>2, <1>4, <1>5 DEF SerialInv, CursorsLive, InUse, Opened
  <1>. QED
    BY <1>1, <1>3, <1>5, <1>6, <1>7 DEF SerialInv, NeverMarked

LEMMA ReplyOpenStep ==
    ASSUME OneWorker, SerialInv, NEW t \in Threads, ReplyOpen(t)
    PROVE  SerialInv'
  <1>. DEFINE v == worker[t]
              ok == [kfile[v.o] EXCEPT !.state = "open", !.name = v.name,
                                       !.fh = v.fd]
              k == IF v.res = "ok" THEN ok ELSE Closed
  <1>1. /\ v.pc = "reply" /\ v.op = "open"
        /\ worker' = [worker EXCEPT ![t] = Idle]
        /\ kfile' = [kfile EXCEPT ![v.o] = k]
        /\ UNCHANGED <<image, img_pos, open_file>>
    <2>1. v.pc = "reply" /\ v.op = "open"
      BY DEF ReplyOpen, In
    <2>2. v.o \in Opens
      BY <2>1 DEF SerialInv, InCallback
    <2>. QED
      BY <2>1, <2>2 DEF ReplyOpen, Goto, SerialInv, TypeOK
  <1>2. Idle.pc = "idle" /\ Idle.op = "none" /\ Idle.buf = <<>>
    BY DEF Idle
  <1>3. v \in Locals /\ v.o \in Opens
    BY <1>1 DEF SerialInv, TypeOK, InCallback
  <1>. PICK q \in Opens : q = v.o
    BY <1>3
  <1>o. kfile[v.o] \in KernelFile
    BY <1>3 DEF SerialInv, TypeOK
  <1>p. /\ ok \in KernelFile
        /\ ok.state = "open" /\ ok.fh = v.fd /\ ok.alone = kfile[q].alone
    <2>1. v.name \in Paths \cup {Top, Free} /\ v.fd \in Fds
      BY <1>3 DEF Locals
    <2>. QED
      BY <1>o, <2>1 DEF KernelFile
  <1>. HIDE DEF ok
  <1>4. k \in KernelFile
    BY <1>p, IdleType
  <1>5. /\ v.res = "ok" => k.state = "open" /\ k.fh = v.fd /\ k.alone = kfile[q].alone
        /\ v.res # "ok" => k.state = "closed" /\ ~k.alone
    BY <1>p DEF Closed
  <1>. HIDE DEF k
  <1>6. TypeOK'
    BY <1>1, <1>4, IdleType DEF SerialInv, TypeOK
  <1>7. /\ worker'[t] = Idle /\ kfile'[q] = k
        /\ \A o \in Opens \ {q} : kfile'[o] = kfile[o]
    BY <1>1, <1>3 DEF SerialInv, TypeOK
  <1>8. \A u \in Threads : u = t
    BY DEF OneWorker
  <1>9. InCallback(t)' /\ InStep(t, q)'
    BY <1>2, <1>5, <1>7 DEF InCallback, InStep
  <1>10. \A o \in Opens : InStep(t, o)'
    <2>1. ASSUME NEW o \in Opens \ {q}
          PROVE  InStep(t, o)'
      BY <1>1, <1>2, <1>7 DEF SerialInv, InStep
    <2>. QED
      BY <1>9, <2>1
  <1>11. \A fd \in Fds : InUse(fd)' => InUse(fd)
    BY <1>1, <1>2, <1>5, <1>7, <1>8 DEF InUse, Opened
  <1>12. CursorsLive'
    BY <1>1, <1>2, <1>7, <1>8, <1>11 DEF SerialInv, CursorsLive
  <1>13. \A o \in Opens : kfile'[o].alone => kfile[o].alone
    BY <1>5, <1>7
  <1>. QED
    BY <1>1, <1>6, <1>8, <1>9, <1>10, <1>12, <1>13 DEF SerialInv, NeverMarked

LEMMA ReplyReadStep ==
    ASSUME OneWorker, SerialInv, NEW t \in Threads, ReplyRead(t)
    PROVE  SerialInv'
  <1>. DEFINE v == worker[t]
              k == Answer(kfile[v.o], v)
  <1>1. v \in Locals
    BY DEF SerialInv, TypeOK
  <1>2. v.pc = "reply" /\ v.op = "read"
    BY DEF ReplyRead, In
  <1>3. v.o \in Opens /\ kfile[v.o] \in KernelFile
    BY <1>2 DEF SerialInv, TypeOK, InCallback
  <1>. PICK q \in Opens : q = v.o
    BY <1>3
  <1>4. /\ worker' = [worker EXCEPT ![t] = Idle]
        /\ kfile' = [kfile EXCEPT ![v.o] = k]
        /\ UNCHANGED <<image, img_pos, open_file>>
    <2>1. /\ worker' = [worker EXCEPT ![t] = Idle]
          /\ UNCHANGED <<image, img_pos, open_file>>
      BY DEF ReplyRead, Goto
    <2>2. kfile' = [kfile EXCEPT ![v.o] = k]
      BY DEF ReplyRead
    <2>. QED
      BY <2>1, <2>2
  <1>5. /\ k \in KernelFile
        /\ k.state = "open" /\ k.fh = kfile[v.o].fh
        /\ k.alone = kfile[v.o].alone
    <2>1. v.buf \in Seq(Byte) /\ kfile[v.o].data \in Seq(Byte)
      BY <1>1, <1>3 DEF Locals, KernelFile
    <2>2. (IF Kept(kfile[v.o]) THEN kfile[v.o].data \o v.buf ELSE <<>>)
             \in Seq(Byte)
      BY <2>1
    <2>3. (Len(v.buf) < v.want) \in BOOLEAN /\ Kept(kfile[v.o]) \in BOOLEAN
      BY <1>3 DEF KernelFile, Kept
    <2>. QED
      BY <1>3, <2>2, <2>3 DEF KernelFile, Answer
  <1>6. Idle.pc = "idle" /\ Idle.op = "none" /\ Idle.buf = <<>>
    BY DEF Idle
  <1>. HIDE DEF k
  <1>7. TypeOK'
    BY <1>4, <1>5, IdleType DEF SerialInv, TypeOK
  <1>8. /\ worker'[t] = Idle /\ kfile'[q] = k
        /\ \A o \in Opens \ {q} : kfile'[o] = kfile[o]
    BY <1>3, <1>4 DEF SerialInv, TypeOK
  <1>9. \A u \in Threads : u = t
    BY DEF OneWorker
  <1>10. InCallback(t)' /\ InStep(t, q)'
    BY <1>5, <1>6, <1>8 DEF InCallback, InStep
  <1>11. \A o \in Opens : InStep(t, o)'
    <2>1. ASSUME NEW o \in Opens \ {q}
          PROVE  InStep(t, o)'
      BY <1>2, <1>6, <1>8 DEF SerialInv, InStep
    <2>. QED
      BY <1>10, <2>1
  <1>12. kfile[v.o].state = "reading"
    BY <1>2, <1>3 DEF SerialInv, InStep
  <1>13. \A fd \in Fds : InUse(fd)' => InUse(fd)
    BY <1>4, <1>5, <1>6, <1>8, <1>9, <1>12 DEF InUse, Opened
  <1>14. CursorsLive'
    BY <1>4, <1>6, <1>8, <1>9, <1>13 DEF SerialInv, CursorsLive
  <1>15. \A o \in Opens : kfile'[o].alone => kfile[o].alone
    BY <1>5, <1>8
  <1>. QED
    BY <1>4, <1>7, <1>9, <1>10, <1>11, <1>14, <1>15 DEF SerialInv, NeverMarked

LEMMA ReleaseStep ==
    ASSUME OneWorker, SerialInv, NEW t \in Threads, NEW q \in Opens,
           Release(t, q)
    PROVE  SerialInv'
  <1>. DEFINE fd0 == kfile[q].fh
              f == [open_file[fd0] EXCEPT !.is_open = FALSE]
  <1>1. /\ worker[t].pc = "idle" /\ kfile[q].state = "open"
        /\ kfile' = [kfile EXCEPT ![q] = Closed]
        /\ UNCHANGED <<image, img_pos, worker>>
    BY DEF Release, In
  <1>2. fd0 \in Fds /\ open_file[fd0] \in Cursor
    BY DEF SerialInv, TypeOK, KernelFile
  <1>3. ~open_file[fd0].is_open
    BY <1>2 DEF SerialInv, NeverMarked
  <1>4. f = open_file[fd0]
    BY <1>2, <1>3 DEF Cursor
  <1>5. open_file' = open_file
    BY <1>2, <1>4 DEF Release, SerialInv, TypeOK
  <1>6. Closed.state = "closed" /\ ~Closed.alone
    BY DEF Closed
  <1>7. TypeOK'
    BY <1>1, <1>5, IdleType DEF SerialInv, TypeOK
  <1>8. /\ kfile'[q] = Closed
        /\ \A o \in Opens \ {q} : kfile'[o] = kfile[o]
    BY <1>1 DEF SerialInv, TypeOK
  <1>9. \A u \in Threads : u = t
    BY DEF OneWorker
  <1>10. InCallback(t)' /\ \A o \in Opens : InStep(t, o)'
    BY <1>1, <1>6, <1>8 DEF SerialInv, InCallback, InStep
  <1>11. \A fd \in Fds : InUse(fd)' => InUse(fd)
    BY <1>1, <1>6, <1>8, <1>9 DEF InUse
  <1>12. CursorsLive'
    BY <1>1, <1>5, <1>9, <1>11 DEF SerialInv, CursorsLive
  <1>13. \A o \in Opens : kfile'[o].alone => kfile[o].alone
    BY <1>6, <1>8
  <1>. QED
    BY <1>5, <1>7, <1>9, <1>10, <1>12, <1>13 DEF SerialInv, NeverMarked

--------------------------------------------------------------------------------

LEMMA SerialInit ==
    ASSUME Init
    PROVE  SerialInv
  <1>1. Idle.pc = "idle" /\ Idle.op = "none" /\ Idle.buf = <<>>
    BY DEF Idle
  <1>2. Closed.state = "closed" /\ ~Closed.alone
    BY DEF Closed
  <1>3. TypeOK
    <2>1. <<2, 0>> \in Byte
      BY DEF Byte
    <2>2. 0 \in 0..(ClusterSize - 1) /\ 0 \in 0..(Word - 1)
      BY FatAssumption
    <2>3. open_file \in [Fds -> Cursor]
      BY <2>2 DEF Init, Cursor
    <2>. QED
      BY <2>1, <2>3, IdleType DEF Init, TypeOK
  <1>4. \A t \in Threads : InCallback(t) /\ ~Opened(worker[t])
    BY <1>1 DEF Init, InCallback, Opened
  <1>5. \A t \in Threads, o \in Opens : InStep(t, o)
    BY <1>1, <1>2 DEF Init, InStep
  <1>6. NeverMarked
    BY DEF Init, NeverMarked
  <1>7. CursorsLive
    BY <1>1, <1>2, <1>4 DEF Init, CursorsLive, InUse
  <1>. QED
    BY <1>2, <1>3, <1>4, <1>5, <1>6, <1>7 DEF Init, SerialInv

LEMMA SerialStep ==
    ASSUME OneWorker, SerialInv, [Next]_vars
    PROVE  SerialInv'
  <1>1. CASE UNCHANGED vars
    BY <1>1 DEF vars, SerialInv, TypeOK, InCallback, InStep, NeverMarked,
                CursorsLive, InUse, Opened, Chunk, At, Extent
  <1>2. ASSUME NEW t \in Threads, Request(t)
        PROVE  SerialInv'
    <2>1. ASSUME \/ \E n \in Paths : GetAttr(t, n)
                 \/ GetAttrTop(t)
                 \/ \E n \in Names \cup {Top} : ReadDir(t, n)
          PROVE  SerialInv'
      BY <2>1, AskSteps, AskStep
    <2>2. ASSUME NEW o \in Opens, NEW n \in Paths, Open(t, o, n)
          PROVE  SerialInv'
      BY <2>2, OpenStep
    <2>3. ASSUME NEW o \in Opens, NEW offset \in 0..(Word - 1),
                 NEW want \in 1..MaxRead, Read(t, o, offset, want)
          PROVE  SerialInv'
      BY <2>3, ReadStep
    <2>4. ASSUME NEW o \in Opens, Release(t, o)
          PROVE  SerialInv'
      BY <2>4, ReleaseStep
    <2>. QED
      BY <1>2, <2>1, <2>2, <2>3, <2>4 DEF Request
  <1>3. ASSUME NEW t \in Threads, Callback(t)
        PROVE  SerialInv'
    <2>1. CASE \/ SeekDirectory(t)
               \/ ListEntry(t)
               \/ SkipEntry(t)
               \/ FoundAttr(t)
               \/ ScanEnds(t)
      BY <2>1, ScanSteps, WalkStep
    <2>2. CASE \/ CopyInCluster(t)
               \/ CopyToNextCluster(t)
               \/ CopyToEndOfChain(t)
      BY <2>2, CopySteps, CopiesToStep
    <2>3. CASE FoundOpen(t)
      BY <2>3, FoundOpenStep
    <2>4. CASE SeekData(t)
      BY <2>4, SeekDataStep
    <2>5. CASE Abort(t)
      BY <2>5, AbortStep
    <2>6. CASE ReplyInfo(t)
      BY <2>6, ReplyInfoStep
    <2>7. CASE ReplyOpen(t)
      BY <2>7, ReplyOpenStep
    <2>8. CASE ReplyRead(t)
      BY <2>8, ReplyReadStep
    <2>. QED
      BY <1>3, <2>1, <2>2, <2>3, <2>4, <2>5, <2>6, <2>7, <2>8 DEF Callback
  <1>. QED
    BY <1>1, <1>2, <1>3 DEF Next

--------------------------------------------------------------------------------
(***************************************************************************)
(* With one callback at a time, every reachable state of the driver is as  *)
(* SerialInv says, on defective images too: what the proofs rest on.       *)
(***************************************************************************)
LEMMA Serial == OneWorker => (Spec => []SerialInv)
  <1>. SUFFICES ASSUME OneWorker
                PROVE  Spec => []SerialInv
    OBVIOUS
  <1>1. Init => SerialInv
    BY SerialInit
  <1>2. SerialInv /\ [Next]_vars => SerialInv'
    BY SerialStep
  <1>. QED
    BY <1>1, <1>2, PTL DEF Spec

(***************************************************************************)
(* Type correctness; with it, between two steps a cursor lies inside its   *)
(* cluster and no uint16_t of a cursor has wrapped.                        *)
(***************************************************************************)
THEOREM FatTypeCorrect == OneWorker => (Spec => []TypeOK)
  <1>1. SerialInv => TypeOK
    BY DEF SerialInv
  <1>. QED
    BY <1>1, Serial, PTL

--------------------------------------------------------------------------------
(* Files of an image without defects *)

LEMMA FileFacts ==
    ASSUME image \in Images, Good, NEW n \in Names, NEW e \in Range(image.dir),
           IsEntryOf(e, n)
    PROVE  /\ Visible(n) /\ EntryOf(n) = e
           /\ e \in Entry /\ Listed(e)
           /\ e.size \in Nat /\ StSize(e) = e.size
           /\ image.chain[n] \in Seq(DOMAIN image.fat)
           /\ Holds(image.chain[n], e, image)
  <1>1. /\ WellFormed(image) /\ Readable(image)
        /\ UniqueNames(image) /\ Served(image)
    BY FatAssumption DEF Good, GoodImages
  <1>2. PICK k \in 1..Len(image.dir) : image.dir[k] = e
    BY <1>1 DEF Readable, Range
  <1>3. \A x \in Range(image.dir) : IsEntryOf(x, n) => x = e
    <2>. TAKE x \in Range(image.dir)
    <2>. HAVE IsEntryOf(x, n)
    <2>1. PICK j \in 1..Len(image.dir) : image.dir[j] = x
      BY <1>1 DEF Readable, Range
    <2>2. /\ image.dir[j].name = n /\ image.dir[k].name = n
          /\ IsFile(image.dir[j]) /\ IsFile(image.dir[k])
      BY <1>2, <2>1 DEF IsEntryOf
    <2>. QED
      BY <1>1, <1>2, <2>1, <2>2 DEF UniqueNames
  <1>4. EntryOf(n) \in Range(image.dir) /\ IsEntryOf(EntryOf(n), n)
    BY DEF EntryOf
  <1>5. image.dir[k].name = n /\ IsFile(image.dir[k])
    BY <1>2 DEF IsEntryOf
  <1>6. /\ Holds(image.chain[n], e, image)
        /\ "directory" \in e.attr => e.size = 0
    BY <1>1, <1>2, <1>5 DEF WellFormed
  <1>7. e \in Entry
    BY <1>1, <1>2 DEF Readable
  <1>8. e.attr \cap Hiding = {} /\ e.size < Word
    BY <1>1, <1>2, <1>5 DEF Served
  <1>9. Listed(e)
    BY <1>2, <1>5, <1>8 DEF Listed, IsFile
  <1>10. e.size \in Nat /\ StSize(e) = e.size
    <2>1. e.size \in Nat
      BY <1>7 DEF Entry
    <2>2. e.size % Word = e.size
      BY <1>8, <2>1, ModSmall, FatAssumption
    <2>. QED
      BY <1>6, <2>1, <2>2 DEF StSize
  <1>. QED
    BY <1>1, <1>3, <1>4, <1>6, <1>7, <1>9, <1>10 DEF Visible, Readable

\* A chain of k - 1 full clusters does not hold more than k - 1 clusters do.
LEMMA MoreClusters ==
    ASSUME NEW k \in Nat, NEW l \in Nat, NEW s \in Nat,
           k * ClusterSize < s, s <= l * ClusterSize
    PROVE  k < l
  <1>. SUFFICES ASSUME l <= k
                PROVE  FALSE
    OBVIOUS
  <1>. DEFINE d == k - l
  <1>1. d \in Nat /\ k = l + d
    OBVIOUS
  <1>2. ClusterSize \in Nat
    BY FatAssumption
  <1>3. d * ClusterSize \in Nat /\ k * ClusterSize \in Nat /\ l * ClusterSize \in Nat
    BY <1>1, <1>2
  <1>4. (l + d) * ClusterSize = l * ClusterSize + d * ClusterSize
    BY <1>1, <1>2
  <1>. HIDE DEF d
  <1>. QED
    BY <1>1, <1>3, <1>4

\* The first byte of a file that has one.
LEMMA FirstByte ==
    ASSUME image \in Images, Good, NEW n \in Names, NEW e \in Range(image.dir),
           IsEntryOf(e, n), e.size > 0
    PROVE  HasByteAt(n, 0, e.first, 0)
  <1>. DEFINE chain == image.chain[n]
  <1>1. /\ e \in Entry
        /\ chain \in Seq(DOMAIN image.fat)
        /\ Holds(chain, e, image)
    BY FileFacts
  <1>2. e.size \in Nat /\ e.size > 0
    BY FileFacts
  <1>3. Len(chain) \in Nat
    BY <1>1
  <1>4. 0 * ClusterSize = 0 /\ ClusterSize \in Nat /\ ClusterSize > 0
    BY FatAssumption
  <1>5. 0 < Len(chain)
    BY <1>1, <1>2, <1>3, <1>4, MoreClusters DEF Holds
  <1>6. 1 \in 1..Len(chain) /\ e.first = chain[1]
    BY <1>1, <1>2, <1>3, <1>5 DEF Holds
  <1>7. 0 \in 0..(ClusterSize - 1) /\ 0 = (1 - 1) * ClusterSize + 0
    BY <1>4
  <1>. QED
    BY <1>6, <1>7 DEF HasByteAt

\* The m bytes after byte number p that are still in its cluster, and what
\* comes after them.
LEMMA NextBytes ==
    ASSUME image \in Images, Good, NEW n \in Names, NEW e \in Range(image.dir),
           IsEntryOf(e, n), NEW p \in Nat, NEW c, NEW off \in Nat, NEW m \in Nat,
           HasByteAt(n, p, c, off), off + m <= ClusterSize
    PROVE  /\ c # Root /\ c \in DOMAIN image.fat
           /\ \A j \in 0..(m - 1) : HasByteAt(n, p + j, c, off + j)
           /\ off + m < ClusterSize => HasByteAt(n, p + m, c, off + m)
           /\ off + m = ClusterSize /\ p + m < e.size =>
                 /\ image.fat[c] # EndOfChain
                 /\ HasByteAt(n, p + m, image.fat[c], 0)
  <1>. DEFINE chain == image.chain[n]
  <1>1. /\ e \in Entry
        /\ chain \in Seq(DOMAIN image.fat)
        /\ Holds(chain, e, image)
    BY FileFacts
  <1>2. PICK k \in 1..Len(chain) :
           /\ c = chain[k]
           /\ off \in 0..(ClusterSize - 1)
           /\ p = (k - 1) * ClusterSize + off
    BY DEF HasByteAt
  <1>3. Len(chain) \in Nat /\ ClusterSize \in Nat /\ image.last \in Nat
    BY <1>1, FatAssumption DEF Readable
  <1>4. c \in 2..image.last
    BY <1>1, <1>2 DEF Holds
  <1>5. (k - 1) * ClusterSize \in Nat /\ k * ClusterSize \in Nat
    BY <1>2, <1>3
  <1>6. ASSUME NEW j \in Nat, off + j < ClusterSize
        PROVE  HasByteAt(n, p + j, c, off + j)
    <2>1. off + j \in 0..(ClusterSize - 1)
      BY <1>3, <1>6
    <2>2. p + j = (k - 1) * ClusterSize + (off + j)
      BY <1>2, <1>5
    <2>. QED
      BY <1>2, <2>1, <2>2 DEF HasByteAt
  <1>7. ASSUME off + m = ClusterSize, p + m < e.size
        PROVE  /\ image.fat[c] # EndOfChain
               /\ HasByteAt(n, p + m, image.fat[c], 0)
    <2>1. k * ClusterSize = (k - 1) * ClusterSize + ClusterSize
      BY <1>2, <1>3
    <2>2. p + m = k * ClusterSize
      BY <1>2, <1>3, <1>5, <1>7, <2>1
    <2>3. k * ClusterSize < e.size /\ e.size \in Nat
      BY <1>5, <1>7, <2>2, FileFacts
    <2>4. e.size <= Len(chain) * ClusterSize
      BY <1>1 DEF Holds
    <2>5. k < Len(chain)
      BY <1>2, <1>3, <2>3, <2>4, MoreClusters
    <2>6. k + 1 \in 1..Len(chain) /\ k # Len(chain)
      BY <1>2, <1>3, <2>5
    <2>7. image.fat[c] = chain[k + 1]
      BY <1>1, <1>2, <2>6 DEF Holds
    <2>8. chain[k + 1] \in DOMAIN image.fat
      BY <1>1, <2>6
    <2>9. image.fat[c] # EndOfChain
      BY <2>7, <2>8, ImageFacts
    <2>10. p + m = ((k + 1) - 1) * ClusterSize + 0
      BY <1>2, <1>5, <2>2
    <2>11. 0 \in 0..(ClusterSize - 1)
      BY FatAssumption
    <2>. QED
      BY <2>6, <2>7, <2>9, <2>10, <2>11 DEF HasByteAt
  <1>8. c # Root /\ c \in DOMAIN image.fat
    BY <1>1, <1>2, <1>3, <1>4 DEF Root
  <1>9. \A j \in 0..(m - 1) : HasByteAt(n, p + j, c, off + j)
    BY <1>3, <1>6
  <1>. QED
    BY <1>6, <1>7, <1>8, <1>9

\* What read_img returns within a cluster are the file's next bytes.
LEMMA OwnChunk ==
    ASSUME image \in Images, Good, NEW n \in Names, NEW e \in Range(image.dir),
           IsEntryOf(e, n), NEW p \in Nat, NEW c \in Nat, NEW off \in Nat,
           NEW m \in Nat, HasByteAt(n, p, c, off), off + m <= ClusterSize
    PROVE  OwnBytes(n, p, Bytes(At(c, off), m))
  <1>1. c # Root /\ \A j \in 0..(m - 1) : HasByteAt(n, p + j, c, off + j)
    BY NextBytes
  <1>2. ClusterSize \in Nat /\ Extent(c) = ClusterSize
    BY <1>1, FatAssumption DEF Extent
  <1>3. off < ClusterSize
    BY <1>2 DEF HasByteAt
  <1>4. At(c, off) = <<c, off>>
    BY <1>2, <1>3 DEF At
  <1>5. At(c, off) \in Byte
    BY <1>4 DEF Byte
  <1>6. ASSUME NEW j \in 1..m
        PROVE  /\ Bytes(At(c, off), m)[j] = <<c, off + (j - 1)>>
               /\ HasByteAt(n, p + (j - 1), c, off + (j - 1))
    <2>1. Bytes(At(c, off), m)[j] = Ahead(At(c, off), j - 1)
      BY <1>5, BytesType
    <2>2. off + (j - 1) < ClusterSize /\ j - 1 \in 0..(m - 1)
      BY <1>2
    <2>3. At(c, off + (j - 1)) = <<c, off + (j - 1)>>
      BY <1>2, <2>2 DEF At
    <2>. QED
      BY <1>1, <1>4, <2>1, <2>2, <2>3 DEF Ahead
  <1>7. Len(Bytes(At(c, off), m)) = m
    BY <1>5, BytesType
  <1>8. \A j \in 1..m : p + j - 1 = p + (j - 1)
    OBVIOUS
  <1>. QED
    BY <1>6, <1>7, <1>8 DEF OwnBytes

LEMMA OwnConcat ==
    ASSUME NEW n, NEW p \in Nat, NEW a \in Seq(Byte), NEW b \in Seq(Byte),
           OwnBytes(n, p, a), OwnBytes(n, p + Len(a), b)
    PROVE  OwnBytes(n, p, a \o b)
  <1>. SUFFICES ASSUME NEW j \in 1..Len(a \o b)
                PROVE  HasByteAt(n, p + j - 1, (a \o b)[j][1], (a \o b)[j][2])
    BY DEF OwnBytes
  <1>1. Len(a \o b) = Len(a) + Len(b) /\ Len(a) \in Nat /\ Len(b) \in Nat
    OBVIOUS
  <1>2. CASE j \in 1..Len(a)
    BY <1>2 DEF OwnBytes
  <1>3. CASE j \notin 1..Len(a)
    <2>1. j - Len(a) \in 1..Len(b)
      BY <1>1, <1>3
    <2>2. (a \o b)[j] = b[j - Len(a)]
      BY <1>1, <1>3
    <2>3. p + Len(a) + (j - Len(a)) - 1 = p + j - 1
      BY <1>1
    <2>. QED
      BY <2>1, <2>2, <2>3 DEF OwnBytes
  <1>. QED
    BY <1>2, <1>3

--------------------------------------------------------------------------------
(* The steps *)

\* What OwnFile says of the image stays true.
LEMMA SameImage ==
    ASSUME UNCHANGED image
    PROVE  /\ Good' <=> Good
           /\ \A n : Visible(n)' <=> Visible(n)
           /\ \A n : EntryOf(n)' = EntryOf(n)
  BY DEF Good, Visible, EntryOf

LEMMA SameFile ==
    ASSUME UNCHANGED image, NEW f, NEW n, NEW p, NEW b
    PROVE  /\ StandsAt(f, n, p) => StandsAt(f, n, p)'
           /\ OwnBytes(n, p, b) => OwnBytes(n, p, b)'
  BY SameImage DEF StandsAt, OwnBytes, HasByteAt

\* The steps that neither copy nor tell the kernel anything about a file.
LEMMA KeepsFile ==
    ASSUME DataInv, Good, NEW t \in Threads, NEW q \in Opens,
           UNCHANGED <<image, open_file, kfile>>,
           worker'[t].buf = worker[t].buf, ~Opened(worker'[t])
    PROVE  OwnFile(t, q)'
  <1>1. OwnFile(t, q)
    BY DEF DataInv
  <1>2. ReadSoFar(t, q)' = ReadSoFar(t, q)
    BY DEF ReadSoFar
  <1>. QED
    BY <1>1, <1>2, SameImage, SameFile DEF OwnFile, Opened

\* Of a file that is not alone, OwnFile says little.
LEMMA NotAloneKeeps ==
    ASSUME DataInv, Good, NEW t \in Threads, NEW q \in Opens,
           ~kfile'[q].alone,
           kfile'[q].state = kfile[q].state, kfile'[q].data = kfile[q].data,
           kfile'[q].eof = kfile[q].eof,
           Opened(worker'[t]) => worker'[t].o # q
    PROVE  OwnFile(t, q)'
  <1>1. OwnFile(t, q)
    BY DEF DataInv
  <1>2. kfile'[q].state \in {"closed", "opening"} =>
           kfile'[q].data = <<>> /\ ~kfile'[q].eof
    BY <1>1 DEF OwnFile
  <1>3. ~(Opened(worker[t]) /\ worker[t].o = q)'
    BY DEF Opened
  <1>. QED
    BY <1>2, <1>3 DEF OwnFile

LEMMA DisturbedOther ==
    ASSUME kfile \in [Opens -> KernelFile], NEW o \in Opens, NEW q \in Opens,
           q # o
    PROVE  /\ ~Disturbed(o)[q].alone
           /\ Disturbed(o)[q].state = kfile[q].state
           /\ Disturbed(o)[q].data = kfile[q].data
           /\ Disturbed(o)[q].name = kfile[q].name
           /\ Disturbed(o)[q].eof = kfile[q].eof
  <1>1. PICK b : Disturbed(o)[q] = [kfile[q] EXCEPT !.alone = b]
    BY DEF Disturbed
  <1>2. kfile[q] \in KernelFile
    OBVIOUS
  <1>. QED
    BY <1>1, <1>2, DisturbedFacts DEF KernelFile

LEMMA OpenKeepsData ==
    ASSUME DataInv, Good, NEW t \in Threads, NEW q \in Opens, NEW o \in Opens,
           NEW n \in Paths, Open(t, o, n)
    PROVE  OwnFile(t, q)'
  <1>1. /\ kfile \in [Opens -> KernelFile] /\ worker \in [Threads -> Locals]
        /\ kfile[o].state = "closed" /\ OwnFile(t, q)
    BY DEF DataInv, SerialInv, TypeOK, Open
  <1>2. ~Opened(worker'[t])
    <2>1. worker'[t].pc = "seek" \/ worker'[t].res = "ENOMEM"
      BY <1>1 DEF Open, Start, Goto, Idle
    <2>. QED
      BY <2>1 DEF Opened
  <1>3. CASE q = o
    <2>1. kfile'[q] = [kfile[q] EXCEPT !.state = "opening", !.alone = TRUE,
                                       !.in_order = TRUE]
      <3>1. Disturbed(o) \in [Opens -> KernelFile] /\ Disturbed(o)[o] = kfile[o]
        BY <1>1, DisturbedFacts
      <3>. QED
        BY <1>3, <3>1 DEF Open
    <2>2. /\ kfile'[q].state = "opening" /\ kfile'[q].data = kfile[q].data
          /\ kfile'[q].eof = kfile[q].eof
      BY <1>1, <2>1 DEF KernelFile
    <2>. QED
      BY <1>1, <1>2, <1>3, <2>2 DEF OwnFile, Opened
  <1>4. CASE q # o
    <2>1. kfile'[q] = Disturbed(o)[q]
      BY <1>1, <1>4, DisturbedFacts DEF Open
    <2>2. /\ ~kfile'[q].alone /\ kfile'[q].state = kfile[q].state
          /\ kfile'[q].data = kfile[q].data /\ kfile'[q].eof = kfile[q].eof
      BY <1>1, <1>4, <2>1, DisturbedOther
    <2>. QED
      BY <1>2, <2>2, NotAloneKeeps
  <1>. QED
    BY <1>3, <1>4

LEMMA FoundOpenData ==
    ASSUME DataInv, Good, NEW t \in Threads, NEW q \in Opens, FoundOpen(t)
    PROVE  OwnFile(t, q)'
  <1>. DEFINE v == worker[t]
              e == EntryAt(img_pos)
              p == Parsed(v, e)
              f == CursorAt(open_file[v.fd], p)
  <1>1. /\ v \in Locals /\ v.fd \in Fds /\ open_file[v.fd] \in Cursor
        /\ img_pos \in Byte /\ image \in Images
        /\ worker \in [Threads -> Locals] /\ open_file \in [Fds -> Cursor]
    BY DEF DataInv, SerialInv, TypeOK, Locals
  <1>p. /\ p \in Locals
        /\ p.op = v.op /\ p.o = v.o /\ p.fd = v.fd /\ p.name = v.name
        /\ p.res = v.res
        /\ Listed(e) => p.st = Stat(e) /\ p.cluster = e.first
    BY <1>1, ParsedFacts
  <1>2. /\ v.op = "open" /\ Listed(e) /\ e.name = v.name
        /\ open_file' = [open_file EXCEPT ![v.fd] = f]
        /\ worker' = [worker EXCEPT ![t] = [p EXCEPT !.pc = "reply"]]
        /\ UNCHANGED <<image, kfile>>
    <2>1. /\ p.op = "open" /\ Listed(e) /\ e.name = p.name
          /\ open_file' = [open_file EXCEPT ![p.fd] = CursorAt(open_file[p.fd], p)]
          /\ worker' = [worker EXCEPT ![t] = [p EXCEPT !.pc = "reply"]]
          /\ UNCHANGED <<image, kfile>>
      BY DEF FoundOpen, Matches, ReadEntry, Return, Goto
    <2>. QED
      BY <1>p, <2>1
  <1>3. e \in Range(image.dir) /\ e \in Entry
    BY <1>1, <1>2, FoundEntry
  <1>. HIDE DEF p
  <1>8. /\ worker'[t].fd = v.fd /\ worker'[t].name = v.name /\ worker'[t].o = v.o
        /\ worker'[t].op = "open"
        /\ open_file'[v.fd] = f
    BY <1>1, <1>2, <1>p DEF Locals
  <1>9. CASE v.o # q
    <2>1. ~kfile[q].alone
      BY <1>2, <1>9 DEF DataInv, SerialInv, InStep
    <2>. QED
      BY <1>2, <1>8, <1>9, <2>1, NotAloneKeeps
  <1>10. CASE v.o = q
    <2>1. kfile[q].state = "opening" /\ OwnFile(t, q)
      BY <1>2, <1>10 DEF DataInv, SerialInv, InStep
    <2>2. v.name \in Names /\ IsEntryOf(e, v.name)
      <3>1. e.name # Free /\ e.name \in Names
        BY <1>2, <1>3 DEF Listed, Entry
      <3>2. "volume_id" \notin e.attr
        BY <1>2 DEF Listed, Hiding
      <3>. QED
        BY <1>2, <3>1, <3>2 DEF IsEntryOf, IsFile
    <2>3. e = EntryOf(v.name) /\ StSize(e) = e.size /\ e.size \in Nat
      BY <1>1, <1>3, <2>2, FileFacts
    <2>4. /\ f.current_cluster = e.first
          /\ f.current_offset_in_cluster = 0
          /\ f.n_bytes_remaining = e.size
      <3>1. p.cluster = e.first /\ p.st.size = StSize(e)
        BY <1>2, <1>p DEF Stat
      <3>. QED
        BY <1>1, <2>3, <3>1 DEF CursorAt, Cursor
    <2>. HIDE DEF f
    <2>5. StandsAt(f, v.name, 0)
      <3>1. e.size > 0 => HasByteAt(v.name, 0, e.first, 0)
        BY <1>1, <1>3, <2>2, FirstByte
      <3>. QED
        BY <2>3, <2>4, <3>1 DEF StandsAt
    <2>6. Visible(v.name)
      BY <1>3, <2>2 DEF Visible
    <2>7. PICK n, g : n \in Names /\ n = v.name /\ g = f
      BY <2>2
    <2>8. Visible(n)' /\ StandsAt(g, n, 0)'
      BY <1>2, <2>5, <2>6, <2>7, SameImage, SameFile
    <2>9. worker'[t].name = n /\ open_file'[worker'[t].fd] = g
      BY <1>8, <2>7
    <2>. QED
      BY <1>2, <2>1, <2>7, <2>8, <2>9 DEF OwnFile
  <1>. QED
    BY <1>9, <1>10

LEMMA ReplyOpenData ==
    ASSUME OneWorker, DataInv, Good, NEW t \in Threads, NEW q \in Opens,
           ReplyOpen(t)
    PROVE  OwnFile(t, q)'
  <1>. DEFINE v == worker[t]
              ok == [kfile[v.o] EXCEPT !.state = "open", !.name = v.name,
                                       !.fh = v.fd]
              k == IF v.res = "ok" THEN ok ELSE Closed
  <1>0. kfile \in [Opens -> KernelFile] /\ worker \in [Threads -> Locals]
    BY DEF DataInv, SerialInv, TypeOK
  <1>1. /\ v.pc = "reply" /\ v.op = "open"
        /\ worker' = [worker EXCEPT ![t] = Idle]
        /\ UNCHANGED <<image, open_file>>
    BY DEF ReplyOpen, In, Goto
  <1>2. v.o \in Opens
    BY <1>1 DEF DataInv, SerialInv, InCallback
  <1>3. kfile' = [kfile EXCEPT ![v.o] = k]
    BY <1>0, <1>2 DEF ReplyOpen
  <1>4. worker'[t] = Idle /\ Idle.buf = <<>> /\ ~Opened(Idle)
    BY <1>0, <1>1 DEF Idle, Opened
  <1>5. CASE v.o # q
    <2>1. ~kfile[q].alone
      BY <1>1, <1>5 DEF DataInv, SerialInv, InStep
    <2>2. kfile'[q] = kfile[q]
      BY <1>0, <1>3, <1>5
    <2>. QED
      BY <1>4, <2>1, <2>2, NotAloneKeeps
  <1>6. CASE v.o = q
    <2>1. kfile'[q] = k
      BY <1>0, <1>3, <1>6
    <2>2. kfile[q].state = "opening" /\ OwnFile(t, q) /\ kfile[q] \in KernelFile
      BY <1>0, <1>1, <1>6 DEF DataInv, SerialInv, InStep
    <2>3. kfile[q].data = <<>>
      BY <2>2 DEF OwnFile
    <2>4. /\ k.data = <<>>
          /\ v.res = "ok" => k.state = "open" /\ k.name = v.name /\ k.fh = v.fd
          /\ v.res # "ok" => k.state = "closed" /\ ~k.eof
      BY <1>6, <2>2, <2>3 DEF Closed, KernelFile
    <2>. HIDE DEF k
    <2>5. CASE v.res # "ok"
      BY <1>4, <2>1, <2>4, <2>5 DEF OwnFile
    <2>6. CASE v.res = "ok"
      <3>1. /\ v.name \in Names
            /\ Visible(v.name)
            /\ StandsAt(open_file[v.fd], v.name, 0)
        BY <1>1, <1>6, <2>2, <2>6 DEF OwnFile, Opened
      <3>2. ReadSoFar(t, q)' = 0
        BY <1>4, <2>1, <2>4 DEF ReadSoFar
      <3>3. PICK n \in Names, f \in Cursor :
               /\ n = v.name /\ f = open_file[v.fd]
               /\ n = kfile'[q].name /\ f = open_file'[kfile'[q].fh]
        BY <1>0, <1>1, <2>1, <2>4, <2>6, <3>1
           DEF DataInv, SerialInv, TypeOK, Locals
      <3>4. Visible(n)' /\ StandsAt(f, n, 0)'
        BY <1>1, <3>1, <3>3, SameImage, SameFile
      <3>5. \A m, p : OwnBytes(m, p, <<>>)'
        BY DEF OwnBytes
      <3>. QED
        BY <1>4, <2>1, <2>4, <2>6, <3>2, <3>3, <3>4, <3>5 DEF OwnFile, Opened
    <2>. QED
      BY <2>5, <2>6
  <1>. QED
    BY <1>5, <1>6

LEMMA ReadKeepsData ==
    ASSUME DataInv, Good, NEW t \in Threads, NEW q \in Opens, NEW o \in Opens,
           NEW offset, NEW want, Read(t, o, offset, want)
    PROVE  OwnFile(t, q)'
  <1>. DEFINE k == kfile[o]
              l == Asked(k, offset)
  <1>0. kfile \in [Opens -> KernelFile] /\ worker \in [Threads -> Locals]
    BY DEF DataInv, SerialInv, TypeOK
  <1>1. /\ k.state = "open" /\ worker[t].pc = "idle"
        /\ kfile' = [Disturbed(o) EXCEPT ![o] = Asked(Disturbed(o)[o], offset)]
        /\ UNCHANGED <<image, open_file>>
    BY DEF Read, In
  <1>2. worker'[t].op = "read" /\ worker'[t].buf = <<>>
    BY <1>0 DEF Read, Loop, Goto, Idle
  <1>3. worker[t].buf = <<>>
    BY <1>1 DEF DataInv, SerialInv, InCallback
  <1>4. CASE q # o
    <2>1. kfile'[q] = Disturbed(o)[q]
      BY <1>0, <1>1, <1>4, DisturbedFacts
    <2>2. /\ ~kfile'[q].alone /\ kfile'[q].state = kfile[q].state
          /\ kfile'[q].data = kfile[q].data /\ kfile'[q].eof = kfile[q].eof
      BY <1>0, <1>4, <2>1, DisturbedOther
    <2>. QED
      BY <1>2, <2>2, NotAloneKeeps DEF Opened
  <1>5. CASE q = o
    <2>1. kfile'[q] = l
      BY <1>0, <1>1, <1>5, DisturbedFacts
    <2>2. OwnFile(t, q) /\ k \in KernelFile
      BY <1>0 DEF DataInv
    <2>3. /\ l.state = "reading" /\ l.alone = k.alone /\ l.name = k.name
          /\ l.fh = k.fh /\ l.in_order = InOrder(k, offset)
          /\ l.in_order => k.in_order /\ l.data = k.data
      BY <2>2 DEF KernelFile, Asked, InOrder
    <2>. HIDE DEF l
    <2>4. CASE ~(l.alone /\ l.in_order)
      BY <1>2, <2>1, <2>3, <2>4 DEF OwnFile, Opened
    <2>5. CASE l.alone /\ l.in_order
      <3>1. ReadSoFar(t, q)' = ReadSoFar(t, q)
        BY <1>2, <1>3, <1>5, <2>1, <2>3, <2>5 DEF ReadSoFar
      <3>. QED
        BY <1>1, <1>2, <1>3, <1>5, <2>1, <2>2, <2>3, <2>5, <3>1, SameImage,
           SameFile DEF OwnFile, Opened
    <2>. QED
      BY <2>4, <2>5
  <1>. QED
    BY <1>4, <1>5

LEMMA ReplyReadKeepsData ==
    ASSUME OneWorker, DataInv, Good, NEW t \in Threads, NEW q \in Opens,
           ReplyRead(t)
    PROVE  OwnFile(t, q)'
  <1>. DEFINE v == worker[t]
              k == kfile[v.o]
              l == Answer(k, v)
  <1>0. kfile \in [Opens -> KernelFile] /\ worker \in [Threads -> Locals]
    BY DEF DataInv, SerialInv, TypeOK
  <1>1. /\ v.pc = "reply" /\ v.op = "read"
        /\ worker' = [worker EXCEPT ![t] = Idle]
        /\ kfile' = [kfile EXCEPT ![v.o] = l]
        /\ UNCHANGED <<image, open_file>>
    BY DEF ReplyRead, In, Goto
  <1>2. worker'[t] = Idle /\ Idle.buf = <<>> /\ Idle.op = "none"
    BY <1>0, <1>1 DEF Idle
  <1>3. CASE v.o # q
    <2>1. ~kfile[q].alone
      BY <1>1, <1>3 DEF DataInv, SerialInv, InStep
    <2>2. kfile'[q] = kfile[q]
      BY <1>0, <1>1, <1>3
    <2>. QED
      BY <1>2, <2>1, <2>2, NotAloneKeeps DEF Opened
  <1>4. CASE v.o = q
    <2>1. kfile'[q] = l /\ k \in KernelFile /\ k.state = "reading"
      BY <1>0, <1>1, <1>4 DEF DataInv, SerialInv, InStep
    <2>2. PICK n, fh, d, b :
             n = k.name /\ fh = k.fh /\ d = k.data /\ b = v.buf
      OBVIOUS
    <2>3. d \in Seq(Byte) /\ b \in Seq(Byte) /\ fh \in Fds
      BY <1>0, <2>1, <2>2 DEF KernelFile, Locals
    <2>4. /\ l.state = "open" /\ l.alone = k.alone /\ l.in_order = Kept(k)
          /\ l.name = n /\ l.fh = fh
          /\ Kept(k) => l.data = d \o b
      BY <2>1, <2>2 DEF KernelFile, Answer
    <2>. HIDE DEF l
    <2>5. CASE ~Kept(k)
      BY <1>2, <2>1, <2>4, <2>5 DEF OwnFile, Opened
    <2>6. CASE Kept(k)
      <3>1. /\ n \in Names /\ Visible(n)
            /\ StandsAt(open_file[fh], n, ReadSoFar(t, q))
            /\ OwnBytes(n, 0, d) /\ OwnBytes(n, Len(d), b)
        BY <1>4, <2>1, <2>2, <2>6 DEF DataInv, OwnFile, Kept
      <3>2. ReadSoFar(t, q) = Len(d) + Len(b)
        BY <1>4, <2>2 DEF ReadSoFar
      <3>3. ReadSoFar(t, q)' = Len(d) + Len(b)
        BY <1>2, <2>1, <2>3, <2>4, <2>6, SMTT(60) DEF ReadSoFar
      <3>4. OwnBytes(n, 0, d \o b)
        BY <2>3, <3>1, OwnConcat
      <3>5. PICK f, c, r : /\ f \in Cursor /\ f = open_file[fh]
                           /\ c = d \o b /\ r = Len(d) + Len(b)
        <4>1. open_file[fh] \in Cursor
          BY <2>3 DEF DataInv, SerialInv, TypeOK
        <4>. QED
          BY <4>1
      <3>6. StandsAt(f, n, r)' /\ OwnBytes(n, 0, c)' /\ Visible(n)'
        BY <1>1, <3>1, <3>2, <3>4, <3>5, SameImage, SameFile
      <3>7. \A p : OwnBytes(n, p, <<>>)'
        BY DEF OwnBytes
      <3>. QED
        BY <1>1, <1>2, <2>1, <2>4, <2>6, <3>1, <3>3, <3>5, <3>6, <3>7
           DEF OwnFile, Opened
    <2>. QED
      BY <2>5, <2>6
  <1>. QED
    BY <1>3, <1>4

LEMMA ReleaseKeepsData ==
    ASSUME OneWorker, DataInv, Good, NEW t \in Threads, NEW q \in Opens,
           NEW o \in Opens, Release(t, o)
    PROVE  OwnFile(t, q)'
  <1>1. /\ kfile' = [kfile EXCEPT ![o] = Closed]
        /\ worker' = worker /\ worker[t].pc = "idle"
        /\ open_file' = [open_file EXCEPT ![kfile[o].fh].is_open = FALSE]
        /\ image' = image
    BY DEF Release, In
  <1>2. kfile \in [Opens -> KernelFile] /\ open_file \in [Fds -> Cursor]
    BY DEF DataInv, SerialInv, TypeOK
  <1>3. CASE o = q
    <2>1. /\ kfile'[q].state = "closed" /\ kfile'[q].data = <<>>
          /\ ~kfile'[q].eof
      BY <1>1, <1>2, <1>3 DEF Closed
    <2>. QED
      BY <1>1, <2>1 DEF OwnFile, Opened
  <1>4. CASE o # q
    <2>1. kfile'[q] = kfile[q]
      BY <1>1, <1>2, <1>4
    <2>2. open_file' = open_file
      <3>1. PICK fd \in Fds : fd = kfile[o].fh
        BY <1>2 DEF KernelFile
      <3>2. ~open_file[fd].is_open /\ open_file[fd] \in Cursor
        BY <1>2 DEF DataInv, SerialInv, NeverMarked
      <3>3. [open_file[fd] EXCEPT !.is_open = FALSE] = open_file[fd]
        BY <3>2 DEF Cursor
      <3>. QED
        BY <1>1, <1>2, <3>1, <3>3
    <2>3. OwnFile(t, q)
      BY DEF DataInv
    <2>4. ReadSoFar(t, q)' = ReadSoFar(t, q)
      BY <1>1, <2>1 DEF ReadSoFar
    <2>. QED
      BY <1>1, <2>1, <2>2, <2>3, <2>4, SameImage, SameFile DEF OwnFile, Opened
  <1>. QED
    BY <1>3, <1>4

--------------------------------------------------------------------------------
(* Copying *)

\* Where the cursor stands after the three ways a round of fat_read's loop ends.
LEMMA CursorAfterCopy ==
    ASSUME OneWorker, DataInv, Good, NEW t \in Threads, NEW f \in Cursor,
           f = open_file[worker[t].fd], NEW n \in Names, NEW p \in Nat,
           Visible(n), StandsAt(f, n, p), worker[t].n \in Nat,
           0 < worker[t].n, worker[t].n <= f.n_bytes_remaining,
           f.current_offset_in_cluster + worker[t].n <= ClusterSize,
           \/ CopyInCluster(t)
           \/ CopyToNextCluster(t)
           \/ CopyToEndOfChain(t)
    PROVE  \E g \in Cursor :
              /\ open_file' = [open_file EXCEPT ![worker[t].fd] = g]
              /\ StandsAt(g, n, p + worker[t].n)
  <1>. DEFINE v == worker[t]
              m == v.n
              c == f.current_cluster
              off == f.current_offset_in_cluster
              h == Moved(f, m)
              e == EntryOf(n)
  <1>1. /\ h.current_cluster = c
        /\ h.current_offset_in_cluster = off + m
        /\ h.n_bytes_remaining = f.n_bytes_remaining - m
    BY MovedFacts
  <1>2. image \in Images /\ e \in Range(image.dir) /\ IsEntryOf(e, n)
    BY DEF DataInv, SerialInv, TypeOK, Visible, EntryOf
  <1>3. e.size \in Nat
    BY <1>2, FileFacts
  <1>4. /\ off \in Nat /\ c \in Nat /\ ClusterSize \in Nat
        /\ f.n_bytes_remaining \in Nat
    BY FatAssumption DEF Cursor
  <1>5. /\ f.n_bytes_remaining = e.size - p
        /\ HasByteAt(n, p, c, off)
    BY <1>4 DEF StandsAt
  <1>6. /\ c \in DOMAIN image.fat
        /\ off + m < ClusterSize => HasByteAt(n, p + m, c, off + m)
        /\ off + m = ClusterSize /\ p + m < e.size =>
              /\ image.fat[c] # EndOfChain
              /\ HasByteAt(n, p + m, image.fat[c], 0)
    BY <1>2, <1>4, <1>5, NextBytes
  <1>7. /\ h.n_bytes_remaining = e.size - (p + m)
        /\ h.n_bytes_remaining > 0 => p + m < e.size
    BY <1>1, <1>3, <1>4, <1>5
  <1>8. \A g \in Cursor : g.n_bytes_remaining = h.n_bytes_remaining =>
           \/ StandsAt(g, n, p + m)
           \/ /\ p + m < e.size
              /\ ~HasByteAt(n, p + m, g.current_cluster,
                            g.current_offset_in_cluster)
    BY <1>7 DEF StandsAt
  <1>. HIDE DEF h
  <1>9. CASE CopyInCluster(t)
    <2>1. /\ off + m # ClusterSize
          /\ open_file' = [open_file EXCEPT ![v.fd] = h]
      BY <1>1, <1>9 DEF CopyInCluster, AtEndOfCluster, h
    <2>2. h \in Cursor
      BY <2>1, MovedType DEF h
    <2>3. off + m < ClusterSize
      BY <1>4, <2>1
    <2>4. StandsAt(h, n, p + m)
      BY <1>1, <1>6, <1>8, <2>2, <2>3
    <2>. QED
      BY <2>1, <2>2, <2>4
  <1>10. CASE CopyToNextCluster(t)
    <2>. DEFINE g == NextCluster(h)
    <2>1. /\ off + m = ClusterSize
          /\ image.fat[c] # EndOfChain
          /\ open_file' = [open_file EXCEPT ![v.fd] = g]
      BY <1>1, <1>10 DEF CopyToNextCluster, AtEndOfCluster, h
    <2>2. g = [h EXCEPT !.current_cluster = image.fat[h.current_cluster],
                        !.current_offset_in_cluster = 0]
      BY DEF NextCluster
    <2>3. image.fat[h.current_cluster] \in Nat
      BY <1>1, <1>2, <1>6, <2>1, ImageFacts
    <2>4. g \in Cursor
      BY <2>3, MovedType DEF NextCluster, h
    <2>5. /\ g.current_cluster = image.fat[c]
          /\ g.current_offset_in_cluster = 0
          /\ g.n_bytes_remaining = h.n_bytes_remaining
      BY <1>1, <2>2 DEF Moved, Cursor, h
    <2>6. StandsAt(g, n, p + m)
      BY <1>6, <1>8, <2>1, <2>4, <2>5
    <2>. QED
      BY <2>1, <2>4, <2>6
  <1>11. CASE CopyToEndOfChain(t)
    <2>. DEFINE g == [h EXCEPT !.current_offset_in_cluster = 0]
    <2>1. /\ off + m = ClusterSize
          /\ image.fat[c] = EndOfChain
          /\ open_file' = [open_file EXCEPT ![v.fd] = g]
      BY <1>1, <1>11 DEF CopyToEndOfChain, AtEndOfCluster, h
    <2>2. g \in Cursor
      BY MovedType DEF h
    <2>3. g.n_bytes_remaining = h.n_bytes_remaining
      BY DEF Moved, Cursor, h
    <2>4. StandsAt(g, n, p + m)
      BY <1>6, <1>8, <2>1, <2>2, <2>3
    <2>. QED
      BY <2>1, <2>2, <2>4
  <1>. QED
    BY <1>9, <1>10, <1>11

LEMMA CopyKeepsData ==
    ASSUME OneWorker, DataInv, Good, NEW t \in Threads, NEW q \in Opens,
           \/ CopyInCluster(t)
           \/ CopyToNextCluster(t)
           \/ CopyToEndOfChain(t)
    PROVE  OwnFile(t, q)'
  <1>. DEFINE v == worker[t]
              k == kfile[q]
  <1>1. SerialInv
    BY DEF DataInv
  <1>2. PICK w \in Locals : \E g \in Cursor : CopiesTo(t, g, w)
    BY <1>1, CopySteps
  <1>3. /\ v.pc = "copy_read"
        /\ w.op = v.op /\ w.fd = v.fd
        /\ w.buf = v.buf \o Bytes(img_pos, v.n)
        /\ worker' = [worker EXCEPT ![t] = w]
        /\ UNCHANGED <<image, kfile>>
    BY <1>2 DEF CopiesTo
  <1>4. /\ v \in Locals /\ k \in KernelFile /\ image \in Images
        /\ v.fd \in Fds
    BY <1>1 DEF SerialInv, TypeOK, Locals
  <1>c. v.op = "read" /\ v.size > 0 /\ worker'[t] = w /\ kfile'[q] = k
    BY <1>1, <1>3 DEF SerialInv, InCallback, TypeOK
  <1>d. CASE v.o # q
    <2>1. ~k.alone
      BY <1>1, <1>c, <1>d DEF SerialInv, InStep
    <2>. QED
      BY <1>3, <1>c, <2>1, NotAloneKeeps DEF Opened
  <1>e. CASE v.o = q /\ ~(k.alone /\ k.in_order)
    <2>1. k.state = "reading"
      BY <1>1, <1>c, <1>e DEF SerialInv, InStep
    <2>. QED
      BY <1>3, <1>c, <1>e, <2>1 DEF OwnFile, Opened
  <1>. SUFFICES ASSUME v.o = q, k.alone, k.in_order
                PROVE  OwnFile(t, q)'
    BY <1>d, <1>e
  <1>5. v.op = "read" /\ v.size > 0 /\ k.state = "reading" /\ v.fd = k.fh
    BY <1>1, <1>c DEF SerialInv, InStep
  <1>6. PICK f \in Cursor : f = open_file[v.fd]
    BY <1>1, <1>4 DEF SerialInv, TypeOK
  <1>7. /\ v.size <= f.n_bytes_remaining
        /\ v.n = Chunk(v, f)
        /\ img_pos = At(f.current_cluster, f.current_offset_in_cluster)
    BY <1>1, <1>3, <1>6 DEF SerialInv, CursorsLive
  <1>8. PICK m \in Nat, a \in Seq(Byte), d \in Seq(Byte) :
           m = v.n /\ a = v.buf /\ d = k.data
    BY <1>4 DEF Locals, KernelFile
  <1>9. /\ m \in 1..v.size
        /\ f.current_offset_in_cluster + m <= ClusterSize
    BY <1>4, <1>5, <1>7, <1>8, ChunkFacts
  <1>10. /\ f.current_cluster \in Nat
         /\ f.current_offset_in_cluster \in Nat
         /\ f.n_bytes_remaining \in Nat
         /\ v.size \in Nat
    BY <1>4, FatAssumption, SMTT(60) DEF Cursor, Locals
  <1>11. 0 < m /\ m <= f.n_bytes_remaining
    BY <1>7, <1>9, <1>10
  <1>12. PICK p \in Nat : p = Len(d) + Len(a)
    OBVIOUS
  <1>13. ReadSoFar(t, q) = p
    BY <1>8, <1>12 DEF ReadSoFar
  <1>14. PICK n \in Names :
            /\ n = k.name
            /\ Visible(n)
            /\ StandsAt(f, n, p)
            /\ OwnBytes(n, 0, d)
            /\ OwnBytes(n, Len(d), a)
    BY <1>5, <1>6, <1>8, <1>13 DEF DataInv, OwnFile
  <1>15. PICK g \in Cursor :
            /\ open_file' = [open_file EXCEPT ![v.fd] = g]
            /\ StandsAt(g, n, p + m)
    BY <1>6, <1>8, <1>9, <1>11, <1>14, CursorAfterCopy
  <1>16. HasByteAt(n, p, f.current_cluster, f.current_offset_in_cluster)
    BY <1>10, <1>11, <1>14 DEF StandsAt
  <1>17. PICK x \in Seq(Byte) :
            /\ x = Bytes(img_pos, m)
            /\ Len(x) = m
    BY <1>1, <1>4, BytesType DEF SerialInv, TypeOK
  <1>18. OwnBytes(n, p, x)
    <2>1. EntryOf(n) \in Range(image.dir) /\ IsEntryOf(EntryOf(n), n)
      BY <1>14 DEF Visible, EntryOf
    <2>. QED
      BY <1>4, <1>7, <1>9, <1>10, <1>16, <1>17, <2>1, OwnChunk
  <1>19. PICK b \in Seq(Byte) : b = w.buf
    BY DEF Locals
  <1>20. b = a \o x
    BY <1>3, <1>8, <1>17, <1>19
  <1>21. OwnBytes(n, Len(d), b) /\ Len(b) = Len(a) + m
    <2>1. Len(d) \in Nat /\ OwnBytes(n, Len(d), a) /\ OwnBytes(n, Len(d) + Len(a), x)
      BY <1>12, <1>14, <1>18
    <2>2. OwnBytes(n, Len(d), a \o x)
      BY <2>1, OwnConcat
    <2>3. Len(a \o x) = Len(a) + Len(x)
      OBVIOUS
    <2>. QED
      BY <1>17, <1>20, <2>2, <2>3
  <1>22. worker'[t] = w /\ kfile'[q] = k /\ open_file'[v.fd] = g
    BY <1>1, <1>3, <1>4, <1>15 DEF SerialInv, TypeOK
  <1>23. ReadSoFar(t, q)' = Len(d) + Len(b)
    BY <1>8, <1>19, <1>22 DEF ReadSoFar
  <1>24. Len(d) + Len(b) = p + m
    BY <1>12, <1>21
  <1>25. PICK l \in Nat, r \in Nat : l = Len(d) /\ r = p + m
    OBVIOUS
  <1>26. /\ Visible(n)'
         /\ StandsAt(g, n, r)'
         /\ OwnBytes(n, 0, d)'
         /\ OwnBytes(n, l, b)'
    BY <1>3, <1>14, <1>15, <1>21, <1>25, SameImage, SameFile
  <1>27. /\ kfile'[q].name = n /\ kfile'[q].state = "reading"
         /\ kfile'[q].fh = v.fd /\ kfile'[q].data = d
         /\ open_file'[kfile'[q].fh] = g
         /\ worker'[t].buf = b /\ worker'[t].op = "read"
    BY <1>3, <1>5, <1>8, <1>14, <1>19, <1>22
  <1>28. ReadSoFar(t, q)' = r
    BY <1>23, <1>24, <1>25
  <1>. QED
    BY <1>25, <1>26, <1>27, <1>28 DEF OwnFile, Opened

--------------------------------------------------------------------------------

LEMMA DataInit ==
    ASSUME Init
    PROVE  DataInv
  <1>1. /\ Idle.op = "none" /\ Closed.state = "closed" /\ Closed.data = <<>>
        /\ ~Closed.eof
    BY DEF Idle, Closed
  <1>2. \A t \in Threads, o \in Opens : OwnFile(t, o)
    BY <1>1 DEF Init, OwnFile, Opened
  <1>. QED
    BY <1>2, SerialInit DEF DataInv

LEMMA ImageStays ==
    ASSUME [Next]_vars
    PROVE  UNCHANGED image
  BY ZenonT(40)
     DEF Next, Request, Callback, vars, GetAttr, GetAttrTop, ReadDir, Open, Read,
         Release, SeekDirectory, ListEntry, SkipEntry, FoundAttr, FoundOpen,
         ScanEnds, SeekData, CopyInCluster, CopyToNextCluster, CopyToEndOfChain,
         Abort, ReplyInfo, ReplyOpen, ReplyRead, ReadEntry, ReadChunk

LEMMA DataStep ==
    ASSUME OneWorker, DataInv, [Next]_vars
    PROVE  DataInv'
  <1>1. SerialInv'
    BY SerialStep DEF DataInv
  <1>2. ASSUME Good, NEW t \in Threads, NEW q \in Opens
        PROVE  OwnFile(t, q)'
    <2>1. CASE UNCHANGED vars
      <3>1. OwnFile(t, q)
        BY <1>2 DEF DataInv
      <3>2. ReadSoFar(t, q)' = ReadSoFar(t, q)
        BY <2>1 DEF ReadSoFar, vars
      <3>. QED
        BY <2>1, <3>1, <3>2, SameImage, SameFile DEF OwnFile, Opened, vars
    <2>2. ASSUME Request(t)
          PROVE  OwnFile(t, q)'
      <3>1. ASSUME \/ \E n \in Paths : GetAttr(t, n)
                   \/ GetAttrTop(t)
                   \/ \E n \in Names \cup {Top} : ReadDir(t, n)
            PROVE  OwnFile(t, q)'
        <4>0. PICK w \in Locals : Asks(t, w)
          BY <3>1, AskSteps
        <4>1. /\ worker[t].pc = "idle"
              /\ UNCHANGED <<image, open_file, kfile>>
              /\ worker'[t].buf = <<>> /\ ~Opened(worker'[t])
          BY <4>0 DEF Asks, Opened, DataInv, SerialInv, TypeOK
        <4>2. worker[t].buf = <<>>
          BY <4>1 DEF DataInv, SerialInv, InCallback
        <4>. QED
          BY <1>2, <4>1, <4>2, KeepsFile
      <3>3. ASSUME NEW o \in Opens, NEW n \in Paths, Open(t, o, n)
            PROVE  OwnFile(t, q)'
        BY <1>2, <3>3, OpenKeepsData
      <3>4. ASSUME NEW o \in Opens, NEW offset \in 0..(Word - 1),
                   NEW want \in 1..MaxRead, Read(t, o, offset, want)
            PROVE  OwnFile(t, q)'
        BY <1>2, <3>4, ReadKeepsData
      <3>5. ASSUME NEW o \in Opens, Release(t, o)
            PROVE  OwnFile(t, q)'
        BY <1>2, <3>5, ReleaseKeepsData
      <3>. QED
        BY <2>2, <3>1, <3>3, <3>4, <3>5 DEF Request
    <2>3. ASSUME Callback(t)
          PROVE  OwnFile(t, q)'
      <3>1. SerialInv
        BY DEF DataInv
      <3>2. CASE \/ SeekDirectory(t)
                 \/ ListEntry(t)
                 \/ SkipEntry(t)
                 \/ FoundAttr(t)
                 \/ ScanEnds(t)
        <4>1. PICK w \in Locals : WalksOn(t, w)
          BY <3>1, <3>2, ScanSteps
        <4>2. worker'[t] = w
          BY <3>1, <4>1 DEF WalksOn, SerialInv, TypeOK
        <4>. QED
          BY <1>2, <4>1, <4>2, KeepsFile DEF WalksOn
      <3>3. CASE \/ SeekData(t)
                 \/ Abort(t)
        <4>1. /\ UNCHANGED <<image, open_file, kfile>>
              /\ worker'[t].buf = worker[t].buf
              /\ worker'[t].pc # "reply"
          <5>1. worker[t] \in Locals
            BY <3>1 DEF SerialInv, TypeOK
          <5>2. CASE SeekData(t)
            BY <3>1, <5>1, <5>2 DEF SeekData, Goto, SerialInv, TypeOK, Locals
          <5>3. CASE Abort(t)
            BY <5>1, <5>3 DEF Abort, Locals
          <5>. QED
            BY <3>3, <5>2, <5>3
        <4>. QED
          BY <1>2, <4>1, KeepsFile DEF Opened
      <3>4. CASE ReplyInfo(t)
        <4>1. /\ UNCHANGED <<image, open_file, kfile>>
              /\ worker'[t] = Idle
              /\ worker[t].buf = <<>>
          BY <3>1, <3>4 DEF ReplyInfo, Goto, SerialInv, TypeOK, InCallback
        <4>2. Idle.buf = <<>> /\ ~Opened(Idle)
          BY DEF Idle, Opened
        <4>. QED
          BY <1>2, <4>1, <4>2, KeepsFile
      <3>. QED
        BY <1>2, <2>3, <3>2, <3>3, <3>4, FoundOpenData, CopyKeepsData,
           ReplyOpenData, ReplyReadKeepsData DEF Callback
    <2>4. \A u \in Threads : u = t
      BY DEF OneWorker
    <2>. QED
      BY <2>1, <2>2, <2>3, <2>4 DEF Next
  <1>3. UNCHANGED image
    BY ImageStays
  <1>4. Good' => Good
    BY <1>3, SameImage
  <1>. QED
    BY <1>1, <1>2, <1>4 DEF DataInv

LEMMA Data == OneWorker => (Spec => []DataInv)
  <1>. SUFFICES ASSUME OneWorker
                PROVE  Spec => []DataInv
    OBVIOUS
  <1>1. Init => DataInv
    BY DataInit
  <1>2. DataInv /\ [Next]_vars => DataInv'
    BY DataStep
  <1>. QED
    BY <1>1, <1>2, PTL DEF Spec

(***************************************************************************)
(* fat_read takes no notice of the offset it is given.  With one callback  *)
(* at a time that is right for a file whose requests come in order and     *)
(* that is left alone: whatever was read, closed and opened before it, the *)
(* cursor stands where its next request begins.                            *)
(***************************************************************************)
THEOREM CursorFollowsReader == OneWorker => (Spec => []CursorInStep)
  <1>1. DataInv => CursorInStep
    <2>. SUFFICES ASSUME DataInv, Good, NEW o \in Opens, kfile[o].state = "open",
                         kfile[o].alone, kfile[o].in_order
                  PROVE  StandsAt(open_file[kfile[o].fh], kfile[o].name,
                                  Len(kfile[o].data))
      BY DEF CursorInStep
    <2>1. PICK t \in Threads : TRUE
      BY FatAssumption
    <2>2. worker[t].op # "read" /\ worker[t].buf = <<>>
      BY DEF DataInv, SerialInv, InStep, InCallback
    <2>3. kfile[o].data \in Seq(Byte)
      BY DEF DataInv, SerialInv, TypeOK, KernelFile
    <2>4. ReadSoFar(t, o) = Len(kfile[o].data)
      BY <2>2, <2>3 DEF ReadSoFar
    <2>5. OwnFile(t, o)
      BY DEF DataInv
    <2>. QED
      BY <2>4, <2>5 DEF OwnFile
  <1>. QED
    BY <1>1, Data, PTL

(***************************************************************************)
(* What fat_read answers to a file left alone and asked for in order is,   *)
(* byte by byte, what the file has at the offset asked for, however its    *)
(* clusters are scattered over the image.                                  *)
(***************************************************************************)
THEOREM ReadsOwnData == OneWorker => (Spec => []DataIsOwn)
  <1>1. DataInv => DataIsOwn
    <2>. SUFFICES ASSUME DataInv, Good, NEW t \in Threads, NEW o \in Opens,
                         Answered(t, o), kfile[o].alone
                  PROVE  AnsweredWell(t)
      BY DEF DataIsOwn
    <2>1. /\ worker[t].op = "read" /\ worker[t].o = o /\ kfile[o].in_order
      BY DEF Answered
    <2>2. kfile[o].state = "reading" /\ OwnFile(t, o)
      BY <2>1 DEF DataInv, SerialInv, InStep
    <2>. QED
      BY <2>1, <2>2 DEF OwnFile, AnsweredWell
  <1>. QED
    BY <1>1, Data, PTL

--------------------------------------------------------------------------------
(* The directory *)

LEMMA ListsNothing ==
    ASSUME NEW dir
    PROVE  Lists(dir, <<>>, 0)
  <1>. DEFINE at == [j \in 1..Len(<<>>) |-> 0]
  <1>1. 1..Len(<<>>) = {} /\ 1..0 = {}
    OBVIOUS
  <1>2. at \in [1..Len(<<>>) -> 1..0]
    BY <1>1
  <1>. QED
    BY <1>1, <1>2 DEF Lists

LEMMA ListsOneMore ==
    ASSUME NEW dir, NEW list \in Seq(Names), NEW n \in Nat, Lists(dir, list, n),
           Listed(dir[n + 1]) => dir[n + 1].name \in Names,
           Listed(dir[n + 1]) <=> IsFile(dir[n + 1])
    PROVE  Lists(dir, Filled(list, dir[n + 1]), n + 1)
  <1>. DEFINE e == dir[n + 1]
              l == Len(list)
  <1>1. PICK at \in [1..l -> 1..n] :
            /\ \A j, k \in 1..l : j < k => at[j] < at[k]
            /\ \A m \in 1..n : IsFile(dir[m]) <=> \E j \in 1..l : at[j] = m
            /\ \A j \in 1..l : list[j] = dir[at[j]].name
    BY DEF Lists
  <1>2. l \in Nat
    OBVIOUS
  <1>3. CASE ~Listed(e)
    <2>1. Filled(list, e) = list
      BY <1>3 DEF Filled
    <2>2. at \in [1..l -> 1..(n + 1)]
      BY <1>1, <1>2
    <2>3. \A m \in 1..(n + 1) : IsFile(dir[m]) <=> \E j \in 1..l : at[j] = m
      <3>1. \A m \in 1..(n + 1) : m \in 1..n \/ m = n + 1
        OBVIOUS
      <3>2. ~\E j \in 1..l : at[j] = n + 1
        BY <1>1
      <3>. QED
        BY <1>1, <1>3, <3>1, <3>2
    <2>4. Lists(dir, list, n + 1)
      BY <1>1, <2>2, <2>3 DEF Lists
    <2>. QED
      BY <2>1, <2>4
  <1>4. CASE Listed(e)
    <2>. DEFINE list2 == Append(list, e.name)
                at2 == [j \in 1..(l + 1) |-> IF j = l + 1 THEN n + 1 ELSE at[j]]
    <2>1. Filled(list, e) = list2
      BY <1>4 DEF Filled
    <2>2. /\ Len(list2) = l + 1 /\ list2[l + 1] = e.name
          /\ \A j \in 1..l : list2[j] = list[j]
      BY <1>4, AppendProperties
    <2>3. at2 \in [1..(l + 1) -> 1..(n + 1)]
      BY <1>1, <1>2
    <2>4. \A j, k \in 1..(l + 1) : j < k => at2[j] < at2[k]
      <3>. SUFFICES ASSUME NEW j \in 1..(l + 1), NEW k \in 1..(l + 1), j < k
                    PROVE  at2[j] < at2[k]
        OBVIOUS
      <3>1. j \in 1..l /\ at2[j] = at[j] /\ at[j] \in 1..n
        BY <1>1, <1>2
      <3>2. CASE k = l + 1
        BY <1>2, <3>1, <3>2
      <3>3. CASE k # l + 1
        <4>1. k \in 1..l /\ at2[k] = at[k]
          BY <1>2, <3>3, SMTT(60)
        <4>. QED
          BY <1>1, <3>1, <4>1
      <3>. QED
        BY <3>2, <3>3
    <2>5. \A m \in 1..(n + 1) : IsFile(dir[m]) <=> \E j \in 1..(l + 1) : at2[j] = m
      <3>. SUFFICES ASSUME NEW m \in 1..(n + 1)
                    PROVE  IsFile(dir[m]) <=> \E j \in 1..(l + 1) : at2[j] = m
        OBVIOUS
      <3>0. \A j \in 1..l : at2[j] = at[j] /\ j \in 1..(l + 1)
        BY <1>2
      <3>1. CASE m = n + 1
        <4>1. at2[l + 1] = m /\ l + 1 \in 1..(l + 1)
          BY <1>2, <3>1
        <4>. QED
          BY <1>4, <3>1, <4>1
      <3>2. CASE m # n + 1
        <4>1. m \in 1..n
          BY <3>2
        <4>2. \A j \in 1..(l + 1) : at2[j] = m => j \in 1..l
          BY <1>2, <3>2
        <4>. QED
          BY <1>1, <3>0, <4>1, <4>2
      <3>. QED
        BY <3>1, <3>2
    <2>6. \A j \in 1..(l + 1) : list2[j] = dir[at2[j]].name
      <3>. SUFFICES ASSUME NEW j \in 1..(l + 1)
                    PROVE  list2[j] = dir[at2[j]].name
        OBVIOUS
      <3>1. CASE j = l + 1
        BY <1>2, <2>2, <3>1
      <3>2. CASE j # l + 1
        <4>1. j \in 1..l /\ at2[j] = at[j]
          BY <1>2, <3>2
        <4>. QED
          BY <1>1, <2>2, <4>1
      <3>. QED
        BY <3>1, <3>2
    <2>. HIDE DEF list2, at2
    <2>7. /\ at2 \in [1..Len(list2) -> 1..(n + 1)]
          /\ \A j, k \in 1..Len(list2) : j < k => at2[j] < at2[k]
          /\ \A m \in 1..(n + 1) :
                IsFile(dir[m]) <=> \E j \in 1..Len(list2) : at2[j] = m
          /\ \A j \in 1..Len(list2) : list2[j] = dir[at2[j]].name
      BY <2>2, <2>3, <2>4, <2>5, <2>6
    <2>8. Lists(dir, list2, n + 1)
      BY <2>7 DEF Lists
    <2>. QED
      BY <2>1, <2>8
  <1>. QED
    BY <1>3, <1>4

\* Every file is seen, and there is one of a name.
Regular == Served(image) /\ UniqueNames(image)

DirInv == (\A t \in Threads : ScanFact(t)) /\ DirectoryExact

LEMMA RegularEntry ==
    ASSUME Regular, NEW k \in 1..Len(image.dir)
    PROVE  LET e == image.dir[k]
           IN  /\ Listed(e) <=> IsFile(e)
               /\ IsFile(e) => e.size < Word
  <1>1. IsFile(image.dir[k]) =>
           image.dir[k].attr \cap Hiding = {} /\ image.dir[k].size < Word
    BY DEF Regular, Served
  <1>2. "volume_id" \in Hiding
    BY DEF Hiding
  <1>. QED
    BY <1>1, <1>2 DEF Listed, IsFile

\* At the start of the directory, and one entry further.
LEMMA RootPositions ==
    ASSUME image \in Images, NEW i \in Nat, i < Len(image.dir)
    PROVE  /\ At(Root, 0) = <<Root, 0>>
           /\ EntryAt(<<Root, i>>) = image.dir[i + 1]
           /\ i + 1 < Len(image.dir) => Ahead(<<Root, i>>, 1) = <<Root, i + 1>>
  <1>1. Len(image.dir) \in Nat
    BY ImageFacts
  <1>. QED
    BY <1>1 DEF At, Ahead, Extent, EntryAt, Root

\* The callback t scans no directory and has no result of a scan.
LEMMA NoScan ==
    ASSUME OneWorker, NEW t \in Threads,
           worker'[t].pc \notin {"seek", "scan"},
           worker'[t].pc = "reply" => worker'[t].op \notin {"getattr", "readdir", "open"}
    PROVE  DirInv'
  <1>1. \A u \in Threads : u = t
    BY DEF OneWorker
  <1>. QED
    BY <1>1 DEF DirInv, ScanFact, DirectoryExact, In

\* The root directory is always there.
LEMMA TopFound ==
    ASSUME OneWorker, NEW t \in Threads,
           worker'[t].pc = "reply", worker'[t].op = "getattr",
           worker'[t].name = Top
    PROVE  DirInv'
  <1>1. \A u \in Threads : u = t
    BY DEF OneWorker
  <1>. QED
    BY <1>1 DEF DirInv, ScanFact, DirectoryExact, In

LEMMA BeginScan ==
    ASSUME OneWorker, NEW t \in Threads,
           worker'[t].pc = "seek", worker'[t].i = 0, worker'[t].list = <<>>,
           worker'[t].res = "ok"
    PROVE  DirInv'
  <1>1. \A u \in Threads : u = t
    BY DEF OneWorker
  <1>. QED
    BY <1>1 DEF DirInv, ScanFact, DirectoryExact, In

\* Neither the image nor what a worker is at changes.
LEMMA SameScan ==
    ASSUME DirInv, UNCHANGED <<image, img_pos, worker>>
    PROVE  DirInv'
  BY DEF DirInv, ScanFact, DirectoryExact, In, Visible, EntryOf, Lists, TrueStat

LEMMA RequestScans ==
    ASSUME OneWorker, SerialInv, DirInv, NEW t \in Threads, Request(t)
    PROVE  DirInv'
  <1>0. worker \in [Threads -> Locals]
    BY DEF SerialInv, TypeOK
  <1>1. ASSUME \/ \E n \in Paths : GetAttr(t, n)
               \/ GetAttrTop(t)
               \/ \E n \in Names \cup {Top} : ReadDir(t, n)
        PROVE  DirInv'
    <2>1. PICK w \in Locals : Asks(t, w)
      BY <1>1, AskSteps
    <2>2. worker'[t] = w
      BY <1>0, <2>1 DEF Asks
    <2>. QED
      BY <2>1, <2>2, BeginScan, TopFound DEF Asks
  <1>3. ASSUME NEW o \in Opens, NEW n \in Paths, Open(t, o, n)
        PROVE  DirInv'
    <2>1. FreeFds # {}
      BY IdleType DEF SerialInv, NeverMarked, FreeFds
    <2>2. \E fd : worker' = [worker EXCEPT ![t] =
              [Idle EXCEPT !.op = "open", !.o = o, !.name = n, !.pc = "seek", !.fd = fd]]
      BY <1>3, <2>1 DEF Open, Start, Goto
    <2>. QED
      BY <1>0, <2>2, BeginScan DEF Idle
  <1>4. ASSUME NEW o \in Opens, NEW offset, NEW want, Read(t, o, offset, want)
        PROVE  DirInv'
    <2>1. worker'[t].op = "read" /\ worker'[t].pc \in {"reply", "copy"}
      BY <1>0, <1>4 DEF Read, Loop, Goto, Idle
    <2>. QED
      BY <2>1, NoScan
  <1>5. ASSUME NEW o \in Opens, Release(t, o)
        PROVE  DirInv'
    BY <1>5, SameScan DEF Release
  <1>. QED
    BY <1>1, <1>3, <1>4, <1>5 DEF Request

LEMMA SeekScans ==
    ASSUME OneWorker, SerialInv, DirInv, NEW t \in Threads, SeekDirectory(t)
    PROVE  DirInv'
  <1>. DEFINE v == worker[t]
  <1>1. /\ v.pc = "seek" /\ worker' = [worker EXCEPT ![t] = [v EXCEPT !.pc = "scan"]]
        /\ img_pos' = At(Root, 0) /\ image' = image
        /\ v \in Locals /\ worker \in [Threads -> Locals] /\ image \in Images
    BY DEF SeekDirectory, In, Goto, SerialInv, TypeOK
  <1>2. v.i = 0 /\ v.list = <<>> /\ v.res = "ok"
    BY <1>1 DEF DirInv, ScanFact
  <1>3. worker'[t] = [v EXCEPT !.pc = "scan"]
    BY <1>1
  <1>4. /\ worker'[t].pc = "scan" /\ worker'[t].i = 0 /\ worker'[t].list = <<>>
        /\ worker'[t].res = "ok"
    BY <1>1, <1>2, <1>3 DEF Locals
  <1>5. Len(image.dir) \in Nat /\ (0 < Len(image.dir) => img_pos' = <<Root, 0>>)
    BY <1>1, ImageFacts, RootPositions
  <1>6. Lists(image'.dir, <<>>, 0)
    BY ListsNothing
  <1>7. \A u \in Threads : u = t
    BY DEF OneWorker
  <1>. QED
    BY <1>1, <1>4, <1>5, <1>6, <1>7 DEF DirInv, ScanFact, DirectoryExact, In

\* What a step finds that reads an entry of the directory.
LEMMA EntryRead ==
    ASSUME SerialInv, DirInv, NEW t \in Threads, ReadEntry(t)
    PROVE  LET i == worker[t].i
               e == image.dir[i + 1]
           IN  /\ worker[t].pc = "scan" /\ i \in Nat /\ i < Len(image.dir)
               /\ EntryAt(img_pos) = e /\ i + 1 \in 1..Len(image.dir)
               /\ Len(image.dir) \in Nat /\ image' = image
               /\ i + 1 < Len(image.dir) => img_pos' = <<Root, i + 1>>
               /\ e \in Entry /\ e \in Range(image.dir)
  <1>. DEFINE i == worker[t].i
  <1>1. /\ worker[t].pc = "scan" /\ i < Len(image.dir) /\ image' = image
        /\ img_pos' = Ahead(img_pos, 1)
    BY DEF ReadEntry, In
  <1>2. worker[t] \in Locals /\ image \in Images
    BY DEF SerialInv, TypeOK
  <1>3. i \in Nat /\ Len(image.dir) \in Nat
    BY <1>2, ImageFacts DEF Locals
  <1>4. img_pos = <<Root, i>>
    BY <1>1 DEF DirInv, ScanFact
  <1>. HIDE DEF i
  <1>5. i + 1 \in 1..Len(image.dir)
    BY <1>1, <1>3 DEF i
  <1>. QED
    BY <1>1, <1>2, <1>3, <1>4, <1>5, RootPositions, ImageFacts DEF i

LEMMA ListScans ==
    ASSUME OneWorker, Regular, SerialInv, DirInv, NEW t \in Threads, ListEntry(t)
    PROVE  DirInv'
  <1>. DEFINE v == worker[t]
              e == image.dir[v.i + 1]
              list == Filled(v.list, e)
  <1>1. v.op = "readdir" /\ ReadEntry(t)
    BY DEF ListEntry
  <1>2. /\ v.pc = "scan" /\ v.i \in Nat /\ v.i < Len(image.dir)
        /\ EntryAt(img_pos) = e /\ Len(image.dir) \in Nat /\ image' = image
        /\ v.i + 1 < Len(image.dir) => img_pos' = <<Root, v.i + 1>>
        /\ e \in Entry /\ v.i + 1 \in 1..Len(image.dir)
    BY <1>1, EntryRead
  <1>3. v \in Locals /\ worker \in [Threads -> Locals]
    BY DEF SerialInv, TypeOK
  <1>4. worker'[t] = [v EXCEPT !.i = v.i + 1, !.list = list]
    BY <1>2, <1>3 DEF ListEntry, Goto
  <1>5. Lists(image.dir, list, v.i + 1)
    <2>1. Lists(image.dir, v.list, v.i) /\ v.list \in Seq(Names)
      BY <1>1, <1>2, <1>3 DEF DirInv, ScanFact, Locals
    <2>2. Listed(e) => e.name \in Names
      BY <1>2 DEF Listed, Entry
    <2>3. Listed(e) <=> IsFile(e)
      BY <1>2, RegularEntry
    <2>. QED
      BY <1>2, <2>1, <2>2, <2>3, ListsOneMore
  <1>6. Lists(image'.dir, list, v.i + 1)
    BY <1>2, <1>5
  <1>7. v.res = "ok"
    BY <1>2 DEF DirInv, ScanFact
  <1>. HIDE DEF list
  <1>8. /\ worker'[t].pc = "scan" /\ worker'[t].op = "readdir" /\ worker'[t].res = "ok"
        /\ worker'[t].i = v.i + 1 /\ worker'[t].list = list
    BY <1>1, <1>2, <1>3, <1>4, <1>7 DEF Locals
  <1>9. \A u \in Threads : u = t
    BY DEF OneWorker
  <1>. QED
    BY <1>2, <1>6, <1>8, <1>9 DEF DirInv, ScanFact, DirectoryExact, In

LEMMA SkipScans ==
    ASSUME OneWorker, SerialInv, DirInv, NEW t \in Threads, SkipEntry(t)
    PROVE  DirInv'
  <1>. DEFINE v == worker[t]
              p == Parsed(v, EntryAt(img_pos))
  <1>1. /\ v.op \in {"getattr", "open"} /\ ~Matches(v, EntryAt(img_pos)) /\ ReadEntry(t)
        /\ Goto(t, [p EXCEPT !.i = @ + 1])
    BY DEF SkipEntry
  <1>2. /\ v.pc = "scan" /\ v.i \in Nat /\ v.i < Len(image.dir)
        /\ EntryAt(img_pos) = image.dir[v.i + 1] /\ Len(image.dir) \in Nat
        /\ image' = image
        /\ v.i + 1 < Len(image.dir) => img_pos' = <<Root, v.i + 1>>
    BY <1>1, EntryRead
  <1>3. v \in Locals /\ worker \in [Threads -> Locals]
        /\ image \in Images /\ img_pos \in Byte
    BY DEF SerialInv, TypeOK
  <1>p. /\ p \in Locals /\ p.pc = v.pc /\ p.op = v.op /\ p.name = v.name
        /\ p.i = v.i /\ p.res = v.res
    BY <1>3, ParsedFacts
  <1>. HIDE DEF p
  <1>4. worker'[t] = [p EXCEPT !.i = p.i + 1]
    BY <1>1, <1>3 DEF Goto
  <1>5. v.res = "ok" /\ \A k \in 1..v.i : ~Matches(v, image.dir[k])
    BY <1>1, <1>2 DEF DirInv, ScanFact
  <1>6. /\ worker'[t].pc = "scan" /\ worker'[t].op = v.op /\ worker'[t].res = "ok"
        /\ worker'[t].i = v.i + 1 /\ worker'[t].name = v.name
    BY <1>2, <1>p, <1>4, <1>5 DEF Locals
  <1>7. \A k \in 1..(v.i + 1) : ~Matches(worker'[t], image'.dir[k])
    <2>. SUFFICES ASSUME NEW k \in 1..(v.i + 1)
                  PROVE  ~Matches(v, image.dir[k])
      BY <1>2, <1>6 DEF Matches
    <2>1. k \in 1..v.i \/ k = v.i + 1
      BY <1>2
    <2>. QED
      BY <1>1, <1>2, <1>5, <2>1
  <1>8. \A u \in Threads : u = t
    BY DEF OneWorker
  <1>. QED
    BY <1>1, <1>2, <1>6, <1>7, <1>8 DEF DirInv, ScanFact, DirectoryExact, In

LEMMA OnlyEntry ==
    ASSUME Regular, image \in Images, NEW n, NEW k \in 1..Len(image.dir),
           IsEntryOf(image.dir[k], n)
    PROVE  Visible(n) /\ EntryOf(n) = image.dir[k]
  <1>. DEFINE e == image.dir[k]
  <1>1. e \in Range(image.dir)
    BY ImageFacts
  <1>2. ASSUME NEW x \in Range(image.dir), IsEntryOf(x, n)
        PROVE  x = e
    <2>1. PICK j \in 1..Len(image.dir) : image.dir[j] = x
      <3>1. Readable(image)
        BY FatAssumption
      <3>. QED
        BY <3>1 DEF Readable, Range
    <2>2. j = k
      BY <1>2, <2>1 DEF Regular, UniqueNames, IsEntryOf
    <2>. QED
      BY <2>1, <2>2
  <1>. QED
    BY <1>1, <1>2 DEF Visible, EntryOf

\* The directory stays as it is, and the callback looks for the same name.
LEMMA SameLookup ==
    ASSUME UNCHANGED image, NEW t \in Threads, NEW n, worker'[t].name = n
    PROVE  /\ Visible(worker[t].name)' <=> Visible(n)
           /\ EntryOf(worker[t].name)' = EntryOf(n)
  BY DEF Visible, EntryOf

\* fat_getattr and fat_open find an entry.
LEMMA FindScans ==
    ASSUME OneWorker, Regular, SerialInv, DirInv, NEW t \in Threads,
           FoundAttr(t) \/ FoundOpen(t)
    PROVE  DirInv'
  <1>. DEFINE v == worker[t]
              e == EntryAt(img_pos)
              p == Parsed(v, e)
  <1>3. v \in Locals /\ worker \in [Threads -> Locals] /\ image \in Images
        /\ img_pos \in Byte
    BY DEF SerialInv, TypeOK
  <1>p. /\ p \in Locals /\ p.op = v.op /\ p.name = v.name /\ p.res = v.res
        /\ Listed(e) => p.st = Stat(e)
    BY <1>3, ParsedFacts
  <1>1. /\ v.op \in {"getattr", "open"} /\ Listed(e) /\ e.name = v.name
        /\ ReadEntry(t) /\ Goto(t, [p EXCEPT !.pc = "reply"])
    <2>1. CASE FoundAttr(t)
      BY <2>1 DEF FoundAttr, Return, Matches
    <2>2. CASE FoundOpen(t)
      <3>1. /\ p.op = "open" /\ Listed(e) /\ e.name = p.name
            /\ ReadEntry(t) /\ Goto(t, [p EXCEPT !.pc = "reply"])
        BY <2>2 DEF FoundOpen, Return, Matches
      <3>. QED
        BY <1>p, <3>1
    <2>. QED
      BY <2>1, <2>2
  <1>2. /\ v.pc = "scan" /\ e = image.dir[v.i + 1] /\ v.i + 1 \in 1..Len(image.dir)
        /\ image' = image /\ e \in Entry
    BY <1>1, EntryRead
  <1>4. v.res = "ok"
    BY <1>2 DEF DirInv, ScanFact
  <1>. HIDE DEF e, p
  <1>5. IsFile(e) /\ e.size < Word /\ IsEntryOf(e, v.name)
    <2>1. IsFile(e) /\ e.size < Word
      BY <1>1, <1>2, RegularEntry
    <2>. QED
      BY <1>1, <2>1 DEF IsEntryOf
  <1>6. Visible(v.name) /\ EntryOf(v.name) = e
    BY <1>2, <1>3, <1>5, OnlyEntry
  <1>7. p.st = TrueStat(e)
    <2>1. e.size \in Nat
      BY <1>2 DEF Entry
    <2>2. e.size % Word = e.size
      BY <1>5, <2>1, ModSmall, FatAssumption
    <2>. QED
      BY <1>1, <1>p, <2>2 DEF Stat, StSize, TrueStat
  <1>8. /\ worker'[t].pc = "reply" /\ worker'[t].op = v.op /\ worker'[t].res = "ok"
        /\ worker'[t].name = v.name /\ worker'[t].st = TrueStat(e)
    <2>1. worker'[t] = [p EXCEPT !.pc = "reply"]
      BY <1>1, <1>3 DEF Goto
    <2>. QED
      BY <1>p, <1>4, <1>7, <2>1 DEF Locals
  <1>9. Visible(worker[t].name)' /\ EntryOf(worker[t].name)' = e
    BY <1>2, <1>6, <1>8, SameLookup
  <1>10. \A u \in Threads : u = t
    BY DEF OneWorker
  <1>. QED
    BY <1>1, <1>8, <1>9, <1>10 DEF DirInv, ScanFact, DirectoryExact, In, TrueStat

LEMMA EndScans ==
    ASSUME OneWorker, Regular, SerialInv, DirInv, NEW t \in Threads, ScanEnds(t)
    PROVE  DirInv'
  <1>. DEFINE v == worker[t]
              r == IF v.op = "readdir" THEN "ok" ELSE "ENOENT"
  <1>1. /\ v.pc = "scan" /\ v.i = Len(image.dir) /\ image' = image
        /\ Goto(t, [v EXCEPT !.res = r, !.pc = "reply"])
    BY DEF ScanEnds, In, Return
  <1>2. v \in Locals /\ worker \in [Threads -> Locals] /\ image \in Images
    BY DEF SerialInv, TypeOK
  <1>3. worker'[t] = [v EXCEPT !.res = r, !.pc = "reply"]
    BY <1>1, <1>2 DEF Goto
  <1>4. /\ worker'[t].pc = "reply" /\ worker'[t].op = v.op /\ worker'[t].res = r
        /\ worker'[t].name = v.name /\ worker'[t].list = v.list
    BY <1>2, <1>3 DEF Locals
  <1>5. v.op = "readdir" => Lists(image.dir, v.list, Len(image.dir))
    BY <1>1 DEF DirInv, ScanFact
  <1>6. v.op \in {"getattr", "open"} => ~Visible(v.name)
    <2>. SUFFICES ASSUME v.op \in {"getattr", "open"}, NEW e \in Range(image.dir)
                  PROVE  ~IsEntryOf(e, v.name)
      BY DEF Visible
    <2>1. PICK k \in 1..Len(image.dir) : image.dir[k] = e
      <3>1. Readable(image)
        BY <1>2, FatAssumption
      <3>. QED
        BY <3>1 DEF Readable, Range
    <2>2. ~Matches(v, image.dir[k])
      BY <1>1 DEF DirInv, ScanFact
    <2>3. Listed(image.dir[k]) <=> IsFile(image.dir[k])
      BY RegularEntry
    <2>. QED
      BY <2>1, <2>2, <2>3 DEF Matches, IsEntryOf
  <1>7. v.op \in {"getattr", "open"} => ~Visible(worker[t].name)'
    BY <1>1, <1>4, <1>6, SameLookup
  <1>8. \A u \in Threads : u = t
    BY DEF OneWorker
  <1>. HIDE DEF r
  <1>9. (v.op = "readdir" => r = "ok") /\ (v.op # "readdir" => r = "ENOENT")
    BY DEF r
  <1>. QED
    BY <1>1, <1>4, <1>5, <1>7, <1>8, <1>9 DEF DirInv, ScanFact, DirectoryExact, In

LEMMA OtherCallbacks ==
    ASSUME OneWorker, SerialInv, NEW t \in Threads,
           \/ SeekData(t) \/ CopyInCluster(t) \/ CopyToNextCluster(t)
           \/ CopyToEndOfChain(t) \/ Abort(t)
           \/ ReplyInfo(t) \/ ReplyOpen(t) \/ ReplyRead(t)
    PROVE  DirInv'
  <1>. DEFINE v == worker[t]
  <1>1. v \in Locals /\ worker \in [Threads -> Locals] /\ InCallback(t)
    BY DEF SerialInv, TypeOK
  <1>2. CASE SeekData(t) \/ CopyInCluster(t) \/ CopyToNextCluster(t) \/ CopyToEndOfChain(t)
    <2>1. v.op = "read"
      BY <1>1, <1>2 DEF InCallback, SeekData, CopyInCluster, CopyToNextCluster,
                       CopyToEndOfChain, ReadChunk, In
    <2>2. PICK w \in Locals :
            /\ worker'[t] = w
            /\ w.op = "read" /\ w.pc \in {"copy", "copy_read", "reply"}
      <3>1. CASE SeekData(t)
        <4>1. PICK n : worker'[t] = [v EXCEPT !.pc = "copy_read", !.n = n]
          BY <1>1, <3>1 DEF SeekData, Goto
        <4>2. worker'[t].pc = "copy_read" /\ worker'[t].op = "read"
          BY <1>1, <2>1, <4>1 DEF Locals
        <4>3. worker'[t] \in Locals
          BY <3>1, SeekDataStep DEF SerialInv, TypeOK
        <4>. QED
          BY <4>2, <4>3
      <3>2. CASE ~SeekData(t)
        <4>1. PICK w \in Locals : \E g \in Cursor : CopiesTo(t, g, w)
          BY <1>2, <3>2, CopySteps
        <4>. QED
          BY <1>1, <2>1, <4>1 DEF CopiesTo
      <3>. QED
        BY <3>1, <3>2
    <2>. QED
      BY <2>2, NoScan
  <1>3. CASE Abort(t)
    <2>1. worker'[t].pc = "aborted"
      BY <1>1, <1>3 DEF Abort, Locals
    <2>. QED
      BY <2>1, NoScan
  <1>4. CASE ReplyInfo(t) \/ ReplyOpen(t) \/ ReplyRead(t)
    <2>1. worker'[t].pc = "idle"
      BY <1>1, <1>4 DEF ReplyInfo, ReplyOpen, ReplyRead, Goto, Idle
    <2>. QED
      BY <2>1, NoScan
  <1>. QED
    BY <1>2, <1>3, <1>4

LEMMA DirStep ==
    ASSUME OneWorker, Regular, SerialInv, DirInv, [Next]_vars
    PROVE  DirInv'
  <1>1. CASE UNCHANGED vars
    BY <1>1, SameScan DEF vars
  <1>2. ASSUME NEW t \in Threads, Callback(t)
        PROVE  DirInv'
    BY <1>2, SeekScans, ListScans, SkipScans, FindScans, EndScans, OtherCallbacks
       DEF Callback
  <1>. QED
    BY <1>1, <1>2, RequestScans DEF Next

(***************************************************************************)
(* With one callback at a time, fat_readdir of the root lists the names of *)
(* its files, each once and in order, and fat_getattr and fat_open find    *)
(* those and no others, with the attributes of the entry, on any image     *)
(* the driver serves that does not have two entries of a name.             *)
(***************************************************************************)
THEOREM DirectoryIsExact == OneWorker => (Spec => []DirectoryExact)
  <1>. SUFFICES ASSUME OneWorker
                PROVE  Spec => []DirectoryExact
    OBVIOUS
  <1>. DEFINE Inv == Regular => DirInv
  <1>1. Init => Inv
    BY DEF Init, Idle, DirInv, ScanFact, DirectoryExact, In
  <1>2. SerialInv /\ Inv /\ [Next]_vars => Inv'
    <2>. SUFFICES ASSUME SerialInv, Inv, [Next]_vars, Regular'
                  PROVE  DirInv'
      OBVIOUS
    <2>1. Regular
      BY ImageStays DEF Regular
    <2>. QED
      BY <2>1, DirStep
  <1>3. Inv => DirectoryExact
    BY DEF Regular, DirInv, DirectoryExact
  <1>. HIDE DEF Inv
  <1>. QED
    BY <1>1, <1>2, <1>3, Serial, PTL DEF Spec

--------------------------------------------------------------------------------
(* The file service *)

LEMMA DivMod ==
    ASSUME NEW c \in Nat, c > 0, NEW k \in Nat, NEW r \in 0..(c - 1)
    PROVE  (k * c + r) \div c = k /\ (k * c + r) % c = r
  OBVIOUS

\* The contents of a file, byte by byte.
LEMMA ContentFacts ==
    ASSUME image \in Images, Good, NEW n \in Names, Visible(n)
    PROVE  /\ EntryOf(n).size \in Nat
           /\ Content(n) \in Seq(Range(Content(n)))
           /\ Len(Content(n)) = EntryOf(n).size
           /\ \A p \in 1..EntryOf(n).size, b \in Byte :
                 HasByteAt(n, p - 1, b[1], b[2]) => Content(n)[p] = b
  <1>. DEFINE e == EntryOf(n)
              s == e.size
              C == Content(n)
  <1>1. e \in Range(image.dir) /\ IsEntryOf(e, n)
    BY DEF Visible, EntryOf
  <1>2. s \in Nat
    BY <1>1, FileFacts
  <1>3. C \in [1..s -> Range(C)]
    BY DEF Content, Range
  <1>4. C \in Seq(Range(C))
    BY <1>2, <1>3, SeqDef
  <1>5. Len(C) = s
    BY <1>2, <1>3, <1>4, LenProperties
  <1>6. ASSUME NEW p \in 1..s, NEW b \in Byte, HasByteAt(n, p - 1, b[1], b[2])
        PROVE  C[p] = b
    <2>1. PICK k \in 1..Len(image.chain[n]) :
            /\ b[1] = image.chain[n][k]
            /\ b[2] \in 0..(ClusterSize - 1)
            /\ p - 1 = (k - 1) * ClusterSize + b[2]
      BY <1>6 DEF HasByteAt
    <2>2. k - 1 \in Nat /\ (k - 1) + 1 = k
      BY <1>1, FileFacts
    <2>3. (p - 1) \div ClusterSize = k - 1 /\ (p - 1) % ClusterSize = b[2]
      <3>. PICK d \in Nat : d = k - 1
        BY <2>2
      <3>1. ClusterSize \in Nat /\ ClusterSize > 0
        BY FatAssumption
      <3>2. PICK r \in 0..(ClusterSize - 1) : r = b[2]
        BY <2>1
      <3>3. /\ (d * ClusterSize + r) \div ClusterSize = d
            /\ (d * ClusterSize + r) % ClusterSize = r
        BY <3>1, DivMod, Zenon
      <3>4. p - 1 = d * ClusterSize + r
        BY <2>1, <3>2
      <3>. QED
        BY <3>2, <3>3, <3>4, Zenon
    <2>4. C[p] = <<image.chain[n][((p - 1) \div ClusterSize) + 1],
                   (p - 1) % ClusterSize>>
      BY <1>6 DEF Content
    <2>5. b = <<b[1], b[2]>>
      BY DEF Byte
    <2>. QED
      BY <2>1, <2>2, <2>3, <2>4, <2>5
  <1>. QED
    BY <1>2, <1>4, <1>5, <1>6

\* Bytes that are the file's own are a piece of its contents.
LEMMA OwnPiece ==
    ASSUME image \in Images, Good, NEW n \in Names, Visible(n),
           NEW a \in Nat, NEW bytes \in Seq(Byte), OwnBytes(n, a, bytes),
           a + Len(bytes) <= EntryOf(n).size
    PROVE  bytes = SubSeq(Content(n), a + 1, a + Len(bytes))
  <1>. DEFINE s == EntryOf(n).size
              C == Content(n)
              l == Len(bytes)
              X == Range(C)
  <1>1. /\ s \in Nat /\ C \in Seq(X) /\ Len(C) = s
        /\ \A p \in 1..s, b \in Byte :
              HasByteAt(n, p - 1, b[1], b[2]) => C[p] = b
    BY ContentFacts
  <1>. HIDE DEF C, X, s
  <1>2. l \in Nat /\ a + l <= s
    BY DEF s
  <1>3. /\ SubSeq(C, a + 1, a + l) \in Seq(X)
        /\ Len(SubSeq(C, a + 1, a + l)) = l
        /\ \A j \in 1..l : SubSeq(C, a + 1, a + l)[j] = C[a + j]
    <2>1. /\ a + 1 \in 1..(Len(C) + 1) /\ a + l \in Nat
          /\ \A j \in (a + 1)..(a + l) : j \in 1..Len(C)
      BY <1>1, <1>2
    <2>2. /\ Len(SubSeq(C, a + 1, a + l)) = IF a + 1 <= a + l THEN (a + l) - (a + 1) + 1 ELSE 0
          /\ SubSeq(C, a + 1, a + l) \in Seq(X)
      BY <1>1, <1>2, <2>1, SubSeqProperties
    <2>3. Len(SubSeq(C, a + 1, a + l)) = l
      BY <1>1, <1>2, <2>2
    <2>4. ASSUME NEW j \in 1..l
          PROVE  SubSeq(C, a + 1, a + l)[j] = C[a + j]
      <3>1. j \in 1..((a + l) - (a + 1) + 1) /\ (a + 1) + j - 1 = a + j
        BY <1>1, <1>2
      <3>. QED
        BY <1>1, <1>2, <2>1, <3>1, SubSeqProperties
    <2>. QED
      BY <2>2, <2>3, <2>4
  <1>4. ASSUME NEW j \in 1..l
        PROVE  bytes[j] = C[a + j]
    <2>1. bytes[j] \in Byte /\ HasByteAt(n, a + j - 1, bytes[j][1], bytes[j][2])
      BY DEF OwnBytes
    <2>2. a + j \in 1..s /\ (a + j) - 1 = a + j - 1
      BY <1>1, <1>2
    <2>. QED
      BY <1>1, <2>1, <2>2
  <1>5. bytes = SubSeq(C, a + 1, a + l)
    <2>. DEFINE d == SubSeq(C, a + 1, a + l)
    <2>1. Len(d) = Len(bytes) /\ \A j \in 1..Len(bytes) : bytes[j] = d[j]
      BY <1>3, <1>4
    <2>2. \E S : bytes \in Seq(S) /\ d \in Seq(S)
      <3>1. bytes \in Seq(Byte \cup X) /\ d \in Seq(Byte \cup X)
        BY <1>3
      <3>. QED
        BY <3>1
    <2>. HIDE DEF d
    <2>. QED
      BY <2>1, <2>2 DEF d
  <1>. QED
    BY <1>5 DEF C

ServiceInv ==
    /\ DataInv
    /\ Good => \A t \in Threads, o \in Opens : ReadFact(t, o)

LEMMA SameEntry ==
    ASSUME UNCHANGED image, NEW q \in Opens, NEW n, kfile'[q].name = n
    PROVE  EntryOf(kfile[q].name)' = EntryOf(n)
  BY DEF EntryOf

\* A step of a read that copies nothing and does not end it.
LEMMA KeepsRead ==
    ASSUME NEW t \in Threads, NEW q \in Opens, ReadFact(t, q),
           UNCHANGED <<image, kfile>>,
           worker'[t].op = worker[t].op, worker'[t].o = worker[t].o,
           worker'[t].want = worker[t].want,
           worker'[t].buf = worker[t].buf, worker'[t].size = worker[t].size,
           worker'[t].pc = "reply" => worker[t].pc = "reply"
    PROVE  ReadFact(t, q)'
  <1>1. EntryOf(kfile[q].name)' = EntryOf(kfile[q].name)
    BY SameEntry
  <1>. QED
    BY <1>1 DEF ReadFact

LEMMA ReadBegins ==
    ASSUME DataInv, Good, NEW t \in Threads, NEW q \in Opens, NEW o \in Opens,
           NEW offset, NEW want \in 1..MaxRead, Read(t, o, offset, want)
    PROVE  ReadFact(t, q)'
  <1>. DEFINE k == kfile[o]
              f == open_file[k.fh]
              e == EntryOf(k.name)
              m == ReadSize(f, want)
              w == [Idle EXCEPT !.op = "read", !.o = o, !.fd = k.fh, !.want = want,
                                !.size = m]
              l == Asked(k, offset)
  <1>0. /\ kfile \in [Opens -> KernelFile] /\ worker \in [Threads -> Locals]
        /\ open_file \in [Fds -> Cursor]
    BY DEF DataInv, SerialInv, TypeOK
  <1>1. /\ k.state = "open" /\ worker[t].pc = "idle"
        /\ worker' = [worker EXCEPT ![t] =
              [w EXCEPT !.pc = IF w.size = 0 THEN "reply" ELSE "copy"]]
        /\ kfile' = [Disturbed(o) EXCEPT ![o] = Asked(Disturbed(o)[o], offset)]
        /\ image' = image
    BY DEF Read, Loop, Goto, In
  <1>. HIDE DEF m
  <1>2. /\ worker'[t].op = "read" /\ worker'[t].want = want
        /\ worker'[t].buf = <<>> /\ worker'[t].size = m /\ worker'[t].o = o
        /\ worker'[t].pc = "reply" => m = 0
    BY <1>0, <1>1 DEF Idle
  <1>3. kfile'[o] = l /\ k \in KernelFile /\ f \in Cursor
    BY <1>0, <1>1, DisturbedFacts DEF KernelFile
  <1>4. /\ l.alone = k.alone /\ l.name = k.name
        /\ l.in_order => k.in_order /\ l.data = k.data
    BY <1>3 DEF KernelFile, Asked, InOrder
  <1>. HIDE DEF l
  <1>5. CASE q # o \/ ~(l.alone /\ l.in_order)
    BY <1>2, <1>3, <1>5 DEF ReadFact
  <1>6. CASE q = o /\ l.alone /\ l.in_order
    <2>1. worker[t].buf = <<>> /\ k.data \in Seq(Byte)
      BY <1>1, <1>3 DEF DataInv, SerialInv, InCallback, KernelFile
    <2>2. ReadSoFar(t, o) = Len(k.data)
      BY <2>1 DEF ReadSoFar
    <2>3. f.n_bytes_remaining = e.size - Len(k.data)
      BY <1>1, <1>4, <1>6, <2>2 DEF DataInv, OwnFile, StandsAt
    <2>4. f.n_bytes_remaining \in Nat
      BY <1>3, FatAssumption DEF Cursor
    <2>5. m = Min2(want, e.size - Len(k.data)) /\ m \in Nat
      BY <2>3, <2>4 DEF ReadSize, Min2, m
    <2>6. EntryOf(kfile[q].name)' = e
      BY <1>1, <1>3, <1>4, <1>6, SameEntry
    <2>. QED
      BY <1>2, <1>3, <1>4, <1>6, <2>5, <2>6 DEF ReadFact
  <1>. QED
    BY <1>5, <1>6

\* A chain ends no earlier than its file: what is left of it then fits the copy.
LEMMA ChainEndsLast ==
    ASSUME DataInv, Good, NEW t \in Threads, NEW q \in Opens,
           worker[t].op = "read", worker[t].o = q,
           kfile[q].alone, kfile[q].in_order,
           NEW f \in Cursor, f = open_file[worker[t].fd],
           NEW m \in Nat, m = worker[t].n, m <= f.n_bytes_remaining, 0 < m,
           f.current_offset_in_cluster + m <= ClusterSize, CopyToEndOfChain(t)
    PROVE  f.n_bytes_remaining <= m
  <1>. DEFINE v == worker[t]
              k == kfile[q]
              n == k.name
              e == EntryOf(n)
              p == ReadSoFar(t, q)
              c == f.current_cluster
              off == f.current_offset_in_cluster
  <1>1. k.state = "reading" /\ v.fd = k.fh
    BY DEF DataInv, SerialInv, InStep
  <1>2. n \in Names /\ Visible(n) /\ StandsAt(f, n, p)
    BY <1>1 DEF DataInv, OwnFile
  <1>3. p \in Nat
    <2>1. k.data \in Seq(Byte) /\ v.buf \in Seq(Byte)
      BY DEF DataInv, SerialInv, TypeOK, KernelFile, Locals
    <2>2. PICK a \in Nat, b \in Nat : a = Len(k.data) /\ b = Len(v.buf)
      BY <2>1
    <2>3. p = a + b
      BY <2>2 DEF ReadSoFar
    <2>. QED
      BY <2>3
  <1>4. /\ off \in Nat /\ c \in Nat /\ ClusterSize \in Nat
        /\ f.n_bytes_remaining \in Nat
    BY FatAssumption DEF Cursor
  <1>5. f.n_bytes_remaining = e.size - p /\ HasByteAt(n, p, c, off)
    BY <1>2, <1>4 DEF StandsAt
  <1>6. image \in Images /\ e \in Range(image.dir) /\ IsEntryOf(e, n)
    BY <1>2 DEF DataInv, SerialInv, TypeOK, Visible, EntryOf
  <1>7. e.size \in Nat
    BY <1>2, <1>6, FileFacts
  <1>8. off + m = ClusterSize /\ image.fat[c] = EndOfChain
    BY MovedFacts DEF CopyToEndOfChain, AtEndOfCluster
  <1>9. ~(p + m < e.size)
    BY <1>2, <1>3, <1>4, <1>5, <1>6, <1>8, NextBytes
  <1>. HIDE DEF p, e
  <1>. QED
    BY <1>3, <1>4, <1>5, <1>7, <1>9

\* At the end of the chain, too, everything has been copied.
LEMMA CopyGoesOn ==
    ASSUME OneWorker, ServiceInv, Good, NEW t \in Threads, NEW q \in Opens,
           \/ CopyInCluster(t)
           \/ CopyToNextCluster(t)
           \/ CopyToEndOfChain(t)
    PROVE  ReadFact(t, q)'
  <1>. DEFINE v == worker[t]
              k == kfile[q]
              f == open_file[v.fd]
              n == k.name
              e == EntryOf(n)
  <1>1. DataInv /\ SerialInv /\ ReadFact(t, q)
    BY DEF ServiceInv, DataInv
  <1>2. PICK w \in Locals : \E g \in Cursor : CopiesTo(t, g, w)
    BY <1>1, CopySteps
  <1>3. /\ v.pc = "copy_read"
        /\ w.op = v.op /\ w.o = v.o
        /\ w.buf = v.buf \o Bytes(img_pos, v.n)
        /\ w.size = v.size - v.n
        /\ worker' = [worker EXCEPT ![t] = w]
        /\ UNCHANGED <<image, kfile>>
    BY <1>2 DEF CopiesTo
  <1>4. /\ v \in Locals /\ v.fd \in Fds /\ f \in Cursor /\ k \in KernelFile
        /\ image \in Images /\ img_pos \in Byte /\ worker \in [Threads -> Locals]
    BY <1>1 DEF SerialInv, TypeOK, Locals
  <1>a. worker'[t] = w /\ kfile'[q] = k
    BY <1>3, <1>4
  <1>b. CASE v.o # q \/ ~(k.alone /\ k.in_order)
    BY <1>3, <1>a, <1>b DEF ReadFact
  <1>. SUFFICES ASSUME v.o = q, k.alone, k.in_order
                PROVE  ReadFact(t, q)'
    BY <1>b
  <1>5. v.op = "read" /\ v.size > 0 /\ k.state = "reading" /\ v.fd = k.fh
    BY <1>1, <1>3 DEF SerialInv, InCallback, InStep
  <1>6. v.size <= f.n_bytes_remaining /\ v.n = Chunk(v, f)
    BY <1>1, <1>3 DEF SerialInv, CursorsLive
  <1>7. v.n \in 1..v.size /\ f.current_offset_in_cluster + v.n <= ClusterSize
    BY <1>4, <1>5, <1>6, ChunkFacts
  <1>8. v.size \in Nat /\ v.n \in Nat /\ v.buf \in Seq(Byte)
    BY <1>4 DEF Locals
  <1>9. Len(w.buf) + w.size = Len(v.buf) + v.size
    <2>1. Bytes(img_pos, v.n) \in Seq(Byte) /\ Len(Bytes(img_pos, v.n)) = v.n
      BY <1>4, <1>8, BytesType
    <2>2. PICK a \in Seq(Byte), b \in Seq(Byte) :
             a = v.buf /\ b = Bytes(img_pos, v.n)
      BY <1>8, <2>1
    <2>3. w.buf = a \o b /\ Len(a \o b) = Len(a) + Len(b)
      BY <1>3, <2>2
    <2>. QED
      BY <1>3, <1>8, <2>1, <2>2, <2>3
  <1>10. worker'[t] = w
    BY <1>3, <1>4
  <1>11. w.want = v.want /\ (w.pc = "reply" => w.size = 0)
    <2>1. PICK b, s :
             /\ Copied(v) = [v EXCEPT !.buf = b, !.size = s, !.n = 0]
             /\ s = v.size - v.n
      BY <1>4 DEF Copied
    <2>2. ASSUME NEW x, w = [Copied(v) EXCEPT !.pc = x]
          PROVE  w.want = v.want /\ w.pc = x
      <3>1. w = [v EXCEPT !.buf = b, !.size = s, !.n = 0, !.pc = x]
        BY <1>4, <2>1, <2>2 DEF Locals
      <3>. QED
        BY <1>4, <3>1 DEF Locals
    <2>3. Copied(v).size = s
      BY <1>4, <2>1 DEF Locals
    <2>4. CASE CopyInCluster(t) \/ CopyToNextCluster(t)
      <3>1. w = [Copied(v) EXCEPT !.pc = IF s = 0 THEN "reply" ELSE "copy"]
        BY <1>4, <1>10, <2>3, <2>4 DEF CopyInCluster, CopyToNextCluster, Loop, Goto
      <3>2. s = 0 \/ w.pc = "copy"
        BY <2>2, <3>1
      <3>. QED
        BY <1>3, <2>1, <2>2, <3>1, <3>2
    <2>5. CASE CopyToEndOfChain(t)
      <3>1. w = [Copied(v) EXCEPT !.pc = "reply"]
        BY <1>4, <1>10, <2>5 DEF CopyToEndOfChain, Return, Goto
      <3>2. w.want = v.want
        BY <2>2, <3>1
      <3>3. w.size = 0
        <4>1. PICK g \in Cursor, m \in Nat, z \in Nat :
                 g = f /\ m = v.n /\ z = v.size
          BY <1>4, <1>8
        <4>2. g.n_bytes_remaining \in Nat
          BY FatAssumption DEF Cursor
        <4>3. z <= g.n_bytes_remaining /\ m \in 1..z
          BY <1>6, <1>7, <4>1
        <4>4. g.n_bytes_remaining <= m
          BY <1>1, <1>5, <1>7, <2>5, <4>1, <4>2, <4>3, ChainEndsLast
        <4>. QED
          BY <1>3, <4>1, <4>2, <4>3, <4>4
      <3>. QED
        BY <3>2, <3>3
    <2>. QED
      BY <2>4, <2>5
  <1>12. EntryOf(kfile[q].name)' = e /\ kfile'[q] = k
    BY <1>3, SameEntry
  <1>. QED
    BY <1>1, <1>5, <1>9, <1>10, <1>11, <1>12 DEF ReadFact

LEMMA ServiceStep ==
    ASSUME OneWorker, ServiceInv, [Next]_vars
    PROVE  ServiceInv'
  <1>1. DataInv'
    BY DataStep DEF ServiceInv
  <1>2. SerialInv /\ worker \in [Threads -> Locals]
    BY DEF ServiceInv, DataInv, SerialInv, TypeOK
  <1>3. ASSUME Good, NEW t \in Threads, NEW q \in Opens
        PROVE  ReadFact(t, q)'
    <2>1. ReadFact(t, q) /\ worker[t] \in Locals
      BY <1>2, <1>3 DEF ServiceInv
    <2>2. \A u \in Threads : u = t
      BY DEF OneWorker
    <2>3. ASSUME worker'[t].op # "read"
          PROVE  ReadFact(t, q)'
      BY <2>3 DEF ReadFact
    <2>4. CASE UNCHANGED vars
      BY <2>1, <2>4, KeepsRead DEF vars
    <2>5. ASSUME Request(t)
          PROVE  ReadFact(t, q)'
      <3>1. ASSUME NEW o \in Opens, NEW offset \in 0..(Word - 1),
                   NEW want \in 1..MaxRead, Read(t, o, offset, want)
            PROVE  ReadFact(t, q)'
        BY <1>3, <3>1, ReadBegins DEF ServiceInv
      <3>2. ASSUME NEW o \in Opens, Release(t, o)
            PROVE  ReadFact(t, q)'
        BY <1>2, <2>3, <3>2 DEF Release, In, SerialInv, InCallback
      <3>3. ASSUME \/ \E n \in Paths : GetAttr(t, n)
                   \/ GetAttrTop(t)
                   \/ \E n \in Names \cup {Top} : ReadDir(t, n)
            PROVE  ReadFact(t, q)'
        <4>1. PICK w \in Locals : Asks(t, w)
          BY <3>3, AskSteps
        <4>2. worker'[t].op # "read"
          BY <1>2, <4>1 DEF Asks
        <4>. QED
          BY <2>3, <4>2
      <3>4. ASSUME NEW o \in Opens, NEW n \in Paths, Open(t, o, n)
            PROVE  ReadFact(t, q)'
        <4>1. worker'[t].op # "read"
          BY <1>2, <3>4 DEF Open, Start, Goto, Idle
        <4>. QED
          BY <2>3, <4>1
      <3>. QED
        BY <2>5, <3>1, <3>2, <3>3, <3>4 DEF Request
    <2>6. ASSUME Callback(t)
          PROVE  ReadFact(t, q)'
      <3>1. CASE \/ SeekDirectory(t)
                 \/ ListEntry(t)
                 \/ SkipEntry(t)
                 \/ FoundAttr(t)
                 \/ ScanEnds(t)
        <4>1. PICK w \in Locals : WalksOn(t, w)
          BY <1>2, <3>1, ScanSteps
        <4>2. worker'[t].op # "read"
          BY <1>2, <4>1 DEF WalksOn, SerialInv, InCallback
        <4>. QED
          BY <2>3, <4>2
      <3>2. CASE FoundOpen(t)
        <4>. DEFINE p == Parsed(worker[t], EntryAt(img_pos))
        <4>1. worker'[t] = [p EXCEPT !.pc = "reply"] /\ p.op = "open"
          BY <1>2, <3>2 DEF FoundOpen, Return, Goto
        <4>3. p \in Locals
          BY <1>2, <2>1, ParsedFacts DEF SerialInv, TypeOK
        <4>. HIDE DEF p
        <4>2. worker'[t].op = "open"
          BY <4>1, <4>3 DEF Locals
        <4>. QED
          BY <2>3, <4>2
      <3>3. CASE SeekData(t)
        <4>1. PICK n : worker'[t] = [worker[t] EXCEPT !.pc = "copy_read", !.n = n]
          BY <1>2, <3>3 DEF SeekData, Goto
        <4>2. /\ worker'[t].op = worker[t].op /\ worker'[t].want = worker[t].want
              /\ worker'[t].o = worker[t].o
              /\ worker'[t].buf = worker[t].buf /\ worker'[t].size = worker[t].size
              /\ worker'[t].pc = "copy_read"
          BY <2>1, <4>1 DEF Locals
        <4>3. UNCHANGED <<image, kfile>>
          BY <3>3 DEF SeekData
        <4>. QED
          BY <2>1, <4>2, <4>3, KeepsRead
      <3>4. CASE Abort(t)
        <4>1. worker'[t] = [worker[t] EXCEPT !.pc = "aborted"]
          BY <3>4 DEF Abort
        <4>2. /\ worker'[t].op = worker[t].op /\ worker'[t].want = worker[t].want
              /\ worker'[t].o = worker[t].o
              /\ worker'[t].buf = worker[t].buf /\ worker'[t].size = worker[t].size
              /\ worker'[t].pc = "aborted"
          BY <2>1, <4>1 DEF Locals
        <4>3. UNCHANGED <<image, kfile>>
          BY <3>4 DEF Abort
        <4>. QED
          BY <2>1, <4>2, <4>3, KeepsRead
      <3>5. CASE ReplyInfo(t) \/ ReplyOpen(t) \/ ReplyRead(t)
        BY <1>2, <2>3, <3>5 DEF ReplyInfo, ReplyOpen, ReplyRead, Goto, Idle
      <3>. QED
        BY <1>3, <2>6, <3>1, <3>2, <3>3, <3>4, <3>5, CopyGoesOn DEF Callback
    <2>. QED
      BY <2>2, <2>4, <2>5, <2>6 DEF Next
  <1>4. UNCHANGED image
    BY ImageStays
  <1>5. Good' => Good
    BY <1>4, SameImage
  <1>. QED
    BY <1>1, <1>3, <1>5 DEF ServiceInv

LEMMA Service == OneWorker => (Spec => []ServiceInv)
  <1>. SUFFICES ASSUME OneWorker
                PROVE  Spec => []ServiceInv
    OBVIOUS
  <1>1. Init => ServiceInv
    BY DataInit DEF ServiceInv, Init, Idle, ReadFact
  <1>2. ServiceInv /\ [Next]_vars => ServiceInv'
    BY ServiceStep
  <1>. QED
    BY <1>1, <1>2, PTL DEF Spec

\* The files there are do not change.
LEMMA SameContents ==
    ASSUME UNCHANGED image
    PROVE  UNCHANGED Contents
  BY DEF Contents, Good, Visible, Content, EntryOf

\* Steps the application sees nothing of.
LEMMA NothingSeen ==
    ASSUME UNCHANGED image,
           \A o \in Opens : IsOpen(o) => /\ kfile'[o].name = kfile[o].name
                                         /\ kfile'[o].data = kfile[o].data
                                         /\ kfile'[o].eof = kfile[o].eof,
           \A o \in Opens : IsOpen(o)' <=> IsOpen(o)
    PROVE  UNCHANGED Files!fvars
  <1>1. UNCHANGED Contents
    BY SameContents
  <1>2. UNCHANGED OpenedFile /\ UNCHANGED DataRead /\ UNCHANGED EndSeen
    BY DEF OpenedFile, DataRead, EndSeen
  <1>. QED
    BY <1>1, <1>2 DEF Files!fvars

\* A step after which one file fewer is open, or as many as before.
LEMMA SeesClosing ==
    ASSUME ServiceInv, UNCHANGED image,
           \A o \in Opens : IsOpen(o)' =>
              /\ IsOpen(o)
              /\ kfile'[o].name = kfile[o].name
              /\ kfile'[o].data = kfile[o].data
              /\ kfile'[o].eof = kfile[o].eof
    PROVE  Files!Next \/ UNCHANGED Files!fvars
  <1>1. CASE \A o \in Opens : IsOpen(o)' <=> IsOpen(o)
    BY <1>1, NothingSeen
  <1>2. ASSUME NEW q \in Opens, IsOpen(q), ~IsOpen(q)'
        PROVE  Files!Next
    <2>1. \A o \in Opens : (IsOpen(o) => o = q) /\ ~IsOpen(o)'
      <3>1. \A o \in Opens : IsOpen(o) => kfile[o].alone
        BY DEF IsOpen
      <3>2. \A o \in Opens : IsOpen(o) => o = q
        BY <1>2, <3>1 DEF ServiceInv, DataInv, SerialInv
      <3>. QED
        BY <1>2, <3>2
    <2>2. kfile[q].name \in Names
      BY <1>2, FatAssumption DEF ServiceInv, DataInv, OwnFile, IsOpen
    <2>3. /\ OpenedFile[q] # Free
          /\ OpenedFile' = [OpenedFile EXCEPT ![q] = Free]
      <3>1. kfile[q].name # Free
        BY <2>2, FatAssumption DEF Paths
      <3>. QED
        BY <1>2, <2>1, <3>1 DEF OpenedFile
    <2>4. DataRead' = [DataRead EXCEPT ![q] = <<>>]
      BY <1>2, <2>1 DEF DataRead
    <2>5. EndSeen' = [EndSeen EXCEPT ![q] = FALSE]
      BY <1>2, <2>1 DEF EndSeen
    <2>6. Files!Close(q)
      BY <2>3, <2>4, <2>5, SameContents DEF Files!Close
    <2>. QED
      BY <2>6 DEF Files!Next
  <1>. QED
    BY <1>1, <1>2

LEMMA SeesOpen ==
    ASSUME OneWorker, ServiceInv, NEW t \in Threads, ReplyOpen(t)
    PROVE  Files!Next \/ UNCHANGED Files!fvars
  <1>. DEFINE v == worker[t]
              ok == [kfile[v.o] EXCEPT !.state = "open", !.name = v.name,
                                       !.fh = v.fd]
              k == IF v.res = "ok" THEN ok ELSE Closed
  <1>1. /\ v.pc = "reply" /\ v.op = "open" /\ image' = image
    BY DEF ReplyOpen, In
  <1>2. DataInv /\ kfile \in [Opens -> KernelFile]
    BY DEF ServiceInv, DataInv, SerialInv, TypeOK
  <1>3. v.o \in Opens
    BY <1>1, <1>2 DEF DataInv, SerialInv, InCallback
  <1>4. kfile' = [kfile EXCEPT ![v.o] = k]
    BY <1>2, <1>3 DEF ReplyOpen
  <1>. PICK q \in Opens : q = v.o
    BY <1>3
  <1>5. /\ kfile'[q] = k /\ kfile[q].state = "opening"
        /\ kfile[q].alone /\ kfile[q].in_order
        /\ \A o \in Opens \ {q} : kfile'[o] = kfile[o] /\ ~kfile[o].alone
    <2>1. /\ kfile'[q] = k
          /\ \A o \in Opens \ {q} : kfile'[o] = kfile[o]
      BY <1>2, <1>4
    <2>2. \A o \in Opens : InStep(t, o)
      BY <1>2 DEF DataInv, SerialInv
    <2>. HIDE DEF k
    <2>3. /\ kfile[q].state = "opening" /\ kfile[q].alone /\ kfile[q].in_order
      BY <1>1, <2>2 DEF InStep
    <2>4. \A o \in Opens \ {q} : ~kfile[o].alone
      BY <1>1, <2>2 DEF InStep
    <2>. QED
      BY <2>1, <2>3, <2>4
  <1>6. /\ v.res = "ok" => /\ k.name = v.name /\ k.state = "open"
                           /\ k.alone /\ k.in_order
                           /\ k.data = kfile[q].data /\ k.eof = kfile[q].eof
        /\ v.res # "ok" => k.state = "closed"
    BY <1>2, <1>5, ZenonT(60) DEF Closed, KernelFile
  <1>. HIDE DEF k
  <1>7. (Good' <=> Good) /\ \A o \in Opens : ~IsOpen(o)
    BY <1>1, <1>5, SameImage DEF IsOpen
  <1>8. \A o \in Opens \ {q} : ~IsOpen(o)'
    BY <1>5 DEF IsOpen
  <1>9. CASE v.res = "ok" /\ Good
    <2>1. v.name \in Names /\ Visible(v.name) /\ k.data = <<>>
      BY <1>1, <1>2, <1>5, <1>6, <1>9 DEF DataInv, OwnFile, Opened
    <2>2. IsOpen(q)'
      BY <1>5, <1>6, <1>7, <1>9 DEF IsOpen
    <2>3. v.name \in DOMAIN Contents
      BY <1>9, <2>1 DEF Contents
    <2>4. /\ OpenedFile[q] = Free
          /\ OpenedFile' = [OpenedFile EXCEPT ![q] = v.name]
      BY <1>5, <1>6, <1>7, <1>8, <1>9, <2>2 DEF OpenedFile
    <2>5. DataRead' = [DataRead EXCEPT ![q] = <<>>]
      BY <1>5, <1>7, <1>8, <2>1, <2>2 DEF DataRead
    <2>6. EndSeen' = [EndSeen EXCEPT ![q] = FALSE]
      <3>1. ~k.eof
        BY <1>2, <1>5, <1>6, <1>9 DEF DataInv, OwnFile
      <3>. QED
        BY <1>5, <1>7, <1>8, <2>2, <3>1 DEF EndSeen
    <2>7. Files!Open(q)
      BY <1>1, <2>3, <2>4, <2>5, <2>6, SameContents DEF Files!Open
    <2>. QED
      BY <2>7 DEF Files!Next
  <1>10. CASE v.res # "ok" \/ ~Good
    <2>1. \A o \in Opens : ~IsOpen(o)'
      BY <1>5, <1>6, <1>7, <1>8, <1>10 DEF IsOpen
    <2>. QED
      BY <1>1, <2>1, SeesClosing
  <1>. QED
    BY <1>9, <1>10

LEMMA SeesClose ==
    ASSUME ServiceInv, NEW t \in Threads, NEW q \in Opens, Release(t, q)
    PROVE  Files!Next \/ UNCHANGED Files!fvars
  <1>1. image' = image /\ kfile' = [kfile EXCEPT ![q] = Closed]
    BY DEF Release
  <1>2. kfile \in [Opens -> KernelFile]
    BY DEF ServiceInv, DataInv, SerialInv, TypeOK
  <1>3. \A o \in Opens : IF o = q THEN kfile'[o].state = "closed"
                         ELSE kfile'[o] = kfile[o]
    BY <1>1, <1>2 DEF Closed
  <1>4. \A o \in Opens : IsOpen(o)' => IsOpen(o) /\ kfile'[o] = kfile[o]
    BY <1>1, <1>3, SameImage DEF IsOpen
  <1>. QED
    BY <1>1, <1>4, SeesClosing

\* A read returns what was asked for, or the rest of the file.
LEMMA SeesRead ==
    ASSUME OneWorker, ServiceInv, NEW t \in Threads, ReplyRead(t)
    PROVE  Files!Next \/ UNCHANGED Files!fvars
  <1>. DEFINE v == worker[t]
              k == kfile[v.o]
              a == Answer(k, v)
  <1>1. /\ v.pc = "reply" /\ v.op = "read"
        /\ kfile' = [kfile EXCEPT ![v.o] = a]
        /\ image' = image
    BY DEF ReplyRead, In
  <1>2. /\ DataInv /\ kfile \in [Opens -> KernelFile] /\ v \in Locals
        /\ image \in Images
    BY DEF ServiceInv, DataInv, SerialInv, TypeOK
  <1>. PICK q \in Opens : q = v.o
    BY <1>1, <1>2 DEF DataInv, SerialInv, InCallback
  <1>3. /\ kfile'[q] = a /\ k.state = "reading" /\ k \in KernelFile
        /\ \A o \in Opens \ {q} : kfile'[o] = kfile[o] /\ ~kfile[o].alone
    BY <1>1, <1>2 DEF DataInv, SerialInv, InStep
  <1>4. PICK n, d, b, want, l :
           /\ n = k.name /\ d = k.data
           /\ b = v.buf /\ want = v.want /\ l = (Len(b) < want)
    OBVIOUS
  <1>5. d \in Seq(Byte) /\ b \in Seq(Byte) /\ want \in Nat
    BY <1>2, <1>3, <1>4 DEF KernelFile, Locals
  <1>6. /\ a.state = "open" /\ a.name = n /\ a.eof = l
        /\ a.alone = k.alone /\ a.in_order = Kept(k)
        /\ Kept(k) => a.data = d \o b
    BY <1>3, <1>4 DEF KernelFile, Answer
  <1>. HIDE DEF a
  <1>7. \A o \in Opens \ {q} : ~IsOpen(o) /\ ~IsOpen(o)'
    BY <1>3 DEF IsOpen
  <1>8. (IsOpen(q) <=> Good /\ Kept(k)) /\ (IsOpen(q)' <=> Good /\ Kept(k))
    BY <1>1, <1>3, <1>6, SameImage DEF IsOpen, Kept
  <1>9. CASE Good /\ Kept(k)
    <2>. DEFINE C == Content(n)
                s == EntryOf(n).size
    <2>1. n \in Names /\ Visible(n) /\ OwnBytes(n, Len(d), b)
      BY <1>2, <1>3, <1>4, <1>9 DEF DataInv, OwnFile, Kept
    <2>2. s \in Nat /\ Len(C) = s
      BY <1>2, <1>9, <2>1, ContentFacts
    <2>3. want \in 1..MaxRead /\ Len(b) = Min2(want, s - Len(d))
      <3>1. ReadFact(t, q)
        BY <1>9 DEF ServiceInv
      <3>2. Len(b) + 0 = Min2(want, s - Len(d)) /\ want \in 1..MaxRead
        BY <1>1, <1>4, <1>9, <3>1 DEF ReadFact, Kept
      <3>3. Len(b) \in Nat
        BY <1>5
      <3>. QED
        BY <3>2, <3>3
    <2>4. PICK x \in Nat, m \in Nat : x = Len(d) /\ m = Len(b)
      BY <1>5
    <2>5. /\ x + m <= s
          /\ m = IF want <= s - x THEN want ELSE s - x
          /\ l = (m < want)
      <3>1. m = IF want <= s - x THEN want ELSE s - x
        BY <2>3, <2>4, Zenon DEF Min2
      <3>2. l = (m < want)
        BY <1>4, <2>4, Zenon
      <3>. HIDE DEF s
      <3>3. s \in Nat /\ want \in Nat
        BY <1>5, <2>2
      <3>4. x + m <= s
        BY ONLY <3>1, <3>3, <2>4, x \in Nat, m \in Nat
      <3>. QED
        BY <3>1, <3>2, <3>4
    <2>6. b = SubSeq(C, x + 1, x + m)
      BY <1>2, <1>5, <1>9, <2>1, <2>4, <2>5, OwnPiece
    <2>. HIDE DEF C, s
    <2>7. OpenedFile[q] = n /\ UNCHANGED OpenedFile /\ n # Free
      <3>1. n # Free
        BY <2>1, FatAssumption DEF Paths
      <3>2. OpenedFile'[q] = OpenedFile[q] /\ OpenedFile[q] = n
        BY <1>3, <1>4, <1>6, <1>8, <1>9 DEF OpenedFile
      <3>3. \A o \in Opens : OpenedFile'[o] = OpenedFile[o]
        BY <1>7, <3>2 DEF OpenedFile
      <3>. QED
        BY <3>1, <3>2, <3>3 DEF OpenedFile
    <2>8. DataRead[q] = d /\ DataRead' = [DataRead EXCEPT ![q] = d \o b]
      BY <1>3, <1>4, <1>6, <1>7, <1>8, <1>9 DEF DataRead
    <2>9. EndSeen' = [EndSeen EXCEPT ![q] = m < want]
      <3>1. l \in BOOLEAN
        BY <1>4
      <3>2. EndSeen'[q] = l
        BY <1>3, <1>6, <1>8, <1>9, <3>1 DEF EndSeen
      <3>3. \A o \in Opens \ {q} : EndSeen'[o] = FALSE /\ EndSeen[o] = FALSE
        BY <1>7 DEF EndSeen
      <3>4. EndSeen' = [o \in Opens |-> EndSeen'[o]] /\ DOMAIN EndSeen = Opens
        BY DEF EndSeen
      <3>5. \A o \in Opens : EndSeen'[o] = [EndSeen EXCEPT ![q] = l][o]
        BY <3>2, <3>3, <3>4
      <3>6. EndSeen' = [EndSeen EXCEPT ![q] = l]
        BY <3>4, <3>5
      <3>. QED
        BY <2>5, <3>6
    <2>10. Contents[n] = C
      BY <1>9, <2>1 DEF Contents, C
    <2>11. Files!Read(q, want)
      BY <1>1, <2>2, <2>4, <2>5, <2>6, <2>7, <2>8, <2>9, <2>10, SameContents
         DEF Files!Read
    <2>. QED
      BY <2>3, <2>11 DEF Files!Next
  <1>10. CASE ~(Good /\ Kept(k))
    <2>1. \A o \in Opens : ~IsOpen(o)'
      BY <1>7, <1>8, <1>10
    <2>. QED
      BY <1>1, <2>1, SeesClosing
  <1>. QED
    BY <1>9, <1>10

LEMMA SeesNothing ==
    ASSUME UNCHANGED <<image, kfile>>
    PROVE  UNCHANGED Files!fvars
  <1>1. \A o \in Opens : IsOpen(o)' <=> IsOpen(o)
    BY SameImage DEF IsOpen
  <1>. QED
    BY <1>1, NothingSeen

\* The service takes it for closing a file that another is opened or read, and that
\* it is asked for out of order.
LEMMA SeesRequest ==
    ASSUME ServiceInv, NEW t \in Threads, Request(t)
    PROVE  Files!Next \/ UNCHANGED Files!fvars
  <1>1. kfile \in [Opens -> KernelFile]
    BY DEF ServiceInv, DataInv, SerialInv, TypeOK
  <1>2. ASSUME NEW q \in Opens, NEW n \in Paths, Open(t, q, n)
        PROVE  Files!Next \/ UNCHANGED Files!fvars
    <2>1. image' = image
      BY <1>2 DEF Open
    <2>2. \A o \in Opens : ~IsOpen(o)'
      <3>1. kfile'[q].state = "opening"
        BY <1>1, <1>2, DisturbedFacts DEF Open, KernelFile
      <3>2. ASSUME NEW o \in Opens \ {q}
            PROVE  ~kfile'[o].alone
        <4>1. kfile'[o] = Disturbed(q)[o]
          BY <1>1, <1>2, <3>2, DisturbedFacts DEF Open
        <4>. QED
          BY <1>1, <3>2, <4>1, DisturbedOther
      <3>. QED
        BY <3>1, <3>2 DEF IsOpen
    <2>. QED
      BY <2>1, <2>2, SeesClosing
  <1>3. ASSUME NEW q \in Opens, NEW offset, NEW want, Read(t, q, offset, want)
        PROVE  Files!Next \/ UNCHANGED Files!fvars
    <2>. DEFINE l == Asked(kfile[q], offset)
    <2>1. image' = image /\ kfile[q].state = "open"
          /\ kfile' = [Disturbed(q) EXCEPT ![q] = Asked(Disturbed(q)[q], offset)]
      BY <1>3 DEF Read
    <2>2. kfile'[q] = l /\ kfile[q] \in KernelFile
      BY <1>1, <2>1, DisturbedFacts
    <2>3. /\ l.alone = kfile[q].alone /\ l.name = kfile[q].name
          /\ l.eof = kfile[q].eof
          /\ l.in_order => kfile[q].in_order /\ l.data = kfile[q].data
      BY <2>2 DEF KernelFile, Asked, InOrder
    <2>. HIDE DEF l
    <2>4. ASSUME NEW o \in Opens \ {q}
          PROVE  ~IsOpen(o)'
      <3>1. kfile'[o] = Disturbed(q)[o]
        BY <1>1, <2>1, <2>4, DisturbedFacts
      <3>. QED
        BY <1>1, <2>4, <3>1, DisturbedOther DEF IsOpen
    <2>5. IsOpen(q)' => IsOpen(q) /\ l.in_order
      BY <2>1, <2>2, <2>3, SameImage DEF IsOpen
    <2>6. \A o \in Opens : IsOpen(o)' =>
             /\ IsOpen(o)
             /\ kfile'[o].name = kfile[o].name
             /\ kfile'[o].data = kfile[o].data
             /\ kfile'[o].eof = kfile[o].eof
      BY <2>2, <2>3, <2>4, <2>5
    <2>. QED
      BY <2>1, <2>6, SeesClosing
  <1>4. ASSUME \/ \E n \in Paths : GetAttr(t, n)
               \/ GetAttrTop(t)
               \/ \E n \in Names \cup {Top} : ReadDir(t, n)
        PROVE  UNCHANGED Files!fvars
    BY <1>4, AskSteps, SeesNothing DEF Asks
  <1>. QED
    BY <1>2, <1>3, <1>4, SeesClose DEF Request

LEMMA FileServiceStep ==
    ASSUME OneWorker, ServiceInv, [Next]_vars
    PROVE  Files!Next \/ UNCHANGED Files!fvars
  <1>1. CASE UNCHANGED vars
    BY <1>1, SeesNothing DEF vars
  <1>2. ASSUME NEW t \in Threads, Callback(t)
        PROVE  Files!Next \/ UNCHANGED Files!fvars
    <2>1. CASE ReplyOpen(t) \/ ReplyRead(t)
      BY <2>1, SeesOpen, SeesRead
    <2>2. CASE ~(ReplyOpen(t) \/ ReplyRead(t))
      <3>1. UNCHANGED <<image, kfile>>
        BY <1>2, <2>2 DEF Callback, SeekDirectory, ListEntry, SkipEntry, FoundAttr,
           FoundOpen, ScanEnds, SeekData, CopyInCluster, CopyToNextCluster,
           CopyToEndOfChain, Abort, ReplyInfo, ReadEntry, ReadChunk
      <3>. QED
        BY <3>1, SeesNothing
    <2>. QED
      BY <2>1, <2>2
  <1>. QED
    BY <1>1, <1>2, SeesRequest DEF Next

(***************************************************************************)
(* With one callback at a time the driver implements the file service for  *)
(* each open file until another is opened or read or a request comes out   *)
(* of order, which counts as closing it: opening, reading and closing are  *)
(* those of a file system that holds the image's files, and every other    *)
(* step of a callback is invisible.  A read returns the next bytes of the  *)
(* file, all that were asked for up to its size.                           *)
(***************************************************************************)
THEOREM DriverIsFileService == OneWorker => (Spec => ImplementsFileService)
  <1>. SUFFICES ASSUME OneWorker
                PROVE  Spec => ImplementsFileService
    OBVIOUS
  <1>1. Init => Files!Init
    <2>. SUFFICES ASSUME Init
                  PROVE  Files!Init
      OBVIOUS
    <2>1. \A o \in Opens : ~IsOpen(o)
      BY DEF Init, IsOpen, Closed
    <2>. QED
      BY <2>1 DEF Files!Init, Contents, OpenedFile, DataRead, EndSeen
  <1>2. ServiceInv /\ [Next]_vars => [Files!Next]_Files!fvars
    BY FileServiceStep
  <1>. QED
    BY <1>1, <1>2, Service, PTL DEF Spec, ImplementsFileService, Files!Spec

--------------------------------------------------------------------------------
(* The table of the image *)

\* read_fat_entry takes the two entries apart that share three bytes.
LEMMA PairReadBack ==
    ASSUME NEW entries \in [Nat -> Bits12], NEW j \in Nat
    PROVE  /\ ReadFatEntry(Packed(entries), 2 * j) = entries[2 * j]
           /\ ReadFatEntry(Packed(entries), 2 * j + 1) = entries[2 * j + 1]
<1>1. 2 * j \in Nat /\ 2 * j + 1 \in Nat
  OBVIOUS
<1>2. entries[2 * j] \in Bits12 /\ entries[2 * j + 1] \in Bits12
  BY <1>1
<1>3. /\ Packed(entries)[3 * j] = entries[2 * j] % 256
      /\ Packed(entries)[3 * j + 1]
            = entries[2 * j] \div 256 + 16 * (entries[2 * j + 1] % 16)
      /\ Packed(entries)[3 * j + 2] = entries[2 * j + 1] \div 16
  <2>1. 3 * j \in Nat /\ (3 * j) \div 3 = j /\ (3 * j) % 3 = 0
    OBVIOUS
  <2>2. 3 * j + 1 \in Nat /\ (3 * j + 1) \div 3 = j /\ (3 * j + 1) % 3 = 1
    OBVIOUS
  <2>3. 3 * j + 2 \in Nat /\ (3 * j + 2) \div 3 = j /\ (3 * j + 2) % 3 = 2
    OBVIOUS
  <2>4. Packed(entries)[3 * j] = entries[2 * j] % 256
    BY <2>1 DEF Packed
  <2>5. Packed(entries)[3 * j + 1]
            = entries[2 * j] \div 256 + 16 * (entries[2 * j + 1] % 16)
    BY <2>2 DEF Packed
  <2>6. Packed(entries)[3 * j + 2] = entries[2 * j + 1] \div 16
    BY <2>3 DEF Packed
  <2>7. QED
    BY <2>4, <2>5, <2>6
<1>4. /\ (2 * j * 3) \div 2 = 3 * j /\ ((2 * j + 1) * 3) \div 2 = 3 * j + 1
      /\ (2 * j) % 2 # 1 /\ (2 * j + 1) % 2 = 1
      /\ (3 * j + 1) + 1 = 3 * j + 2
  OBVIOUS
<1>5. ASSUME NEW a \in Bits12, NEW b \in Bits12
      PROVE  /\ (a % 256) + 256 * ((a \div 256 + 16 * (b % 16)) % 16) = a
             /\ (a \div 256 + 16 * (b % 16)) \div 16 + 16 * (b \div 16) = b
  BY DEF Bits12
<1>6. ReadFatEntry(Packed(entries), 2 * j) = entries[2 * j]
  BY <1>2, <1>3, <1>4, <1>5 DEF ReadFatEntry
<1>7. ReadFatEntry(Packed(entries), 2 * j + 1) = entries[2 * j + 1]
  <2>1. ReadFatEntry(Packed(entries), 2 * j + 1)
            = Packed(entries)[3 * j + 1] \div 16 + 16 * Packed(entries)[3 * j + 2]
    BY <1>4 DEF ReadFatEntry
  <2>2. QED
    BY <1>2, <1>3, <1>5, <2>1
<1>8. QED
  BY <1>6, <1>7

\* Whatever 12-bit entries a formatter packs into the table of the image,
\* read_fat_entry (fuse_fat_solution.c:85-92) returns each of them: the links
\* the driver follows are those of the image.
THEOREM TableReadBack ==
    ASSUME NEW entries \in [Nat -> Bits12], NEW n \in Nat
    PROVE  ReadFatEntry(Packed(entries), n) = entries[n]
<1>1. PICK j \in Nat : n = 2 * j \/ n = 2 * j + 1
  <2>1. n \div 2 \in Nat /\ (n = 2 * (n \div 2) \/ n = 2 * (n \div 2) + 1)
    OBVIOUS
  <2>2. QED
    BY <2>1
<1>2. /\ ReadFatEntry(Packed(entries), 2 * j) = entries[2 * j]
      /\ ReadFatEntry(Packed(entries), 2 * j + 1) = entries[2 * j + 1]
  BY PairReadBack
<1>3. QED
  BY <1>1, <1>2
================================================================================
