------------------------------- MODULE FatDriver -------------------------------
(***************************************************************************)
(* The FAT12 driver, src/07_filesystems/fuse_fat_solution.c.               *)
(*                                                                         *)
(* libfuse hands the kernel's requests to worker threads; each runs one    *)
(* callback at a time.  The workers share the table of open files and one  *)
(* descriptor of the image, whose position every seek_img and read_img     *)
(* moves.  A step of the model is what a callback does up to and including *)
(* the next of these system calls, which is exact for a single worker, as  *)
(* with libfuse's option -s; of several workers it leaves out the          *)
(* interleavings in between.                                               *)
(*                                                                         *)
(* A path is what follows its first slash: the name of an entry of the     *)
(* root directory, or one in Deep, with another slash in it.               *)
(***************************************************************************)
EXTENDS Integers, Sequences, SequencesExt

CONSTANTS
    Threads,        \* the workers libfuse runs callbacks on
    Opens,          \* the open files of the applications (struct file)
    Names,          \* file names
    Deep,           \* the paths of files in subdirectories
    Top,            \* the path of the root directory
    Free,           \* the name of an unused or deleted directory entry
    Images,         \* the image files the driver may be started on
    ClusterSize,    \* bytes_per_cluster
    N_FD,           \* entries of open_file, 3 in the code
    Word,           \* 2^16: the values a uint16_t has
    EndOfChain,     \* 0x0FFF
    MaxRead         \* the most bytes the kernel asks for in one read

Paths == Names \cup Deep

--------------------------------------------------------------------------------
(***************************************************************************)
(* Images: a root directory dir, a file allocation table fat, the last     *)
(* cluster the image file has room for, and, for each file, the chain of   *)
(* clusters it was written to.  The driver has to find the chain itself;   *)
(* only WellFormed and the properties use it.                              *)
(***************************************************************************)

Hiding == {"read_only", "hidden", "system", "volume_id"}

Attributes == Hiding \cup {"directory", "archive"}

Entry == [name : Names \cup {Free}, attr : SUBSET Attributes,
          first : Nat, size : Nat]

\* A table whose entries lead to other entries or end a chain, and a directory
\* that leads into it.
Readable(im) ==
    /\ im.dir \in Seq(Entry)
    /\ im.last \in Nat
    /\ DOMAIN im.fat \subseteq Nat \ {EndOfChain}
    /\ \A c \in DOMAIN im.fat : im.fat[c] \in DOMAIN im.fat \cup {EndOfChain}
    /\ im.chain \in [Names -> Seq(DOMAIN im.fat)]
    /\ \A k \in 1..Len(im.dir) : im.dir[k].first \in DOMAIN im.fat

\* The file's bytes fill the chain of clusters, except for the end of the last.
Holds(chain, e, im) ==
    /\ (Len(chain) - 1) * ClusterSize < e.size
    /\ e.size <= Len(chain) * ClusterSize
    /\ e.size > 0 => e.first = chain[1]
    /\ \A k \in 1..Len(chain) :
          /\ chain[k] \in 2..im.last
          /\ im.fat[chain[k]] =
                IF k = Len(chain) THEN EndOfChain ELSE chain[k + 1]

WellFormed(im) ==
    \A k \in 1..Len(im.dir) : im.dir[k].name \in Names =>
        /\ Holds(im.chain[im.dir[k].name], im.dir[k], im)
        /\ "directory" \in im.dir[k].attr => im.dir[k].size = 0

\* The entry of a file or a directory: a label or a part of a long name has the
\* attribute volume_id.
IsFile(e) == e.name # Free /\ "volume_id" \notin e.attr

UniqueNames(im) ==
    \A j, k \in 1..Len(im.dir) :
        IsFile(im.dir[j]) /\ IsFile(im.dir[k]) /\ im.dir[j].name = im.dir[k].name
            => j = k

ASSUME FatAssumption ==
    /\ ClusterSize \in Nat \ {0}
    /\ Word \in Nat
    /\ ClusterSize < Word
    /\ EndOfChain \in Nat
    /\ N_FD \in Nat \ {0}
    /\ MaxRead \in Nat
    /\ Free \notin Paths
    /\ Names \cap Deep = {}
    /\ Top \notin Paths
    /\ Threads # {}
    /\ \A im \in Images : Readable(im)

Fds == 0..(N_FD - 1)

VARIABLES
    image,          \* the image fat_init opened
    img_pos,        \* the position of img_fd
    open_file,      \* [Fds -> the cursor of an open file]
    worker,         \* [Threads -> the callback the thread is in]
    kfile           \* [Opens -> what the kernel and the application see;
                    \*  data is what was read in order, until another file is
                    \*  opened or read]

vars == <<image, img_pos, open_file, worker, kfile>>

--------------------------------------------------------------------------------
(***************************************************************************)
(* Positions.  A byte of the image is named by its cluster and its offset  *)
(* in it.  The root directory lies right before cluster 2; it is named as  *)
(* cluster Root, and an entry of it counts as a single byte.               *)
(***************************************************************************)

Root == -1

Extent(c) == IF c = Root THEN Len(image.dir) ELSE ClusterSize

\* The byte o bytes after the start of c.
At(c, o) ==
    IF o < Extent(c) THEN <<c, o>>
    ELSE <<IF c = Root THEN 2 ELSE c + 1, o - Extent(c)>>

\* n bytes after position p.
Ahead(p, n) == At(p[1], p[2] + n)

\* What a read of n bytes at p returns.
Bytes(p, n) == [k \in 1..n |-> Ahead(p, k - 1)]

\* The entry's worth of bytes at p; file data is taken for no entry.
EntryAt(p) ==
    IF p[1] = Root /\ p[2] < Len(image.dir) THEN image.dir[p[2] + 1]
    ELSE [name |-> Free, attr |-> {}, first |-> 0, size |-> 0]

\* parse_dir_entry returns true.  Any of the attributes that together mark a
\* long name hides the entry.
Listed(e) == e.name # Free /\ e.attr \cap Hiding = {}

\* st_size, from read_uint32, whose result is a uint16_t.
StSize(e) == IF "directory" \in e.attr THEN 0 ELSE e.size % Word

Stat(e) == [dir |-> "directory" \in e.attr, size |-> StSize(e)]

NoStat == [dir |-> FALSE, size |-> 0]

--------------------------------------------------------------------------------
(* The callbacks *)

Idle == [pc |-> "idle", op |-> "none", o |-> "none", name |-> Free, fd |-> 0,
         i |-> 0, st |-> NoStat, cluster |-> 0, want |-> 0, size |-> 0, n |-> 0,
         buf |-> <<>>, list |-> <<>>, res |-> "ok"]

Closed == [state |-> "closed", name |-> Free, fh |-> 0, data |-> <<>>,
           eof |-> FALSE, alone |-> FALSE, in_order |-> FALSE]

\* fat_init: the header and the table are read before any other request.
Init ==
    /\ image \in Images
    /\ img_pos = <<2, 0>>
    /\ open_file = [fd \in Fds |->
          [is_open |-> FALSE, current_cluster |-> 0,
           current_offset_in_cluster |-> 0, n_bytes_remaining |-> 0]]
    /\ worker = [t \in Threads |-> Idle]
    /\ kfile = [o \in Opens |-> Closed]

In(t, pc) == worker[t].pc = pc

\* Thread t goes on with the locals w.
Goto(t, w) == worker' = [worker EXCEPT ![t] = w]

Start(t, w) == In(t, "idle") /\ Goto(t, w)

Return(t, w) == Goto(t, [w EXCEPT !.pc = "reply"])

(***************************************************************************)
(* fat_getattr, fat_readdir, and fat_open after it has chosen an entry of  *)
(* open_file, walk over the root directory.                                *)
(***************************************************************************)
GetAttr(t, n) ==
    /\ Start(t, [Idle EXCEPT !.pc = "seek", !.op = "getattr", !.name = n])
    /\ UNCHANGED <<image, img_pos, open_file, kfile>>

\* The path is "/".
GetAttrTop(t) ==
    /\ Start(t, [Idle EXCEPT !.pc = "reply", !.op = "getattr", !.name = Top,
                             !.st.dir = TRUE])
    /\ UNCHANGED <<image, img_pos, open_file, kfile>>

FreeFds == {fd \in Fds : ~open_file[fd].is_open}

\* The kernel opens what fat_getattr says is no directory.
IsDirectory(n) ==
    \E e \in Range(image.dir) :
        Listed(e) /\ e.name = n /\ "directory" \in e.attr

\* The root directory is read, whatever directory n is asked for.
ReadDir(t, n) ==
    /\ n = Top \/ IsDirectory(n)
    /\ Start(t, [Idle EXCEPT !.pc = "seek", !.op = "readdir", !.name = n])
    /\ UNCHANGED <<image, img_pos, open_file, kfile>>

\* What the kernel knows of the open files when o is opened or read: no other
\* file has been left alone since it was opened.
Disturbed(o) ==
    [p \in Opens |-> [kfile[p] EXCEPT !.alone = @ /\ p = o]]

Open(t, o, n) ==
    /\ kfile[o].state = "closed"
    /\ ~IsDirectory(n)
    /\ LET w == [Idle EXCEPT !.op = "open", !.o = o, !.name = n]
       IN  Start(t,
             IF FreeFds = {} THEN [w EXCEPT !.pc = "reply", !.res = "ENOMEM"]
             ELSE [w EXCEPT !.pc = "seek",
                            !.fd = CHOOSE fd \in FreeFds :
                                      \A g \in FreeFds : fd <= g])
    /\ kfile' = [Disturbed(o) EXCEPT
          ![o] = [@ EXCEPT !.state = "opening", !.alone = TRUE,
                           !.in_order = TRUE]]
    /\ UNCHANGED <<image, img_pos, open_file>>

SeekDirectory(t) ==
    /\ In(t, "seek")
    /\ img_pos' = At(Root, 0)
    /\ Goto(t, [worker[t] EXCEPT !.pc = "scan"])
    /\ UNCHANGED <<image, open_file, kfile>>

\* One entry is read at the image's position.
ReadEntry(t) ==
    /\ In(t, "scan")
    /\ worker[t].i < Len(image.dir)
    /\ img_pos[1] <= image.last
    /\ img_pos' = Ahead(img_pos, 1)
    /\ UNCHANGED image

Filled(list, e) == IF Listed(e) THEN Append(list, e.name) ELSE list

\* fat_readdir's loop.
ListEntry(t) ==
    LET w == worker[t]
    IN  /\ w.op = "readdir"
        /\ ReadEntry(t)
        /\ Goto(t, [w EXCEPT !.i = @ + 1,
                             !.list = Filled(@, EntryAt(img_pos))])
        /\ UNCHANGED <<open_file, kfile>>

Matches(w, e) == Listed(e) /\ e.name = w.name

\* Mutant: keeps what an entry before it was parsed to.
Parsed_First(w, e) ==
    IF Listed(e) /\ w.st = NoStat
    THEN [w EXCEPT !.st = Stat(e), !.cluster = e.first] ELSE w

\* parse_dir_entry fills in *stbuf and *cluster_number, also when the name turns
\* out not to match.
Parsed(w, e) ==
    IF Listed(e) THEN [w EXCEPT !.st = Stat(e), !.cluster = e.first] ELSE w

\* find_rootfile_dir_entry's loop.
SkipEntry(t) ==
    LET w == worker[t]
    IN  /\ w.op \in {"getattr", "open"}
        /\ ~Matches(w, EntryAt(img_pos))
        /\ ReadEntry(t)
        /\ Goto(t, [Parsed(w, EntryAt(img_pos)) EXCEPT !.i = @ + 1])
        /\ UNCHANGED <<open_file, kfile>>

FoundAttr(t) ==
    LET w == worker[t]
    IN  /\ w.op = "getattr"
        /\ Matches(w, EntryAt(img_pos))
        /\ ReadEntry(t)
        /\ Return(t, Parsed(w, EntryAt(img_pos)))
        /\ UNCHANGED <<open_file, kfile>>

\* Mutant: keeps the offset the last file was left at.
CursorAt_KeepOffset(f, w) ==
    [f EXCEPT !.current_cluster = w.cluster,
              !.n_bytes_remaining = w.st.size]

\* The start of the file that was found; is_open is left as it is.
CursorAt(f, w) ==
    [f EXCEPT !.current_cluster = w.cluster,
              !.current_offset_in_cluster = 0,
              !.n_bytes_remaining = w.st.size]

FoundOpen(t) ==
    LET w == Parsed(worker[t], EntryAt(img_pos))
    IN  /\ w.op = "open"
        /\ Matches(w, EntryAt(img_pos))
        /\ ReadEntry(t)
        /\ open_file' = [open_file EXCEPT ![w.fd] = CursorAt(@, w)]
        /\ Return(t, w)
        /\ UNCHANGED kfile

\* The directory is exhausted: -ENOENT, or the end of the listing.
ScanEnds(t) ==
    LET w == worker[t]
    IN  /\ In(t, "scan")
        /\ w.i = Len(image.dir)
        /\ Return(t, [w EXCEPT !.res =
              IF w.op = "readdir" THEN "ok" ELSE "ENOENT"])
        /\ UNCHANGED <<image, img_pos, open_file, kfile>>

--------------------------------------------------------------------------------
(* fat_read *)

Min2(a, b) == IF a <= b THEN a ELSE b

\* Mutant: asks for bytes past the end of the file.
ReadSize_Unclipped(f, want) == want

ReadSize(f, want) == Min2(want, f.n_bytes_remaining)

\* The loop goes on until size is 0.
Loop(t, w) ==
    Goto(t, [w EXCEPT !.pc = IF w.size = 0 THEN "reply" ELSE "copy"])

InOrder(k, offset) == k.in_order /\ offset = Len(k.data)

\* What the kernel knows of a file it asks for from offset on.
Asked(k, offset) ==
    [k EXCEPT !.state = "reading", !.in_order = InOrder(k, offset),
              !.data = IF InOrder(k, offset) THEN @ ELSE <<>>]

\* The kernel asks for want bytes from offset on, and fat_read goes on at the
\* cursor.  Requests need not come in order: kernel_cache keeps the pages of a file
\* beyond its closing, nonseekable does not go around them, and the kernel asks
\* only for what it has not kept, ahead of the application.
Read(t, o, offset, want) ==
    LET f == open_file[kfile[o].fh]
    IN  /\ kfile[o].state = "open"
        /\ In(t, "idle")
        /\ Loop(t, [Idle EXCEPT !.op = "read", !.o = o, !.fd = kfile[o].fh,
                                !.want = want, !.size = ReadSize(f, want)])
        /\ kfile' = [Disturbed(o) EXCEPT ![o] = Asked(@, offset)]
        /\ UNCHANGED <<image, img_pos, open_file>>

\* Mutant: copies over the end of the cluster.
Chunk_Whole(w, f) == w.size

\* Mutant: leaves the last byte of a cluster to the next round.
Chunk_OneShort(w, f) == Min2(w.size, ClusterSize - 1 - f.current_offset_in_cluster)

\* bytes_to_copy: no further than the end of the cluster.
Chunk(w, f) == Min2(w.size, ClusterSize - f.current_offset_in_cluster)

SeekData(t) ==
    LET w == worker[t]
        f == open_file[w.fd]
    IN  /\ In(t, "copy")
        /\ img_pos' = At(f.current_cluster, f.current_offset_in_cluster)
        /\ Goto(t, [w EXCEPT !.pc = "copy_read", !.n = Chunk(w, f)])
        /\ UNCHANGED <<image, open_file, kfile>>

\* The cursor after n bytes, still in its cluster (or just past its end).
Moved(f, n) ==
    [f EXCEPT !.n_bytes_remaining = (@ - n) % Word,
              !.current_offset_in_cluster = (@ + n) % Word]

ReadChunk(t) ==
    /\ In(t, "copy_read")
    /\ Ahead(img_pos, worker[t].n - 1)[1] <= image.last
    /\ img_pos' = Ahead(img_pos, worker[t].n)
    /\ UNCHANGED <<image, kfile>>

\* The locals of the callback after it copied n bytes.
Copied(w) ==
    [w EXCEPT !.buf = @ \o Bytes(img_pos, w.n), !.size = @ - w.n, !.n = 0]

AtEndOfCluster(f) == f.current_offset_in_cluster = ClusterSize

CopyInCluster(t) ==
    LET w == worker[t]
        f == Moved(open_file[w.fd], w.n)
    IN  /\ ReadChunk(t)
        /\ ~AtEndOfCluster(f)
        /\ open_file' = [open_file EXCEPT ![w.fd] = f]
        /\ Loop(t, Copied(w))

\* Mutant: does not go back to the start of the next cluster.
NextCluster_KeepOffset(f) == [f EXCEPT !.current_cluster = image.fat[@]]

\* The start of the next cluster of the chain.
NextCluster(f) ==
    [f EXCEPT !.current_cluster = image.fat[@],
              !.current_offset_in_cluster = 0]

CopyToNextCluster(t) ==
    LET w == worker[t]
        f == Moved(open_file[w.fd], w.n)
    IN  /\ ReadChunk(t)
        /\ AtEndOfCluster(f)
        /\ image.fat[f.current_cluster] # EndOfChain
        /\ open_file' = [open_file EXCEPT ![w.fd] = NextCluster(f)]
        /\ Loop(t, Copied(w))

\* The chain ends: break, with whatever was read so far.
CopyToEndOfChain(t) ==
    LET w == worker[t]
        f == Moved(open_file[w.fd], w.n)
    IN  /\ ReadChunk(t)
        /\ AtEndOfCluster(f)
        /\ image.fat[f.current_cluster] = EndOfChain
        /\ open_file' = [open_file EXCEPT
              ![w.fd] = [f EXCEPT !.current_offset_in_cluster = 0]]
        /\ Return(t, Copied(w))

\* read_img_exact meets the end of the image file: the process aborts.
Abort(t) ==
    /\ \/ In(t, "scan") /\ worker[t].i < Len(image.dir)
                        /\ img_pos[1] > image.last
       \/ In(t, "copy_read")
                        /\ Ahead(img_pos, worker[t].n - 1)[1] > image.last
    /\ worker' = [u \in Threads |-> [worker[u] EXCEPT !.pc = "aborted"]]
    /\ UNCHANGED <<image, img_pos, open_file, kfile>>

--------------------------------------------------------------------------------
(* What the kernel makes of the callbacks' results. *)

ReplyInfo(t) ==
    /\ In(t, "reply")
    /\ worker[t].op \in {"getattr", "readdir"}
    /\ Goto(t, Idle)
    /\ UNCHANGED <<image, img_pos, open_file, kfile>>

ReplyOpen(t) ==
    LET w == worker[t]
    IN  /\ In(t, "reply")
        /\ w.op = "open"
        /\ kfile' = [kfile EXCEPT ![w.o] =
              IF w.res = "ok"
              THEN [@ EXCEPT !.state = "open", !.name = w.name, !.fh = w.fd]
              ELSE Closed]
        /\ Goto(t, Idle)
        /\ UNCHANGED <<image, img_pos, open_file>>

\* What is read while another file was opened or read since is not kept.
Kept(k) == k.alone /\ k.in_order

Answer(k, w) ==
    [k EXCEPT !.state = "open",
              !.data = IF Kept(k) THEN @ \o w.buf ELSE <<>>,
              !.eof = Len(w.buf) < w.want,
              !.in_order = Kept(k)]

ReplyRead(t) ==
    LET w == worker[t]
    IN  /\ In(t, "reply")
        /\ w.op = "read"
        /\ kfile' = [kfile EXCEPT ![w.o] = Answer(@, w)]
        /\ Goto(t, Idle)
        /\ UNCHANGED <<image, img_pos, open_file>>

\* The last reference is gone; the kernel does not wait for fat_release.
Release(t, o) ==
    /\ In(t, "idle")
    /\ kfile[o].state = "open"
    /\ open_file' = [open_file EXCEPT ![kfile[o].fh].is_open = FALSE]
    /\ kfile' = [kfile EXCEPT ![o] = Closed]
    /\ UNCHANGED <<image, img_pos, worker>>

Request(t) ==
    \/ \E n \in Paths : GetAttr(t, n)
    \/ GetAttrTop(t)
    \/ \E n \in Names \cup {Top} : ReadDir(t, n)
    \/ \E o \in Opens :
          \/ \E n \in Paths : Open(t, o, n)
          \/ \E offset \in 0..(Word - 1), want \in 1..MaxRead :
                Read(t, o, offset, want)
          \/ Release(t, o)

Callback(t) ==
    \/ SeekDirectory(t)
    \/ ListEntry(t)
    \/ SkipEntry(t)
    \/ FoundAttr(t)
    \/ FoundOpen(t)
    \/ ScanEnds(t)
    \/ SeekData(t)
    \/ CopyInCluster(t)
    \/ CopyToNextCluster(t)
    \/ CopyToEndOfChain(t)
    \/ Abort(t)
    \/ ReplyInfo(t)
    \/ ReplyOpen(t)
    \/ ReplyRead(t)

Next == \E t \in Threads : Request(t) \/ Callback(t)

Spec == Init /\ [][Next]_vars

\* A callback that has begun goes on; nothing obliges anyone to make a request.
FairSpec == Spec /\ \A t \in Threads : WF_vars(Callback(t))
--------------------------------------------------------------------------------
(* Properties *)

Cursor ==
    [is_open : BOOLEAN, current_cluster : Nat,
     current_offset_in_cluster : 0..(ClusterSize - 1),
     n_bytes_remaining : 0..(Word - 1)]

Byte == Int \X Nat

Locals ==
    [pc : {"idle", "seek", "scan", "copy", "copy_read", "reply", "aborted"},
     op : {"none", "getattr", "readdir", "open", "read"},
     o : Opens \cup {"none"}, name : Paths \cup {Top, Free}, fd : Fds, i : Nat,
     st : [dir : BOOLEAN, size : 0..(Word - 1)], cluster : Nat,
     want : Nat, size : Nat, n : Nat, buf : Seq(Byte),
     list : Seq(Names), res : {"ok", "ENOENT", "ENOMEM"}]

KernelFile ==
    [state : {"closed", "opening", "open", "reading"}, name : Paths \cup {Top, Free},
     fh : Fds, data : Seq(Byte), eof : BOOLEAN, alone : BOOLEAN,
     in_order : BOOLEAN]

(***************************************************************************)
(* The type of the state; between two steps a cursor lies inside its       *)
(* cluster, so that fat_read's loop always has something to copy.          *)
(***************************************************************************)
TypeOK ==
    /\ image \in Images
    /\ img_pos \in Byte
    /\ open_file \in [Fds -> Cursor]
    /\ worker \in [Threads -> Locals]
    /\ kfile \in [Opens -> KernelFile]

\* What the driver has to be spared: a file that is read-only, hidden or a system
\* file, which it does not see, and one whose size does not fit a uint16_t.
Served(im) ==
    \A k \in 1..Len(im.dir) : IsFile(im.dir[k]) =>
        im.dir[k].attr \cap Hiding = {} /\ im.dir[k].size < Word

\* The images a FAT12 file system with no defects is made of, as far as the driver
\* serves them.
GoodImages == {im \in Images : WellFormed(im) /\ UniqueNames(im) /\ Served(im)}

Good == image \in GoodImages

IsEntryOf(e, n) == IsFile(e) /\ e.name = n

Visible(n) == \E e \in Range(image.dir) : IsEntryOf(e, n)

EntryOf(n) == CHOOSE e \in Range(image.dir) : IsEntryOf(e, n)

\* Cluster c, offset off is where the chain of file n has its byte number p,
\* counted from 0.
HasByteAt(n, p, c, off) ==
    \E k \in 1..Len(image.chain[n]) :
        /\ c = image.chain[n][k]
        /\ off \in 0..(ClusterSize - 1)
        /\ p = (k - 1) * ClusterSize + off

\* The cursor f stands before byte number p of file n.
StandsAt(f, n, p) ==
    /\ f.n_bytes_remaining = EntryOf(n).size - p
    /\ f.n_bytes_remaining > 0 =>
          HasByteAt(n, p, f.current_cluster, f.current_offset_in_cluster)

(***************************************************************************)
(* fat_read takes no notice of the offset it is asked for (line 253): the  *)
(* cursor must stand exactly where the next request is to begin, as long   *)
(* as the requests for a file come in order and no other file has been     *)
(* opened or read since it was opened; across reads that end inside and at *)
(* the end of a cluster, closings in mid-file and reopenings.              *)
(***************************************************************************)
CursorInStep ==
    Good => \A o \in Opens :
        kfile[o].state = "open" /\ kfile[o].alone /\ kfile[o].in_order =>
            StandsAt(open_file[kfile[o].fh], kfile[o].name, Len(kfile[o].data))

\* The bytes are those of file n from number p on.
OwnBytes(n, p, bytes) ==
    \A j \in 1..Len(bytes) : HasByteAt(n, p + j - 1, bytes[j][1], bytes[j][2])

\* What fat_read returns is what the file has at the offset it was asked for.
AnsweredWell(t) ==
    LET k == kfile[worker[t].o]
    IN  OwnBytes(k.name, Len(k.data), worker[t].buf)

\* The answer to a request for o, which came in order.
Answered(t, o) ==
    /\ In(t, "reply")
    /\ worker[t].op = "read"
    /\ worker[t].o = o
    /\ kfile[o].in_order

(***************************************************************************)
(* Each byte that fat_read returns is the file's byte at the offset it is  *)
(* asked for, across clusters that lie apart, if the file's requests come  *)
(* in order and no other file has been opened or read since it was opened. *)
(***************************************************************************)
DataIsOwn ==
    Good => \A t \in Threads, o \in Opens :
        Answered(t, o) /\ kfile[o].alone => AnsweredWell(t)

(***************************************************************************)
(* An open file has its handle to itself until it is released: fuse_fat.c  *)
(* 175, fat_release is "called when a application is finished with reading *)
(* a file so the file handle could be freed".  So that other files were    *)
(* opened or read does not change what it reads in order.                  *)
(***************************************************************************)
HandlesApart ==
    Good => \A t \in Threads, o \in Opens : Answered(t, o) => AnsweredWell(t)

\* list has the names of the files among the first n entries of dir, each once
\* and in order.
Lists(dir, list, n) ==
    \E at \in [1..Len(list) -> 1..n] :
        /\ \A j, k \in 1..Len(list) : j < k => at[j] < at[k]
        /\ \A m \in 1..n :
              IsFile(dir[m]) <=> \E j \in 1..Len(list) : at[j] = m
        /\ \A j \in 1..Len(list) : list[j] = dir[at[j]].name

\* What stat is to say of the file of entry e.
TrueStat(e) ==
    [dir |-> "directory" \in e.attr,
     size |-> IF "directory" \in e.attr THEN 0 ELSE e.size]

(***************************************************************************)
(* Listing and lookup of the root directory agree: fat_readdir gives the   *)
(* name of each file once, in order, and fat_getattr and fat_open find     *)
(* exactly those, with the attributes of that entry and not of one that    *)
(* was passed on the way; on defective images too, but only on those the   *)
(* driver serves (Served).  A path in a subdirectory is never found; what  *)
(* fat_readdir lists for a subdirectory is the root, and not stated here.  *)
(***************************************************************************)
DirectoryExact ==
    Served(image) /\ UniqueNames(image) =>
        \A t \in Threads : In(t, "reply") =>
            LET w == worker[t]
            IN  /\ w.op = "readdir" /\ w.name = Top =>
                      Lists(image.dir, w.list, Len(image.dir))
                /\ w.op \in {"getattr", "open"} /\ w.name # Top =>
                      w.res = IF Visible(w.name) THEN "ok" ELSE "ENOENT"
                /\ w.op = "getattr" /\ w.name # Top /\ w.res = "ok" =>
                      w.st = TrueStat(EntryOf(w.name))

\* The bytes of file n.
Content(n) ==
    [p \in 1..EntryOf(n).size |->
        <<image.chain[n][((p - 1) \div ClusterSize) + 1],
          (p - 1) % ClusterSize>>]

IsOpen(o) ==
    /\ Good
    /\ kfile[o].state \in {"open", "reading"}
    /\ kfile[o].alone
    /\ kfile[o].in_order

\* The files there are, and what the applications have of the files they opened.
Contents == [n \in {m \in Names : Good /\ Visible(m)} |-> Content(n)]

OpenedFile == [o \in Opens |-> IF IsOpen(o) THEN kfile[o].name ELSE Free]

DataRead == [o \in Opens |-> IF IsOpen(o) THEN kfile[o].data ELSE <<>>]

EndSeen == [o \in Opens |-> IsOpen(o) /\ kfile[o].eof]

Files == INSTANCE FileService WITH
    NoFile <- Free, content <- Contents, file <- OpenedFile, data <- DataRead,
    eof <- EndSeen

(***************************************************************************)
(* With one callback at a time the driver implements the file service on   *)
(* every image it serves, for each open file until another one is opened   *)
(* or read or a request comes out of order, which the service takes for    *)
(* closing it: each read returns the next bytes of the file, all that were *)
(* asked for or all that are left.                                         *)
(***************************************************************************)
ImplementsFileService == Files!Spec

(***************************************************************************)
(* Every callback returns, on defective images too, or the process aborts. *)
(***************************************************************************)
CallsReturn ==
    \A t \in Threads :
        ~In(t, "idle") ~> In(t, "idle") \/ In(t, "aborted")
--------------------------------------------------------------------------------
(***************************************************************************)
(* The inductive invariant behind the safety properties, for one callback  *)
(* at a time.                                                              *)
(***************************************************************************)
OneWorker == \A t, u \in Threads : t = u

\* The worker's locals fit the callback it is in.
InCallback(t) ==
    LET w == worker[t]
    IN  /\ w.pc = "idle" <=> w.op = "none"
        /\ w.op \in {"open", "read"} => w.o \in Opens
        /\ w.op # "read" => w.buf = <<>>
        /\ w.pc \in {"seek", "scan"} => w.op \in {"getattr", "readdir", "open"}
        /\ w.pc \in {"copy", "copy_read"} => w.op = "read" /\ w.size > 0

\* The kernel and the worker agree on what is going on.
InStep(t, o) ==
    LET w == worker[t]
        k == kfile[o]
    IN  /\ k.state = "opening" <=> w.op = "open" /\ w.o = o
        /\ k.state = "reading" <=> w.op = "read" /\ w.o = o
        /\ w.op = "read" /\ w.o = o => w.fd = k.fh
        /\ k.alone => k.state # "closed"
        /\ k.alone /\ w.op \in {"open", "read"} => w.o = o
        /\ k.state = "opening" => k.alone /\ k.in_order

Opened(w) == w.op = "open" /\ w.pc = "reply" /\ w.res = "ok"

InUse(fd) ==
    \/ \E o \in Opens : kfile[o].state \in {"open", "reading"} /\ kfile[o].fh = fd
    \/ \E t \in Threads : Opened(worker[t]) /\ worker[t].fd = fd

\* A cursor in use stands in the table; the loop of fat_read stays within what
\* remains, and the image's position is still where its seek_img left it.
CursorsLive ==
    /\ \A fd \in Fds :
          InUse(fd) => open_file[fd].current_cluster \in DOMAIN image.fat
    /\ \A t \in Threads :
          LET w == worker[t]
              f == open_file[w.fd]
          IN  /\ w.pc \in {"copy", "copy_read"} =>
                    w.size <= f.n_bytes_remaining
              /\ w.pc = "copy_read" =>
                    /\ w.n = Chunk(w, f)
                    /\ img_pos = At(f.current_cluster,
                                    f.current_offset_in_cluster)

\* No entry of open_file is ever taken: fat_open does not set is_open.
NeverMarked == \A fd \in Fds : ~open_file[fd].is_open

SerialInv ==
    /\ TypeOK
    /\ \A t \in Threads : InCallback(t)
    /\ \A t \in Threads, o \in Opens : InStep(t, o)
    /\ \A o, p \in Opens : kfile[o].alone /\ kfile[p].alone => o = p
    /\ NeverMarked
    /\ CursorsLive

(***************************************************************************)
(* What a scan of the directory has seen: the image's position is where the*)
(* scan has come to, and nothing that was passed matches.                  *)
(***************************************************************************)
ScanFact(t) ==
    LET w == worker[t]
    IN  /\ w.pc = "seek" => w.i = 0 /\ w.list = <<>>
        /\ w.pc \in {"seek", "scan"} => w.res = "ok"
        /\ w.pc = "scan" =>
              /\ w.i <= Len(image.dir)
              /\ w.i < Len(image.dir) => img_pos = <<Root, w.i>>
              /\ w.op = "readdir" => Lists(image.dir, w.list, w.i)
              /\ w.op \in {"getattr", "open"} =>
                    \A k \in 1..w.i : ~Matches(w, image.dir[k])

ReadSoFar(t, o) == Len(kfile[o].data) + Len(worker[t].buf)

\* On an image the driver serves, cursor and data belong to the opened file.
OwnFile(t, o) ==
    LET w == worker[t]
        k == kfile[o]
    IN  /\ k.state \in {"open", "reading"} /\ k.alone /\ k.in_order =>
              /\ k.name \in Names
              /\ Visible(k.name)
              /\ StandsAt(open_file[k.fh], k.name, ReadSoFar(t, o))
              /\ OwnBytes(k.name, 0, k.data)
              /\ OwnBytes(k.name, Len(k.data), w.buf)
        /\ Opened(w) /\ w.o = o =>
              /\ w.name \in Names
              /\ Visible(w.name)
              /\ StandsAt(open_file[w.fd], w.name, 0)
        /\ k.state \in {"closed", "opening"} => k.data = <<>> /\ ~k.eof

DataInv ==
    /\ SerialInv
    /\ Good => \A t \in Threads, o \in Opens : OwnFile(t, o)

(***************************************************************************)
(* What a read has copied and what it still has to copy are together what  *)
(* was asked for, or all that was left of the file.                        *)
(***************************************************************************)
ReadFact(t, o) ==
    LET w == worker[t]
        k == kfile[o]
    IN  w.op = "read" /\ w.o = o /\ k.alone /\ k.in_order =>
            /\ w.want \in 1..MaxRead
            /\ Len(w.buf) + w.size =
                  Min2(w.want, EntryOf(k.name).size - Len(k.data))
            /\ w.pc = "reply" => w.size = 0
================================================================================
