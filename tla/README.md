# A verification of the operating-systems exercises

This directory holds TLA+ models of the programs of the repository, the TLC
configurations that check them on small instances and the proofs that TLAPS
checks for every instance. The repository is a set of exercises for a lecture
on operating systems; what is worth verifying are the solutions in which
processes, threads, clients or callbacks meet: the servers of `06_ipc` and
`0x_parallel_io`, the FUSE driver of `07_filesystems`, the thread exercises of
`04_threads` and `05_threaded_algo`, and the pipeline of `03_processes`.

## 1. Inventory

| Component | State | Operations | What is hard | What makes it correct |
|---|---|---|---|---|
| poll server, `0x_parallel_io/poll.c` | `pollfds`, `client_states` | `poll`, `accept4`, scan of the slots, `client_handler` | clients act between `poll` and `recv`/`send`, partial sends, slot reuse, limits | slots own connections, replies in order and complete, no lost wake-up |
| FAT12 driver, `07_filesystems/fuse_fat_solution.c` | header, allocation table (12-bit entries), `open_file`, position of `img_fd` | `init`, `getattr`, `readdir`, `open`, `read`, `release` | callbacks on several threads, cursors that ignore offsets while the kernel caches pages, end of clusters and chains, 16-bit sizes, defective images | reads return the file's bytes at the offset asked for; listing and lookup agree |
| PIGen servers, `06_ipc/pi_server*.c` | connection, last byte received | `accept`, `recv`, `send`, `pthread_create` | errors of `recv` and `send`, end of stream, blocking | the PIGen service |
| PIGen clients, `06_ipc/pi_client*.c` | socket | `send` a digit, `recv` a reply | reply split or longer than the buffer | each request is shown its own reply |
| counters, `04_threads/counter*.c` | `counter`, `counter_mutex` | increments of several threads | lost updates | the final value is the number of increments |
| N out of M, `04_threads/noutofm_solution.c`, `NOutOfMSolution*.java` | `num_threads_finished` | start, finish, `waitNOutOfM` | condition variable, unlocked read | the waiter returns after N threads finished, and does return |
| parallel statistics, `04_threads/parallel_stats_solution.c` | slices, partial results | create, compute, join | slice bounds | result of the sequential computation |
| Monte Carlo, `05_threaded_algo/monte_carlo*.c` | hits per thread, in a local variable or an array | create, sample, join, add up | main reads what threads write | sum of the parts |
| Mandelbrot, `05_threaded_algo/mandelbrot.c` | image | compute a row | integer widths | - |
| cgif, `05_threaded_algo/cgif` | queue of three frames, result; LZW dictionary, codes | `newgif`, `addframe`, `close` | delayed writing, differences between frames, errors in between; code lengths kept apart from the dictionary | a viewer sees the animation that was added |
| pipeline, `03_processes/pipe_solution.c` | descriptors of three processes | `pipe`, `fork`, `dup2`, `close`, `wait` | descriptors left open, failing `fork` and `execvp` | end of file means everything was read; both children end |
| the rest: `01_introduction`, `02_file_io`, Java `ProcessBuilder` exercises, templates | - | straight-line input and output | - | - |

The components do not call each other, except that Mandelbrot writes its
picture with cgif. The servers share the PIGen protocol
(`06_ipc/README.md`): a client writes a decimal digit `n`, the server answers
`n:<n-th decimal of pi>`. `PiService` states that protocol once, and every
server is shown to implement it.

## 2. Modules

| Module | Models |
|---|---|
| `PiService` | what any PIGen server promises a client (abstract specification) |
| `PiServiceProofs` | the service answers exactly; facts about sequences of replies |
| `PollServer` | `poll.c`: the server's thread, the kernel's sockets, the clients |
| `MCPollServer` | instances of it for TLC |
| `PollServerProofs` | inductive invariant, safety theorems, proof that `PollServer` implements `PiService`, the listener and dropped clients |
| `FileService` | what a read-only file system promises an application (abstract) |
| `FatDriver` | `fuse_fat_solution.c`: libfuse's workers, the driver, the kernel's open files |
| `MCFatDriver` | instances of it, with the images |
| `FatFormat` | the bytes of an image: numbers, 12-bit table entries, header, dates |
| `FatDriverProofs` | for one worker: types and cursors; what is read is the file's own data; the directory; proof that `FatDriver` implements `FileService`; the table's encoding |
| `PiServer` | `pi_server.c`, `pi_server_tcp.c`, `pi_server_tcp_threaded.c` with arbitrary clients |
| `MCPiServer` | instances of it |
| `PiSession` | `pi_client.c` and `pi_client_tcp.c`, composed with `PiServer` |
| `MCPiSession` | instances of it |
| `PiSessionProofs` | the servers alone: types, proof that `PiServer` implements `PiService`, exact replies, ends of sessions; then the client programs: no mutual wait, alternation, the decimals shown |
| `Threshold` | what an N-out-of-M program promises (abstract) |
| `NOutOfM` | `noutofm_solution.c`, `NOutOfMSolution.java`, `NOutOfMSolutionCDL.java` |
| `MCNOutOfM` | instances of it |
| `NOutOfMProofs` | exact count, no lost wake-up, proof that `NOutOfM` implements `Threshold` |
| `Workers` | `counter*.c` and `monte_carlo*.c`: threads that count, main that joins them |
| `MCWorkers`, `WorkersProofs` | instance; exact total, range of the racy total |
| `Pipeline` | `pipe_solution.c`: parent, two children, the kernel's pipe |
| `MCPipeline`, `PipelineProofs` | instance; end of file comes last |
| `Lzw` | the LZW encoder of `cgif_raw.c` as operators: dictionary tree, code lengths, packing |
| `LzwReader` | what a reader of GIF files does with the blocks (reference) |
| `LzwEncoder`, `MCLzw` | `LZW_GenerateStream` as a state machine, and its images |
| `CgifRaw` | `cgif_raw_newgif`, `cgif_raw_addframe`, `cgif_raw_close`: the stream of blocks |
| `Cgif` | `cgif.c`: the frame queue and its optimizations |
| `CgifMovie`, `MCCgif` | a viewer, the animation that was asked for, and the programs |
| `CgifProofs` | the encoder: every code fits its length, dictionary and rows suffice, which images overrun the buffer of codes, a reader gets the image back; the writer: a viewer sees the animation that was asked for |

### 2.1 PollServer

One step of the server is one system call with the code up to the next one:
`Poll`; `AcceptFails`, `AcceptInto`, `AcceptNoSlot` for lines 123 to 143; and
for each slot of the scan one of `ScanFree` (line 147), `ScanIdle` (not
reported, lines 159 to 168) or a call of `client_handler`. The call is one
step because between its `recv` and its `send` it tests nothing that clients
can change: `RecvEnds` (return -1 after `recv`), `HandleRecv` (nothing to
send), `HandleSend` (any number of bytes up to the room in the send buffer,
including none), `SendFails` (return -1 after `send`), `SendKills` (below).
The clients and the kernel take steps between any two of these, so what
`poll` reported may be outdated when it is used.

| Code | Model |
|---|---|
| `pollfds[i]`, `client_states[i]` | `pollfds[i]`, `client_states[i]`, same field names |
| `cfd` of a connection | the connection itself; descriptors are never closed, so never reused |
| `PI_DECIMALS[d]` and the punctuation of a reply | `Reply(d)`, bytes named by digit and position |
| place in `main`'s loop | `pc`, `slot` |
| sockets | `asked`, `taken` (received so far), `sent`, `got` (read by the client), `fin`, `rst`, `backlog` |

Two points of undefined or broken code are resolved as follows.

* Line 128 lets the accept loop run to index `MAX_CLIENTS`. `client_states`
  has no such entry. The model gives the memory behind the array one entry,
  `Phantom`, whose `in_use` is arbitrary at the start; if it reads as unused
  the listener's `pollfd` is overwritten, as in the code.
* Line 53 tests `read_available`, which is not declared; the file does not
  compile. The test is reached only when `recv` returned 0 or failed. Whether
  `n_bytes_read == 0` or `state->read_available == 0` is meant makes no
  difference as long as `recv` never fails with `EAGAIN`, and that is what
  `HandlerProgress` says and `CallsProgress` proves.

`send` on a connection whose peer closed it and then reset it raises
`SIGPIPE`. The program does not ignore it: the state `pc = "killed"`.

### 2.2 FatDriver

libfuse runs each request on some worker thread. A worker's record holds the
place in its callback and its local variables; `image`, `img_pos` and
`open_file` are the driver's shared state. A step ends at each `lseek` or
`read` on the image: `SeekDirectory` and `ListEntry`, `SkipEntry`,
`FoundAttr`, `FoundOpen`, `ScanEnds` for the walk over the root directory;
`SeekData` and `CopyInCluster`, `CopyToNextCluster`, `CopyToEndOfChain` for
one round of `fat_read`'s loop, by what happens at line 273 to 278; `Abort`
for `read_img_exact` at the end of the image file. `Parsed` is what
`parse_dir_entry` leaves in the caller's `stbuf` and cluster number, which it
fills in for every entry it takes, and not only for the one that matches.

| Code | Model |
|---|---|
| path `/` | `Top`; `GetAttrTop` (lines 190 to 193), `ReadDir(t, Top)` |
| path `/x` | a member of `Names` |
| path `/sub/x` | a member of `Deep`; no entry of the root directory is called that, so lookups fail |
| `fat_readdir` of any directory | `ReadDir(t, n)`, which lists the root whatever `n` is |
| `offset` of `fat_read` | a parameter of `Read` the cursor does not depend on |
| `fat_release`, which sets `is_open` to what it is already | `Release` |

`kfile` is the kernel's and the application's side. `fat_init` sets
`kernel_cache` and `fat_open` sets `nonseekable` but not `direct_io`, so reads go
through the page cache: pages are read ahead, survive the closing of a file, and
after a reopening the kernel asks only for what it does not have. The model does
not have the cache; it lets the kernel ask for any offset at any time (`Read`). So
`in_order` notes whether all requests for a file since it was opened came
one after another from 0 on, and `alone` whether no other file was opened or read
since it was opened. These are the conditions under which the driver, which goes on
at its one cursor, gives right answers, and the properties name them: `CursorInStep`,
`DataIsOwn` and `ImplementsFileService` claim nothing of a file after a request out
of order, and nothing after another file was opened or read. `HandlesApart` is
`DataIsOwn` without the second condition, and is violated.

An image is a directory, an allocation table and the place where it is cut
off. A byte is named by its cluster and its offset, so a wrong seek, a wrong
link or a wrong length shows as a wrong byte. Sizes and cursors are taken
modulo `Word`, the 2^16 of `uint16_t`, which is also the result type of
`read_uint32`. `WellFormed` images are those a FAT12 formatter and writer
produce; images cut off or with a chain that is too short are run as well.
Tables whose links leave the volume are not modelled: `read_fat_entry` then
reads outside its buffer.

What files there are and how long they are, the properties take from the image
and not from the driver: a file is an entry in use without the attribute of a
label (`IsFile`), and its size is the 32-bit one (`TrueStat`, `Content`). The
driver does not serve all of these: it hides read-only, hidden and system files and
cuts sizes to 16 bits. `Served` excludes images with such files; the other
premises, `WellFormed` and `UniqueNames`, exclude defective ones.

Between system calls a callback is one step. That is exact for one worker,
which is what the runs and proofs have (`OneWorker`, libfuse's option `-s`).
`fuse_main` starts several workers unless it is told not to; of that case
nothing is claimed, and section 5 says what goes wrong in it.

The model's `fat` is what `read_fat_entry` returns for a cluster. `FatFormat`
has that function on bytes, and the other conversions: the images of
`MCFatDriver` are built by packing entries two to three bytes (`Packed`) and
reading them back, and the theorem `TableReadBack` says that this is the
identity for tables of any length. The layout of a floppy disk's header, dates
and times are checked as assumptions of `MCFatDriver`.

### 2.3 PiServer and PiSession

The three servers share their session loop, so they are one module with a
variable `kind`. They differ in who is at `accept`: main's only thread between
two sessions (`"unix"`, `"tcp"`), or main at all times (`"threaded"`).

| Code | Model |
|---|---|
| place of a session loop, rest of `response` that `send` still has to hand over | `handler[c].pc`, `handler[c].rest` |
| `accept` returns a connection; none is ever closed | `Accept`, `open` |
| `pthread_create` fails, ignored | `AcceptUnserved` |
| `accept` returns -1, and the loops run on descriptor -1 | `AcceptFails`, `spinning` |
| `recv` returns 1, 0, -1 | `RecvByte`, `RecvEof`, `RecvReset` or `RecvResetKills` |
| a blocking `send` hands over parts, fails in the middle, at once, or with `SIGPIPE` | `SendSome`, `SendInterrupted`, `SendReset`, `SendKills` |
| `cleanup`, SIGINT | `Interrupt` |

None of the servers tests for -1. When `recv` fails, `requested_digit` is not
written. What it then holds is not determined, so the model chooses:
no digit (`RecvReset`; the loop goes on, and the next `recv` returns 0), or a
digit, in which case the reply is sent on a broken connection and `SIGPIPE`
ends the process (`RecvResetKills`). A reset is reported once (`told`), then
the connection reads as ended, as Linux does it. Both in the model and in the
kernel a reset connection keeps the bytes that arrived before it.

`PiSession` puts the two client programs in the place of `PiServer`'s
arbitrary clients: `repl[c]` holds the place, the count, the loop's index, the
third byte of `response` (`last`) and what was printed. Line 33 compares the
result of `recv` with an unsigned number, so -1 counts as a full reply
(`RecvError`) and prints `last` again; the next `send` then ends the client.
A client's process may be stopped by its user at any point (`Quit`); when a
process ends the kernel closes its socket, with a reset if bytes were left
unread (`CloseSocket`, `LateReset`).

### 2.4 NOutOfM

One step is one access to the shared state: lock, load the counter, store it,
unlock, wait, read it again, signal. `num_threads_finished += 1` is `Load` and
`Store`, between which any other thread runs, so that only the mutex keeps an
increment from being lost; the mutant of `CountExact` is a mutex nobody waits for.
The C program unlocks before it reads the counter again and signals, so `Check`
and `Signal` are steps without the mutex. The unlocked
read is a data race: it may return the value the thread wrote itself or any
later one (`Seen`). In the Java monitor the same places are passed with the
monitor held, and the latch does it all in one call. Waiting may end without
a signal (`Spurious`). The Java programs count down from N, the model counts
up; N and M are constants. `threads[n]` (line 38) uses a variable that is not
declared; it is read as `m`, and the array as large enough.

### 2.5 Lzw, CgifRaw, Cgif

`Lzw` holds the encoder's functions as operators on the record
`LZWGenState`. A call of `lzw_crawl_tree` consumes the longest string of
pixels that is in the dictionary (`MatchEnd`), sends its code, and adds a node
(`AddChild`) or starts a new dictionary (`ResetDict`). The tree keeps the
code's three ways to store a child: `treeInit` for the colours, a place in
`treeList` for a first child, a row of `treeMap` for the others. Rows are taken
in turn and again after a reset, with the entries they had, unless `TakeRow`
clears them. `CodeLengths` is the second counter: `create_byte_list` never
sees the dictionary and counts codes instead. A byte is the set of its 1 bits.
`LzwEncoder` runs this call by call; `RasterOrError` does it in one piece for
`CgifRaw`. The buffer of codes has `CodePlaces`: the pixels, one clear code and
the end code (line 313). Each reset of the dictionary writes a clear code, so an
image that needs several resets and has few repetitions needs more. What happens
after a code was written past the buffer is undefined; the encoder then ends with
the result `"overrun"`, of which nothing more is claimed.

`CgifRaw` writes a stream of blocks: header with the table padded to a power
of two, frames with an optional graphic control extension, the terminator.
Fields that a viewer does not use are left out. A `write` or `malloc` may fail
in each call (`Failures`); the calls of `malloc` the code does not test are
assumed to succeed.

| Code | Model |
|---|---|
| `aFrames[0..2]`, `iHEAD` | same names; 0 is the frame written last, 1 and 2 wait |
| `pContext->curResult`, `pGIFRaw` | `curResult`, `raw` (its result and the blocks written) |
| `cgif_addframe` | `AddInvalid`, `AddIdentical`, `AddToQueue`, `AddAndFlush`, by its returns |
| `cmpPixel`, `doWidthHeightOptim`, `flushFrame` | `SamePixel`, `DiffWindow`, `RawFrame` and `FlushFrame` |
| `cgif_close` | `Close`; its result by `Outcome` |

The properties take a viewer as reference (`CgifMovie`, `LzwReader`), written
from the rules of the GIF format and not from the code. `Played` is the movie of a
stream, `Story` that of the frames handed over; two equal pictures in a row are
one that is shown longer, since that is how cgif writes them.

What a program must see to is a premise of the property (`Proper`), which is not
true without; the model and the run contain programs that break it. An index of a
pixel is in the frame's table, or so large that the encoder refuses it with
`CGIF_EINDEX` (`Indexed`); one in between, in the padding of the table or equal to
the free index that stands for unchanged pixels, is written without an error and
shows another colour or none. A colour that is transparent in one frame is not
opaque in another at the same pixel (`Apart`), as `cmpPixel` compares colours only.
And a GIF that is not animated has one frame. Neither `cgif.h` nor the functions
ask for any of this: section 5 lists what goes wrong. `CgifAssumption` gives a
table that is used at least one colour, and `RawAssumption` lets the largest table
be a power of two that codes exist for, as 256 is for codes of 12 bits.

### 2.6 Workers

The five programs are one module with a variable `kind`. Main creates its
threads, joins them in order, adds up what it has to and prints (`Create`,
`JoinFirst`, `Join`, `PrintTotal`). The increment of the volatile counter is
`Load` and `Store`; with a mutex the same two steps lie between `Lock` and
`Unlock`. Whether a random point lies in the circle is a choice (`Hit`,
`Miss`). `hits` is a history of the increments made. `pthread_create` is
assumed to succeed, as the programs do.

### 2.7 Pipeline

Each step is a system call of one of three processes. `held[p]` is the set of
ends of the pipe that `p` has open: `fork` copies it, `close` and `dup2`
shrink it, the end of a process empties it. `fork` may return -1, which the
parent takes for a child, and `execvp` may fail, whereupon the child runs to
the end of `main`. The two programs are outside the code: the first writes
some bytes, the second reads up to the end or leaves earlier.

## 3. Runs

| Run | Instance | Shows |
|---|---|---|
| `poll_slots` | 3 clients, 2 slots, 3 descriptors, one request each | types and bounds of the reply buffer; slots and connections correspond; nothing is slept over; the listener is kept until all slots were taken; every handler call makes progress |
| `poll_service` | 2 clients, 2 slots, one of them writes two bytes, fairness | refinement of `PiService`, nobody dropped who could be served; requests answered, connections accepted, slots reclaimed |
| `fat_sequential` | 1 worker, 2 open files, requests with any offset, five images | cursor and data of files read in order and undisturbed, directory, refinement of `FileService`, termination of callbacks |
| `fat_shared_handle` | 1 worker, 2 open files | **violated** (`HandlesApart`): both files get entry 0 of `open_file`, and the first reader, in order, gets the second's bytes |
| `pi_server` | 2 clients of each server, one writes two requests | exact answers, refinement of `PiService`, no session ends with requests unanswered, every session is answered, clients are accepted in turn |
| `pi_session` | 2 clients of the Unix server, 1 or 2 decimals per command | the decimals shown are those asked for, client and server alternate, commands end |
| `pi_session_tcp` | 2 clients of both TCP servers | no mutual wait in spite of the different reply lengths, commands end |
| `noutofm` | 2 out of 4 threads, three programs | no increment lost between load and store, no lost wake-up, refinement of `Threshold`, termination |
| `workers` | 3 threads of 3 rounds, five programs | exact totals; the racy total is between 2 and 9 |
| `pipeline` | up to 3 bytes, a pipe of 1, failing `fork` and `execvp` | end of file only after all bytes; the pipeline ends, except with one child alone |
| `lzw` | all images of 2 colours up to 8 pixels, some of up to 80 pixels; codes of 3 to 5 bits | the pixels are read back, codes fit, dictionary and rows have room; the buffer of codes is overrun, by images long enough to fill the dictionary only |
| `gif` | up to 4 frames of 2 by 5 pixels, six configurations | the animation asked for is the one a viewer shows, in every state without an error, if the program kept to `Proper` |

### Bounds

`poll_slots` has one client more than slots and as many descriptors as
clients, so that slots are reused, all taken, the accept loop runs past the
array, and `accept4` fails. A reply has two bytes and the send buffer one, so
every reply is sent in two parts and `send` can find no room. `poll_service`
has two slots, so interference between them is in its liveness properties too;
client `c1` writes two bytes ahead (`AskBound`), the other client one. One digit is
enough there, since replies are counted and positions of their bytes are told
apart. `MaxAsk` (bytes a client writes) is the only counter that is cut.
Connections are symmetric in `poll_slots`.

In the FAT runs clusters have two bytes, so files end before, at and after the
end of a cluster; `Word` is 6, so a size wraps; reads ask for up to three
bytes, so one read crosses clusters and one ends inside. The images cover
deleted, label and directory entries, an empty file, a file in
clusters out of order, one that fills its last cluster, one longer than
`Word` beside a read-only one, an image cut off and a chain too short. Offsets are
below `Word`. Two open files are enough for one to disturb the other. Nothing else
is bounded: an application may open, read and close forever.

In `pi_server` a reply is again longer than the send buffer and there is one
descriptor less than `accept` would use (two clients, two descriptors: the
third `accept` fails). One client writes ahead of the server; two that do add
states and no new order. In the session runs replies have their real lengths
(3 and 5) and the client its real buffer (3), since the property is about the
difference; with two decimals in a command, what is left of the first reply is
read as the second. `pi_session_tcp` has room for four bytes, so a reply is split at a
place that is not the client's. `noutofm` has threads beyond N both before and
after main goes on; with N = 2 one thread makes the count N and another finds
it above.

`workers` needs three threads and three rounds for the least racy total: one
thread sleeps through the others' increments twice, and rounds in between are
lost. In `pipeline` the first program can be blocked by a full pipe, and write
after its reader has left. In `lzw` a code has at most 5 bits instead of 12,
so the dictionary is full after 26 entries (22 with eight colours) and the
longer images reset it several times, with codes of every length and rows taken again, and some of them overrun the buffer of codes (9131 states);
blocks have 3 bytes, so there are full and partial ones. `gif` has four frames
because two wait: with four, two are written while others follow. Five rows
give every pass of an interlaced frame a row. Delays of 1 can be added once
(`MaxDelay`), then a frame that shows the same must be kept. At most one
thing fails in a call (21522 states). One of the frames has an index that is
refused, one an index in the padding of its table, one is opaque where another is
transparent; a GIF that is not animated is given a second frame.

### Fairness

`pi_server`: main accepts when it can and every handler goes on when it can;
for the servers without threads these are the same thread, whose only enabled
action they are. Clients that do not reset read. `AcceptedInTurn` has the end
of all sessions as an explicit premise for the servers without threads, because
nothing makes a client leave. `pi_session*`: the same for servers, and client
programs run; users need not type. `noutofm`: main and threads run; a thread
eventually gets a mutex that is free again and again (`SF` of `ThreadLocks`),
because the model lets main wake up spuriously without end, each time taking
the mutex.

`poll_service`: the server is one thread; the scheduler runs it as long as it
can take a step (`WF_vars(ServerStep)`). Clients that do not reset read what
they are sent (`WF_vars(ClientRead(c))`); nothing obliges a client to ask,
close or reset. `fat_sequential`: a callback that has begun goes on
(`WF_vars(Callback(t))`). `pipeline`: the parent and both children are
processes the scheduler runs (`WF` of each). Deadlock is not checked where a
system may legitimately stop: clients may fall silent while the server sleeps in `poll`,
an aborted driver stays aborted, and programs that end have ended.

## 4. Proofs

All proofs are for arbitrary constants that satisfy the named assumptions
(`PollAssumption`, `FatAssumption`, `PiAssumption`, `SessionAssumption`,
`NOutOfMAssumption`, `MainIsNoThread`, `WorkersAssumption`,
`PipelineAssumption`, `LzwAssumption`, `EncoderAssumption`, `RawAssumption`,
`CgifAssumption`). A theorem that needs more says so in its
statement.

* `PiServiceProofs`. `Replies(s)` is what a series of requests is answered with,
  a recursive function. That it exists and that one more digit appends one more
  reply is proved by induction over the length, which for a fixed formula needs
  no theorem with an operator as parameter: the set of lengths for which it fails
  would have a least element. `ServiceAnswersExactly`: what was written and what
  is owed are together the replies to the digits taken (`Due`). Through a
  refinement, this holds for every server that implements the service.
* `PollServerProofs`. The safety properties are not inductive by themselves.
  `IInv` adds: a connection waits at most once (`BacklogFresh`), no readiness
  flag survives a call (`FlagsConsumed`), what `poll` reported of a slot not
  yet scanned is what the slot waits for and still holds (`ReportsHold`, since
  only the server's thread consumes input or fills the buffer), and every slot
  already scanned asks for what it needs (`InterestMatches`). From it:
  `TypeCorrect`, `SlotsOwnConnections`, `ClientsAlternate`, `WakeupsAreKept`,
  and the action property `CallsProgress`. With the reply still owed to `c`
  read off its slot (`Owed`), every step is a step of `PiService` or stutters:
  `Refinement`. `ListenerIsKept` counts: the slots in use hold different
  open connections, so a connection that finds all of them in use is one more
  than there are slots. `NobodyDroppedEarly` follows who may lose a slot through every way
  out of `client_handler`.
* `FatDriverProofs`. All theorems about the driver are for one worker and any
  number of open files. `SerialInv` says that the position of the image is where
  the callback's `seek_img` left it and that the callback's locals stay within the
  request, which holds on defective images too and whatever offsets are asked for.
  From it `FatTypeCorrect`: no cursor leaves its cluster and no 16-bit field wraps
  between steps. At most one open file is `alone`, since opening or reading
  another disturbs it, and the cursor in its handle is its own although all
  handles are equal. On images the driver serves, where a chain is as long as the
  entry's size says, `CursorFollowsReader` and, from it, `ReadsOwnData`, for the
  file that is alone and read in order. `DirectoryIsExact`: what `readdir` has
  listed at any point of its walk are the files among what it has passed, a lookup
  stops at the only entry of its name, and what was parsed last is that entry; it
  needs `UniqueNames`, since with two entries of one name `readdir` lists both and
  `getattr` finds the first. `DriverIsFileService`: a read's buffer and what it
  still has to copy are together what was asked for, or all that was left of
  the file (`ReadFact`), so its return is one atomic read of `FileService`. To the
  service, a file that is disturbed or asked for out of order is closed.
  `TableReadBack`: `read_fat_entry` returns each 12-bit entry of a packed table.
* `PiSessionProofs`, the servers. `IInv` is `TypeOK` with `ServedOpen` (who is
  served was accepted) and `BacklogFresh` (who waits was not, and waits once),
  without which `Accept` could restart a session in the middle of a reply. A
  connection counts as given up (`GivenUp`) when it was reset, its session is
  over or the process has ended; the reply still owed is the handler's `rest`
  (`Owed`). With these every step is a step of `PiService` or stutters:
  `TypeCorrect`, `Refinement`, and from the theorem about the service
  `RepliesExact`. `SessionsEndDone`: a session that ended without a reset
  answered everything it was asked. That the servers ignore -1 is harmless for the
  service because it happens on connections that are given up.
* `PiSessionProofs`, the clients. `SessionInv` adds what a client program's
  place says about its socket. `NobodyWaitsForNobody`: a client in `recv` has
  left unread no more bytes than the replies exceed its buffer by, so a handler
  in `recv` has answered and there is something to read; replies may be
  longer than the buffer, as those of the TCP servers are.
  `ClientAndServerAlternate` needs `RepliesFit`: the reply has the client's
  length, and goes into the socket's buffer in one piece. This is what
  `pi_server.c` and `pi_client.c` do with their three bytes; the TCP servers
  send five, and a client and a server that disagree do not alternate.
  `DecimalsShown` is stated for these two programs (`UnixPair`) for the same
  reason: it is not true of the TCP client.
* `CgifProofs`, the encoder. The encoder sends codes of the dictionary, and
  `create_byte_list` gives each one a length by counting codes, without looking
  at the dictionary. `EncoderInv` says that both keep the same distance
  (`InStepWithCount`): the next entry of the dictionary is as far from the first
  as the count of the codes since the last clear code. The count changes the
  length when it passes the largest code of that length (`CountInv`), so a code
  never has more bits than it is given: `EveryCodeFits`. `BuffersSuffice`: a
  node gets a row of `treeMap` only with its second child, so a row costs two
  codes (`RowsFit`) and half of the codes are rows enough. For the buffer of codes:
  each code consumes a pixel or is a clear code (`CodesCounted`), and there is a
  second clear code only after the dictionary was full, which takes a pixel for
  every entry (`ClearedOnce`, `EntriesCounted`); so only images with that many
  pixels overrun it. `DictInv` also says that all the
  tree holds was given out since the dictionary was started, although rows are
  taken again with the entries they had.

  `ImageIsReadBack`: a reader gets the image from the blocks. `ReaderKeepsUp` is
  the invariant: run over the codes sent so far, the reader of `LzwReader` has
  neither failed nor ended (`RunOf`), has all pixels before `ctx.pos`, and there
  is an assignment `str` of strings to the codes that the tree spells
  (`TreeSpells`: the child of a node for a colour has the node's string and the
  colour) and the reader knows but for its last entry, which its previous code
  and the pixel at `ctx.pos` make up (`Knows`). So the next code means the same
  to both (`ReadString`), even if it is the entry the reader has not got yet, and
  a clear code takes both back to single colours (`ReadClear`). `TreeOwn` is
  needed for the tree to spell anything: no two nodes share a row, and a node
  that was not given out has no children, although rows and entries are used
  again after a clear code. The reader's code lengths follow its dictionary, the
  encoder's its count; `RunOf` says that they are equal, from the distance above.
  Then the last step: each code lies in the bytes from where the reader is
  (`OnceRead`, `CodeRead`: no code fits another's bits, so the set of 1 bits of
  all codes restricted to a code's places is that code), three bits a code at
  least make `ReadAll` reach the end code, and the blocks put together are the
  bytes, the first empty one being the terminator (`BlocksRead`).

  All this holds for every image that does not overrun the buffer of codes, number of colours, dictionary length and block
  size; the count, the powers of two, the search for the longest string, the
  reader and the bits of a code are recursive functions, whose existence and
  values are proved by induction on sets of natural numbers, as above.
* `CgifProofs`, the writer. `ViewerSeesWhatWasAsked`: as long as no call returned
  an error and the program kept to `Proper`, a viewer of the stream who goes on with the frames that wait sees the
  animation that was asked for, and a GIF that `cgif_close` reports as written is
  complete. This is not inductive: what the next frame looks like depends on what
  the viewer has on the canvas. `MovieInv` adds what the queue holds (`QueueOk`),
  what has been written (`RawOk`: a header and frames, and a result that agrees
  with it), and how the two belong together (`SeenAfter`): the viewer shows what
  the frame in place 0 stands for, and has it cleared away if that is its disposal,
  which by `Linked` is the one the next frame needs: cleared for an alpha channel,
  kept for everything else. A frame in the queue stands for the one that was handed
  over although its optimizations and disposal were changed since (`StandsFor`,
  `Alike`), and one that is cleared away covers the whole picture (`QueueFrame`),
  so that the canvas is empty after it.

  The steps: `SameMeans`, pixels that `cmpPixel` takes for equal stand for the same
  colour in both frames; so a frame merged into the last one makes it longer
  (`FollowLonger`, `IdenticalGoes`), and leaving out the pixels that are equal, or
  all that is outside the window with the others (`DiffWindowFits`), leaves what
  the viewer already shows. `IndexCoded` and `PixelDrawn`: an index that is
  coded is transparent or in the table, the free index is none of the frame's, and
  padded tables keep their colours; `DrawnIs` puts the pixels together. `PixelsRead`: the block gives the pixels back, because
  interlacing is a permutation of the rows that the viewer undoes (`RowsRestored`)
  and because of `RasterReads`, which is `ImageIsReadBack` for the encoder in one
  piece. `FlushIs` is then one frame written: it goes on with the movie as the
  frame asked for does (`FollowIn`). `EnqueueGoes`, `QueueGoes` and `FlushGoes` are
  the ways a frame gets into the queue, `RestShows` and `CloseShows` the end, where
  a result of `CGIF_OK` is traced back to every write that had to succeed.

  It holds for any size of picture, tables, delays, number of frames and
  failures. `Played` and `Story` are recursive functions over sequences; that they
  go on by one step when a block or a frame is appended (`PlayedAppend`,
  `StoryAppend`) is proved by the same induction.
* `NOutOfMProofs`. `IInv` adds to `TypeOK`: who is between lock and unlock holds
  the mutex (`MutexHeld`), what a thread has loaded and not yet stored is still the
  counter (`LoadIsFresh`), and the latch has no places in between
  (`LatchIsAtomic`). From these `CountExact`: the counter is the number of threads
  that stored (`NoIncrementLost`). Together with `LatchNeverWaits` and
  `SignalComes` it is inductive: the thread that brings the counter to N has
  `own[t] >= N` whatever it reads later, so it signals. `NoLostWakeUp`,
  `Refinement`.
* `WorkersProofs`. `IInv` says where threads are while main creates and joins
  them (`Stages`), that a counting thread counted once in every round it is
  past (`RoundsCounted`), that whoever holds the mutex knows the counter
  (`CounterExact`), and what main has added up (`OwnCounted`, `TotalSoFar`).
  With the cardinality of the history, `TotalIsExact`. For the racy counter
  (`CounterRange`): nothing loaded or stored exceeds the number of increments
  so far; a thread past its first round only loads positive numbers, so the
  last store of all stores at least two: `RacyTotalInRange`, for any number of
  threads and rounds.
* `PipelineProofs`. `IInv` says which ends a process holds by where it is
  (`HeldWhere`), that the parent closes its ends only after it reaped a child or
  if there is none (`FirstReaped`), and that the first program stops early only
  if nobody can read (`WritesAll`): `EndComesLast`.

Only model-checked are: liveness (`DigitAnswered`, `BacklogServed`,
`SlotReclaimed`, `CallsReturn`, `SessionAnswered`, `AcceptedInTurn`,
`CommandEnds`, `ProgramEnds`, `PipelineEnds`), as TLAPS has no fairness. Every
other property of the runs that hold is a theorem.

## 5. Findings

`fat_shared_handle`: `fat_open` never sets `is_open`, so files that are open at
the same time share one cursor, and one reader is given another file's bytes,
although `fuse_fat.c` describes a handle as belonging to one open file.

Further observations, not refuted by a run of their own:

* `poll.c`: the off-by-one of line 128; the comments say "terminate connection"
  where -1 is returned (lines 53 to 57 and 153), but no descriptor is closed,
  so a client sees no end and descriptors run out.
* `fuse_fat_solution.c`, all of it in the model and named by a premise of the
  properties:
  - `fat_read` ignores `offset` (line 253) and goes on at its cursor. With
    `kernel_cache` (line 178), which `nonseekable` (line 241) does not go around,
    the kernel may hold the first pages of a file from an earlier reading, reopen
    it and ask for a later page first: it is given the file's beginning.
    `in_order` is that premise.
  - `fat_readdir` ignores `path` (line 203): a subdirectory is listed with the
    files of the root, which are then not found under it.
  - Line 118 tests any of the bits of `ATTR_LONG_NAME`, so read-only, hidden and
    system files are invisible; the comment in `fuse_fat.c` (line 82) speaks of
    entries with long names. Sizes are cut to 16 bits (line 56). `Served` is that
    premise.
  - With several libfuse workers, which is how libfuse runs unless it is told not
    to, a `seek_img` of one callback may come between the `seek_img` and the
    `read` of another (line 265). `OneWorker` is that premise.

  Harmless: `return ENOMEM` (positive) in `fat_open`, unreachable because
  `is_open` is never set; the end of a chain is recognized by 0x0FFF only, but
  reads stop at the file's size.
* `pi_server*.c`: a client that goes away in the middle of a request may end
  the server of all clients by `SIGPIPE`.
* `pi_client*.c`: when the server ends in the middle of a request, the client
  shows the last decimal once more before it ends.
* `pi_server_tcp.c` answers with five bytes, `README.md` of `06_ipc` and
  `pi_client_tcp.c` expect three: the second decimal that a client shows is
  what it left unread of the first reply. `pi_session_tcp` shows that the two
  do not wait for each other nevertheless.
* `pi_client_tcp.c` connects to 127.0.0.0, the exercise says 127.0.0.1.
* `noutofm_solution.c`: `threads[n]` does not compile, and `threads[m]` would
  leave the array of N elements.
* `pipe_solution.c`: when one of the two `fork`s fails, the other child may wait
  for the pipe's other side, which the parent holds while it waits for the child.
* `cgif.c`, what `Proper` leaves out: `cmpPixel` (lines 136 to 156) compares
  colours and not `CGIF_FRAME_ATTR_HAS_ALPHA`, so a pixel that is transparent in one
  frame and has the same colour, opaque, in another is taken for equal and left
  out; an index in the padding of a table is written without an error; and in a
  GIF that is not animated nothing keeps a program from a second frame, but
  `cgif_raw.c` writes the time and the disposal of a frame only if it has a
  transparent index, so that a frame is not cleared away for the alpha channel of
  the next one, and makes room for the free index of
  `CGIF_FRAME_GEN_USE_TRANSPARENCY` in animated ones only (line 509), so that such a
  frame may fail with `CGIF_EINDEX`.
* `cgif_raw.c`, line 313: the buffer of codes has places for the pixels, one clear
  code and the end code, but `resetDict` (line 91) writes a clear code each time
  the dictionary is full. An image whose matches are short throughout is given
  more codes than that. `SpaceNeeded` says that it takes an image with at least
  as many pixels as the dictionary has room for strings (3840 with 256 colours);
  `lzw` runs such images, and what the program does then is undefined.
* `parallel_stats_solution.c`, line 32: `min` starts at 0.
* `mandelbrot.c`, line 35: 512 / 2 = 256 does not fit a `uint8_t`; the results of
  the calls of cgif (lines 84 to 102) are ignored.

## 6. Plan and what is not modelled

Done: the poll server, the FAT driver, the PIGen servers and clients, N out of
M, the counters and Monte Carlo, cgif, the pipeline.

Left to prove: nothing but the liveness properties named at the end of section 4,
which are out of the prover's reach.

Not modelled:

* `fat_destroy`, which runs after the last request.
* Several libfuse workers between two system calls of one callback, and the
  kernel's page cache: the model has the requests the cache leads to, but not
  the bytes it keeps. No property would hold of either (section 5).
* The HTTP server's request parser is character handling of one connection; its
  session per thread is that of the threaded server.
* Parallel statistics: three threads compute independent functions of an array
  nobody writes. Nothing is shared, and what they compute is a loop over
  numbers.
* Mandelbrot: floating-point iteration in one thread.
* `01_introduction`, `02_file_io` and the Java `ProcessBuilder` exercises:
  straight-line input and output.
* The templates of exercises, which are unfinished by design.
