-------------------------------- MODULE Pipeline --------------------------------
(***************************************************************************)
(* pipe_solution.c: "first | second".  The parent forks one child for the  *)
(* second program, which reads from the pipe, and one for the first, which *)
(* writes to it, and waits for both.  While the parent waits for the one   *)
(* that ends first it still holds both ends of the pipe itself.            *)
(*                                                                         *)
(* A fork that fails returns -1, which the parent takes for a child.  A    *)
(* program that cannot be executed leaves the child to run on to the end   *)
(* of main.  The two programs are not part of the code: the first writes   *)
(* some bytes, the second reads up to the end or leaves before it.         *)
(***************************************************************************)
EXTENDS Integers, FiniteSets

CONSTANTS
    MaxBytes,       \* bound of the model: bytes the first program writes
    Capacity,       \* bytes the pipe holds
    ForksFail       \* whether fork may fail

ASSUME PipelineAssumption ==
    /\ MaxBytes \in Nat
    /\ Capacity \in Nat \ {0}
    /\ ForksFail \in BOOLEAN

Children  == {"reader", "writer"}     \* child 1 and child 2
Processes == Children \cup {"parent"}
Ends      == {"recv", "send"}         \* recv_pipe and send_pipe

VARIABLES
    pc,             \* [Processes -> where it is]
    held,           \* [Processes -> ends of the pipe it has open]
    executable,     \* the children whose program can be executed
    output,         \* what the first program will write
    wanted,         \* what the second one reads before it leaves
    written, received,
    sawEnd          \* history: the second program read the end of the stream

vars == <<pc, held, executable, output, wanted, written, received, sawEnd>>
streamVars == <<executable, output, wanted, written, received, sawEnd>>

Init ==
    /\ pc = [p \in Processes |-> IF p = "parent" THEN "fork1" ELSE "none"]
    /\ held = [p \in Processes |-> IF p = "parent" THEN Ends ELSE {}]
    /\ executable \in SUBSET Children
    /\ output \in 0..MaxBytes
    /\ wanted \in 0..(MaxBytes + 1)
    /\ written = 0 /\ received = 0
    /\ sawEnd = FALSE

Held(end) == \E p \in Processes : end \in held[p]

--------------------------------------------------------------------------------
(* The parent.                                                             *)

\* A child has open what the parent has.
Fork(from, c, to) ==
    /\ pc["parent"] = from
    /\ \/ /\ pc' = [pc EXCEPT !["parent"] = to, ![c] = "start"]
          /\ held' = [held EXCEPT ![c] = held["parent"]]
       \/ /\ ForksFail
          /\ pc' = [pc EXCEPT !["parent"] = to]
          /\ UNCHANGED held
    /\ UNCHANGED streamVars

\* Mutant: the parent closes its writing end before the second fork.
ForkReader_Closes ==
    /\ pc["parent"] = "fork1"
    /\ pc' = [pc EXCEPT !["parent"] = "fork2", !["reader"] = "start"]
    /\ held' = [held EXCEPT !["reader"] = Ends, !["parent"] = {"recv"}]
    /\ UNCHANGED streamVars

ForkReader == Fork("fork1", "reader", "fork2")
ForkWriter == Fork("fork2", "writer", "wait1")

\* wait(NULL): a child that has ended, or -1 if there is no child.
Wait(from, to) ==
    /\ pc["parent"] = from
    /\ \/ \E c \in Children :
            /\ pc[c] = "zombie"
            /\ pc' = [pc EXCEPT !["parent"] = to, ![c] = "reaped"]
       \/ /\ \A c \in Children : pc[c] \in {"none", "reaped"}
          /\ pc' = [pc EXCEPT !["parent"] = to]
    /\ UNCHANGED <<held, streamVars>>

ParentCloses(from, end, to) ==
    /\ pc["parent"] = from
    /\ held' = [held EXCEPT !["parent"] = @ \ {end}]
    /\ pc' = [pc EXCEPT !["parent"] = to]
    /\ UNCHANGED streamVars

Parent ==
    \/ ForkReader \/ ForkWriter
    \/ Wait("wait1", "close1")
    \/ ParentCloses("close1", "recv", "close2")
    \/ ParentCloses("close2", "send", "wait2")
    \/ Wait("wait2", "ended")

--------------------------------------------------------------------------------
(* The children.                                                           *)

\* Mutant: the reader keeps the end it does not use.
Unused_WriterOnly(c) == IF c = "writer" THEN {"recv"} ELSE {}

\* The end a child closes before it becomes its program.
Unused(c) == IF c = "writer" THEN {"recv"} ELSE {"send"}

\* close, and dup2 of the other one.
Route(c) ==
    /\ pc[c] = "start"
    /\ held' = [held EXCEPT ![c] = @ \ Unused(c)]
    /\ pc' = [pc EXCEPT ![c] = "exec"]
    /\ UNCHANGED streamVars

\* The process ends, and its descriptors are closed.
Stops(c) ==
    /\ pc' = [pc EXCEPT ![c] = "zombie"]
    /\ held' = [held EXCEPT ![c] = {}]

\* execvp
Exec(c) ==
    /\ pc[c] = "exec"
    /\ IF c \in executable THEN pc' = [pc EXCEPT ![c] = "program"] /\ UNCHANGED held
       ELSE Stops(c)
    /\ UNCHANGED streamVars

--------------------------------------------------------------------------------
(* The two programs and the pipe of the kernel.                            *)

Write ==
    /\ pc["writer"] = "program"
    /\ written < output
    /\ Held("recv") /\ written - received < Capacity
    /\ written' = written + 1
    /\ UNCHANGED <<pc, held, executable, output, wanted, received, sawEnd>>

\* SIGPIPE: nobody can read any more.
WriteDies ==
    /\ pc["writer"] = "program"
    /\ written < output
    /\ ~Held("recv")
    /\ Stops("writer")
    /\ UNCHANGED streamVars

WriterDone ==
    /\ pc["writer"] = "program"
    /\ written = output
    /\ Stops("writer")
    /\ UNCHANGED streamVars

Read ==
    /\ pc["reader"] = "program"
    /\ received < wanted /\ received < written
    /\ received' = received + 1
    /\ UNCHANGED <<pc, held, executable, output, wanted, written, sawEnd>>

\* read returns 0 when the pipe is empty and nobody can write any more.
ReadEnd ==
    /\ pc["reader"] = "program"
    /\ received < wanted /\ received = written
    /\ ~Held("send")
    /\ sawEnd' = TRUE
    /\ Stops("reader")
    /\ UNCHANGED <<executable, output, wanted, written, received>>

ReaderLeaves ==
    /\ pc["reader"] = "program"
    /\ received = wanted
    /\ Stops("reader")
    /\ UNCHANGED streamVars

Child(c) ==
    \/ Route(c) \/ Exec(c)
    \/ c = "writer" /\ (Write \/ WriteDies \/ WriterDone)
    \/ c = "reader" /\ (Read \/ ReadEnd \/ ReaderLeaves)

Next == Parent \/ \E c \in Children : Child(c)

\* All three are processes the scheduler runs.
Spec ==
    /\ Init /\ [][Next]_vars
    /\ WF_vars(Parent) /\ \A c \in Children : WF_vars(Child(c))

--------------------------------------------------------------------------------
(* Properties *)

\* Where the processes are.
ParentPlaces == {"fork1", "fork2", "wait1", "close1", "close2", "wait2", "ended"}
ChildPlaces  == {"none", "start", "exec", "program", "zombie", "reaped"}

TypeOK ==
    /\ pc \in [Processes -> ParentPlaces \cup ChildPlaces]
    /\ pc["parent"] \in ParentPlaces
    /\ \A c \in Children : pc[c] \in ChildPlaces
    /\ held \in [Processes -> SUBSET Ends]
    /\ executable \in SUBSET Children
    /\ output \in 0..MaxBytes
    /\ wanted \in 0..(MaxBytes + 1)
    /\ written \in 0..output /\ received \in 0..written
    /\ sawEnd \in BOOLEAN

(***************************************************************************)
(* The second program sees the end of its input only after it has read all *)
(* that the first one writes: no process gives away the last writing end   *)
(* before, not even before the first program was started.  03_processes/   *)
(* README.md asks to "pipe" all of one program's output to the other.      *)
(***************************************************************************)
EndMeansAll ==
    sawEnd => /\ pc["writer"] \in {"zombie", "reaped"}
              /\ received = (IF "writer" \in executable THEN output ELSE 0)

(***************************************************************************)
(* "correct termination of the pipes and subprocesses, we don't want any   *)
(* zombies" (03_processes/README.md, Custom Pipe Implementation): whichever*)
(* program ends first, the other one learns of it, by the end of its input *)
(* or by SIGPIPE, and the parent leaves no child behind.  This takes both  *)
(* forks: with a single child that needs the other, the parent waits while *)
(* it holds open what the child waits for.                                 *)
(***************************************************************************)
AllGone == pc["parent"] = "ended" /\ \A c \in Children : pc[c] \in {"none", "reaped"}

\* The only child reads what nobody writes, or writes what nobody reads.
Starved == pc["writer"] = "none" /\ pc["reader"] = "program" /\ wanted > 0
Clogged == pc["reader"] = "none" /\ pc["writer"] = "program" /\ output > Capacity

PipelineEnds == <>(AllGone \/ (pc["parent"] = "wait1" /\ (Starved \/ Clogged)))

--------------------------------------------------------------------------------
(* The inductive invariant behind EndMeansAll. *)

\* What each process has open is known from where it is.
HeldWhere ==
    /\ held["parent"] = IF pc["parent"] \in {"wait2", "ended"} THEN {}
                        ELSE IF pc["parent"] = "close2" THEN {"send"} ELSE Ends
    /\ \A c \in Children :
          held[c] = IF pc[c] = "start" THEN Ends
                    ELSE IF pc[c] \in {"exec", "program"} THEN Ends \ Unused(c) ELSE {}

\* The parent closes its ends only after a child was reaped, or if there is none.
FirstReaped ==
    /\ pc["parent"] = "fork1" => pc["reader"] = "none"
    /\ pc["parent"] \in {"fork1", "fork2"} => pc["writer"] = "none"
    /\ pc["parent"] \in {"close1", "close2", "wait2", "ended"} =>
          \/ \E c \in Children : pc[c] = "reaped"
          \/ \A c \in Children : pc[c] = "none"

\* Only the first program writes, and it stops early only if nobody can read.
WritesAll ==
    /\ pc["writer"] \in {"none", "start", "exec"} => written = 0
    /\ "writer" \notin executable => written = 0 /\ pc["writer"] # "program"
    /\ pc["writer"] \in {"zombie", "reaped"} /\ "writer" \in executable =>
          written = output \/ ~Held("recv")

IInv == TypeOK /\ HeldWhere /\ FirstReaped /\ WritesAll /\ EndMeansAll
================================================================================
