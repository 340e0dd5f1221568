------------------------------ MODULE FileService ------------------------------
(***************************************************************************)
(* What a read-only file system promises an application, as the comments   *)
(* of fat_ops in src/07_filesystems/fuse_fat.c name its operations: a file *)
(* that is there can be opened, a read returns the next bytes of it, as    *)
(* many as were asked for unless the file ends before, and an open file    *)
(* knows nothing of other open files.                                      *)
(***************************************************************************)
EXTENDS Integers, Sequences

CONSTANTS
    Opens,      \* the application's open files
    Names,      \* file names
    NoFile,     \* the name of no file
    MaxRead     \* the most bytes a read asks for

VARIABLES
    content,    \* content[n]: the bytes of file n, for the files there are
    file,       \* file[o]: the name o was opened with
    data,       \* data[o]: what was read so far
    eof         \* eof[o]: a read came back short

fvars == <<content, file, data, eof>>

Init ==
    /\ DOMAIN content \subseteq Names
    /\ file = [o \in Opens |-> NoFile]
    /\ data = [o \in Opens |-> <<>>]
    /\ eof = [o \in Opens |-> FALSE]

Open(o) ==
    /\ file[o] = NoFile
    /\ \E n \in DOMAIN content : file' = [file EXCEPT ![o] = n]
    /\ data' = [data EXCEPT ![o] = <<>>]
    /\ eof' = [eof EXCEPT ![o] = FALSE]
    /\ UNCHANGED content

\* A read of want bytes returns them, or all that are left.
Read(o, want) ==
    LET left == Len(content[file[o]]) - Len(data[o])
        n == IF want <= left THEN want ELSE left
    IN  /\ file[o] # NoFile
        /\ data' = [data EXCEPT ![o] =
              @ \o SubSeq(content[file[o]], Len(@) + 1, Len(@) + n)]
        /\ eof' = [eof EXCEPT ![o] = n < want]
        /\ UNCHANGED <<content, file>>

Close(o) ==
    /\ file[o] # NoFile
    /\ file' = [file EXCEPT ![o] = NoFile]
    /\ data' = [data EXCEPT ![o] = <<>>]
    /\ eof' = [eof EXCEPT ![o] = FALSE]
    /\ UNCHANGED content

Next ==
    \E o \in Opens :
        \/ Open(o)
        \/ \E want \in 1..MaxRead : Read(o, want)
        \/ Close(o)

Spec == Init /\ [][Next]_fvars
================================================================================
