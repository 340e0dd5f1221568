------------------------------- MODULE Threshold -------------------------------
(***************************************************************************)
(* What every N-out-of-M program of src/04_threads promises (README.md:20):*)
(* threads finish in any order, and the program ends once N of them have,  *)
(* without waiting for the others.  What counts as enough is a parameter.  *)
(***************************************************************************)
CONSTANTS
    Threads,
    Quorums     \* the sets of threads that are enough: those of N or more

VARIABLES
    finished,   \* the threads that are done with their sleep
    ended       \* the program has ended

tvars == <<finished, ended>>

Init == finished = {} /\ ended = FALSE

Finish(t) ==
    /\ ~ended
    /\ t \notin finished
    /\ finished' = finished \cup {t}
    /\ UNCHANGED ended

End ==
    /\ finished \in Quorums
    /\ ended' = TRUE
    /\ UNCHANGED finished

Next == End \/ \E t \in Threads : Finish(t)

Spec == Init /\ [][Next]_tvars
================================================================================
