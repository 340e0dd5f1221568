--------------------------------- MODULE Workers --------------------------------
(***************************************************************************)
(* The programs that split a count over threads: main creates N threads,   *)
(* joins them one after the other and prints a total.                      *)
(*                                                                         *)
(*   "racy"    counter.c: all threads increment one volatile counter       *)
(*   "mutex"   counter_solution_mutex.c: the same under a mutex            *)
(*   "atomic"  counter_solution_atomics.c: the same by atomic_fetch_add    *)
(*   "local"   monte_carlo_solution.c: each thread counts its hits in a    *)
(*             local variable, which it stores when it is done             *)
(*   "array"   monte_carlo_cache_throttling.c: each thread counts its hits *)
(*             in its own entry of an array                                *)
(*                                                                         *)
(* The increment of the volatile counter is a load and a store.            *)
(***************************************************************************)
EXTENDS Integers, FiniteSets

CONSTANTS
    N,              \* threads
    Rounds,         \* STEPS_PER_THREAD, ROUNDS_PER_THREAD
    Kinds           \* the programs, of those above

ASSUME WorkersAssumption ==
    /\ N \in Nat \ {0} /\ Rounds \in Nat \ {0}
    /\ Kinds \subseteq {"racy", "mutex", "atomic", "local", "array"}

Threads == 0..(N - 1)
Nobody  == N        \* the mutex is free

VARIABLES
    kind,           \* which of the programs
    main,           \* where main is: "create", "join" or "done"
    n,              \* its loop variable
    threads,        \* [Threads -> where it is, rounds done, register or local]
    counter,
    counter_mutex,  \* its holder
    n_in_circle,    \* [Threads -> hits]
    total,          \* what main has added up, and prints in the end
    hits            \* history: the rounds <<t, i>> in which t counted one more

vars == <<kind, main, n, threads, counter, counter_mutex, n_in_circle, total, hits>>
mainVars == <<main, n, total>>

Counting == kind \in {"racy", "mutex", "atomic"}

Init ==
    /\ kind \in Kinds
    /\ main = "create" /\ n = 0
    /\ threads = [t \in Threads |-> [pc |-> "none", i |-> 0, reg |-> 0]]
    /\ counter = 0
    /\ counter_mutex = Nobody
    /\ n_in_circle = [t \in Threads |-> 0]
    /\ total = 0
    /\ hits = {}

--------------------------------------------------------------------------------
(* main *)

\* pthread_create; the thread runs at once.
Create ==
    /\ main = "create" /\ n < N
    /\ threads' = [threads EXCEPT ![n].pc = "loop"]
    /\ n_in_circle' = IF Counting THEN n_in_circle ELSE [n_in_circle EXCEPT ![n] = 0]
    /\ n' = n + 1
    /\ UNCHANGED <<kind, main, counter, counter_mutex, total, hits>>

JoinFirst ==
    /\ main = "create" /\ n = N
    /\ main' = "join" /\ n' = 0
    /\ UNCHANGED <<kind, threads, counter, counter_mutex, n_in_circle, total, hits>>

\* Mutant: does not wait for the thread.
Joinable_AtOnce(t) == TRUE

Joinable(t) == threads[t].pc = "exit"

Join ==
    /\ main = "join" /\ n < N
    /\ Joinable(n)
    /\ total' = IF Counting THEN total ELSE total + n_in_circle[n]
    /\ n' = n + 1
    /\ UNCHANGED <<kind, main, threads, counter, counter_mutex, n_in_circle, hits>>

PrintTotal ==
    /\ main = "join" /\ n = N
    /\ main' = "done"
    /\ total' = IF Counting THEN counter ELSE total
    /\ UNCHANGED <<kind, n, threads, counter, counter_mutex, n_in_circle, hits>>

--------------------------------------------------------------------------------
(* A thread *)

InRound(t) == threads[t].pc = "loop" /\ threads[t].i < Rounds

\* Mutant: goes on although another thread holds the mutex.
Free_Unchecked == TRUE

Free == counter_mutex = Nobody

Lock(t) ==
    /\ kind = "mutex" /\ InRound(t)
    /\ Free
    /\ counter_mutex' = t
    /\ threads' = [threads EXCEPT ![t].pc = "locked"]
    /\ UNCHANGED <<kind, mainVars, counter, n_in_circle, hits>>

Load(t) ==
    /\ (kind = "racy" /\ InRound(t)) \/ threads[t].pc = "locked"
    /\ threads' = [threads EXCEPT ![t].pc = "store", ![t].reg = counter]
    /\ UNCHANGED <<kind, mainVars, counter, counter_mutex, n_in_circle, hits>>

Store(t) ==
    /\ threads[t].pc = "store"
    /\ counter' = threads[t].reg + 1
    /\ threads' = [threads EXCEPT ![t].pc = IF kind = "mutex" THEN "unlock" ELSE "loop",
                                  ![t].i = @ + 1]
    /\ hits' = hits \cup {<<t, threads[t].i>>}
    /\ UNCHANGED <<kind, mainVars, counter_mutex, n_in_circle>>

Unlock(t) ==
    /\ threads[t].pc = "unlock"
    /\ counter_mutex' = Nobody
    /\ threads' = [threads EXCEPT ![t].pc = "loop"]
    /\ UNCHANGED <<kind, mainVars, counter, n_in_circle, hits>>

FetchAdd(t) ==
    /\ kind = "atomic" /\ InRound(t)
    /\ counter' = counter + 1
    /\ threads' = [threads EXCEPT ![t].i = @ + 1]
    /\ hits' = hits \cup {<<t, threads[t].i>>}
    /\ UNCHANGED <<kind, mainVars, counter_mutex, n_in_circle>>

\* A random point that lies outside the circle.
Miss(t) ==
    /\ ~Counting /\ InRound(t)
    /\ threads' = [threads EXCEPT ![t].i = @ + 1]
    /\ UNCHANGED <<kind, mainVars, counter, counter_mutex, n_in_circle, hits>>

\* One that lies inside.  Nobody else uses this entry of the array meanwhile.
Hit(t) ==
    /\ ~Counting /\ InRound(t)
    /\ threads' = [threads EXCEPT ![t].i = @ + 1,
                                  ![t].reg = IF kind = "local" THEN @ + 1 ELSE @]
    /\ n_in_circle' = IF kind = "array" THEN [n_in_circle EXCEPT ![t] = @ + 1]
                      ELSE n_in_circle
    /\ hits' = hits \cup {<<t, threads[t].i>>}
    /\ UNCHANGED <<kind, mainVars, counter, counter_mutex>>

\* The end of the loop.
Exit(t) ==
    /\ threads[t].pc = "loop" /\ threads[t].i = Rounds
    /\ threads' = [threads EXCEPT ![t].pc = "exit"]
    /\ n_in_circle' = IF kind = "local" THEN [n_in_circle EXCEPT ![t] = threads[t].reg]
                      ELSE n_in_circle
    /\ UNCHANGED <<kind, mainVars, counter, counter_mutex, hits>>

Thread(t) ==
    \/ Lock(t) \/ Load(t) \/ Store(t) \/ Unlock(t)
    \/ FetchAdd(t)
    \/ Miss(t) \/ Hit(t)
    \/ Exit(t)

Main == Create \/ JoinFirst \/ Join \/ PrintTotal

Next == Main \/ \E t \in Threads : Thread(t)

Spec == Init /\ [][Next]_vars

--------------------------------------------------------------------------------
(* Properties *)

TypeOK ==
    /\ kind \in Kinds
    /\ main \in {"create", "join", "done"}
    /\ n \in 0..N
    /\ threads \in [Threads -> [pc : {"none", "loop", "locked", "store", "unlock", "exit"},
                                i : 0..Rounds, reg : Nat]]
    /\ counter \in Nat
    /\ counter_mutex \in Threads \cup {Nobody}
    /\ n_in_circle \in [Threads -> Nat]
    /\ total \in Nat
    /\ hits \in SUBSET (Threads \X (0..(Rounds - 1)))

(***************************************************************************)
(* What main prints is the number of increments all threads made, with a   *)
(* mutex or an atomic counter "actual == expected" (04_threads/README.md,  *)
(* Counter, b and c), and with an entry of the array for each thread:      *)
(* none is lost, counted twice, or missed because its thread still ran.    *)
(***************************************************************************)
TotalExact ==
    main = "done" /\ kind # "racy" =>
        total = IF Counting THEN N * Rounds ELSE Cardinality(hits)

(***************************************************************************)
(* Without a mutex the total is at most the number of increments, and at   *)
(* least two, however many threads there are and however many rounds: it   *)
(* may be less than what a single thread counts.  The last store of all is *)
(* a thread's last, whose load came after that thread's first store.       *)
(***************************************************************************)
RacyBounds ==
    main = "done" /\ kind = "racy" =>
        total \in (IF Rounds = 1 THEN 1 ELSE 2)..(N * Rounds)
--------------------------------------------------------------------------------
(* The inductive invariant behind both. *)

Own(t)  == {h \in hits : h[1] = t}
Upto(k) == {h \in hits : h[1] < k}

\* Threads below main's n were created, or joined.
Stages ==
    /\ \A t \in Threads : threads[t].pc = "none" <=> main = "create" /\ t >= n
    /\ \A t \in Threads : main = "join" /\ t < n => threads[t].pc = "exit"
    /\ main = "done" => \A t \in Threads : threads[t].pc = "exit"
    /\ \A t \in Threads :
          /\ threads[t].pc = "none" => threads[t].i = 0 /\ threads[t].reg = 0
          /\ threads[t].pc = "exit" => threads[t].i = Rounds
          /\ threads[t].pc \in {"locked", "store"} => threads[t].i < Rounds
          /\ threads[t].pc \in {"locked", "unlock"} => kind = "mutex"
          /\ threads[t].pc = "store" => kind \in {"racy", "mutex"}

\* A counting thread counts in every round, the others in some.
RoundsCounted ==
    /\ \A h \in hits : h[2] < threads[h[1]].i
    /\ Counting => \A t \in Threads : \A i \in 0..(Rounds - 1) :
                        i < threads[t].i => <<t, i>> \in hits

\* Between its load and its store a thread that holds the mutex knows the counter.
CounterExact ==
    /\ kind = "mutex" => \A t \in Threads :
          /\ threads[t].pc \in {"locked", "store", "unlock"} => counter_mutex = t
          /\ threads[t].pc = "store" => threads[t].reg = counter
    /\ kind \in {"mutex", "atomic"} => counter = Cardinality(hits)

\* What was loaded may be old, but is no less than one after the first store, and
\* the counter is less than two only as long as a thread has its last store to do.
CounterRange ==
    kind = "racy" =>
        /\ counter <= Cardinality(hits)
        /\ \A t \in Threads :
              /\ threads[t].i > 0 => counter > 0
              /\ threads[t].pc = "store" =>
                    /\ threads[t].reg <= Cardinality(hits)
                    /\ threads[t].i > 0 => threads[t].reg > 0
        /\ Rounds > 1 => counter > 1 \/ \E t \in Threads : threads[t].i < Rounds

\* The entry of a thread, or its local variable until it ends, has its hits.
OwnCounted ==
    /\ kind = "local" => \A t \in Threads :
          /\ threads[t].reg = Cardinality(Own(t))
          /\ threads[t].pc = "exit" => n_in_circle[t] = Cardinality(Own(t))
    /\ kind = "array" => \A t \in Threads : n_in_circle[t] = Cardinality(Own(t))

\* Main has added up the threads it has joined.
TotalSoFar ==
    /\ main = "create" => total = 0
    /\ main # "create" /\ ~Counting =>
          total = Cardinality(Upto(IF main = "done" THEN N ELSE n))
    /\ main = "done" /\ Counting => total = counter

IInv ==
    /\ TypeOK /\ Stages /\ RoundsCounted /\ CounterExact /\ CounterRange
    /\ OwnCounted /\ TotalSoFar
================================================================================
