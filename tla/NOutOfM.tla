-------------------------------- MODULE NOutOfM --------------------------------
(***************************************************************************)
(* The N-out-of-M programs of src/04_threads: M threads sleep, main waits  *)
(* for N of them.  "pthread" is noutofm_solution.c (mutex and condition    *)
(* variable, the count tested and the condition signalled after the unlock)*)
(* "monitor" is NOutOfMSolution.java (synchronized methods, notifyAll), and*)
(* "latch" is NOutOfMSolutionCDL.java (a CountDownLatch).                  *)
(*                                                                         *)
(* The Java programs count down from N, here everything counts up:         *)
(* value = N - num_threads_finished.  Loading the counter, storing it and  *)
(* unlocking are steps of their own, between which any thread may run.     *)
(***************************************************************************)
EXTENDS Integers, FiniteSets

CONSTANTS
    Kinds,      \* the programs that may be run
    Threads,    \* M threads
    N           \* how many main waits for

ASSUME NOutOfMAssumption ==
    /\ Kinds \subseteq {"pthread", "monitor", "latch"}
    /\ IsFiniteSet(Threads)
    /\ N \in Nat

Main == "main"

Free == "free"

ASSUME MainIsNoThread == {Main, Free} \cap Threads = {} /\ Main # Free

VARIABLES
    kind,                   \* the program that runs
    main,                   \* where main is
    pc,                     \* [Threads -> where the thread is]
    own,                    \* [Threads -> the count it loaded, or wrote]
    num_threads_finished,
    mutex                   \* who holds the mutex or monitor: Main, a thread or Free

vars == <<kind, main, pc, own, num_threads_finished, mutex>>

MainPlaces == {"create", "lock", "test", "wait", "exit"}

ThreadPlaces ==
    {"none", "sleep", "load", "store", "unlock", "check", "signal", "done"}

Init ==
    /\ kind \in Kinds
    /\ main = "create"
    /\ pc = [t \in Threads |-> "none"]
    /\ own = [t \in Threads |-> 0]
    /\ num_threads_finished = 0
    /\ mutex = Free

--------------------------------------------------------------------------------
(* main *)

\* The next round of the loop; a pthread_create that fails goes unnoticed.
Create(t) ==
    /\ main = "create"
    /\ pc[t] = "none"
    /\ pc' = [pc EXCEPT ![t] = "sleep"]
    /\ UNCHANGED <<kind, main, own, num_threads_finished, mutex>>

\* The loop ends; pthread_create may have failed in some rounds.
Created ==
    /\ main = "create"
    /\ kind # "pthread" => \A t \in Threads : pc[t] # "none"
    /\ main' = "lock"
    /\ UNCHANGED <<kind, pc, own, num_threads_finished, mutex>>

\* Mutant: nobody waits for the mutex.
CanLock_Always == TRUE

CanLock == mutex = Free

\* pthread_mutex_lock, or entering the monitor; also after the wait.
MainLocks ==
    /\ main = "lock"
    /\ kind # "latch"
    /\ CanLock
    /\ mutex' = Main
    /\ main' = "test"
    /\ UNCHANGED <<kind, pc, own, num_threads_finished>>

\* Mutant: one thread too few is enough.
TooFew_OffByOne == num_threads_finished < N - 1

TooFew == num_threads_finished < N

\* The condition is false: main waits and lets go of the mutex in one step.
Waits ==
    /\ main = "test"
    /\ TooFew
    /\ main' = "wait"
    /\ mutex' = Free
    /\ UNCHANGED <<kind, pc, own, num_threads_finished>>

\* It is true: main unlocks and ends the program with all its threads.
Exits ==
    /\ \/ main = "test"
       \/ main = "lock" /\ kind = "latch"       \* CountDownLatch.await
    /\ ~TooFew
    /\ main' = "exit"
    /\ mutex' = Free
    /\ UNCHANGED <<kind, pc, own, num_threads_finished>>

\* A wait may return without a signal.
Spurious ==
    /\ main = "wait"
    /\ main' = "lock"
    /\ UNCHANGED <<kind, pc, own, num_threads_finished, mutex>>

--------------------------------------------------------------------------------
(* thread_main *)

Runs(t, place) == main # "exit" /\ pc[t] = place

\* The sleep is over: pthread_mutex_lock, or entering the monitor.
ThreadLocks(t) ==
    /\ Runs(t, "sleep")
    /\ kind # "latch"
    /\ CanLock
    /\ mutex' = t
    /\ pc' = [pc EXCEPT ![t] = "load"]
    /\ UNCHANGED <<kind, main, own, num_threads_finished>>

\* num_threads_finished += 1 reads the counter,
Load(t) ==
    /\ Runs(t, "load")
    /\ own' = [own EXCEPT ![t] = num_threads_finished]
    /\ pc' = [pc EXCEPT ![t] = "store"]
    /\ UNCHANGED <<kind, main, num_threads_finished, mutex>>

\* and writes what it read and one more.
Store(t) ==
    /\ Runs(t, "store")
    /\ num_threads_finished' = own[t] + 1
    /\ own' = [own EXCEPT ![t] = own[t] + 1]
    /\ pc' = [pc EXCEPT ![t] = IF kind = "pthread" THEN "unlock" ELSE "check"]
    /\ UNCHANGED <<kind, main, mutex>>

\* pthread_mutex_unlock, before the test; a monitor is left after it.
Unlock(t) ==
    /\ Runs(t, "unlock")
    /\ mutex' = Free
    /\ pc' = [pc EXCEPT ![t] = "check"]
    /\ UNCHANGED <<kind, main, own, num_threads_finished>>

(***************************************************************************)
(* What line 26 may read without the mutex: the compiler may use the value *)
(* the thread wrote or read any later one.  A synchronized method reads its*)
(* own.                                                                    *)
(***************************************************************************)
Seen(t) == IF kind = "pthread" THEN own[t]..num_threads_finished ELSE {own[t]}

\* Mutant: the thread that makes it N does not signal.
Enough_OffByOne(n) == n > N

Enough(n) == n >= N

\* The test of the counter; a synchronized method that fails it returns.
Check(t) ==
    /\ Runs(t, "check")
    /\ \E n \in Seen(t) :
          /\ pc' = [pc EXCEPT ![t] = IF Enough(n) THEN "signal" ELSE "done"]
          /\ mutex' = IF ~Enough(n) /\ mutex = t THEN Free ELSE mutex
    /\ UNCHANGED <<kind, main, own, num_threads_finished>>

\* pthread_cond_signal or notifyAll: main, if it waits, goes for the mutex.
Signal(t) ==
    /\ Runs(t, "signal")
    /\ pc' = [pc EXCEPT ![t] = "done"]
    /\ main' = IF main = "wait" THEN "lock" ELSE main
    /\ mutex' = IF mutex = t THEN Free ELSE mutex
    /\ UNCHANGED <<kind, own, num_threads_finished>>

\* CountDownLatch.countDown, one step of the library.
CountDown(t) ==
    /\ Runs(t, "sleep")
    /\ kind = "latch"
    /\ num_threads_finished' = num_threads_finished + 1
    /\ own' = [own EXCEPT ![t] = num_threads_finished + 1]
    /\ pc' = [pc EXCEPT ![t] = "done"]
    /\ UNCHANGED <<kind, main, mutex>>

--------------------------------------------------------------------------------

MainStep == Created \/ MainLocks \/ Waits \/ Exits \/ \E t \in Threads : Create(t)

ThreadStep(t) ==
    \/ ThreadLocks(t)
    \/ Load(t)
    \/ Store(t)
    \/ Unlock(t)
    \/ Check(t)
    \/ Signal(t)
    \/ CountDown(t)

Next ==
    \/ MainStep
    \/ Spurious
    \/ \E t \in Threads : ThreadStep(t)

Spec == Init /\ [][Next]_vars

(***************************************************************************)
(* Fairness.  The scheduler runs main and every thread; the sleeps end.  A *)
(* thread gets a mutex that becomes free again and again: spurious wake-ups*)
(* of main, which nobody relies on, do not keep it away for ever.          *)
(***************************************************************************)
FairSpec ==
    /\ Spec
    /\ WF_vars(MainStep)
    /\ \A t \in Threads : WF_vars(ThreadStep(t)) /\ SF_vars(ThreadLocks(t))

--------------------------------------------------------------------------------
(* Properties *)

\* The threads that have counted themselves.
Finished == {t \in Threads : pc[t] \in {"unlock", "check", "signal", "done"}}

\* The type of the state.
TypeOK ==
    /\ kind \in Kinds
    /\ main \in MainPlaces
    /\ pc \in [Threads -> ThreadPlaces]
    /\ own \in [Threads -> Nat]
    /\ num_threads_finished \in Nat
    /\ mutex \in Threads \cup {Main, Free}

(***************************************************************************)
(* No increment is lost between the load and the store of line 24: the     *)
(* counter is the number of threads that have counted themselves.          *)
(***************************************************************************)
CountExact == num_threads_finished = Cardinality(Finished)

(***************************************************************************)
(* The lost wake-up.  If main waits although N threads have finished, one  *)
(* of them is still going to signal, although it signals without the mutex *)
(* (noutofm_solution.c:26) and need not see the count it tests.            *)
(***************************************************************************)
SignalComes ==
    main = "wait" /\ num_threads_finished >= N =>
        \E t \in Threads :
            \/ pc[t] = "signal"
            \/ pc[t] \in {"unlock", "check"} /\ own[t] >= N

(***************************************************************************)
(* The program ends only when N threads are done, and it ends with their   *)
(* work as it stands.                                                      *)
(***************************************************************************)
Latch == INSTANCE Threshold WITH
    Quorums <- {S \in SUBSET Threads : Cardinality(S) >= N},
    finished <- Finished,
    ended <- main = "exit"

ImplementsThreshold == Latch!Spec

(***************************************************************************)
(* It does end if as many threads could be created.                        *)
(***************************************************************************)
ProgramEnds ==
    main = "lock" /\ Cardinality({t \in Threads : pc[t] # "none"}) >= N
        ~> main = "exit"
================================================================================
