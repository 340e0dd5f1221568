----------------------------- MODULE NOutOfMProofs -----------------------------
(***************************************************************************)
(* For any number of threads and any N: no increment and no wake-up is lost*)
(* in the N-out-of-M programs, and they implement Threshold.               *)
(***************************************************************************)
EXTENDS NOutOfM, FiniteSetTheorems, TLAPS

\* A CountDownLatch has no monitor of the program's to wait on.
LatchNeverWaits == kind = "latch" => main \in {"create", "lock", "exit"}

\* The threads inside the critical section: those of a monitor stay in it to
\* test the counter and to signal.
Inside(t) ==
    \/ pc[t] \in {"load", "store", "unlock"}
    \/ kind = "monitor" /\ pc[t] \in {"check", "signal"}

\* Who is inside holds the mutex; only the C program unlocks before the test.
MutexHeld ==
    /\ \A t \in Threads : pc[t] = "unlock" => kind = "pthread"
    /\ \A t \in Threads : Inside(t) => mutex = t
    /\ main = "test" => mutex = Main

\* What a thread has loaded is still the counter when it stores.
LoadIsFresh == \A t \in Threads : pc[t] = "store" => own[t] = num_threads_finished

\* A latch is counted down by its own library, without a mutex.
LatchIsAtomic == kind = "latch" => \A t \in Threads : pc[t] \in {"none", "sleep", "done"}

(***************************************************************************)
(* The inductive invariant.  CountExact needs LoadIsFresh, which only the  *)
(* mutex keeps.  SignalComes is inductive on its own but for the latch,    *)
(* whose count goes up without a signal.                                   *)
(***************************************************************************)
IInv ==
    /\ TypeOK
    /\ MutexHeld
    /\ LoadIsFresh
    /\ LatchIsAtomic
    /\ CountExact
    /\ LatchNeverWaits
    /\ SignalComes

LEMMA FinishedIsFinite == IsFiniteSet(Finished)
  BY NOutOfMAssumption, FS_Subset DEF Finished

\* A thread that counts itself is counted once.
LEMMA OneMore ==
    ASSUME TypeOK, NEW t \in Threads, pc[t] \in {"sleep", "store"},
           NEW place \in {"unlock", "check", "signal", "done"},
           pc' = [pc EXCEPT ![t] = place]
    PROVE  /\ Finished' = Finished \cup {t}
           /\ t \notin Finished
           /\ Cardinality(Finished') = Cardinality(Finished) + 1
  <1>1. t \notin Finished
    BY DEF Finished
  <1>2. Finished' = Finished \cup {t}
    BY DEF Finished, TypeOK
  <1>3. Cardinality(Finished \cup {t}) = Cardinality(Finished) + 1
    BY <1>1, FinishedIsFinite, FS_AddElement
  <1>. QED
    BY <1>1, <1>2, <1>3

\* Any other move of a thread leaves the count alone.
LEMMA NoneMore ==
    ASSUME TypeOK, NEW t \in Threads, NEW place,
           pc' = [pc EXCEPT ![t] = place],
           pc[t] \in {"unlock", "check", "signal", "done"}
               <=> place \in {"unlock", "check", "signal", "done"}
    PROVE  Finished' = Finished
  BY DEF Finished, TypeOK

LEMMA InitInv == Init => IInv
  <1>. SUFFICES ASSUME Init
                PROVE  IInv
    OBVIOUS
  <1>1. Finished = {}
    BY DEF Init, Finished
  <1>2. CountExact
    BY <1>1, FS_EmptySet DEF Init, CountExact
  <1>3. TypeOK
    BY DEF Init, TypeOK, MainPlaces, ThreadPlaces
  <1>4. MutexHeld /\ LoadIsFresh /\ LatchIsAtomic
    BY DEF Init, MutexHeld, LoadIsFresh, LatchIsAtomic, Inside
  <1>. QED
    BY <1>2, <1>3, <1>4 DEF Init, IInv, LatchNeverWaits, SignalComes

--------------------------------------------------------------------------------
(* Which threads have finished changes in two actions only. *)

\* A step in which the thread t counts itself.
Counts(t) == Store(t) \/ CountDown(t)

LEMMA CountsOnce ==
    ASSUME TypeOK, LoadIsFresh, NEW t \in Threads, Counts(t)
    PROVE  /\ Finished' = Finished \cup {t}
           /\ t \notin Finished
           /\ Cardinality(Finished') = Cardinality(Finished) + 1
           /\ num_threads_finished' = num_threads_finished + 1
           /\ own'[t] = num_threads_finished + 1
           /\ main # "exit" /\ main' = main
  <1>1. CASE Store(t)
    <2>1. /\ pc[t] = "store"
          /\ \E place \in {"unlock", "check"} : pc' = [pc EXCEPT ![t] = place]
      BY <1>1 DEF Store, Runs
    <2>2. /\ Finished' = Finished \cup {t} /\ t \notin Finished
          /\ Cardinality(Finished') = Cardinality(Finished) + 1
      BY <2>1, OneMore
    <2>. QED
      BY <1>1, <2>1, <2>2 DEF Store, Runs, LoadIsFresh, TypeOK
  <1>2. CASE CountDown(t)
    <2>1. pc[t] = "sleep" /\ pc' = [pc EXCEPT ![t] = "done"]
      BY <1>2 DEF CountDown, Runs
    <2>2. /\ Finished' = Finished \cup {t} /\ t \notin Finished
          /\ Cardinality(Finished') = Cardinality(Finished) + 1
      BY <2>1, OneMore
    <2>. QED
      BY <1>2, <2>2 DEF CountDown, Runs, TypeOK
  <1>. QED
    BY <1>1, <1>2 DEF Counts

\* The steps of main, and those of the threads that count nothing.
Quiet ==
    \/ MainStep
    \/ Spurious
    \/ \E t \in Threads :
          ThreadLocks(t) \/ Load(t) \/ Unlock(t) \/ Check(t) \/ Signal(t)

LEMMA StepKinds == Next <=> Quiet \/ \E t \in Threads : Counts(t)
  BY DEF Next, ThreadStep, Quiet, Counts

LEMMA QuietSteps ==
    ASSUME TypeOK, Quiet
    PROVE  Finished' = Finished /\ UNCHANGED num_threads_finished
  <1>1. ASSUME NEW t \in Threads, Create(t)
        PROVE  Finished' = Finished /\ UNCHANGED num_threads_finished
    BY <1>1, NoneMore DEF Create
  <1>2. CASE Created \/ MainLocks \/ Waits \/ Exits \/ Spurious
    BY <1>2 DEF Created, MainLocks, Waits, Exits, Spurious, Finished
  <1>3. ASSUME NEW t \in Threads, ThreadLocks(t) \/ Load(t) \/ Unlock(t)
        PROVE  Finished' = Finished /\ UNCHANGED num_threads_finished
    BY <1>3, NoneMore DEF ThreadLocks, Load, Unlock, Runs
  <1>4. ASSUME NEW t \in Threads, Check(t)
        PROVE  Finished' = Finished /\ UNCHANGED num_threads_finished
    BY <1>4, NoneMore DEF Check, Runs
  <1>5. ASSUME NEW t \in Threads, Signal(t)
        PROVE  Finished' = Finished /\ UNCHANGED num_threads_finished
    BY <1>5, NoneMore DEF Signal, Runs
  <1>. QED
    BY <1>1, <1>2, <1>3, <1>4, <1>5 DEF Quiet, MainStep

LEMMA CountStep ==
    ASSUME TypeOK, LoadIsFresh, CountExact, Next
    PROVE  CountExact'
  <1>1. CASE Quiet
    BY <1>1, QuietSteps DEF CountExact
  <1>2. ASSUME NEW t \in Threads, Counts(t)
        PROVE  CountExact'
    BY <1>2, CountsOnce DEF CountExact
  <1>. QED
    BY <1>1, <1>2, StepKinds

--------------------------------------------------------------------------------
(* The inductive step *)

LEMMA TypeStep ==
    ASSUME TypeOK, Next
    PROVE  TypeOK'
  <1>1. CASE MainStep \/ Spurious
    BY <1>1 DEF MainStep, Create, Created, MainLocks, Waits, Exits, Spurious,
                TypeOK, MainPlaces, ThreadPlaces
  <1>2. ASSUME NEW t \in Threads, ThreadStep(t)
        PROVE  TypeOK'
    BY <1>2 DEF ThreadStep, ThreadLocks, Load, Store, Unlock, Check, Signal,
                CountDown, Runs, TypeOK, MainPlaces, ThreadPlaces
  <1>. QED
    BY <1>1, <1>2 DEF Next

LEMMA LatchStep ==
    ASSUME TypeOK, LatchNeverWaits, LatchIsAtomic, Next
    PROVE  LatchNeverWaits' /\ LatchIsAtomic'
  <1>1. LatchNeverWaits'
    BY DEF Next, MainStep, ThreadStep, Create, Created, MainLocks, Waits, Exits,
           Spurious, ThreadLocks, Load, Store, Unlock, Check, Signal, CountDown,
           LatchNeverWaits
  <1>2. CASE MainStep \/ Spurious
    BY <1>1, <1>2 DEF MainStep, Create, Created, MainLocks, Waits, Exits, Spurious,
                TypeOK, LatchIsAtomic
  <1>3. ASSUME NEW t \in Threads, ThreadStep(t)
        PROVE  LatchIsAtomic'
    BY <1>3 DEF ThreadStep, ThreadLocks, Load, Store, Unlock, Check, Signal,
                CountDown, Runs, TypeOK, LatchIsAtomic
  <1>. QED
    BY <1>1, <1>2, <1>3 DEF Next

\* Nobody enters while somebody is inside.
LEMMA MutexStep ==
    ASSUME TypeOK, MutexHeld, LatchIsAtomic, Next
    PROVE  MutexHeld'
  <1>1. CASE MainStep \/ Spurious
    <2>1. ASSUME NEW t \in Threads, Inside(t)'
          PROVE  Inside(t) /\ mutex = t
      BY <1>1, <2>1 DEF MainStep, Create, Created, MainLocks, Waits, Exits, Spurious,
                        Inside, MutexHeld, TypeOK
    <2>2. \A t \in Threads : pc'[t] = "unlock" => pc[t] = "unlock" /\ kind' = kind
      BY <1>1 DEF MainStep, Create, Created, MainLocks, Waits, Exits, Spurious, TypeOK
    <2>3. ASSUME NEW t \in Threads, Inside(t)'
          PROVE  mutex' = t
      BY <1>1, <2>1, <2>3, MainIsNoThread
         DEF MainStep, Create, Created, MainLocks, Waits, Exits, Spurious, CanLock,
             MutexHeld, LatchIsAtomic, Inside
    <2>4. main' = "test" => mutex' = Main
      BY <1>1 DEF MainStep, Create, Created, MainLocks, Waits, Exits, Spurious, MutexHeld
    <2>. QED
      BY <2>2, <2>3, <2>4 DEF MutexHeld
  <1>2. ASSUME NEW t \in Threads, ThreadStep(t)
        PROVE  MutexHeld'
    <2>1. \A u \in Threads : u # t => (Inside(u)' <=> Inside(u))
      BY <1>2 DEF ThreadStep, ThreadLocks, Load, Store, Unlock, Check, Signal,
                  CountDown, Inside, TypeOK
    <2>0. \A u \in Threads : pc'[u] = "unlock" => kind' = "pthread"
      BY <1>2 DEF ThreadStep, ThreadLocks, Load, Store, Unlock, Check, Signal,
                  CountDown, MutexHeld, TypeOK
    <2>2. CASE ThreadLocks(t)
      BY <2>0, <2>1, <2>2, MainIsNoThread DEF ThreadLocks, CanLock, MutexHeld
    <2>3. CASE Load(t) \/ Store(t)
      <3>1. Inside(t) /\ UNCHANGED <<mutex, main>>
        BY <2>3 DEF Load, Store, Runs, Inside
      <3>. QED
        BY <2>0, <2>1, <3>1 DEF MutexHeld
    <2>4. CASE Unlock(t) \/ Check(t) \/ Signal(t)
      <3>1. CASE Inside(t)
        <4>1. mutex = t
          BY <3>1 DEF MutexHeld
        <4>2. \A u \in Threads : u # t => ~Inside(u)'
          BY <2>1, <4>1 DEF MutexHeld
        <4>3. Inside(t)' => mutex' = t
          BY <2>4, <4>1 DEF Unlock, Check, Signal, Runs, Inside, MutexHeld, TypeOK
        <4>4. main' # "test"
          BY <2>4, <4>1, MainIsNoThread DEF Unlock, Check, Signal, MutexHeld
        <4>. QED
          BY <2>0, <4>2, <4>3, <4>4 DEF MutexHeld
      <3>2. CASE ~Inside(t)
        <4>1. kind \in {"pthread", "monitor", "latch"}
          BY NOutOfMAssumption DEF TypeOK
        <4>2. pc[t] \in {"check", "signal"} /\ kind = "pthread"
          BY <2>4, <3>2, <4>1 DEF Unlock, Check, Signal, Runs, Inside, LatchIsAtomic
        <4>3. ~Inside(t)'
          BY <2>4, <4>2 DEF Unlock, Check, Signal, Runs, Inside, TypeOK
        <4>4. mutex' = mutex \/ mutex = t
          BY <2>4, <4>2 DEF Unlock, Check, Signal, Runs
        <4>5. main' = "test" => main = "test"
          BY <2>4 DEF Unlock, Check, Signal
        <4>. QED
          BY <2>0, <2>1, <4>3, <4>4, <4>5, MainIsNoThread DEF MutexHeld
      <3>. QED
        BY <3>1, <3>2
    <2>5. CASE CountDown(t)
      <3>1. ~Inside(t)'
        BY <2>5 DEF CountDown, Runs, Inside, TypeOK
      <3>. QED
        BY <2>0, <2>1, <2>5, <3>1 DEF CountDown, MutexHeld
    <2>. QED
      BY <1>2, <2>2, <2>3, <2>4, <2>5 DEF ThreadStep
  <1>. QED
    BY <1>1, <1>2 DEF Next

\* Only a thread that holds the mutex stores.
LEMMA FreshStep ==
    ASSUME TypeOK, MutexHeld, LoadIsFresh, LatchIsAtomic, Next
    PROVE  LoadIsFresh'
  <1>1. CASE MainStep \/ Spurious
    BY <1>1 DEF MainStep, Create, Created, MainLocks, Waits, Exits, Spurious,
                TypeOK, LoadIsFresh
  <1>2. ASSUME NEW t \in Threads, ThreadLocks(t) \/ Unlock(t) \/ Check(t) \/ Signal(t)
        PROVE  LoadIsFresh'
    BY <1>2 DEF ThreadLocks, Unlock, Check, Signal, Runs, TypeOK, LoadIsFresh
  <1>3. ASSUME NEW t \in Threads, Load(t)
        PROVE  LoadIsFresh'
    BY <1>3 DEF Load, Runs, TypeOK, LoadIsFresh
  <1>4. ASSUME NEW t \in Threads, Store(t)
        PROVE  LoadIsFresh'
    <2>1. \A u \in Threads : u # t => pc[u] # "store"
      BY <1>4 DEF Store, Runs, Inside, MutexHeld
    <2>. QED
      BY <1>4, <2>1 DEF Store, TypeOK, LoadIsFresh
  <1>5. ASSUME NEW t \in Threads, CountDown(t)
        PROVE  LoadIsFresh'
    BY <1>5 DEF CountDown, LatchIsAtomic, TypeOK, LoadIsFresh
  <1>. QED
    BY <1>1, <1>2, <1>3, <1>4, <1>5 DEF Next, ThreadStep

\* A step that brings the count to N is that of a thread about to signal, and
\* a thread about to signal stays so until main no longer waits.
LEMMA SignalStep ==
    ASSUME TypeOK, LoadIsFresh, LatchNeverWaits, SignalComes, Next
    PROVE  SignalComes'
  <1>. SUFFICES ASSUME main' = "wait", num_threads_finished' >= N
                PROVE  \E u \in Threads :
                          \/ pc'[u] = "signal"
                          \/ pc'[u] \in {"unlock", "check"} /\ own'[u] >= N
    BY DEF SignalComes
  <1>1. num_threads_finished \in Nat /\ N \in Nat
    BY NOutOfMAssumption DEF TypeOK
  <1>2. CASE main # "wait"
    <2>1. Waits
      BY <1>2 DEF Next, MainStep, ThreadStep, Create, Created, MainLocks, Exits,
                  Spurious, ThreadLocks, Load, Store, Unlock, Check, Signal, CountDown
    <2>. QED
      BY <1>1, <2>1 DEF Waits, TooFew
  <1>3. CASE main = "wait" /\ num_threads_finished < N
    <2>1. PICK t \in Threads : Counts(t)
      BY <1>1, <1>3, QuietSteps, StepKinds
    <2>2. num_threads_finished + 1 >= N /\ own'[t] = num_threads_finished + 1
      BY <2>1, CountsOnce
    <2>3. Store(t)
      BY <1>3, <2>1 DEF Counts, CountDown, LatchNeverWaits
    <2>4. pc'[t] \in {"unlock", "check"}
      BY <2>3 DEF Store, TypeOK
    <2>. QED
      BY <2>2, <2>4
  <1>4. CASE main = "wait" /\ num_threads_finished >= N
    <2>1. PICK u \in Threads : \/ pc[u] = "signal"
                               \/ pc[u] \in {"unlock", "check"} /\ own[u] >= N
      BY <1>4 DEF SignalComes
    <2>2. CASE pc'[u] = pc[u] /\ own'[u] = own[u]
      BY <2>1, <2>2
    <2>3. CASE ~(pc'[u] = pc[u] /\ own'[u] = own[u])
      <3>1. \A t \in Threads : ~Signal(t)
        BY <1>4 DEF Signal
      <3>2. Check(u) \/ Unlock(u)
        BY <1>4, <2>1, <2>3, <3>1
           DEF Next, MainStep, ThreadStep, Create, Created, MainLocks, Waits, Exits,
               Spurious, ThreadLocks, Load, Store, Unlock, Check, CountDown, Runs, TypeOK
      <3>3. own[u] >= N /\ own[u] \in Nat
        BY <2>1, <3>2 DEF Check, Unlock, Runs, TypeOK
      <3>4. CASE Unlock(u)
        BY <3>3, <3>4 DEF Unlock, TypeOK
      <3>5. CASE Check(u)
        <4>1. \A n \in Seen(u) : n \in Int /\ n >= N
          BY <1>1, <3>3 DEF Seen
        <4>. QED
          BY <3>5, <4>1 DEF Check, Enough, TypeOK
      <3>. QED
        BY <3>2, <3>4, <3>5
    <2>. QED
      BY <2>2, <2>3
  <1>. QED
    BY <1>1, <1>2, <1>3, <1>4

LEMMA StepInv == IInv /\ [Next]_vars => IInv'
  <1>. SUFFICES ASSUME IInv, [Next]_vars
                PROVE  IInv'
    OBVIOUS
  <1>1. CASE Next
    BY <1>1, TypeStep, MutexStep, FreshStep, LatchStep, CountStep, SignalStep DEF IInv
  <1>2. CASE UNCHANGED vars
    BY <1>2 DEF vars, IInv, TypeOK, MutexHeld, Inside, LoadIsFresh, LatchIsAtomic,
                CountExact, LatchNeverWaits, SignalComes, Finished
  <1>. QED
    BY <1>1, <1>2

LEMMA Invariance == Spec => []IInv
  BY InitInv, StepInv, PTL DEF Spec

(***************************************************************************)
(* No increment is lost: threads load and store the counter one at a time, *)
(* so it is the number of threads that have counted themselves.            *)
(***************************************************************************)
THEOREM NoIncrementLost == Spec => []CountExact
  <1>1. IInv => CountExact
    BY DEF IInv
  <1>. QED
    BY <1>1, Invariance, PTL

(***************************************************************************)
(* No wake-up is lost, although noutofm_solution.c tests the counter and   *)
(* signals after it has unlocked the mutex.                                *)
(***************************************************************************)
THEOREM NoLostWakeUp == Spec => []SignalComes
  <1>1. IInv => SignalComes
    BY DEF IInv
  <1>. QED
    BY <1>1, Invariance, PTL

--------------------------------------------------------------------------------
(* Refinement *)

LEMMA InitRefines == Init => Latch!Init
  BY DEF Init, Latch!Init, Finished

LEMMA StepRefines ==
    IInv /\ [Next]_vars => [Latch!Next]_(Latch!tvars)
  <1>. SUFFICES ASSUME TypeOK, LoadIsFresh, CountExact, Next
                PROVE  Latch!Next \/ UNCHANGED Latch!tvars
    BY DEF IInv, vars, Latch!tvars, Finished
  <1>1. ASSUME NEW t \in Threads, Counts(t)
        PROVE  Latch!Finish(t)
    BY <1>1, CountsOnce DEF Latch!Finish
  <1>2. CASE Quiet /\ ~Exits
    <2>1. (main = "exit") = (main' = "exit")
      BY <1>2 DEF Quiet, MainStep, Create, Created, MainLocks, Waits, Spurious,
                  ThreadLocks, Load, Unlock, Check, Signal
    <2>. QED
      BY <1>2, <2>1, QuietSteps DEF Latch!tvars
  <1>3. CASE Exits
    <2>1. Quiet
      BY <1>3 DEF Quiet, MainStep
    <2>2. Cardinality(Finished) >= N
      <3>1. num_threads_finished \in Nat /\ N \in Nat
        BY NOutOfMAssumption DEF TypeOK
      <3>2. ~(num_threads_finished < N)
        BY <1>3 DEF Exits, TooFew
      <3>3. num_threads_finished = Cardinality(Finished)
        BY DEF CountExact
      <3>. QED
        BY <3>1, <3>2, <3>3
    <2>3. Latch!End
      BY <1>3, <2>1, <2>2, QuietSteps DEF Exits, Latch!End, Finished
    <2>. QED
      BY <2>3 DEF Latch!Next
  <1>. QED
    BY <1>1, <1>2, <1>3, StepKinds DEF Latch!Next

(***************************************************************************)
(* The programs end when N threads are done and not before.                *)
(***************************************************************************)
THEOREM Refinement == Spec => ImplementsThreshold
  BY InitRefines, StepRefines, Invariance, PTL DEF Spec, Latch!Spec, ImplementsThreshold
================================================================================
