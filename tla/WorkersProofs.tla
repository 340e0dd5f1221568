------------------------------ MODULE WorkersProofs -----------------------------
(***************************************************************************)
(* What the total of Workers is, for any number of threads and rounds.     *)
(***************************************************************************)
EXTENDS Workers, FiniteSetTheorems, TLAPS

USE WorkersAssumption DEF Counting, mainVars

--------------------------------------------------------------------------------
(* Counting the rounds. *)

LEMMA RoundsFinite ==
    /\ IsFiniteSet(Threads \X (0..(Rounds - 1)))
    /\ Cardinality(Threads \X (0..(Rounds - 1))) = N * Rounds
<1>1. IsFiniteSet(0..(N - 1)) /\ Cardinality(0..(N - 1)) = N
  BY FS_Interval
<1>2. IsFiniteSet(0..(Rounds - 1)) /\ Cardinality(0..(Rounds - 1)) = Rounds
  BY FS_Interval
<1>3. QED
  BY ZenonT(40), <1>1, <1>2, FS_Product DEF Threads

LEMMA HitsFinite ==
    ASSUME TypeOK
    PROVE  /\ IsFiniteSet(hits) /\ Cardinality(hits) \in 0..(N * Rounds)
           /\ \A t \in Threads : IsFiniteSet(Own(t)) /\ Cardinality(Own(t)) \in Nat
           /\ \A k \in Nat : IsFiniteSet(Upto(k)) /\ Cardinality(Upto(k)) \in Nat
<1>1. IsFiniteSet(hits) /\ Cardinality(hits) <= N * Rounds
  BY RoundsFinite, FS_Subset DEF TypeOK
<1>2. Cardinality(hits) \in Nat
  BY <1>1, FS_CardinalityType
<1>3. ASSUME NEW T \in SUBSET hits
      PROVE  IsFiniteSet(T) /\ Cardinality(T) \in Nat
  <2>1. IsFiniteSet(T)
    BY <1>1, FS_Subset
  <2>2. QED
    BY <2>1, FS_CardinalityType
<1>4. ASSUME NEW t \in Threads
      PROVE  IsFiniteSet(Own(t)) /\ Cardinality(Own(t)) \in Nat
  <2>1. Own(t) \in SUBSET hits
    BY DEF Own
  <2>2. QED
    BY <1>3, <2>1
<1>5. ASSUME NEW k \in Nat
      PROVE  IsFiniteSet(Upto(k)) /\ Cardinality(Upto(k)) \in Nat
  <2>1. Upto(k) \in SUBSET hits
    BY DEF Upto
  <2>2. QED
    BY <1>3, <2>1
<1>6. N * Rounds \in Nat
  OBVIOUS
<1>7. QED
  BY <1>1, <1>2, <1>4, <1>5, <1>6

\* A round that is done now was not counted before.
LEMMA NewHit ==
    ASSUME TypeOK, RoundsCounted, NEW t \in Threads, threads[t].i < Rounds,
           hits' = hits \cup {<<t, threads[t].i>>}
    PROVE  /\ hits' \in SUBSET (Threads \X (0..(Rounds - 1)))
           /\ Cardinality(hits') = Cardinality(hits) + 1
           /\ Cardinality(Own(t)') = Cardinality(Own(t)) + 1
           /\ \A u \in Threads : u # t => Own(u)' = Own(u)
           /\ \A k \in Nat : k <= t => Upto(k)' = Upto(k)
<1> DEFINE h == <<t, threads[t].i>>
<1>1. h \in Threads \X (0..(Rounds - 1)) /\ h[1] = t /\ h \notin hits
  BY DEF TypeOK, RoundsCounted
<1>2. Own(t)' = Own(t) \cup {h} /\ h \notin Own(t)
  BY <1>1 DEF Own
<1>3. Cardinality(hits') = Cardinality(hits) + 1
  BY <1>1, HitsFinite, FS_AddElement
<1>4. Cardinality(Own(t)') = Cardinality(Own(t)) + 1
  BY <1>2, HitsFinite, FS_AddElement
<1>5. \A u \in Threads : u # t => Own(u)' = Own(u)
  BY <1>1 DEF Own
<1>6. \A k \in Nat : k <= t => Upto(k)' = Upto(k)
  BY <1>1 DEF Upto, Threads
<1>7. hits' \in SUBSET (Threads \X (0..(Rounds - 1)))
  BY <1>1 DEF TypeOK
<1>8. QED
  BY <1>3, <1>4, <1>5, <1>6, <1>7

LEMMA SameHits ==
    ASSUME UNCHANGED hits
    PROVE  /\ \A t \in Threads : Own(t)' = Own(t)
           /\ \A k \in Nat : Upto(k)' = Upto(k)
BY DEF Own, Upto

--------------------------------------------------------------------------------
(* The steps. *)

LEMMA InitIInv == Init => IInv
<1> SUFFICES ASSUME Init PROVE IInv
  OBVIOUS
<1>1. Cardinality(hits) = 0 /\ \A t \in Threads : Own(t) = {} /\ Cardinality(Own(t)) = 0
  BY FS_EmptySet DEF Init, Own
<1>2. TypeOK /\ Stages /\ RoundsCounted
  BY DEF Init, TypeOK, Stages, RoundsCounted, Threads, Nobody
<1>3. CounterExact /\ OwnCounted /\ TotalSoFar
  BY <1>1 DEF Init, CounterExact, OwnCounted, TotalSoFar
<1>4. CounterRange
  <2>1. 0 \in Threads
    BY DEF Threads
  <2>2. \A t \in Threads : threads[t].i = 0 /\ threads[t].pc = "none"
    BY DEF Init
  <2>3. QED
    BY <1>1, <2>1, <2>2 DEF Init, CounterRange
<1>5. QED
  BY <1>2, <1>3, <1>4 DEF IInv

LEMMA LockIInv ==
    ASSUME IInv, NEW t \in Threads, Lock(t)
    PROVE  IInv'
<1>1. /\ kind = "mutex" /\ counter_mutex = Nobody
      /\ threads[t].pc = "loop" /\ threads[t].i < Rounds
  BY DEF Lock, InRound, Free, IInv, TypeOK, Stages
<1>2. threads[t].i \in 0..Rounds /\ threads[t].reg \in Nat /\ counter \in Nat
  BY DEF IInv, TypeOK
<1>3. /\ threads' \in [Threads -> [pc : {"none", "loop", "locked", "store", "unlock", "exit"},
                                   i : 0..Rounds, reg : Nat]]
      /\ threads'[t].pc = "locked"
      /\ threads'[t].i = threads[t].i
      /\ threads'[t].reg = threads[t].reg
      /\ \A u \in Threads : u # t => threads'[u] = threads[u]
  <2>1. threads[t].i \in 0..Rounds /\ threads[t].reg \in Nat
    BY <1>1, <1>2
  <2>2. QED
    BY <1>1, <1>2, <2>1 DEF Lock, InRound, Free, IInv, TypeOK
<1>4. /\ kind' = kind /\ main' = main /\ n' = n /\ counter' = counter
      /\ n_in_circle' = n_in_circle /\ total' = total /\ hits' = hits
  BY DEF Lock, InRound, Free
<1>5. counter_mutex' = t
  BY <1>1 DEF Lock, InRound, Free
<1>6. \A u \in Threads : Own(u)' = Own(u)
  BY <1>4, SameHits
<1>7. Cardinality(hits) \in Nat /\ \A u \in Threads : Cardinality(Own(u)) \in Nat
  BY HitsFinite DEF IInv
<1>8. TypeOK'
  BY <1>1, <1>2, <1>3, <1>4, <1>5 DEF IInv, TypeOK
<1>9. Stages'
  BY <1>1, <1>2, <1>3, <1>4, <1>5 DEF IInv, TypeOK, Stages
<1>10. RoundsCounted'
  BY <1>1, <1>2, <1>3, <1>4, <1>5 DEF IInv, TypeOK, Stages, RoundsCounted
<1>11. CounterExact'
  <2>1. \A u \in Threads : threads[u].pc \notin {"locked", "store", "unlock"}
    BY <1>1 DEF IInv, CounterExact, Threads, Nobody
  <2>2. \A u \in Threads : u # t => threads'[u].pc \notin {"locked", "store", "unlock"}
    BY <1>3, <2>1
  <2>3. threads'[t].pc = "locked" /\ counter_mutex' = t
    BY <1>3, <1>5
  <2>4. counter' = Cardinality(hits')
    BY <1>1, <1>4 DEF IInv, CounterExact
  <2>5. QED
    BY <2>2, <2>3, <2>4 DEF CounterExact
<1>12. CounterRange'
  BY <1>1, <1>2, <1>3, <1>4, <1>5, <1>6, <1>7 DEF IInv, TypeOK, Stages, CounterRange
<1>13. OwnCounted'
  BY <1>1, <1>2, <1>3, <1>4, <1>5, <1>6, <1>7 DEF IInv, TypeOK, Stages, OwnCounted
<1>14. TotalSoFar'
  BY <1>1, <1>2, <1>3, <1>4, <1>5 DEF IInv, TypeOK, Stages, TotalSoFar, Upto
<1>15. QED
  BY <1>8, <1>9, <1>10, <1>11, <1>12, <1>13, <1>14 DEF IInv

LEMMA LoadIInv ==
    ASSUME IInv, NEW t \in Threads, Load(t)
    PROVE  IInv'
<1>1. \/ kind = "racy" /\ threads[t].pc = "loop" /\ threads[t].i < Rounds
      \/ kind = "mutex" /\ threads[t].pc = "locked" /\ threads[t].i < Rounds
  BY DEF Load, InRound, IInv, TypeOK, Stages
<1>2. threads[t].i \in 0..Rounds /\ threads[t].reg \in Nat /\ counter \in Nat
  BY DEF IInv, TypeOK
<1>3. /\ threads' \in [Threads -> [pc : {"none", "loop", "locked", "store", "unlock", "exit"},
                                   i : 0..Rounds, reg : Nat]]
      /\ threads'[t].pc = "store"
      /\ threads'[t].i = threads[t].i
      /\ threads'[t].reg = counter
      /\ \A u \in Threads : u # t => threads'[u] = threads[u]
  <2>1. threads[t].i \in 0..Rounds /\ counter \in Nat
    BY <1>1, <1>2
  <2>2. QED
    BY <1>1, <1>2, <2>1 DEF Load, InRound, IInv, TypeOK
<1>4. /\ kind' = kind /\ main' = main /\ n' = n /\ counter' = counter
      /\ counter_mutex' = counter_mutex /\ n_in_circle' = n_in_circle
      /\ total' = total /\ hits' = hits
  BY DEF Load, InRound
<1>5. \A u \in Threads : Own(u)' = Own(u)
  BY <1>4, SameHits
<1>6. Cardinality(hits) \in Nat /\ \A u \in Threads : Cardinality(Own(u)) \in Nat
  BY HitsFinite DEF IInv
<1>7. TypeOK'
  BY <1>1, <1>2, <1>3, <1>4 DEF IInv, TypeOK
<1>8. Stages'
  BY <1>1, <1>2, <1>3, <1>4 DEF IInv, TypeOK, Stages
<1>9. RoundsCounted'
  BY <1>1, <1>2, <1>3, <1>4 DEF IInv, TypeOK, Stages, RoundsCounted
<1>10. CounterExact'
  BY <1>1, <1>2, <1>3, <1>4, <1>5, <1>6 DEF IInv, TypeOK, Stages, CounterExact
<1>11. CounterRange'
  BY <1>1, <1>2, <1>3, <1>4, <1>5, <1>6 DEF IInv, TypeOK, Stages, CounterRange
<1>12. OwnCounted'
  BY <1>1, <1>2, <1>3, <1>4, <1>5, <1>6 DEF IInv, TypeOK, Stages, OwnCounted
<1>13. TotalSoFar'
  BY <1>1, <1>2, <1>3, <1>4 DEF IInv, TypeOK, Stages, TotalSoFar, Upto
<1>14. QED
  BY <1>7, <1>8, <1>9, <1>10, <1>11, <1>12, <1>13 DEF IInv

LEMMA StoreIInv ==
    ASSUME IInv, NEW t \in Threads, Store(t)
    PROVE  IInv'
<1>1. kind \in {"racy", "mutex"} /\ threads[t].pc = "store" /\ threads[t].i < Rounds
  BY DEF Store, IInv, TypeOK, Stages
<1>2. threads[t].i \in 0..Rounds /\ threads[t].reg \in Nat /\ counter \in Nat
  BY DEF IInv, TypeOK
<1>3. /\ threads' \in [Threads -> [pc : {"none", "loop", "locked", "store", "unlock", "exit"},
                                   i : 0..Rounds, reg : Nat]]
      /\ threads'[t].pc = (IF kind = "mutex" THEN "unlock" ELSE "loop")
      /\ threads'[t].i = threads[t].i + 1
      /\ threads'[t].reg = threads[t].reg
      /\ \A u \in Threads : u # t => threads'[u] = threads[u]
  <2>1. threads[t].i + 1 \in 0..Rounds /\ threads[t].reg \in Nat
    BY <1>1, <1>2
  <2>2. QED
    BY <1>1, <1>2, <2>1 DEF Store, IInv, TypeOK
<1>4. /\ kind' = kind /\ main' = main /\ n' = n
      /\ counter_mutex' = counter_mutex /\ n_in_circle' = n_in_circle /\ total' = total
  BY DEF Store
<1>5. counter' = threads[t].reg + 1
  BY <1>1 DEF Store
<1>6. /\ Cardinality(hits') = Cardinality(hits) + 1
      /\ Cardinality(Own(t)') = Cardinality(Own(t)) + 1
      /\ \A u \in Threads : u # t => Own(u)' = Own(u)
  BY <1>1, NewHit DEF Store, IInv
<1>7. hits' = hits \cup {<<t, threads[t].i>>}
  BY DEF Store
<1>8. Cardinality(hits) \in Nat /\ \A u \in Threads : Cardinality(Own(u)) \in Nat
  BY HitsFinite DEF IInv
<1>9. TypeOK'
  <2>1. hits' \in SUBSET (Threads \X (0..(Rounds - 1)))
    BY <1>1, <1>7, NewHit DEF IInv
  <2>2. QED
    BY <1>1, <1>2, <1>3, <1>4, <1>5, <2>1 DEF IInv, TypeOK
<1>10. Stages'
  BY <1>1, <1>2, <1>3, <1>4, <1>5 DEF IInv, TypeOK, Stages
<1>11. RoundsCounted'
  <2>1. \A h \in hits' : h[2] < threads'[h[1]].i
    BY <1>2, <1>3, <1>7 DEF IInv, TypeOK, RoundsCounted
  <2>2. ASSUME NEW u \in Threads, NEW i \in 0..(Rounds - 1), i < threads'[u].i
        PROVE  <<u, i>> \in hits'
    <3>1. i < threads[u].i \/ (u = t /\ i = threads[t].i)
      BY <1>2, <1>3, <2>2
    <3>2. QED
      BY <1>1, <1>7, <3>1 DEF IInv, RoundsCounted
  <2>3. QED
    BY <2>1, <2>2 DEF RoundsCounted
<1>12. CounterExact'
  BY <1>1, <1>2, <1>3, <1>4, <1>5, <1>6, <1>8 DEF IInv, TypeOK, Stages, CounterExact
<1>13. CounterRange'
  BY <1>1, <1>2, <1>3, <1>4, <1>5, <1>6, <1>8 DEF IInv, TypeOK, Stages, CounterRange
<1>14. OwnCounted'
  BY <1>1, <1>2, <1>3, <1>4, <1>5, <1>6, <1>8 DEF IInv, TypeOK, Stages, OwnCounted
<1>15. TotalSoFar'
  <2>1. main # "done" /\ (main = "join" => n <= t)
    BY <1>1 DEF IInv, Stages, TypeOK, Threads
  <2>2. main = "join" => Upto(n)' = Upto(n)
    <3>1. \A k \in Nat : k <= t => Upto(k)' = {h \in hits' : h[1] < k} /\ Upto(k)' = Upto(k)
      BY <1>1, <1>7, NewHit DEF IInv, Upto
    <3>2. n \in Nat /\ n' = n
      BY <1>4 DEF IInv, TypeOK
    <3>3. QED
      BY <2>1, <3>1, <3>2 DEF Upto
  <2>3. QED
    BY <1>1, <1>4, <2>1, <2>2 DEF IInv, TypeOK, TotalSoFar
<1>16. QED
  BY <1>9, <1>10, <1>11, <1>12, <1>13, <1>14, <1>15 DEF IInv

LEMMA UnlockIInv ==
    ASSUME IInv, NEW t \in Threads, Unlock(t)
    PROVE  IInv'
<1>1. kind = "mutex" /\ threads[t].pc = "unlock"
  BY DEF Unlock, IInv, TypeOK, Stages
<1>2. threads[t].i \in 0..Rounds /\ threads[t].reg \in Nat /\ counter \in Nat
  BY DEF IInv, TypeOK
<1>3. /\ threads' \in [Threads -> [pc : {"none", "loop", "locked", "store", "unlock", "exit"},
                                   i : 0..Rounds, reg : Nat]]
      /\ threads'[t].pc = "loop"
      /\ threads'[t].i = threads[t].i
      /\ threads'[t].reg = threads[t].reg
      /\ \A u \in Threads : u # t => threads'[u] = threads[u]
  <2>1. threads[t].i \in 0..Rounds /\ threads[t].reg \in Nat
    BY <1>1, <1>2
  <2>2. QED
    BY <1>1, <1>2, <2>1 DEF Unlock, IInv, TypeOK
<1>4. /\ kind' = kind /\ main' = main /\ n' = n /\ counter' = counter
      /\ n_in_circle' = n_in_circle /\ total' = total /\ hits' = hits
  BY DEF Unlock
<1>5. counter_mutex' = Nobody
  BY <1>1 DEF Unlock
<1>6. \A u \in Threads : Own(u)' = Own(u)
  BY <1>4, SameHits
<1>7. Cardinality(hits) \in Nat /\ \A u \in Threads : Cardinality(Own(u)) \in Nat
  BY HitsFinite DEF IInv
<1>8. TypeOK'
  BY <1>1, <1>2, <1>3, <1>4, <1>5 DEF IInv, TypeOK
<1>9. Stages'
  BY <1>1, <1>2, <1>3, <1>4, <1>5 DEF IInv, TypeOK, Stages
<1>10. RoundsCounted'
  BY <1>1, <1>2, <1>3, <1>4, <1>5 DEF IInv, TypeOK, Stages, RoundsCounted
<1>11. CounterExact'
  BY <1>1, <1>2, <1>3, <1>4, <1>5, <1>6, <1>7 DEF IInv, TypeOK, Stages, CounterExact
<1>12. CounterRange'
  BY <1>1, <1>2, <1>3, <1>4, <1>5, <1>6, <1>7 DEF IInv, TypeOK, Stages, CounterRange
<1>13. OwnCounted'
  BY <1>1, <1>2, <1>3, <1>4, <1>5, <1>6, <1>7 DEF IInv, TypeOK, Stages, OwnCounted
<1>14. TotalSoFar'
  BY <1>1, <1>2, <1>3, <1>4, <1>5 DEF IInv, TypeOK, Stages, TotalSoFar, Upto
<1>15. QED
  BY <1>8, <1>9, <1>10, <1>11, <1>12, <1>13, <1>14 DEF IInv

LEMMA FetchAddIInv ==
    ASSUME IInv, NEW t \in Threads, FetchAdd(t)
    PROVE  IInv'
<1>1. kind = "atomic" /\ threads[t].pc = "loop" /\ threads[t].i < Rounds
  BY DEF FetchAdd, InRound, IInv, TypeOK, Stages
<1>2. threads[t].i \in 0..Rounds /\ threads[t].reg \in Nat /\ counter \in Nat
  BY DEF IInv, TypeOK
<1>3. /\ threads' \in [Threads -> [pc : {"none", "loop", "locked", "store", "unlock", "exit"},
                                   i : 0..Rounds, reg : Nat]]
      /\ threads'[t].pc = "loop"
      /\ threads'[t].i = threads[t].i + 1
      /\ threads'[t].reg = threads[t].reg
      /\ \A u \in Threads : u # t => threads'[u] = threads[u]
  <2>1. threads[t].i + 1 \in 0..Rounds /\ threads[t].reg \in Nat
    BY <1>1, <1>2
  <2>2. QED
    BY <1>1, <1>2, <2>1 DEF FetchAdd, InRound, IInv, TypeOK
<1>4. /\ kind' = kind /\ main' = main /\ n' = n
      /\ counter_mutex' = counter_mutex /\ n_in_circle' = n_in_circle /\ total' = total
  BY DEF FetchAdd, InRound
<1>5. counter' = counter + 1
  BY <1>1 DEF FetchAdd, InRound
<1>6. /\ Cardinality(hits') = Cardinality(hits) + 1
      /\ Cardinality(Own(t)') = Cardinality(Own(t)) + 1
      /\ \A u \in Threads : u # t => Own(u)' = Own(u)
  BY <1>1, NewHit DEF FetchAdd, IInv
<1>7. hits' = hits \cup {<<t, threads[t].i>>}
  BY DEF FetchAdd
<1>8. Cardinality(hits) \in Nat /\ \A u \in Threads : Cardinality(Own(u)) \in Nat
  BY HitsFinite DEF IInv
<1>9. TypeOK'
  <2>1. hits' \in SUBSET (Threads \X (0..(Rounds - 1)))
    BY <1>1, <1>7, NewHit DEF IInv
  <2>2. QED
    BY <1>1, <1>2, <1>3, <1>4, <1>5, <2>1 DEF IInv, TypeOK
<1>10. Stages'
  BY SMTT(40), <1>1, <1>2, <1>3, <1>4, <1>5 DEF IInv, TypeOK, Stages
<1>11. RoundsCounted'
  <2>1. \A h \in hits' : h[2] < threads'[h[1]].i
    BY <1>2, <1>3, <1>7 DEF IInv, TypeOK, RoundsCounted
  <2>2. ASSUME NEW u \in Threads, NEW i \in 0..(Rounds - 1), i < threads'[u].i
        PROVE  <<u, i>> \in hits'
    <3>1. i < threads[u].i \/ (u = t /\ i = threads[t].i)
      BY <1>2, <1>3, <2>2
    <3>2. QED
      BY <1>1, <1>7, <3>1 DEF IInv, RoundsCounted
  <2>3. QED
    BY <2>1, <2>2 DEF RoundsCounted
<1>12. CounterExact'
  BY <1>1, <1>2, <1>3, <1>4, <1>5, <1>6, <1>8 DEF IInv, TypeOK, Stages, CounterExact
<1>13. CounterRange'
  BY <1>1, <1>2, <1>3, <1>4, <1>5, <1>6, <1>8 DEF IInv, TypeOK, Stages, CounterRange
<1>14. OwnCounted'
  BY <1>1, <1>2, <1>3, <1>4, <1>5, <1>6, <1>8 DEF IInv, TypeOK, Stages, OwnCounted
<1>15. TotalSoFar'
  <2>1. main # "done" /\ (main = "join" => n <= t)
    BY <1>1 DEF IInv, Stages, TypeOK, Threads
  <2>2. main = "join" => Upto(n)' = Upto(n)
    <3>1. \A k \in Nat : k <= t => Upto(k)' = {h \in hits' : h[1] < k} /\ Upto(k)' = Upto(k)
      BY <1>1, <1>7, NewHit DEF IInv, Upto
    <3>2. n \in Nat /\ n' = n
      BY <1>4 DEF IInv, TypeOK
    <3>3. QED
      BY <2>1, <3>1, <3>2 DEF Upto
  <2>3. QED
    BY <1>1, <1>4, <2>1, <2>2 DEF IInv, TypeOK, TotalSoFar
<1>16. QED
  BY <1>9, <1>10, <1>11, <1>12, <1>13, <1>14, <1>15 DEF IInv

LEMMA MissIInv ==
    ASSUME IInv, NEW t \in Threads, Miss(t)
    PROVE  IInv'
<1>1. kind \in {"local", "array"} /\ threads[t].pc = "loop" /\ threads[t].i < Rounds
  BY DEF Miss, InRound, IInv, TypeOK, Stages
<1>2. threads[t].i \in 0..Rounds /\ threads[t].reg \in Nat /\ counter \in Nat
  BY DEF IInv, TypeOK
<1>3. /\ threads' \in [Threads -> [pc : {"none", "loop", "locked", "store", "unlock", "exit"},
                                   i : 0..Rounds, reg : Nat]]
      /\ threads'[t].pc = "loop"
      /\ threads'[t].i = threads[t].i + 1
      /\ threads'[t].reg = threads[t].reg
      /\ \A u \in Threads : u # t => threads'[u] = threads[u]
  <2>1. threads[t].i + 1 \in 0..Rounds /\ threads[t].reg \in Nat
    BY <1>1, <1>2
  <2>2. QED
    BY <1>1, <1>2, <2>1 DEF Miss, InRound, IInv, TypeOK
<1>4. /\ kind' = kind /\ main' = main /\ n' = n /\ counter' = counter
      /\ counter_mutex' = counter_mutex /\ n_in_circle' = n_in_circle
      /\ total' = total /\ hits' = hits
  BY DEF Miss, InRound
<1>5. \A u \in Threads : Own(u)' = Own(u)
  BY <1>4, SameHits
<1>6. Cardinality(hits) \in Nat /\ \A u \in Threads : Cardinality(Own(u)) \in Nat
  BY HitsFinite DEF IInv
<1>7. TypeOK'
  BY <1>1, <1>2, <1>3, <1>4 DEF IInv, TypeOK
<1>8. Stages'
  BY SMTT(40), <1>1, <1>2, <1>3, <1>4 DEF IInv, TypeOK, Stages
<1>9. RoundsCounted'
  BY <1>1, <1>2, <1>3, <1>4 DEF IInv, TypeOK, Stages, RoundsCounted
<1>10. CounterExact'
  BY <1>1, <1>2, <1>3, <1>4, <1>5, <1>6 DEF IInv, TypeOK, Stages, CounterExact
<1>11. CounterRange'
  BY <1>1, <1>2, <1>3, <1>4, <1>5, <1>6 DEF IInv, TypeOK, Stages, CounterRange
<1>12. OwnCounted'
  BY <1>1, <1>2, <1>3, <1>4, <1>5, <1>6 DEF IInv, TypeOK, Stages, OwnCounted
<1>13. TotalSoFar'
  BY <1>1, <1>2, <1>3, <1>4 DEF IInv, TypeOK, Stages, TotalSoFar, Upto
<1>14. QED
  BY <1>7, <1>8, <1>9, <1>10, <1>11, <1>12, <1>13 DEF IInv

LEMMA HitIInv ==
    ASSUME IInv, NEW t \in Threads, Hit(t)
    PROVE  IInv'
<1>1. kind \in {"local", "array"} /\ threads[t].pc = "loop" /\ threads[t].i < Rounds
  BY DEF Hit, InRound, IInv, TypeOK, Stages
<1>2. threads[t].i \in 0..Rounds /\ threads[t].reg \in Nat /\ counter \in Nat
  BY DEF IInv, TypeOK
<1>3. /\ threads' \in [Threads -> [pc : {"none", "loop", "locked", "store", "unlock", "exit"},
                                   i : 0..Rounds, reg : Nat]]
      /\ threads'[t].pc = "loop"
      /\ threads'[t].i = threads[t].i + 1
      /\ threads'[t].reg = (IF kind = "local" THEN threads[t].reg + 1 ELSE threads[t].reg)
      /\ \A u \in Threads : u # t => threads'[u] = threads[u]
  <2>1. /\ threads[t].i + 1 \in 0..Rounds
        /\ (IF kind = "local" THEN threads[t].reg + 1 ELSE threads[t].reg) \in Nat
    BY <1>1, <1>2
  <2>2. QED
    BY <1>1, <1>2, <2>1 DEF Hit, InRound, IInv, TypeOK
<1>4. /\ kind' = kind /\ main' = main /\ n' = n
      /\ counter' = counter /\ counter_mutex' = counter_mutex /\ total' = total
  BY DEF Hit, InRound
<1>5. n_in_circle' = IF kind = "array" THEN [n_in_circle EXCEPT ![t] = @ + 1] ELSE n_in_circle
  BY <1>1 DEF Hit, InRound
<1>6. /\ Cardinality(hits') = Cardinality(hits) + 1
      /\ Cardinality(Own(t)') = Cardinality(Own(t)) + 1
      /\ \A u \in Threads : u # t => Own(u)' = Own(u)
  BY <1>1, NewHit DEF Hit, IInv
<1>7. hits' = hits \cup {<<t, threads[t].i>>}
  BY DEF Hit
<1>8. Cardinality(hits) \in Nat /\ \A u \in Threads : Cardinality(Own(u)) \in Nat
  BY HitsFinite DEF IInv
<1>9. TypeOK'
  <2>1. hits' \in SUBSET (Threads \X (0..(Rounds - 1)))
    BY <1>1, <1>7, NewHit DEF IInv
  <2>2. QED
    BY <1>1, <1>2, <1>3, <1>4, <1>5, <2>1 DEF IInv, TypeOK
<1>10. Stages'
  BY <1>1, <1>2, <1>3, <1>4, <1>5 DEF IInv, TypeOK, Stages
<1>11. RoundsCounted'
  BY <1>1, <1>2, <1>3, <1>4, <1>5, <1>7 DEF IInv, TypeOK, Stages, RoundsCounted
<1>12. CounterExact'
  BY <1>1, <1>2, <1>3, <1>4, <1>5, <1>6, <1>8 DEF IInv, TypeOK, Stages, CounterExact
<1>13. CounterRange'
  BY <1>1, <1>2, <1>3, <1>4, <1>5, <1>6, <1>8 DEF IInv, TypeOK, Stages, CounterRange
<1>14. OwnCounted'
  BY <1>1, <1>2, <1>3, <1>4, <1>5, <1>6, <1>8 DEF IInv, TypeOK, Stages, OwnCounted
<1>15. TotalSoFar'
  <2>1. main # "done" /\ (main = "join" => n <= t)
    BY <1>1 DEF IInv, Stages, TypeOK, Threads
  <2>2. main = "join" => Upto(n)' = Upto(n)
    <3>1. \A k \in Nat : k <= t => Upto(k)' = {h \in hits' : h[1] < k} /\ Upto(k)' = Upto(k)
      BY <1>1, <1>7, NewHit DEF IInv, Upto
    <3>2. n \in Nat /\ n' = n
      BY <1>4 DEF IInv, TypeOK
    <3>3. QED
      BY <2>1, <3>1, <3>2 DEF Upto
  <2>3. QED
    BY <1>1, <1>4, <2>1, <2>2 DEF IInv, TypeOK, TotalSoFar
<1>16. QED
  BY <1>9, <1>10, <1>11, <1>12, <1>13, <1>14, <1>15 DEF IInv

LEMMA ExitIInv ==
    ASSUME IInv, NEW t \in Threads, Exit(t)
    PROVE  IInv'
<1>1. threads[t].pc = "loop" /\ threads[t].i = Rounds
  BY DEF Exit, IInv, TypeOK, Stages
<1>2. threads[t].i \in 0..Rounds /\ threads[t].reg \in Nat /\ counter \in Nat
  BY DEF IInv, TypeOK
<1>3. /\ threads' \in [Threads -> [pc : {"none", "loop", "locked", "store", "unlock", "exit"},
                                   i : 0..Rounds, reg : Nat]]
      /\ threads'[t].pc = "exit"
      /\ threads'[t].i = threads[t].i
      /\ threads'[t].reg = threads[t].reg
      /\ \A u \in Threads : u # t => threads'[u] = threads[u]
  <2>1. threads[t].i \in 0..Rounds /\ threads[t].reg \in Nat
    BY <1>1, <1>2
  <2>2. QED
    BY <1>1, <1>2, <2>1 DEF Exit, IInv, TypeOK
<1>4. /\ kind' = kind /\ main' = main /\ n' = n /\ counter' = counter
      /\ counter_mutex' = counter_mutex /\ total' = total /\ hits' = hits
  BY DEF Exit
<1>5. n_in_circle' = IF kind = "local" THEN [n_in_circle EXCEPT ![t] = threads[t].reg]
                     ELSE n_in_circle
  BY <1>1 DEF Exit
<1>6. \A u \in Threads : Own(u)' = Own(u)
  BY <1>4, SameHits
<1>7. Cardinality(hits) \in Nat /\ \A u \in Threads : Cardinality(Own(u)) \in Nat
  BY HitsFinite DEF IInv
<1>8. TypeOK'
  BY <1>1, <1>2, <1>3, <1>4, <1>5 DEF IInv, TypeOK
<1>9. Stages'
  BY <1>1, <1>2, <1>3, <1>4, <1>5 DEF IInv, TypeOK, Stages
<1>10. RoundsCounted'
  BY <1>1, <1>2, <1>3, <1>4, <1>5 DEF IInv, TypeOK, Stages, RoundsCounted
<1>11. CounterExact'
  BY <1>1, <1>2, <1>3, <1>4, <1>5, <1>6, <1>7 DEF IInv, TypeOK, Stages, CounterExact
<1>12. CounterRange'
  BY <1>1, <1>2, <1>3, <1>4, <1>5, <1>6, <1>7 DEF IInv, TypeOK, Stages, CounterRange
<1>13. OwnCounted'
  BY <1>1, <1>2, <1>3, <1>4, <1>5, <1>6, <1>7 DEF IInv, TypeOK, Stages, OwnCounted
<1>14. TotalSoFar'
  BY <1>1, <1>2, <1>3, <1>4, <1>5 DEF IInv, TypeOK, Stages, TotalSoFar, Upto
<1>15. QED
  BY <1>8, <1>9, <1>10, <1>11, <1>12, <1>13, <1>14 DEF IInv

LEMMA CreateIInv ==
    ASSUME IInv, Create
    PROVE  IInv'
<1>1. main = "create" /\ n \in Threads /\ n < N
  BY DEF Create, IInv, TypeOK, Threads
<1>2. threads[n].pc = "none" /\ threads[n].i = 0 /\ threads[n].reg = 0
  BY <1>1 DEF IInv, TypeOK, Stages
<1>3. /\ threads' \in [Threads -> [pc : {"none", "loop", "locked", "store", "unlock", "exit"},
                                   i : 0..Rounds, reg : Nat]]
      /\ threads'[n].pc = "loop" /\ threads'[n].i = 0 /\ threads'[n].reg = 0
      /\ \A u \in Threads : u # n => threads'[u] = threads[u]
  BY <1>1, <1>2 DEF Create, IInv, TypeOK
<1>4. /\ kind' = kind /\ main' = main /\ n' = n + 1 /\ hits' = hits
      /\ counter' = counter /\ counter_mutex' = counter_mutex /\ total' = total
      /\ n_in_circle' = IF Counting THEN n_in_circle ELSE [n_in_circle EXCEPT ![n] = 0]
  BY DEF Create
<1>5. \A u \in Threads : Own(u)' = Own(u)
  BY <1>4, SameHits
<1>6. Cardinality(hits) \in Nat /\ \A u \in Threads : Cardinality(Own(u)) \in Nat
  BY HitsFinite DEF IInv
<1>7. Cardinality(Own(n)) = 0
  <2>1. Own(n) = {}
    BY <1>1, <1>2 DEF Own, IInv, TypeOK, RoundsCounted
  <2>2. QED
    BY <2>1, FS_EmptySet
<1>8. TypeOK'
  <2>1. n' \in 0..N
    BY <1>1, <1>4 DEF Threads
  <2>2. n_in_circle' \in [Threads -> Nat]
    BY <1>4 DEF IInv, TypeOK
  <2>3. QED
    BY <1>3, <1>4, <2>1, <2>2 DEF IInv, TypeOK
<1>9. Stages'
  <2>1. \A u \in Threads : u # n => (u >= n' <=> u >= n)
    BY <1>1, <1>4 DEF Threads
  <2>2. ~(n >= n')
    BY <1>1, <1>4 DEF Threads
  <2>3. QED
    BY <1>1, <1>3, <1>4, <2>1, <2>2 DEF IInv, TypeOK, Stages
<1>10. RoundsCounted'
  <2>1. \A u \in Threads : threads'[u].i = threads[u].i
    BY <1>1, <1>2, <1>3
  <2>2. QED
    BY <1>4, <2>1 DEF IInv, TypeOK, RoundsCounted
<1>11. CounterExact'
  BY <1>1, <1>3, <1>4 DEF IInv, TypeOK, CounterExact
<1>12. CounterRange'
  <2>1. \A u \in Threads : threads'[u].i = threads[u].i
    BY <1>1, <1>2, <1>3
  <2>2. \A u \in Threads : threads'[u].pc = "store" => threads'[u] = threads[u]
    BY <1>1, <1>3
  <2>3. QED
    BY <1>4, <2>1, <2>2 DEF IInv, TypeOK, CounterRange
<1>13. OwnCounted'
  BY <1>1, <1>2, <1>3, <1>4, <1>5, <1>6, <1>7 DEF IInv, TypeOK, OwnCounted
<1>14. TotalSoFar'
  BY <1>1, <1>4 DEF IInv, TotalSoFar
<1>15. QED
  BY <1>8, <1>9, <1>10, <1>11, <1>12, <1>13, <1>14 DEF IInv

LEMMA JoinFirstIInv ==
    ASSUME IInv, JoinFirst
    PROVE  IInv'
<1>1. /\ main = "create" /\ n = N /\ main' = "join" /\ n' = 0
      /\ kind' = kind /\ threads' = threads /\ total' = total /\ hits' = hits
      /\ counter' = counter /\ counter_mutex' = counter_mutex /\ n_in_circle' = n_in_circle
  BY DEF JoinFirst
<1>2. \A u \in Threads : Own(u)' = Own(u)
  BY <1>1, SameHits
<1>3. TypeOK' /\ RoundsCounted'
  BY <1>1 DEF IInv, TypeOK, RoundsCounted
<1>4. Stages'
  <2>1. \A u \in Threads : ~(u >= n) /\ ~(u < 0)
    BY <1>1 DEF Threads
  <2>2. QED
    BY <1>1, <2>1 DEF IInv, TypeOK, Stages
<1>5. CounterExact' /\ CounterRange' /\ OwnCounted'
  BY <1>1, <1>2 DEF IInv, CounterExact, CounterRange, OwnCounted
<1>6. TotalSoFar'
  <2>1. {h \in hits : h[1] < 0} = {}
    BY DEF IInv, TypeOK, Threads
  <2>2. Cardinality({h \in hits : h[1] < 0}) = 0
    BY <2>1, FS_EmptySet
  <2>3. QED
    BY <1>1, <2>2 DEF IInv, TotalSoFar, Upto
<1>7. QED
  BY <1>3, <1>4, <1>5, <1>6 DEF IInv

\* The thread that is joined is over, and its entry has all its hits.
LEMMA JoinIInv ==
    ASSUME IInv, Join
    PROVE  IInv'
<1>1. /\ main = "join" /\ n \in Threads /\ threads[n].pc = "exit" /\ n' = n + 1
      /\ total' = IF Counting THEN total ELSE total + n_in_circle[n]
      /\ kind' = kind /\ main' = main /\ threads' = threads /\ hits' = hits
      /\ counter' = counter /\ counter_mutex' = counter_mutex /\ n_in_circle' = n_in_circle
  BY DEF Join, Joinable, IInv, TypeOK, Threads
<1>2. \A u \in Threads : Own(u)' = Own(u)
  BY <1>1, SameHits
<1>3. TypeOK'
  <2>1. n' \in 0..N
    BY <1>1 DEF Threads
  <2>2. total' \in Nat
    BY <1>1 DEF IInv, TypeOK
  <2>3. QED
    BY <1>1, <2>1, <2>2 DEF IInv, TypeOK
<1>4. Stages'
  <2>1. \A u \in Threads : u < n' => u < n \/ u = n
    BY <1>1 DEF Threads
  <2>2. QED
    BY <1>1, <2>1 DEF IInv, TypeOK, Stages
<1>5. RoundsCounted'
  BY <1>1 DEF IInv, RoundsCounted
<1>6. CounterExact' /\ CounterRange' /\ OwnCounted'
  BY <1>1, <1>2 DEF IInv, CounterExact, CounterRange, OwnCounted
<1>7. TotalSoFar'
  <2>a. n \in Int /\ \A h \in hits : h[1] \in Int
    <3>1. hits \subseteq Threads \X (0..(Rounds - 1)) /\ n \in Threads
      BY <1>1 DEF IInv, TypeOK
    <3>2. \A h \in hits : h[1] \in Threads
      BY <3>1
    <3>3. QED
      BY <3>1, <3>2 DEF Threads
  <2>1. Upto(n + 1) = Upto(n) \cup Own(n) /\ Upto(n) \cap Own(n) = {}
    <3>1. \A h \in hits : h[1] < n + 1 <=> h[1] < n \/ h[1] = n
      BY <2>a
    <3>2. \A h \in hits : ~(h[1] < n /\ h[1] = n)
      BY <2>a
    <3>3. QED
      BY <3>1, <3>2 DEF Upto, Own
  <2>2. /\ IsFiniteSet(Upto(n)) /\ IsFiniteSet(Own(n))
        /\ Cardinality(Upto(n)) \in Nat /\ Cardinality(Own(n)) \in Nat
    BY <1>1, HitsFinite DEF IInv, Threads
  <2>3. Cardinality(Upto(n + 1)) = Cardinality(Upto(n)) + Cardinality(Own(n))
    BY <2>1, <2>2, FS_Union, FS_EmptySet
  <2>4. ~Counting => n_in_circle[n] = Cardinality(Own(n))
    <3>1. ~Counting => kind \in {"local", "array"}
      BY DEF IInv, TypeOK
    <3>2. QED
      BY <1>1, <3>1 DEF IInv, OwnCounted
  <2>5. ~Counting => total = Cardinality(Upto(n))
    BY <1>1 DEF IInv, TotalSoFar
  <2>6. ~Counting => total' = Cardinality({h \in hits : h[1] < n + 1})
    BY <1>1, <2>3, <2>4, <2>5 DEF Upto
  <2>7. QED
    BY <1>1, <2>6 DEF TotalSoFar, Upto
<1>8. QED
  BY <1>3, <1>4, <1>5, <1>6, <1>7 DEF IInv

LEMMA PrintTotalIInv ==
    ASSUME IInv, PrintTotal
    PROVE  IInv'
<1>1. /\ main = "join" /\ n = N /\ main' = "done"
      /\ total' = IF Counting THEN counter ELSE total
      /\ kind' = kind /\ n' = n /\ threads' = threads /\ hits' = hits
      /\ counter' = counter /\ counter_mutex' = counter_mutex /\ n_in_circle' = n_in_circle
  BY DEF PrintTotal
<1>2. \A u \in Threads : Own(u)' = Own(u)
  BY <1>1, SameHits
<1>3. TypeOK' /\ RoundsCounted'
  BY <1>1 DEF IInv, TypeOK, RoundsCounted
<1>4. Stages'
  <2>1. \A u \in Threads : u < n
    BY <1>1 DEF Threads
  <2>2. QED
    BY <1>1, <2>1 DEF IInv, TypeOK, Stages
<1>5. CounterExact' /\ CounterRange' /\ OwnCounted'
  BY <1>1, <1>2 DEF IInv, CounterExact, CounterRange, OwnCounted
<1>6. TotalSoFar'
  BY <1>1 DEF IInv, TotalSoFar, Upto
<1>7. QED
  BY <1>3, <1>4, <1>5, <1>6 DEF IInv

LEMMA StutterIInv ==
    ASSUME IInv, UNCHANGED vars
    PROVE  IInv'
<1>1. \A u \in Threads : Own(u)' = Own(u)
  BY SameHits DEF vars
<1>2. TypeOK' /\ Stages' /\ RoundsCounted'
  BY DEF vars, IInv, TypeOK, Stages, RoundsCounted
<1>3. CounterExact' /\ CounterRange' /\ OwnCounted' /\ TotalSoFar'
  BY <1>1 DEF vars, IInv, CounterExact, CounterRange, OwnCounted, TotalSoFar, Upto
<1>4. QED
  BY <1>2, <1>3 DEF IInv

LEMMA InductiveIInv == Spec => []IInv
<1>1. Init => IInv
  BY InitIInv
<1>2. IInv /\ [Next]_vars => IInv'
  BY CreateIInv, JoinFirstIInv, JoinIInv, PrintTotalIInv, LockIInv, LoadIInv, StoreIInv, UnlockIInv,
     FetchAddIInv, MissIInv, HitIInv, ExitIInv, StutterIInv DEF Next, Main, Thread
<1>3. QED
  BY <1>1, <1>2, PTL DEF Spec

--------------------------------------------------------------------------------
(* The theorems. *)

\* A program that counts has counted every round when main is done.
LEMMA AllCounted ==
    ASSUME IInv, main = "done"
    PROVE  /\ Counting => Cardinality(hits) = N * Rounds
           /\ ~Counting => Upto(N) = hits
<1>1. \A t \in Threads : threads[t].i = Rounds
  BY DEF IInv, Stages
<1>2. ASSUME Counting
      PROVE  Cardinality(hits) = N * Rounds
  <2>1. hits = Threads \X (0..(Rounds - 1))
    BY <1>1, <1>2 DEF IInv, TypeOK, RoundsCounted
  <2>2. QED
    BY <2>1, RoundsFinite
<1>3. Upto(N) = hits
  BY DEF IInv, TypeOK, Upto, Threads
<1>4. QED
  BY <1>2, <1>3

(***************************************************************************)
(* For any number of threads and rounds the programs with a mutex, with an *)
(* atomic counter and with an entry for each thread print what was counted.*)
(***************************************************************************)
THEOREM TotalIsExact == Spec => []TotalExact
<1>1. IInv => TotalExact
  <2> SUFFICES ASSUME IInv, main = "done", kind # "racy"
               PROVE  total = IF Counting THEN N * Rounds ELSE Cardinality(hits)
    BY DEF TotalExact
  <2>1. CASE Counting
    <3>1. total = counter /\ counter = Cardinality(hits)
      BY <2>1 DEF IInv, TotalSoFar, CounterExact
    <3>2. QED
      BY <2>1, <3>1, AllCounted
  <2>2. CASE ~Counting
    BY <2>2, AllCounted DEF IInv, TotalSoFar
  <2>3. QED
    BY <2>1, <2>2
<1>2. QED
  BY <1>1, InductiveIInv, PTL

(***************************************************************************)
(* For any number of threads and rounds the program without a mutex prints *)
(* at least two and at most the number of increments.                      *)
(***************************************************************************)
THEOREM RacyTotalInRange == Spec => []RacyBounds
<1>1. IInv => RacyBounds
  <2> SUFFICES ASSUME IInv, main = "done", kind = "racy"
               PROVE  total \in (IF Rounds = 1 THEN 1 ELSE 2)..(N * Rounds)
    BY DEF RacyBounds
  <2>1. total = counter /\ counter \in Nat
    BY DEF IInv, TypeOK, TotalSoFar
  <2>2. counter <= N * Rounds /\ N * Rounds \in Nat
    BY AllCounted DEF IInv, CounterRange
  <2>3. \A t \in Threads : threads[t].i = Rounds
    BY DEF IInv, Stages
  <2>4. counter > 0 /\ (Rounds > 1 => counter > 1)
    <3>1. 0 \in Threads
      BY DEF Threads
    <3>2. QED
      BY <2>3, <3>1 DEF IInv, CounterRange
  <2>5. QED
    BY <2>1, <2>2, <2>4
<1>2. QED
  BY <1>1, InductiveIInv, PTL

================================================================================
