----------------------------- MODULE PipelineProofs ----------------------------
(***************************************************************************)
(* The second program of a pipeline reads all before it sees the end.      *)
(***************************************************************************)
EXTENDS Pipeline, TLAPS

USE DEF Children, Processes, Ends, ParentPlaces, ChildPlaces

LEMMA InitIInv == Init => IInv
<1> SUFFICES ASSUME Init PROVE IInv
  OBVIOUS
<1>1. pc["parent"] = "fork1" /\ \A c \in Children : pc[c] = "none"
  BY DEF Init
<1>2. held["parent"] = Ends /\ \A c \in Children : held[c] = {}
  BY DEF Init
<1>3. TypeOK
  <2>1. output \in Nat /\ written \in 0..output /\ received \in 0..written
    BY PipelineAssumption DEF Init
  <2>2. /\ pc \in [Processes -> ParentPlaces \cup ChildPlaces]
        /\ held \in [Processes -> SUBSET Ends]
    BY DEF Init
  <2>3. QED
    BY <1>1, <2>1, <2>2 DEF Init, TypeOK
<1>4. HeldWhere /\ FirstReaped
  BY <1>1, <1>2 DEF HeldWhere, FirstReaped
<1>5. WritesAll /\ EndMeansAll
  BY <1>1 DEF Init, WritesAll, EndMeansAll
<1>6. QED
  BY <1>3, <1>4, <1>5 DEF IInv

LEMMA ForkIInv ==
    ASSUME IInv, ForkReader \/ ForkWriter
    PROVE  IInv'
<1>1. CASE ForkReader
  BY <1>1 DEF ForkReader, Fork, streamVars, IInv, TypeOK, HeldWhere, FirstReaped, WritesAll,
     EndMeansAll, Held, Unused
<1>2. CASE ForkWriter
  BY <1>2 DEF ForkWriter, Fork, streamVars, IInv, TypeOK, HeldWhere, FirstReaped, WritesAll,
     EndMeansAll, Held, Unused
<1>3. QED
  BY <1>1, <1>2

LEMMA WaitIInv ==
    ASSUME IInv, Wait("wait1", "close1") \/ Wait("wait2", "ended")
    PROVE  IInv'
<1> USE DEF Wait
<1>1. TypeOK'
  BY ZenonT(40) DEF streamVars, IInv, TypeOK
<1>2. HeldWhere'
  BY SMTT(40) DEF IInv, TypeOK, HeldWhere, Unused
<1>3. FirstReaped'
  BY DEF IInv, TypeOK, FirstReaped
<1>4. WritesAll' /\ EndMeansAll'
  BY DEF streamVars, IInv, TypeOK, WritesAll, EndMeansAll, Held
<1>5. QED
  BY <1>1, <1>2, <1>3, <1>4 DEF IInv

LEMMA CloseIInv ==
    ASSUME IInv, ParentCloses("close1", "recv", "close2")
                 \/ ParentCloses("close2", "send", "wait2")
    PROVE  IInv'
<1> USE DEF ParentCloses
<1> DEFINE to == IF pc["parent"] = "close1" THEN "close2" ELSE "wait2"
           end == IF pc["parent"] = "close1" THEN "recv" ELSE "send"
<1>0. /\ pc' = [pc EXCEPT !["parent"] = to] /\ to \in {"close2", "wait2"}
      /\ held' = [held EXCEPT !["parent"] = @ \ {end}]
      /\ UNCHANGED streamVars
  OBVIOUS
<1> HIDE DEF to, end
<1>1. TypeOK'
  <2>1. pc' \in [Processes -> ParentPlaces \cup ChildPlaces]
        /\ held' \in [Processes -> SUBSET Ends]
    BY <1>0 DEF IInv, TypeOK
  <2>2. pc'["parent"] \in ParentPlaces /\ \A c \in Children : pc'[c] = pc[c]
    BY <1>0 DEF IInv, TypeOK
  <2>3. QED
    BY <1>0, <2>1, <2>2 DEF streamVars, IInv, TypeOK
<1>2. HeldWhere'
  <2>1. held'["parent"] = IF pc'["parent"] = "wait2" THEN {} ELSE {"send"}
    BY DEF IInv, TypeOK, HeldWhere
  <2>2. /\ pc'["parent"] \in {"close2", "wait2"}
        /\ \A c \in Children : pc'[c] = pc[c] /\ held'[c] = held[c]
    BY <1>0 DEF IInv, TypeOK
  <2>3. QED
    BY <2>1, <2>2 DEF IInv, HeldWhere, Unused
<1>3. FirstReaped'
  BY DEF IInv, TypeOK, FirstReaped
<1>4. WritesAll' /\ EndMeansAll'
  <2>1. Held("recv")' => Held("recv")
    BY DEF IInv, TypeOK, Held
  <2>2. QED
    BY <2>1 DEF streamVars, IInv, TypeOK, WritesAll, EndMeansAll
<1>5. QED
  BY <1>1, <1>2, <1>3, <1>4 DEF IInv

LEMMA RouteIInv ==
    ASSUME IInv, NEW c \in Children, Route(c)
    PROVE  IInv'
BY SMTT(40) DEF Route, streamVars, IInv, TypeOK, HeldWhere, FirstReaped, WritesAll, EndMeansAll,
     Held, Unused

LEMMA ExecIInv ==
    ASSUME IInv, NEW c \in Children, Exec(c)
    PROVE  IInv'
<1>1. TypeOK'
  BY DEF Exec, Stops, streamVars, IInv, TypeOK
<1>2. HeldWhere'
  BY DEF Exec, Stops, IInv, TypeOK, HeldWhere, Unused
<1>3. FirstReaped'
  BY DEF Exec, Stops, IInv, TypeOK, FirstReaped
<1>4. WritesAll' /\ EndMeansAll'
  <2>1. Held("recv")' => Held("recv")
    BY DEF Exec, Stops, IInv, TypeOK, Held
  <2>2. QED
    BY <2>1 DEF Exec, Stops, streamVars, IInv, TypeOK, WritesAll, EndMeansAll
<1>5. QED
  BY <1>1, <1>2, <1>3, <1>4 DEF IInv

LEMMA WriterIInv ==
    ASSUME IInv, Write \/ WriteDies \/ WriterDone
    PROVE  IInv'
<1>1. CASE Write
  BY <1>1 DEF Write, IInv, TypeOK, HeldWhere, FirstReaped, WritesAll, EndMeansAll, Held, Unused
<1>2. CASE WriteDies
  BY <1>2 DEF WriteDies, Stops, streamVars, IInv, TypeOK, HeldWhere, FirstReaped, WritesAll,
     EndMeansAll, Held, Unused
<1>3. CASE WriterDone
  BY <1>3 DEF WriterDone, Stops, streamVars, IInv, TypeOK, HeldWhere, FirstReaped, WritesAll,
     EndMeansAll, Held, Unused
<1>4. QED
  BY <1>1, <1>2, <1>3

\* While the reader runs it can read, so the writer has not died of SIGPIPE; when
\* nobody can write, the parent has given its ends away, so a child was reaped,
\* and it is not the reader.
LEMMA EndIInv ==
    ASSUME IInv, ReadEnd
    PROVE  IInv'
<1>1. "recv" \in held["reader"] /\ Held("recv")
  BY DEF ReadEnd, IInv, HeldWhere, Held, Unused
<1>2. pc["parent"] \in {"wait2", "ended"} /\ pc["writer"] \notin {"start", "exec", "program"}
  BY DEF ReadEnd, IInv, TypeOK, HeldWhere, Held, Unused
<1>3. pc["writer"] = "reaped"
  BY <1>2 DEF ReadEnd, IInv, FirstReaped
<1>4. received = (IF "writer" \in executable THEN output ELSE 0)
  BY <1>1, <1>3 DEF ReadEnd, IInv, TypeOK, WritesAll
<1>5. (TypeOK /\ HeldWhere /\ FirstReaped)'
  BY DEF ReadEnd, Stops, IInv, TypeOK, HeldWhere, FirstReaped, Unused
<1>6. WritesAll' /\ EndMeansAll'
  BY <1>1, <1>3, <1>4 DEF ReadEnd, Stops, IInv, TypeOK, WritesAll, EndMeansAll
<1>7. QED
  BY <1>5, <1>6 DEF IInv

LEMMA ReaderIInv ==
    ASSUME IInv, Read \/ ReaderLeaves
    PROVE  IInv'
<1>1. CASE Read
  BY <1>1 DEF Read, IInv, TypeOK, HeldWhere, FirstReaped, WritesAll, EndMeansAll, Held, Unused
<1>2. CASE ReaderLeaves
  BY <1>2 DEF ReaderLeaves, Stops, streamVars, IInv, TypeOK, HeldWhere, FirstReaped, WritesAll,
     EndMeansAll, Held, Unused
<1>3. QED
  BY <1>1, <1>2

LEMMA StutterIInv ==
    ASSUME IInv, UNCHANGED vars
    PROVE  IInv'
BY DEF vars, IInv, TypeOK, HeldWhere, FirstReaped, WritesAll, EndMeansAll, Held

LEMMA InductiveIInv == Spec => []IInv
<1>1. Init => IInv
  BY InitIInv
<1>2. IInv /\ [Next]_vars => IInv'
  BY ForkIInv, WaitIInv, CloseIInv, RouteIInv, ExecIInv, WriterIInv, EndIInv, ReaderIInv,
     StutterIInv DEF Next, Parent, Child
<1>3. QED
  BY <1>1, <1>2, PTL DEF Spec

(***************************************************************************)
(* For any amount of output and any capacity of the pipe, with forks and   *)
(* execs that fail, the end of the input comes after all of it.            *)
(***************************************************************************)
THEOREM EndComesLast == Spec => []EndMeansAll
<1>1. IInv => EndMeansAll
  BY DEF IInv
<1>2. QED
  BY <1>1, InductiveIInv, PTL

================================================================================
