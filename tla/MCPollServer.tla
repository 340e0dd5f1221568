----------------------------- MODULE MCPollServer ------------------------------
(***************************************************************************)
(* PollServer on small instances.                                          *)
(***************************************************************************)
EXTENDS PollServer, TLC

CONSTANT c1

\* Connections are interchangeable: nothing orders them but the backlog.
Symmetry == Permutations(Conns)

OneByteEach == [c \in Conns |-> 1]

\* One client writes ahead.
AskBound == [OneByteEach EXCEPT ![c1] = 2]
================================================================================
