------------------------------ MODULE MCPiServer -------------------------------
(***************************************************************************)
(* PiServer on small instances.                                            *)
(***************************************************************************)
EXTENDS PiServer

CONSTANTS c1, c2

TwoConns == {c1, c2}

\* One client writes ahead.
AskBound == c1 :> 2 @@ c2 :> 1

AllKinds == {"unix", "tcp", "threaded"}
================================================================================
