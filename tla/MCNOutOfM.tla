------------------------------- MODULE MCNOutOfM -------------------------------
(***************************************************************************)
(* NOutOfM on small instances.                                             *)
(***************************************************************************)
EXTENDS NOutOfM

AllKinds == {"pthread", "monitor", "latch"}
================================================================================
