------------------------------- MODULE MCWorkers -------------------------------
(***************************************************************************)
(* Workers on small instances.                                             *)
(***************************************************************************)
EXTENDS Workers

AllKinds == {"racy", "mutex", "atomic", "local", "array"}

================================================================================
