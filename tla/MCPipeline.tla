------------------------------- MODULE MCPipeline ------------------------------
(***************************************************************************)
(* Pipeline on a small instance.                                           *)
(***************************************************************************)
EXTENDS Pipeline
================================================================================
