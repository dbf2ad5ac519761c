-------------------------- MODULE MCSerialExecutor --------------------------
(***************************************************************************)
(* Instance of SerialExecutor for TLC: the constants are given in the cfg. *)
(***************************************************************************)
EXTENDS SerialExecutor
=============================================================================
