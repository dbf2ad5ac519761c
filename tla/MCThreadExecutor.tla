-------------------------- MODULE MCThreadExecutor --------------------------
(***************************************************************************)
(* Instance of ThreadExecutor for TLC: the constants are given in the cfg. *)
(***************************************************************************)
EXTENDS ThreadExecutor
=============================================================================
