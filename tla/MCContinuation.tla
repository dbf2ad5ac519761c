--------------------------- MODULE MCContinuation ---------------------------
(***************************************************************************)
(* Instance of Continuation for TLC: the constants are given in the cfg.   *)
(***************************************************************************)
EXTENDS Continuation
=============================================================================
