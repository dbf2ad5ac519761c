--------------------------- MODULE MCLoopExecutor ---------------------------
(***************************************************************************)
(* Instance of LoopExecutor for TLC: the constants are given in the cfg.   *)
(***************************************************************************)
EXTENDS LoopExecutor
=============================================================================
