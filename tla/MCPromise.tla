----------------------------- MODULE MCPromise ------------------------------
(***************************************************************************)
(* Instance of Promise for TLC: the constants are given in the cfg.        *)
(***************************************************************************)
EXTENDS Promise
=============================================================================
