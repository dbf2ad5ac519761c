---------------------------- MODULE MCThreadPool ----------------------------
(***************************************************************************)
(* Instance of ThreadPool for TLC: the constants are given in the cfg.     *)
(***************************************************************************)
EXTENDS ThreadPool
=============================================================================
