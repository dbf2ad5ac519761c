---------------------------- MODULE MCFilterChain ----------------------------
(***************************************************************************)
(* Instance of FilterChain for TLC: the constants are given in the cfg.    *)
(***************************************************************************)
EXTENDS FilterChain
=============================================================================
