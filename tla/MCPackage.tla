------------------------------ MODULE MCPackage ------------------------------
(***************************************************************************)
(* Instance of Package for TLC: the constants are given in the cfg.        *)
(***************************************************************************)
EXTENDS Package
=============================================================================
