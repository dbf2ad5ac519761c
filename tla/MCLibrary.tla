------------------------------ MODULE MCLibrary ------------------------------
(***************************************************************************)
(* Instance of Library for TLC: the first publication has two packages, one*)
(* of which the second publication has too.                                *)
(***************************************************************************)
EXTENDS Library

MCContents == <<{1, 2}, {2}>>
=============================================================================
