------------------------------ MODULE Executor ------------------------------
(***************************************************************************)
(* What the executors of ePub3/utilities/executor.h that keep a queue have *)
(* in common: the closures they are given, of type executor::closure_type. *)
(* The modules of thread_pool, serial_executor and loop_executor extend it.*)
(***************************************************************************)
CONSTANTS
    Closures,    \* the closures, each submitted at most once
    NoClosure    \* "no closure"

ASSUME NoClosureAssumption == NoClosure \notin Closures
=============================================================================
