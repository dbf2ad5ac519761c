---------------------------- MODULE SerialQueue -----------------------------
(***************************************************************************)
(* What a serial_executor promises, without threads, locks and runners: a  *)
(* queue of closures, of which one at a time is taken from the front and   *)
(* run to its end.                                                         *)
(***************************************************************************)
EXTENDS Sequences

CONSTANTS Closures, NoClosure

VARIABLES
    pending,   \* the closures that wait, oldest first
    current,   \* the closure that runs, or NoClosure
    closed     \* the owner is destroying the executor

vars == <<pending, current, closed>>

Init == pending = <<>> /\ current = NoClosure /\ closed = FALSE

Submit(c) ==
    /\ pending' = Append(pending, c)
    /\ UNCHANGED <<current, closed>>

Start ==
    /\ current = NoClosure
    /\ pending # <<>>
    /\ current' = Head(pending)
    /\ pending' = Tail(pending)
    /\ UNCHANGED closed

Finish ==
    /\ current # NoClosure
    /\ current' = NoClosure
    /\ UNCHANGED <<pending, closed>>

Close == closed' = TRUE /\ UNCHANGED <<pending, current>>

Next == (\E c \in Closures : Submit(c)) \/ Start \/ Finish \/ Close

Spec == Init /\ [][Next]_vars

\* Closures return; until the executor is closed, a waiting one is started.
FairSpec == Spec /\ WF_vars(Finish) /\ WF_vars(~closed /\ Start)
=============================================================================
