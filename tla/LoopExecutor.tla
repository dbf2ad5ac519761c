---------------------------- MODULE LoopExecutor ----------------------------
(***************************************************************************)
(* loop_executor of ePub3/utilities/executor.{h,cpp}: closures run when    *)
(* its owner calls loop(), run_queued_closures() or try_one_closure().     *)
(*                                                                         *)
(* One thread owns the queue; closures run on it and may add closures and  *)
(* call make_loop_exit().  Another thread may call make_loop_exit() too:   *)
(* it reads one atomic and then writes the other, two actions.             *)
(***************************************************************************)
EXTENDS Executor, Integers, Sequences

CONSTANT
    MaxCalls     \* bound on the calls of the three running methods

ASSUME LoopAssumption == MaxCalls \in Nat

VARIABLES
    loopQueue,   \* _queue
    runningClosures,  \* _running_closures
    makeLoopExit,     \* _make_loop_exit
    method,      \* the method that is running closures
    phase,       \* where it is
    myQueue,     \* the copy run_queued_closures() works on
    current,     \* the closure that is running
    requester,   \* the other thread inside make_loop_exit(): what it read
    calls,       \* history: calls of the running methods so far
    added,       \* history: the closures in the order add() queued them
    ran          \* history: the closures that ran, in order

loopVars == <<loopQueue, runningClosures, makeLoopExit, method, phase, myQueue, current,
              requester, calls, added, ran>>

LoopTypeOK ==
    /\ loopQueue \in Seq(Closures)
    /\ runningClosures \in BOOLEAN
    /\ phase = "idle" => ~runningClosures
    /\ makeLoopExit \in BOOLEAN
    /\ method \in {"none", "loop", "run_queued_closures", "try_one_closure"}
    /\ phase \in {"idle", "test", "running", "stopped"}
    /\ myQueue \in Seq(Closures)
    /\ current \in Closures \cup {NoClosure}
    /\ requester \in {"idle", "readTrue", "readFalse"}
    /\ calls \in 0 .. MaxCalls
    /\ added \in Seq(Closures)
    /\ ran \in Seq(Closures)

LoopInit ==
    /\ loopQueue = <<>>
    /\ runningClosures = FALSE
    /\ makeLoopExit = FALSE
    /\ method = "none"
    /\ phase = "idle"
    /\ myQueue = <<>>
    /\ current = NoClosure
    /\ requester = "idle"
    /\ calls = 0
    /\ added = <<>>
    /\ ran = <<>>

-----------------------------------------------------------------------------
\* add(), by the owner between calls or by the closure that is running
Add(c) ==
    /\ phase \in {"idle", "running"}
    /\ \A i \in 1 .. Len(added) : added[i] # c
    /\ loopQueue' = Append(loopQueue, c)
    /\ added' = Append(added, c)
    /\ UNCHANGED <<runningClosures, makeLoopExit, method, phase, myQueue, current,
                   requester, calls, ran>>

\* make_loop_exit() by the closure that is running
MakeLoopExit ==
    /\ phase = "running"
    /\ makeLoopExit' = runningClosures
    /\ UNCHANGED <<loopQueue, runningClosures, method, phase, myQueue, current,
                   requester, calls, added, ran>>

\* make_loop_exit() by another thread: the read of _running_closures ...
RequestRead ==
    /\ requester = "idle"
    /\ requester' = IF runningClosures THEN "readTrue" ELSE "readFalse"
    /\ UNCHANGED <<loopQueue, runningClosures, makeLoopExit, method, phase, myQueue, current,
                   calls, added, ran>>

\* ... and the write of _make_loop_exit
RequestWrite ==
    /\ requester # "idle"
    /\ makeLoopExit' = (requester = "readTrue")
    /\ requester' = "idle"
    /\ UNCHANGED <<loopQueue, runningClosures, method, phase, myQueue, current, calls, added, ran>>

(***************************************************************************)
(* loop(), run_queued_closures(), try_one_closure(): _set_running, then    *)
(* the copy of the queue that run_queued_closures() makes.                 *)
(***************************************************************************)
Call(m) ==
    /\ phase = "idle"
    /\ calls < MaxCalls
    /\ ~runningClosures
    /\ runningClosures' = TRUE
    /\ method' = m
    /\ phase' = "test"
    /\ myQueue' = IF m = "run_queued_closures" THEN loopQueue ELSE <<>>
    /\ calls' = calls + 1
    /\ UNCHANGED <<loopQueue, makeLoopExit, current, requester, added, ran>>

\* The loop condition, or try_one_closure's test.
Remaining == IF method = "run_queued_closures" THEN myQueue ELSE loopQueue
GoesOn == Remaining # <<>> /\ (method = "try_one_closure" \/ ~makeLoopExit)

\* The closure is copied from the front and run; it stays in the queue.
BackOf(q) == q[Len(q)]
FrontOf(q) == Head(q)
RunFront ==
    /\ phase = "test"
    /\ GoesOn
    /\ current' = FrontOf(Remaining)
    /\ phase' = "running"
    /\ UNCHANGED <<loopQueue, runningClosures, makeLoopExit, method, myQueue,
                   requester, calls, added, ran>>

\* It returns and is popped, from the copy as well.
PopNothing(q) == q
PopFront(q) == Tail(q)
Return ==
    /\ phase = "running"
    /\ loopQueue' = PopFront(loopQueue)
    /\ myQueue' = IF method = "run_queued_closures" THEN Tail(myQueue) ELSE myQueue
    /\ ran' = Append(ran, current)
    /\ current' = NoClosure
    /\ phase' = IF method = "try_one_closure" THEN "stopped" ELSE "test"
    /\ UNCHANGED <<runningClosures, makeLoopExit, method, requester, calls, added>>

Stop ==
    /\ phase = "test"
    /\ ~GoesOn
    /\ phase' = "stopped"
    /\ UNCHANGED <<loopQueue, runningClosures, makeLoopExit, method, myQueue, current,
                   requester, calls, added, ran>>

\* _running_closures = false
ClearRunning ==
    /\ phase = "stopped"
    /\ runningClosures
    /\ runningClosures' = FALSE
    /\ IF method = "try_one_closure"
       THEN phase' = "idle" /\ method' = "none"
       ELSE UNCHANGED <<phase, method>>
    /\ UNCHANGED <<loopQueue, makeLoopExit, myQueue, current, requester, calls, added, ran>>

\* _make_loop_exit = false, in loop() and run_queued_closures() only
ClearExit ==
    /\ phase = "stopped"
    /\ ~runningClosures
    /\ makeLoopExit' = FALSE
    /\ phase' = "idle"
    /\ method' = "none"
    /\ UNCHANGED <<loopQueue, runningClosures, myQueue, current, requester, calls, added, ran>>

LoopNext ==
    \/ \E c \in Closures : Add(c)
    \/ MakeLoopExit
    \/ RequestRead
    \/ RequestWrite
    \/ \E m \in {"loop", "run_queued_closures", "try_one_closure"} : Call(m)
    \/ RunFront
    \/ Return
    \/ Stop
    \/ ClearRunning
    \/ ClearExit

LoopSpec == LoopInit /\ [][LoopNext]_loopVars

-----------------------------------------------------------------------------
(***************************************************************************)
(* The closure that is popped is the one that ran: closures run in order,  *)
(* each once, although they add closures while they are being run and      *)
(* run_queued_closures() pops two queues side by side.                     *)
(***************************************************************************)
PopsWhatRan == added = ran \o loopQueue /\ (current # NoClosure => current = Head(loopQueue))

(***************************************************************************)
(* run_queued_closures() runs what was queued when it was called: the copy *)
(* stays a prefix of the queue, so that a closure added meanwhile is left. *)
(***************************************************************************)
CopyIsPrefix ==
    /\ Len(myQueue) <= Len(loopQueue)
    /\ \A i \in 1 .. Len(myQueue) : myQueue[i] = loopQueue[i]

=============================================================================
