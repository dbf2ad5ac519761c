-------------------------- MODULE ContinuationProofs --------------------------
(***************************************************************************)
(* Proofs about Continuation: however then(), set_value(), the thread of   *)
(* the continuation and the owner of its future interleave, a continuation *)
(* that is not deferred is called once, and its state is not destroyed     *)
(* while its thread runs.                                                  *)
(***************************************************************************)
EXTENDS Continuation, TLAPS

Launching == {"spawned", "relock", "joining"}
SetterStates == {"idle", "returned", "gone"} \cup Launching
CallerStates == {"idle", "returned", "waiting", "got", "dropping", "dropped", "lost"} \cup Launching
WorkerStates == {"none", "started", "inside", "returned", "marked", "ended"}

\* pc is a function on the three threads; the kind does not change.
Shapes ==
    /\ pc = [t \in {Setter, Caller, Worker} |-> pc[t]]
    /\ kind \in {"async", "executor", "deferred"}

\* Without a deferred continuation nobody executes one in place.
States ==
    /\ pc[Setter] \in SetterStates
    /\ pc[Caller] \in CallerStates
    /\ pc[Worker] \in WorkerStates
    /\ ~deferred

\* A launch takes both calls: it comes from the second of them, so that none
\* has been while one of them is still to come, and there is only one.
LaunchedBySecond ==
    /\ done <=> pc[Setter] # "idle"
    /\ attached => pc[Caller] # "idle"
    /\ pc[Setter] = "idle" \/ pc[Caller] = "idle" => pc[Worker] = "none"
    /\ \A a \in Launchers : pc[a] \in Launching => pc[Worker] # "none"
    /\ ~(pc[Setter] \in Launching /\ pc[Caller] \in Launching)

\* The worker calls the continuation in its first step.
RunsCount == runs = IF pc[Worker] \in {"none", "started"} THEN 0 ELSE 1

\* Who refers to the continuation's state, and whether its thread is known
\* when a reference is dropped.  The parent's reference may go with the parent
\* while then() is still at work, which holds one of its own.
References ==
    /\ held <=> pc[Caller] \notin {"idle", "dropping", "dropped"}
    /\ pc[Setter] \in {"spawned", "relock"} => attached
    /\ ParentIsGone => ~attached
    /\ attached /\ pc[Worker] # "none" => \E a \in Launchers : pc[a] \in {"spawned", "relock"}
    /\ \A a \in Launchers : pc[a] = "relock" => thread = (kind = "async")
    /\ pc[Worker] # "none" /\ ~attached /\ pc[Caller] # "spawned" => thread = (kind = "async")

Steady == States /\ LaunchedBySecond /\ RunsCount /\ References /\ NotDestroyedUnderThread

IInv == Shapes /\ (kind # "deferred" => Steady)

-----------------------------------------------------------------------------
\* A parent that is ready or not, and no continuation
LEMMA InitIInv == Init => IInv
<1> SUFFICES ASSUME Init PROVE IInv
  OBVIOUS
<1> USE ContinuationAssumption
<1>1. Shapes
  BY DEF Init, Shapes
<1>2. pc[Worker] = "none" /\ pc[Caller] = "idle" /\ pc[Setter] = IF done THEN "gone" ELSE "idle"
  BY DEF Init
<1>3. ASSUME kind # "deferred"
      PROVE  States /\ LaunchedBySecond /\ RunsCount /\ References /\ NotDestroyedUnderThread
  BY <1>2, <1>3 DEF Init, States, LaunchedBySecond, RunsCount, References, NotDestroyedUnderThread,
     SetterStates, CallerStates, WorkerStates, Launching, Launchers, ParentIsGone, FutureIsGone
<1> QED
  BY <1>1, <1>3 DEF IInv, Steady

\* A step that moves threads on keeps pc a function.
LEMMA ShapesKept == IInv /\ [Next]_vars => Shapes'
<1> SUFFICES ASSUME IInv, [Next]_vars PROVE Shapes'
  OBVIOUS
<1>1. Shapes
  BY DEF IInv
<1>2. kind' = kind
  BY DEF Next, vars, SetValue, DropPromise, Then, LaunchStep, CallerStep, WorkerStep, AllDone, Assign, Relock, RelockFreed, Joined,
     Execute, ExecuteReturn, GetDeferred, GetJoin, GetReturn, Drop, DropJoined, WorkerCall, WorkerGet,
     WorkerMark, WorkerEnd
<1>3. \/ pc' = pc
      \/ \E t, u : \E v, w : pc' = [pc EXCEPT ![t] = v] \/ pc' = [pc EXCEPT ![t] = v, ![u] = w]
  BY DEF Next, vars, SetValue, DropPromise, Then, LaunchStep, CallerStep, WorkerStep, AllDone, Assign, Relock, RelockFreed, Joined,
     Execute, ExecuteReturn, GetDeferred, GetJoin, GetReturn, Drop, DropJoined, WorkerCall, WorkerGet,
     WorkerMark, WorkerEnd, Goto, Launch, Unlaunched
<1> QED
  BY <1>1, <1>2, <1>3 DEF Shapes

-----------------------------------------------------------------------------
\* set_value() and then(): whoever comes second launches, while the other one
\* has returned; and ~promise, which may take the parent with it.
LEMMA CallsKeep ==
    ASSUME Shapes, Steady, kind # "deferred", SetValue \/ DropPromise \/ Then
    PROVE  Steady'
<1> USE ContinuationAssumption DEF Shapes, SetterStates, CallerStates, WorkerStates, Launching, Launchers,
       ParentIsGone, FutureIsGone
<1>1. CASE SetValue /\ attached
  BY <1>1 DEF Steady, SetValue, Launch, States, LaunchedBySecond, RunsCount, References, NotDestroyedUnderThread
<1>2. CASE SetValue /\ ~attached
  BY <1>2 DEF Steady, SetValue, Unlaunched, Goto, States, LaunchedBySecond, RunsCount, References, NotDestroyedUnderThread
<1>3. CASE Then /\ done
  BY <1>3 DEF Steady, Then, LaunchesAtOnce, Launch, States, LaunchedBySecond, RunsCount, References, NotDestroyedUnderThread
<1>4. CASE Then /\ ~done
  BY <1>4 DEF Steady, Then, LaunchesAtOnce, Unlaunched, Goto, States, LaunchedBySecond, RunsCount, References, NotDestroyedUnderThread
<1>5. CASE DropPromise
  BY <1>5 DEF Steady, DropPromise, Goto, States, LaunchedBySecond, RunsCount, References,
     NotDestroyedUnderThread
<1> QED
  BY <1>1, <1>2, <1>3, <1>4, <1>5

\* The rest of do_continuation(): the thread is assigned before the pointer
\* is reset, and joined if that was the last reference.
LEMMA LaunchStepKeeps ==
    ASSUME Shapes, Steady, kind # "deferred", NEW a \in Launchers, LaunchStep(a)
    PROVE  Steady'
<1> USE ContinuationAssumption DEF Shapes, SetterStates, CallerStates, WorkerStates, Launching, Launchers,
       ParentIsGone, FutureIsGone
<1>1. CASE Assign(a)
  BY <1>1 DEF Steady, Assign, Goto, States, LaunchedBySecond, RunsCount, References, NotDestroyedUnderThread
<1>2. CASE Relock(a)
  <2>1. /\ pc[a] = "relock" /\ thread = (kind = "async") /\ pc[Worker] # "none"
        /\ a = Caller => held
        /\ UNCHANGED <<kind, done, held, thread, deferred, runs>> /\ ~attached'
    BY <1>2 DEF Steady, Relock, LaunchedBySecond, References
  <2>2. pc' = [pc EXCEPT ![a] = "joining"] \/ (pc' = [pc EXCEPT ![a] = "returned"] /\ (held \/ JobHolds \/ ~MustJoin))
    BY <1>2 DEF Relock, Goto
  <2>3. pc'[a] \in {"joining", "returned"} /\ \A t \in {Setter, Caller, Worker} : t # a => pc'[t] = pc[t]
    BY <2>2
  <2>4. States' /\ LaunchedBySecond' /\ RunsCount' /\ References'
    BY <2>1, <2>3 DEF Steady, States, LaunchedBySecond, RunsCount, References
  <2>5. NotDestroyedUnderThread'
    BY <2>1, <2>2, <2>3 DEF NotDestroyedUnderThread, JobHolds, MustJoin
  <2> QED
    BY <2>4, <2>5 DEF Steady
<1>3. CASE Joined(a)
  BY <1>3 DEF Steady, Joined, Goto, States, LaunchedBySecond, RunsCount, References, NotDestroyedUnderThread
<1>4. ~Execute(a)
  BY DEF Steady, Execute, States
<1> QED
  BY <1>1, <1>2, <1>3, <1>4 DEF LaunchStep

\* The continuation's thread or job
LEMMA WorkerKeeps ==
    ASSUME Shapes, Steady, kind # "deferred", WorkerStep
    PROVE  Steady'
<1> USE ContinuationAssumption DEF Shapes, SetterStates, CallerStates, WorkerStates, Launching, Launchers,
       ParentIsGone, FutureIsGone
<1>1. CASE WorkerCall
  BY <1>1 DEF Steady, WorkerCall, Goto, States, LaunchedBySecond, RunsCount, References, NotDestroyedUnderThread
<1>2. CASE WorkerGet
  BY <1>2 DEF Steady, WorkerGet, Goto, States, LaunchedBySecond, RunsCount, References, NotDestroyedUnderThread
<1>3. CASE WorkerMark
  BY <1>3 DEF Steady, WorkerMark, Goto, States, LaunchedBySecond, RunsCount, References, NotDestroyedUnderThread
<1>4. CASE WorkerEnd
  BY <1>4 DEF Steady, WorkerEnd, Goto, States, LaunchedBySecond, RunsCount, References, NotDestroyedUnderThread
<1> QED
  BY <1>1, <1>2, <1>3, <1>4 DEF WorkerStep

\* The end of then(), get() and ~future(): the caller's reference goes last, or another is left
\* that is dropped with the thread assigned.
LEMMA CallerKeeps ==
    ASSUME Shapes, Steady, kind # "deferred", RelockFreed \/ GetJoin \/ GetReturn \/ Drop \/ DropJoined
    PROVE  Steady'
<1> USE ContinuationAssumption DEF Shapes, SetterStates, CallerStates, WorkerStates, Launching, Launchers,
       ParentIsGone, FutureIsGone
<1>1. CASE GetJoin
  BY <1>1 DEF Steady, GetJoin, Goto, States, LaunchedBySecond, RunsCount, References, NotDestroyedUnderThread
<1>2. CASE GetReturn
  BY <1>2 DEF Steady, GetReturn, Goto, States, LaunchedBySecond, RunsCount, References, NotDestroyedUnderThread
<1>3. CASE Drop
  BY <1>3 DEF Steady, Drop, JobHolds, MustJoin, Goto, States, LaunchedBySecond, RunsCount, References, NotDestroyedUnderThread
<1>4. CASE DropJoined
  BY <1>4 DEF Steady, DropJoined, Goto, States, LaunchedBySecond, RunsCount, References, NotDestroyedUnderThread
<1>5. CASE RelockFreed
  BY <1>5 DEF Steady, RelockFreed, Goto, States, LaunchedBySecond, RunsCount, References, NotDestroyedUnderThread
<1> QED
  BY <1>1, <1>2, <1>3, <1>4, <1>5

\* Every step preserves the invariant.
LEMMA NextIInv == IInv /\ [Next]_vars => IInv'
<1> SUFFICES ASSUME IInv, [Next]_vars PROVE IInv'
  OBVIOUS
<1>1. Shapes'
  BY ShapesKept
<1>2. ASSUME kind' # "deferred" PROVE Steady'
  <2>1. kind # "deferred" /\ Shapes /\ Steady
    <3>1. kind' = kind
      BY DEF Next, vars, SetValue, DropPromise, Then, LaunchStep, CallerStep, WorkerStep, AllDone, Assign, Relock, RelockFreed, Joined,
         Execute, ExecuteReturn, GetDeferred, GetJoin, GetReturn, Drop, DropJoined, WorkerCall, WorkerGet,
         WorkerMark, WorkerEnd
    <3> QED
      BY <1>2, <3>1 DEF IInv
  <2>2. ~ExecuteReturn(Caller) /\ ~GetDeferred
    BY <2>1 DEF Steady, States, ExecuteReturn, GetDeferred, CallerStates, SetterStates, Launching
  <2>3. CASE UNCHANGED vars
    BY <2>1, <2>3 DEF vars, Steady, States, LaunchedBySecond, RunsCount, References, NotDestroyedUnderThread,
       ParentIsGone, FutureIsGone
  <2> QED
    BY <2>1, <2>2, <2>3, CallsKeep, LaunchStepKeeps, WorkerKeeps, CallerKeeps
    DEF Next, CallerStep, Launchers, AllDone
<1> QED
  BY <1>1, <1>2 DEF IInv

-----------------------------------------------------------------------------
\* The inductive invariant holds in every reachable state.
THEOREM Invariance == Spec => []IInv
  BY InitIInv, NextIInv, PTL DEF Spec

\* A continuation that is not deferred is called at most once, whichever of
\* then() and set_value() comes first and however they overlap.
THEOREM LaunchedOnce == Spec => []CalledOnce
<1>1. IInv => CalledOnce
  BY DEF IInv, Steady, RunsCount, CalledOnce
<1> QED
  BY <1>1, Invariance, PTL

\* The last reference to the state of an asynchronous continuation goes only
\* when its thread has ended or is being joined: __thr_ is assigned before
\* do_continuation() gives up its reference.
THEOREM StateOutlivesThread == Spec => []NotDestroyedUnderThread
<1>1. IInv => NotDestroyedUnderThread
  BY DEF IInv, Steady, NotDestroyedUnderThread
<1> QED
  BY <1>1, Invariance, PTL
=============================================================================
