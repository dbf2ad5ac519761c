--------------------------- MODULE ExecutorProofs ---------------------------
(***************************************************************************)
(* Proofs about SerialExecutor, for any finite set of closures: it never   *)
(* runs two closures at once, starts them in order, strands none of them,  *)
(* and implements SerialQueue.  And about LoopExecutor, for any closures   *)
(* and any number of calls: what is popped is what ran, in the order of    *)
(* the queue, and the copy of run_queued_closures() stays a prefix of it.  *)
(***************************************************************************)
EXTENDS SerialExecutor, LoopExecutor, TLAPS

\* A runner that _running counts.
Active(r) == runner[r] \in {"running", "returned"}

(***************************************************************************)
(* _running is 1 while one runner is between its increment and its         *)
(* decrement, and 0 otherwise: there is never a second such runner.        *)
(***************************************************************************)
RunningCounts ==
    /\ running \in {0, 1}
    /\ running = 1 <=> \E r \in Closures : Active(r)
    /\ \A r, s \in Closures : Active(r) /\ Active(s) => r = s

\* A runner sleeps only while another one is active: the active one wakes it.
SleepersAreCovered == \A r \in Closures : runner[r] = "waiting" => running > 0

\* A runner has a closure exactly while it runs it.
JobWhileRunning == \A r \in Closures : job[r] # NoClosure <=> runner[r] = "running"

\* A call submits its runner once, as its last step.
RunnerAfterCall == \A c \in Closures : call[c] # "returned" => runner[c] = "none"

\* The destructor has waited for _running to become 0.
DestroyedIdle == dtor = "destroyed" => running = 0

IInv ==
    /\ TypeOK
    /\ RunningCounts
    /\ SleepersAreCovered
    /\ JobWhileRunning
    /\ RunnerAfterCall
    /\ DestroyedIdle
    /\ FirstInFirstOut
    /\ SomebodyWillLook

-----------------------------------------------------------------------------
\* Taking the head of the queue moves it to the end of what was started.
LEMMA ShiftHead ==
    ASSUME NEW S, NEW a \in Seq(S), NEW q \in Seq(S), q # <<>>
    PROVE  /\ Head(q) \in S
           /\ Tail(q) \in Seq(S)
           /\ Append(a, Head(q)) \in Seq(S)
           /\ a \o q = Append(a, Head(q)) \o Tail(q)
  OBVIOUS

\* The constructor establishes the invariant.
LEMMA InitIInv == Init => IInv
<1> SUFFICES ASSUME Init PROVE IInv
  OBVIOUS
<1>1. TypeOK
  <2>1. queue \in Seq(Closures) /\ pushed \in Seq(Closures) /\ started \in Seq(Closures)
    BY DEF Init
  <2>2. call \in [Closures -> CallState] /\ runner \in [Closures -> RunnerState]
    BY DEF Init, CallState, RunnerState
  <2>3. /\ caller \in [Closures -> Closures \cup {Client}]
        /\ job \in [Closures -> Closures \cup {NoClosure}]
    BY DEF Init
  <2>4. running \in Nat /\ exiting \in BOOLEAN /\ dtor \in DtorState
    BY DEF Init, DtorState
  <2> QED
    BY <2>1, <2>2, <2>3, <2>4 DEF TypeOK
<1>2. RunningCounts /\ SleepersAreCovered /\ JobWhileRunning /\ RunnerAfterCall /\ DestroyedIdle
  BY DEF Init, RunningCounts, SleepersAreCovered, JobWhileRunning, RunnerAfterCall,
         DestroyedIdle, Active
<1>3. FirstInFirstOut
  BY DEF Init, FirstInFirstOut
<1>4. SomebodyWillLook
  BY DEF Init, SomebodyWillLook
<1> QED
  BY <1>1, <1>2, <1>3, <1>4 DEF IInv

-----------------------------------------------------------------------------
(***************************************************************************)
(* Each kind of step preserves the invariant.                              *)
(***************************************************************************)
\* A call of add(): it touches neither _running nor a runner that is active.
LEMMA CallIInv ==
    ASSUME IInv, NEW c \in Closures,
           \/ \E who \in Closures \cup {Client} : AddCheck(c, who)
           \/ AddPush(c)
           \/ AddSubmit(c)
    PROVE  IInv'
<1> USE DEF IInv
<1>1. CASE \E who \in Closures \cup {Client} : AddCheck(c, who)
  <2>1. PICK who \in Closures \cup {Client} : AddCheck(c, who)
    BY <1>1
  <2>2. TypeOK'
    BY <2>1 DEF AddCheck, TypeOK, CallState
  <2>3. (RunningCounts /\ SleepersAreCovered /\ JobWhileRunning /\ DestroyedIdle)'
    BY <2>1 DEF AddCheck, RunningCounts, SleepersAreCovered, JobWhileRunning,
                DestroyedIdle, Active
  <2>4. RunnerAfterCall' /\ SomebodyWillLook'
    BY <2>1 DEF AddCheck, SomebodyWillLook, RunnerAfterCall, TypeOK
  <2>5. FirstInFirstOut'
    BY <2>1 DEF AddCheck, FirstInFirstOut
  <2> QED
    BY <2>2, <2>3, <2>4, <2>5
<1>2. CASE AddPush(c)
  <2>1. TypeOK'
    BY <1>2 DEF AddPush, TypeOK, CallState
  <2>2. (RunningCounts /\ SleepersAreCovered /\ JobWhileRunning /\ DestroyedIdle)'
    BY <1>2 DEF AddPush, RunningCounts, SleepersAreCovered, JobWhileRunning,
                DestroyedIdle, Active
  <2>3. FirstInFirstOut'
    <3>1. started \in Seq(Closures) /\ queue \in Seq(Closures)
      BY DEF TypeOK
    <3>2. Append(started \o queue, c) = started \o Append(queue, c)
      BY <3>1
    <3> QED
      BY <1>2, <3>2 DEF AddPush, FirstInFirstOut
  <2>4. RunnerAfterCall' /\ SomebodyWillLook'
    BY <1>2 DEF AddPush, ConsumerActive, SomebodyWillLook, RunnerAfterCall, TypeOK
  <2> QED
    BY <2>1, <2>2, <2>3, <2>4
<1>3. CASE AddSubmit(c)
  <2>1. TypeOK'
    BY <1>3 DEF AddSubmit, TypeOK, CallState, RunnerState
  <2>2. runner[c] = "none" /\ runner'[c] = "queued"
    BY <1>3 DEF AddSubmit, RunnerAfterCall, TypeOK
  <2>3. \A r \in Closures : r # c => runner'[r] = runner[r]
    BY <1>3 DEF AddSubmit, TypeOK
  <2>4. (RunningCounts /\ SleepersAreCovered /\ JobWhileRunning /\ DestroyedIdle)'
    BY <1>3, <2>2, <2>3 DEF AddSubmit, RunningCounts, SleepersAreCovered,
                            JobWhileRunning, DestroyedIdle, Active
  <2>5. RunnerAfterCall'
    BY <1>3 DEF AddSubmit, RunnerAfterCall, TypeOK
  <2>6. SomebodyWillLook'
    BY <2>2 DEF SomebodyWillLook
  <2>7. FirstInFirstOut'
    BY <1>3 DEF AddSubmit, FirstInFirstOut
  <2> QED
    BY <2>1, <2>4, <2>5, <2>6, <2>7
<1> QED
  BY <1>1, <1>2, <1>3

\* A runner that waits, wakes up or leaves: _running and the queue stay.
LEMMA IdleRunnerIInv ==
    ASSUME IInv, NEW r \in Closures,
           RunnerWait(r) \/ RunnerSpurious(r) \/ RunnerLeave(r)
    PROVE  IInv'
<1> USE DEF IInv
<1>1. ~Active(r) /\ runner[r] # "none"
  BY DEF RunnerWait, RunnerSpurious, RunnerLeave, AtPredicate, Active
<1>2. /\ \A s \in Closures : s # r => runner'[s] = runner[s]
      /\ runner'[r] \in {"waiting", "woken", "done"}
      /\ runner'[r] = "waiting" => running # 0
      /\ runner'[r] # "woken" => exiting \/ running # 0
      /\ UNCHANGED <<queue, running, exiting, call, caller, job, dtor, pushed, started>>
  BY DEF RunnerWait, RunnerSpurious, RunnerLeave, TypeOK
<1>3. TypeOK'
  BY DEF RunnerWait, RunnerSpurious, RunnerLeave, TypeOK, RunnerState
<1>4. (RunningCounts /\ SleepersAreCovered /\ JobWhileRunning /\ DestroyedIdle)'
  <2>1. \A s \in Closures : Active(s)' <=> Active(s)
    BY <1>1, <1>2 DEF Active
  <2>2. RunningCounts'
    BY <1>2, <2>1 DEF RunningCounts
  <2>3. SleepersAreCovered'
    BY <1>2 DEF SleepersAreCovered, RunningCounts
  <2>4. JobWhileRunning' /\ DestroyedIdle'
    BY <1>1, <1>2 DEF JobWhileRunning, DestroyedIdle, Active
  <2> QED
    BY <2>2, <2>3, <2>4
<1>5. RunnerAfterCall' /\ FirstInFirstOut'
  BY <1>1, <1>2 DEF RunnerAfterCall, FirstInFirstOut
<1>6. SomebodyWillLook'
  BY <1>1, <1>2 DEF SomebodyWillLook, TypeOK
<1> QED
  BY <1>3, <1>4, <1>5, <1>6

(***************************************************************************)
(* At the loop test the runner is the only one that is or becomes active,  *)
(* and the decrement that precedes the test leaves _running at 0.          *)
(***************************************************************************)
LEMMA AtLoopAlone ==
    ASSUME IInv, NEW r \in Closures, AtLoop(r)
    PROVE  /\ StillRunning(r) = 0
           /\ \A s \in Closures : Active(s) => s = r
           /\ dtor # "destroyed"
           /\ runner[r] # "none"
<1> USE DEF IInv
<1>1. CASE runner[r] = "returned"
  BY <1>1 DEF StillRunning, RunningCounts, Active, DestroyedIdle
<1>2. CASE runner[r] # "returned"
  BY <1>2 DEF AtLoop, AtPredicate, StillRunning, RunningCounts, Active
<1> QED
  BY <1>1, <1>2

\* A runner starts the next closure.
LEMMA StartIInv ==
    ASSUME IInv, NEW r \in Closures, RunnerStart(r)
    PROVE  IInv'
<1> USE DEF IInv
<1>1. AtLoop(r) /\ queue # <<>>
  BY DEF RunnerStart
<1>2. /\ Head(queue) \in Closures
      /\ Tail(queue) \in Seq(Closures)
      /\ Append(started, Head(queue)) \in Seq(Closures)
      /\ started \o queue = Append(started, Head(queue)) \o Tail(queue)
  BY <1>1, ShiftHead DEF TypeOK
<1>3. /\ StillRunning(r) = 0
      /\ \A s \in Closures : Active(s) => s = r
      /\ dtor # "destroyed"
      /\ runner[r] # "none"
  BY <1>1, AtLoopAlone
<1>4. running' = 1
  BY <1>3 DEF RunnerStart
<1>5. runner'[r] = "running" /\ \A s \in Closures : s # r => runner'[s] = runner[s]
  BY DEF RunnerStart, TypeOK
<1>6. TypeOK'
  BY <1>2, <1>4 DEF RunnerStart, TypeOK, RunnerState
<1>7. RunningCounts' /\ SleepersAreCovered' /\ DestroyedIdle'
  BY <1>3, <1>4, <1>5 DEF RunnerStart, RunningCounts, SleepersAreCovered, DestroyedIdle, Active
<1>8. JobWhileRunning'
  BY <1>2, <1>5, NoClosureAssumption DEF RunnerStart, JobWhileRunning, TypeOK
<1>9. RunnerAfterCall'
  BY <1>3, <1>5 DEF RunnerStart, RunnerAfterCall
<1>10. FirstInFirstOut'
  BY <1>2 DEF RunnerStart, FirstInFirstOut
<1>11. SomebodyWillLook'
  BY <1>4 DEF SomebodyWillLook
<1> QED
  BY <1>6, <1>7, <1>8, <1>9, <1>10, <1>11

\* The closure of a runner returns: the runner stays active.
LEMMA ReturnIInv ==
    ASSUME IInv, NEW r \in Closures, RunnerReturn(r)
    PROVE  IInv'
<1> USE DEF IInv
<1>1. /\ runner[r] = "running" /\ runner'[r] = "returned"
      /\ \A s \in Closures : s # r => runner'[s] = runner[s]
  BY DEF RunnerReturn, TypeOK
<1>2. Active(r) /\ running = 1
  BY <1>1 DEF Active, RunningCounts
<1>3. TypeOK'
  BY DEF RunnerReturn, TypeOK, RunnerState
<1>4. RunningCounts' /\ SleepersAreCovered' /\ DestroyedIdle'
  BY <1>1, <1>2 DEF RunnerReturn, RunningCounts, SleepersAreCovered, DestroyedIdle, Active
<1>5. JobWhileRunning' /\ RunnerAfterCall'
  BY <1>1 DEF RunnerReturn, JobWhileRunning, RunnerAfterCall, TypeOK
<1>6. FirstInFirstOut' /\ SomebodyWillLook'
  BY <1>2 DEF RunnerReturn, FirstInFirstOut, SomebodyWillLook
<1> QED
  BY <1>3, <1>4, <1>5, <1>6

\* A runner finds the queue empty: it decrements _running and wakes the others.
LEMMA FinishIInv ==
    ASSUME IInv, NEW r \in Closures, RunnerFinish(r)
    PROVE  IInv'
<1> USE DEF IInv
<1>1. AtLoop(r) /\ queue = <<>> /\ queue' = queue
  BY DEF RunnerFinish
<1>2. /\ StillRunning(r) = 0
      /\ \A s \in Closures : Active(s) => s = r
      /\ dtor # "destroyed"
      /\ runner[r] # "none"
  BY <1>1, AtLoopAlone
<1>3. running' = 0
  BY <1>2 DEF RunnerFinish
<1>4. \A s \in Closures :
        /\ runner'[s] = "done" \/ runner'[s] = "woken" \/ runner'[s] = runner[s]
        /\ runner[s] = "waiting" => runner'[s] # "waiting"
        /\ s = r => runner'[s] = "done"
        /\ runner[s] = "none" => runner'[s] = "none"
        /\ runner'[s] \in RunnerState
  BY <1>2 DEF RunnerFinish, WakeRunners, TypeOK, RunnerState
<1>5. TypeOK'
  <2>1. runner' \in [Closures -> RunnerState]
    BY <1>4 DEF RunnerFinish, WakeRunners
  <2> QED
    BY <2>1, <1>3 DEF RunnerFinish, WakeDestructor, TypeOK, DtorState
<1>6. RunningCounts' /\ SleepersAreCovered' /\ DestroyedIdle'
  BY <1>2, <1>3, <1>4 DEF RunningCounts, SleepersAreCovered, DestroyedIdle, Active
<1>7. RunnerAfterCall'
  BY <1>4 DEF RunnerFinish, RunnerAfterCall
<1>8. JobWhileRunning'
  <2>1. runner[r] # "running"
    BY <1>1 DEF AtLoop, AtPredicate
  <2> QED
    BY <2>1 DEF RunnerFinish, WakeRunners, JobWhileRunning
<1>9. FirstInFirstOut'
  BY DEF RunnerFinish, FirstInFirstOut
<1>10. SomebodyWillLook'
  BY <1>1 DEF SomebodyWillLook
<1> QED
  BY <1>5, <1>6, <1>7, <1>8, <1>9, <1>10

\* The destructor, and stuttering.
LEMMA DtorIInv ==
    ASSUME IInv, DtorFlag \/ DtorStep \/ DtorSpurious \/ UNCHANGED vars
    PROVE  IInv'
<1> USE DEF IInv
<1>1. /\ UNCHANGED <<queue, running, call, caller, runner, job, pushed, started>>
      /\ exiting' = exiting \/ exiting' = TRUE
      /\ dtor' \in DtorState
      /\ dtor' = "destroyed" => dtor = "destroyed" \/ running <= 0
  BY DEF DtorFlag, DtorStep, DtorWait, DtorReturn, NoneRunning, DtorSpurious, vars,
         DtorState, TypeOK
<1>2. TypeOK'
  BY <1>1 DEF TypeOK
<1>3. (RunningCounts /\ SleepersAreCovered /\ JobWhileRunning /\ RunnerAfterCall)'
  BY <1>1 DEF RunningCounts, SleepersAreCovered, JobWhileRunning, RunnerAfterCall, Active
<1>4. DestroyedIdle'
  BY <1>1 DEF DestroyedIdle, TypeOK
<1>5. FirstInFirstOut' /\ SomebodyWillLook'
  BY <1>1 DEF FirstInFirstOut, SomebodyWillLook
<1> QED
  BY <1>2, <1>3, <1>4, <1>5

\* The invariant is inductive.
LEMMA NextIInv == IInv /\ [Next]_vars => IInv'
<1> SUFFICES ASSUME IInv, [Next]_vars PROVE IInv'
  OBVIOUS
<1>1. CASE \E c \in Closures, who \in Closures \cup {Client} : AddCheck(c, who)
  BY <1>1, CallIInv
<1>2. CASE \E c \in Closures : CallStep(c)
  BY <1>2, CallIInv DEF CallStep
<1>3. CASE \E r \in Closures : RunnerStep(r)
  BY <1>3, IdleRunnerIInv, StartIInv, ReturnIInv, FinishIInv DEF RunnerStep
<1>4. CASE \E r \in Closures : RunnerSpurious(r)
  BY <1>4, IdleRunnerIInv
<1>5. CASE DtorFlag \/ DtorStep \/ DtorSpurious \/ Terminated \/ UNCHANGED vars
  BY <1>5, DtorIInv DEF Terminated
<1> QED
  BY <1>1, <1>2, <1>3, <1>4, <1>5 DEF Next

\* Every reachable state satisfies the inductive invariant.
THEOREM Invariance == Spec => []IInv
  BY InitIInv, NextIInv, PTL DEF Spec

\* The variables keep their types: _running never becomes negative.
THEOREM TypeCorrect == Spec => []TypeOK
<1>1. IInv => TypeOK
  BY DEF IInv
<1> QED
  BY <1>1, Invariance, PTL

(***************************************************************************)
(* However many runners the underlying executor runs in parallel, no two   *)
(* closures of a serial_executor run concurrently.                         *)
(***************************************************************************)
THEOREM MutualExclusion == Spec => []NeverConcurrent
<1>1. IInv => NeverConcurrent
  BY DEF IInv, RunningCounts, Active, NeverConcurrent
<1> QED
  BY <1>1, Invariance, PTL

\* Closures start in the order add() queued them, none twice, none skipped.
THEOREM StartsInOrder == Spec => []FirstInFirstOut
<1>1. IInv => FirstInFirstOut
  BY DEF IInv
<1> QED
  BY <1>1, Invariance, PTL

\* A queued closure always has a runner that will look at the queue.
THEOREM NoneStranded == Spec => []SomebodyWillLook
<1>1. IInv => SomebodyWillLook
  BY DEF IInv
<1> QED
  BY <1>1, Invariance, PTL

\* The destructor returns only when no closure is running.
THEOREM DestructorIsSafe == Spec => []DestructorWaits
<1>1. IInv => DestructorWaits
  <2> SUFFICES ASSUME RunningCounts, DestroyedIdle, dtor = "destroyed", NEW r \in Closures
               PROVE  runner[r] \notin {"running", "returned"}
    BY DEF IInv, DestructorWaits
  <2>1. running = 0
    BY DEF DestroyedIdle
  <2>2. ~Active(r)
    BY <2>1 DEF RunningCounts
  <2> QED
    BY <2>2 DEF Active
<1> QED
  BY <1>1, Invariance, PTL

-----------------------------------------------------------------------------
(***************************************************************************)
(* Refinement.  current is the job of the one runner that runs.            *)
(***************************************************************************)
\* The runner that runs determines the abstract current closure.
LEMMA CurrentIsJob ==
    ASSUME IInv, NEW r \in Closures, runner[r] = "running"
    PROVE  Current = job[r]
<1>1. \A s \in Closures : runner[s] = "running" => s = r
  BY DEF IInv, RunningCounts, Active
<1> QED
  BY <1>1 DEF Current

\* Without a running runner there is no current closure.
LEMMA CurrentIsNone ==
    ASSUME \A r \in Closures : runner[r] # "running"
    PROVE  Current = NoClosure
  BY DEF Current

\* Steps that leave the queue, _exiting and the running closure alone stutter.
LEMMA Stutter ==
    ASSUME IInv, IInv', UNCHANGED <<queue, exiting, job>>,
           \A r \in Closures : runner'[r] = "running" <=> runner[r] = "running"
    PROVE  UNCHANGED Abstract!vars
<1>1. CASE \E r \in Closures : runner[r] = "running"
  <2>1. PICK r \in Closures : runner[r] = "running"
    BY <1>1
  <2>2. Current = job[r]
    BY <2>1, CurrentIsJob
  <2>3. \A s \in Closures : runner'[s] = "running" => s = r
    BY <2>1 DEF IInv, RunningCounts, Active
  <2>4. Current' = job'[r]
    BY <2>1, <2>3 DEF Current
  <2> QED
    BY <2>2, <2>4 DEF Abstract!vars
<1>2. CASE \A r \in Closures : runner[r] # "running"
  <2>1. Current = NoClosure
    BY <1>2 DEF Current
  <2>2. Current' = NoClosure
    BY <1>2 DEF Current
  <2> QED
    BY <2>1, <2>2 DEF Abstract!vars
<1> QED
  BY <1>1, <1>2

\* Pushing a closure is Submit.
LEMMA PushRefines ==
    ASSUME IInv, IInv', NEW c \in Closures, AddPush(c)
    PROVE  Abstract!Submit(c)
<1>1. runner' = runner /\ job' = job /\ exiting' = exiting
  BY DEF AddPush
<1>2. Current' = Current
  BY <1>1 DEF Current
<1> QED
  BY <1>1, <1>2 DEF AddPush, Abstract!Submit

\* Starting a closure is Start: nothing ran before, its head of queue does now.
LEMMA StartRefines ==
    ASSUME IInv, IInv', NEW r \in Closures, RunnerStart(r)
    PROVE  Abstract!Start
<1>1. AtLoop(r) /\ queue # <<>>
  BY DEF RunnerStart
<1>2. \A s \in Closures : runner[s] # "running"
  <2>1. \A s \in Closures : Active(s) => s = r
    BY <1>1, AtLoopAlone
  <2>2. runner[r] # "running"
    BY <1>1 DEF AtLoop, AtPredicate
  <2> QED
    BY <2>1, <2>2 DEF Active
<1>3. Current = NoClosure
  BY <1>2 DEF Current
<1>4. runner'[r] = "running" /\ job'[r] = Head(queue)
  BY DEF RunnerStart, IInv, TypeOK
<1>5. \A s \in Closures : runner'[s] = "running" => s = r
  BY <1>2 DEF RunnerStart, IInv, TypeOK
<1>6. Current' = Head(queue)
  BY <1>4, <1>5 DEF Current
<1> QED
  BY <1>1, <1>3, <1>6 DEF RunnerStart, Abstract!Start

\* The return of a closure is Finish.
LEMMA ReturnRefines ==
    ASSUME IInv, IInv', NEW r \in Closures, RunnerReturn(r)
    PROVE  Abstract!Finish
<1>1. runner[r] = "running"
  BY DEF RunnerReturn
<1>2. Current = job[r] /\ job[r] # NoClosure
  BY <1>1, CurrentIsJob DEF IInv, JobWhileRunning
<1>3. \A s \in Closures : runner'[s] # "running"
  BY <1>1 DEF RunnerReturn, IInv, TypeOK, RunningCounts, Active
<1>4. Current' = NoClosure
  BY <1>3 DEF Current
<1> QED
  BY <1>2, <1>4 DEF RunnerReturn, Abstract!Finish

\* A runner that gives up wakes the others; nothing runs before or after.
LEMMA FinishRefines ==
    ASSUME IInv, IInv', NEW r \in Closures, RunnerFinish(r)
    PROVE  UNCHANGED Abstract!vars
<1>1. runner[r] # "running"
  BY DEF RunnerFinish, AtLoop, AtPredicate
<1>2. \A s \in Closures : runner'[s] = "running" <=> runner[s] = "running"
  BY <1>1 DEF RunnerFinish, WakeRunners
<1> QED
  BY <1>2, Stutter DEF RunnerFinish

\* Every step of the executor is a step of the serial queue or a stutter.
LEMMA StepRefines ==
    ASSUME IInv, IInv', [Next]_vars
    PROVE  [Abstract!Next]_(Abstract!vars)
<1>1. CASE \E c \in Closures, who \in Closures \cup {Client} : AddCheck(c, who)
  BY <1>1, Stutter DEF AddCheck
<1>2. CASE \E c \in Closures : CallStep(c)
  <2>1. PICK c \in Closures : CallStep(c)
    BY <1>2
  <2>2. CASE AddPush(c)
    BY <2>2, PushRefines DEF Abstract!Next
  <2>3. CASE AddSubmit(c)
    <3>1. runner[c] = "none"
      BY <2>3 DEF AddSubmit, IInv, RunnerAfterCall
    <3>2. \A r \in Closures : runner'[r] = "running" <=> runner[r] = "running"
      BY <2>3, <3>1 DEF AddSubmit, IInv, TypeOK
    <3> QED
      BY <2>3, <3>2, Stutter DEF AddSubmit
  <2> QED
    BY <2>1, <2>2, <2>3 DEF CallStep
<1>3. CASE \E r \in Closures : RunnerStep(r) \/ RunnerSpurious(r)
  <2>1. PICK r \in Closures : RunnerStep(r) \/ RunnerSpurious(r)
    BY <1>3
  <2>2. CASE RunnerWait(r) \/ RunnerLeave(r) \/ RunnerSpurious(r)
    <3>1. \A s \in Closures : runner'[s] = "running" <=> runner[s] = "running"
      BY <2>2 DEF RunnerWait, RunnerLeave, RunnerSpurious, AtPredicate, IInv, TypeOK
    <3>2. UNCHANGED <<queue, exiting, job>>
      BY <2>2 DEF RunnerWait, RunnerLeave, RunnerSpurious
    <3> QED
      BY <3>1, <3>2, Stutter
  <2>3. CASE RunnerStart(r)
    BY <2>3, StartRefines DEF Abstract!Next
  <2>4. CASE RunnerReturn(r)
    BY <2>4, ReturnRefines DEF Abstract!Next
  <2>5. CASE RunnerFinish(r)
    BY <2>5, FinishRefines
  <2> QED
    BY <2>1, <2>2, <2>3, <2>4, <2>5 DEF RunnerStep
<1>4. CASE DtorFlag
  <2>1. runner' = runner /\ job' = job /\ queue' = queue /\ exiting' = TRUE
    BY <1>4 DEF DtorFlag
  <2>2. Current' = Current
    BY <2>1 DEF Current
  <2> QED
    BY <2>1, <2>2 DEF Abstract!Next, Abstract!Close
<1>5. CASE DtorStep \/ DtorSpurious \/ Terminated \/ UNCHANGED vars
  <2>1. UNCHANGED <<queue, exiting, job, runner>>
    BY <1>5 DEF DtorStep, DtorWait, DtorReturn, DtorSpurious, Terminated, vars
  <2> QED
    BY <2>1, Stutter
<1> QED
  BY <1>1, <1>2, <1>3, <1>4, <1>5 DEF Next

(***************************************************************************)
(* The runners, the lock and the condition variable implement a queue that *)
(* runs one closure at a time from its front.                              *)
(***************************************************************************)
THEOREM Refinement == Spec => ImplementsSerialQueue
<1>1. Init => Abstract!Init
  <2> SUFFICES ASSUME Init PROVE Abstract!Init
    OBVIOUS
  <2>1. Current = NoClosure
    BY DEF Init, Current
  <2> QED
    BY <2>1 DEF Init, Abstract!Init
<1>2. IInv /\ IInv' /\ [Next]_vars => [Abstract!Next]_(Abstract!vars)
  BY StepRefines
<1> QED
  BY <1>1, <1>2, Invariance, PTL DEF Spec, ImplementsSerialQueue, Abstract!Spec

-----------------------------------------------------------------------------
(***************************************************************************)
(* loop_executor                                                           *)
(***************************************************************************)
\* The types, without the number of calls, which nothing depends on.
LoopTypes ==
    /\ loopQueue \in Seq(Closures) /\ myQueue \in Seq(Closures)
    /\ added \in Seq(Closures) /\ ran \in Seq(Closures)
    /\ runningClosures \in BOOLEAN
    /\ phase = "idle" => ~runningClosures
    /\ makeLoopExit \in BOOLEAN
    /\ method \in {"none", "loop", "run_queued_closures", "try_one_closure"}
    /\ phase \in {"idle", "test", "running", "stopped"}
    /\ current \in Closures \cup {NoClosure}
    /\ requester \in {"idle", "readTrue", "readFalse"}

\* A closure runs while its method is at it, and is still at the front.
RunsItsFront ==
    /\ current # NoClosure <=> phase = "running"
    /\ phase = "running" => Remaining # <<>> /\ loopQueue # <<>> /\ current = Head(loopQueue)

\* Only run_queued_closures() has a copy of the queue to pop.
CopyOnlyThere ==
    /\ phase # "idle" => method # "none"
    /\ method \in {"loop", "try_one_closure"} => myQueue = <<>>

LoopIInv == LoopTypes /\ RunsItsFront /\ CopyOnlyThere /\ PopsWhatRan /\ CopyIsPrefix

-----------------------------------------------------------------------------
\* A prefix that is not empty has the same head, and its tail is a prefix
\* of the tail.
LEMMA PrefixPopped ==
    ASSUME NEW S, NEW p \in Seq(S), NEW q \in Seq(S),
           Len(p) <= Len(q), \A i \in 1 .. Len(p) : p[i] = q[i], p # <<>>
    PROVE  /\ q # <<>> /\ Head(p) = Head(q)
           /\ Len(Tail(p)) <= Len(Tail(q))
           /\ \A i \in 1 .. Len(Tail(p)) : Tail(p)[i] = Tail(q)[i]
  OBVIOUS

\* The constructor establishes the invariant.
LEMMA LoopInitIInv == LoopInit => LoopIInv
<1> SUFFICES ASSUME LoopInit PROVE LoopIInv
  OBVIOUS
<1>1. loopQueue \in Seq(Closures) /\ myQueue \in Seq(Closures) /\ added \in Seq(Closures) /\ ran \in Seq(Closures)
  BY DEF LoopInit
<1>2. LoopTypes
  <2>1. runningClosures \in BOOLEAN /\ makeLoopExit \in BOOLEAN /\ ~runningClosures
    BY DEF LoopInit
  <2>2. /\ method \in {"none", "loop", "run_queued_closures", "try_one_closure"}
        /\ phase \in {"idle", "test", "running", "stopped"}
        /\ current \in Closures \cup {NoClosure}
        /\ requester \in {"idle", "readTrue", "readFalse"}
    BY DEF LoopInit
  <2> QED
    BY <1>1, <2>1, <2>2 DEF LoopTypes
<1>3. RunsItsFront /\ CopyOnlyThere
  BY DEF LoopInit, RunsItsFront, CopyOnlyThere
<1>4. PopsWhatRan
  <2>1. <<>> = <<>> \o <<>>
    OBVIOUS
  <2> QED
    BY <2>1 DEF LoopInit, PopsWhatRan
<1>5. CopyIsPrefix
  BY DEF LoopInit, CopyIsPrefix
<1> QED
  BY <1>2, <1>3, <1>4, <1>5 DEF LoopIInv

\* add(): the queue grows at its end, behind the closure that runs.
LEMMA LoopAddIInv ==
    ASSUME LoopIInv, NEW c \in Closures, Add(c)
    PROVE  LoopIInv'
<1>1. loopQueue \in Seq(Closures) /\ ran \in Seq(Closures) /\ myQueue \in Seq(Closures)
  BY DEF LoopIInv, LoopTypes
<1>shift. Append(ran \o loopQueue, c) = ran \o Append(loopQueue, c)
  <2>1. ran \in Seq(Closures) /\ loopQueue \in Seq(Closures)
    BY <1>1
  <2> QED
    BY <2>1
<1> USE DEF LoopIInv, Add
<1>2. LoopTypes'
  BY DEF LoopTypes
<1>3. CopyOnlyThere'
  BY DEF CopyOnlyThere
<1>4. loopQueue # <<>> => Head(loopQueue') = Head(loopQueue)
  BY <1>1
<1>5. loopQueue' # <<>>
  BY <1>1
<1>6. RunsItsFront'
  <2>1. (current # NoClosure <=> phase = "running")'
    BY DEF RunsItsFront
  <2>2. ASSUME phase = "running" PROVE Remaining' # <<>>
    BY <1>5, <2>2 DEF RunsItsFront, Remaining
  <2>3. ASSUME phase = "running" PROVE current' = Head(loopQueue')
    BY <1>4, <2>3 DEF RunsItsFront
  <2> QED
    BY <1>5, <2>1, <2>2, <2>3 DEF RunsItsFront
<1>7. PopsWhatRan'
  <2>1. current # NoClosure => current = Head(loopQueue')
    BY <1>4 DEF PopsWhatRan, RunsItsFront
  <2> QED
    BY <1>shift, <2>1 DEF PopsWhatRan
<1>8. CopyIsPrefix'
  <2>1. Len(Append(loopQueue, c)) = Len(loopQueue) + 1 /\ Len(loopQueue) \in Nat /\ Len(myQueue) \in Nat
    BY <1>1
  <2>2. \A i \in 1 .. Len(loopQueue) : Append(loopQueue, c)[i] = loopQueue[i]
    BY <1>1
  <2> QED
    BY <2>1, <2>2 DEF CopyIsPrefix
<1> QED
  BY <1>2, <1>3, <1>6, <1>7, <1>8

\* A running method is called: the copy is the whole queue.
LEMMA LoopCallIInv ==
    ASSUME LoopIInv, NEW m \in {"loop", "run_queued_closures", "try_one_closure"}, Call(m)
    PROVE  LoopIInv'
<1> USE DEF LoopIInv, Call
<1>1. LoopTypes'
  BY NoClosureAssumption DEF LoopTypes
<1>2. RunsItsFront' /\ CopyOnlyThere' /\ PopsWhatRan'
  BY DEF RunsItsFront, CopyOnlyThere, PopsWhatRan
<1>3. CopyIsPrefix'
  BY DEF CopyIsPrefix, LoopTypes
<1> QED
  BY <1>1, <1>2, <1>3

\* The front is run: it is also the front of the copy.
LEMMA LoopRunIInv ==
    ASSUME LoopIInv, RunFront
    PROVE  LoopIInv'
<1> USE DEF LoopIInv, RunFront
<1>1. loopQueue \in Seq(Closures) /\ myQueue \in Seq(Closures) /\ Remaining # <<>>
  BY DEF LoopTypes, GoesOn
<1>2. loopQueue # <<>> /\ Head(Remaining) = Head(loopQueue) /\ Head(loopQueue) \in Closures
  BY <1>1, PrefixPopped DEF CopyIsPrefix, Remaining
<1>3. current' = Head(loopQueue)
  BY <1>2 DEF FrontOf
<1>4. LoopTypes'
  BY <1>2, <1>3 DEF LoopTypes
<1>5. Remaining' = Remaining
  BY DEF Remaining
<1>6. RunsItsFront' /\ CopyOnlyThere' /\ PopsWhatRan' /\ CopyIsPrefix'
  BY <1>1, <1>2, <1>3, <1>5, NoClosureAssumption
     DEF RunsItsFront, CopyOnlyThere, PopsWhatRan, CopyIsPrefix
<1> QED
  BY <1>4, <1>6

\* It returns and is popped from both.
LEMMA LoopReturnIInv ==
    ASSUME LoopIInv, Return
    PROVE  LoopIInv'
<1> USE DEF LoopIInv, Return
<1>1. /\ loopQueue \in Seq(Closures) /\ myQueue \in Seq(Closures) /\ ran \in Seq(Closures)
      /\ loopQueue # <<>> /\ Remaining # <<>> /\ current = Head(loopQueue)
  BY DEF LoopTypes, RunsItsFront
<1>2. loopQueue' = Tail(loopQueue) /\ loopQueue' \in Seq(Closures)
  BY <1>1 DEF PopFront
<1>3. LoopTypes'
  <2>1. myQueue' \in Seq(Closures)
    BY <1>1 DEF Remaining
  <2>2. ran' \in Seq(Closures)
    BY <1>1
  <2>3. phase' \in {"stopped", "test"}
    OBVIOUS
  <2> QED
    BY <1>2, <2>1, <2>2, <2>3 DEF LoopTypes
<1>4. RunsItsFront' /\ CopyOnlyThere'
  BY DEF RunsItsFront, CopyOnlyThere
<1>5. PopsWhatRan'
  <2>1. ran \o loopQueue = Append(ran, Head(loopQueue)) \o Tail(loopQueue)
    BY <1>1, ShiftHead
  <2>2. added' = ran' \o loopQueue'
    BY <1>1, <1>2, <2>1 DEF PopsWhatRan
  <2> QED
    BY <2>2 DEF PopsWhatRan
<1>6. CopyIsPrefix'
  <2>1. CASE method = "run_queued_closures"
    BY <1>1, <1>2, <2>1, PrefixPopped DEF CopyIsPrefix, Remaining
  <2>2. CASE method # "run_queued_closures"
    <3>1. myQueue' = <<>>
      BY <2>2 DEF CopyOnlyThere, LoopTypes
    <3>2. Len(loopQueue') >= 0
      BY <1>2
    <3> QED
      BY <3>1, <3>2 DEF CopyIsPrefix
  <2> QED
    BY <2>1, <2>2
<1> QED
  BY <1>3, <1>4, <1>5, <1>6

\* The steps that touch no queue.
LEMMA LoopFlagIInv ==
    ASSUME LoopIInv, MakeLoopExit \/ RequestRead \/ RequestWrite \/ Stop \/ ClearRunning \/ ClearExit
    PROVE  LoopIInv'
<1> USE DEF LoopIInv, MakeLoopExit, RequestRead, RequestWrite, Stop, ClearRunning, ClearExit
<1>1. UNCHANGED <<loopQueue, myQueue, current, added, ran, calls>>
  OBVIOUS
<1>2. LoopTypes'
  <2>1. makeLoopExit' \in BOOLEAN /\ runningClosures' \in BOOLEAN
    BY DEF LoopTypes
  <2>2. phase' = "idle" => ~runningClosures'
    BY DEF LoopTypes
  <2>3. /\ requester' \in {"idle", "readTrue", "readFalse"}
        /\ phase' \in {"idle", "test", "running", "stopped"}
        /\ method' \in {"none", "loop", "run_queued_closures", "try_one_closure"}
    BY DEF LoopTypes
  <2> QED
    BY <1>1, <2>1, <2>2, <2>3 DEF LoopTypes
<1>3. PopsWhatRan' /\ CopyIsPrefix'
  BY <1>1 DEF PopsWhatRan, CopyIsPrefix
<1>4. RunsItsFront'
  BY DEF RunsItsFront, Remaining
<1>5. CopyOnlyThere'
  BY DEF CopyOnlyThere
<1> QED
  BY <1>2, <1>3, <1>4, <1>5

\* Every step preserves the invariant.
LEMMA LoopNextIInv == LoopIInv /\ [LoopNext]_loopVars => LoopIInv'
<1> SUFFICES ASSUME LoopIInv, [LoopNext]_loopVars PROVE LoopIInv'
  OBVIOUS
<1>1. CASE UNCHANGED loopVars
  BY <1>1 DEF LoopIInv, loopVars, LoopTypes, RunsItsFront, Remaining, CopyOnlyThere, PopsWhatRan, CopyIsPrefix
<1>2. CASE LoopNext
  BY <1>2, LoopAddIInv, LoopCallIInv, LoopRunIInv, LoopReturnIInv, LoopFlagIInv DEF LoopNext
<1> QED
  BY <1>1, <1>2

\* The inductive invariant holds in every reachable state.
THEOREM LoopInvariance == LoopSpec => []LoopIInv
  BY LoopInitIInv, LoopNextIInv, PTL DEF LoopSpec

\* Closures run in the order of add(), each once, whatever they add.
THEOREM RunsInOrder == LoopSpec => []PopsWhatRan
<1>1. LoopIInv => PopsWhatRan
  BY DEF LoopIInv
<1> QED
  BY <1>1, LoopInvariance, PTL

\* run_queued_closures() never runs a closure that was added after its call.
THEOREM RunsWhatWasQueued == LoopSpec => []CopyIsPrefix
<1>1. LoopIInv => CopyIsPrefix
  BY DEF LoopIInv
<1> QED
  BY <1>1, LoopInvariance, PTL
=============================================================================
