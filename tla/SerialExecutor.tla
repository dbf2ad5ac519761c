--------------------------- MODULE SerialExecutor ---------------------------
(***************************************************************************)
(* serial_executor of ePub3/utilities/executor.{h,cpp}: closures run one   *)
(* at a time on an underlying executor that may have many threads.         *)
(*                                                                         *)
(* Each add() that finds no closure running submits a "runner" to the      *)
(* underlying executor; a runner drains the queue.  A call of add() and    *)
(* the runner it may submit are identified by the closure of the call.     *)
(* The underlying executor (a thread_pool, thread_executor...) starts      *)
(* submitted runners in any order and any number of them at once.          *)
(*                                                                         *)
(* A critical section of _lock is one action.  _exiting is also read and   *)
(* written without _lock, in actions of their own.  The model ends where   *)
(* the destructor returns: what a runner that was still submitted does     *)
(* with the destroyed object is undefined.                                 *)
(***************************************************************************)
EXTENDS Executor, Integers, Sequences, FiniteSets

\* A closure also names the call of add() that submits it.
CONSTANT
    Client       \* a caller of add() outside the executor

ASSUME ClosuresAssumption == IsFiniteSet(Closures)
ASSUME ClientAssumption == Client \notin Closures

VARIABLES
    queue,      \* _queue
    running,    \* _running
    exiting,    \* _exiting
    call,       \* where each call of add() is
    caller,     \* who makes it: a client, or the closure a runner is running
    runner,     \* where each runner is
    job,        \* the closure each runner is running
    dtor,       \* where the destructor is
    pushed,     \* history: the closures in the order add() queued them
    started     \* history: the closures in the order they were started

vars == <<queue, running, exiting, call, caller, runner, job, dtor, pushed, started>>

CallState   == {"none", "checked", "submit", "returned"}
RunnerState == {"none", "queued", "waiting", "woken", "running", "returned", "done"}
DtorState   == {"alive", "flagged", "waiting", "woken", "destroyed"}

TypeOK ==
    /\ queue \in Seq(Closures)
    /\ running \in Nat
    /\ exiting \in BOOLEAN
    /\ call \in [Closures -> CallState]
    /\ caller \in [Closures -> Closures \cup {Client}]
    /\ runner \in [Closures -> RunnerState]
    /\ job \in [Closures -> Closures \cup {NoClosure}]
    /\ dtor \in DtorState
    /\ pushed \in Seq(Closures)
    /\ started \in Seq(Closures)

Init ==
    /\ queue = <<>>
    /\ running = 0
    /\ exiting = FALSE
    /\ call = [c \in Closures |-> "none"]
    /\ caller = [c \in Closures |-> Client]
    /\ runner = [c \in Closures |-> "none"]
    /\ job = [c \in Closures |-> NoClosure]
    /\ dtor = "alive"
    /\ pushed = <<>>
    /\ started = <<>>

-----------------------------------------------------------------------------
(***************************************************************************)
(* add()                                                                   *)
(***************************************************************************)
InCall(c) == call[c] \in {"checked", "submit"}

\* Clients call a live executor.  A closure that is running may call it
\* too, one call at a time, even while the destructor waits for it.
MayCall(who) ==
    \/ who = Client /\ dtor = "alive"
    \/ /\ who \in Closures
       /\ \E r \in Closures : runner[r] = "running" /\ job[r] = who
       /\ \A c \in Closures : InCall(c) => caller[c] # who

\* if ( _exiting ) return, before the lock is taken
AddCheck(c, who) ==
    /\ call[c] = "none"
    /\ MayCall(who)
    /\ call' = [call EXCEPT ![c] = IF exiting THEN "returned" ELSE "checked"]
    /\ caller' = [caller EXCEPT ![c] = who]
    /\ UNCHANGED <<queue, running, exiting, runner, job, dtor, pushed, started>>

\* if (_running > 0) return: the closure that runs has a runner that will go on
ConsumerActiveOffByOne == running >= 0
ConsumerActive == running > 0

AddPushLIFO(c) ==
    /\ call[c] = "checked"
    /\ queue' = <<c>> \o queue
    /\ pushed' = Append(pushed, c)
    /\ call' = [call EXCEPT ![c] = IF ConsumerActive THEN "returned" ELSE "submit"]
    /\ UNCHANGED <<running, exiting, caller, runner, job, dtor, started>>

AddPush(c) ==
    /\ call[c] = "checked"
    /\ queue' = Append(queue, c)
    /\ pushed' = Append(pushed, c)
    /\ call' = [call EXCEPT ![c] = IF ConsumerActive THEN "returned" ELSE "submit"]
    /\ UNCHANGED <<running, exiting, caller, runner, job, dtor, started>>

\* _underlying_executor->add(runner), with _lock released
AddSubmit(c) ==
    /\ call[c] = "submit"
    /\ call' = [call EXCEPT ![c] = "returned"]
    /\ runner' = [runner EXCEPT ![c] = "queued"]
    /\ UNCHANGED <<queue, running, exiting, caller, job, dtor, pushed, started>>

-----------------------------------------------------------------------------
(***************************************************************************)
(* The runner                                                              *)
(***************************************************************************)
\* About to evaluate the wait's predicate, with _lock acquired.
AtPredicate(r) == runner[r] \in {"queued", "woken"} /\ dtor # "destroyed"

RunnerWait(r) ==
    /\ AtPredicate(r)
    /\ running # 0 /\ ~exiting
    /\ runner' = [runner EXCEPT ![r] = "waiting"]
    /\ UNCHANGED <<queue, running, exiting, call, caller, job, dtor, pushed, started>>

RunnerSpurious(r) ==
    /\ runner[r] = "waiting"
    /\ runner' = [runner EXCEPT ![r] = "woken"]
    /\ UNCHANGED <<queue, running, exiting, call, caller, job, dtor, pushed, started>>

RunnerLeave(r) ==
    /\ AtPredicate(r)
    /\ exiting
    /\ runner' = [runner EXCEPT ![r] = "done"]
    /\ UNCHANGED <<queue, running, exiting, call, caller, job, dtor, pushed, started>>

\* A runner reaches the test of its while loop: after the wait, or after its
\* closure returned and _running was decremented.
AtLoopEager(r) ==
    runner[r] \in {"queued", "woken", "returned"} /\ ~exiting /\ dtor # "destroyed"
AtLoop(r) ==
    \/ AtPredicate(r) /\ running = 0 /\ ~exiting
    \/ runner[r] = "returned"

StillRunningUnpaired(r) == running - 1
StillRunning(r) == IF runner[r] = "returned" THEN running - 1 ELSE running

RunnerStart(r) ==
    /\ AtLoop(r)
    /\ queue # <<>>
    /\ running' = StillRunning(r) + 1
    /\ job' = [job EXCEPT ![r] = Head(queue)]
    /\ queue' = Tail(queue)
    /\ started' = Append(started, Head(queue))
    /\ runner' = [runner EXCEPT ![r] = "running"]
    /\ UNCHANGED <<exiting, call, caller, dtor, pushed>>

\* The closure returns, once a call it made has returned.
RunnerReturn(r) ==
    /\ runner[r] = "running"
    /\ \A c \in Closures : InCall(c) => caller[c] # job[r]
    /\ runner' = [runner EXCEPT ![r] = "returned"]
    /\ job' = [job EXCEPT ![r] = NoClosure]
    /\ UNCHANGED <<queue, running, exiting, call, caller, dtor, pushed, started>>

\* _exit_condition.notify_all(): the other runners and the destructor.
WakeNoRunner(r) == [runner EXCEPT ![r] = "done"]
WakeRunners(r) ==
    [s \in Closures |-> IF s = r THEN "done"
                        ELSE IF runner[s] = "waiting" THEN "woken" ELSE runner[s]]
WakeNoDestructor == dtor
WakeDestructor == IF dtor = "waiting" THEN "woken" ELSE dtor

RunnerFinish(r) ==
    /\ AtLoop(r)
    /\ queue = <<>>
    /\ running' = StillRunning(r)
    /\ runner' = WakeRunners(r)
    /\ dtor' = WakeDestructor
    /\ UNCHANGED <<queue, exiting, call, caller, job, pushed, started>>

-----------------------------------------------------------------------------
(***************************************************************************)
(* The destructor.  No client is inside add() when it is called.           *)
(***************************************************************************)
DtorFlag ==
    /\ dtor = "alive"
    /\ \A c \in Closures : InCall(c) => caller[c] # Client
    /\ dtor' = "flagged"
    /\ exiting' = TRUE
    /\ UNCHANGED <<queue, running, call, caller, runner, job, pushed, started>>

\* wait(lk, []{return _running <= 0;})
NoneRunningUnchecked == TRUE
NoneRunning == running <= 0

DtorWait ==
    /\ dtor \in {"flagged", "woken"}
    /\ ~NoneRunning
    /\ dtor' = "waiting"
    /\ UNCHANGED <<queue, running, exiting, call, caller, runner, job, pushed, started>>

DtorSpurious ==
    /\ dtor = "waiting"
    /\ dtor' = "woken"
    /\ UNCHANGED <<queue, running, exiting, call, caller, runner, job, pushed, started>>

DtorReturn ==
    /\ dtor \in {"flagged", "woken"}
    /\ NoneRunning
    /\ dtor' = "destroyed"
    /\ UNCHANGED <<queue, running, exiting, call, caller, runner, job, pushed, started>>

Terminated == dtor = "destroyed" /\ UNCHANGED vars

-----------------------------------------------------------------------------
CallStep(c) == AddPush(c) \/ AddSubmit(c)

RunnerStep(r) == RunnerWait(r) \/ RunnerLeave(r) \/ RunnerStart(r)
                 \/ RunnerReturn(r) \/ RunnerFinish(r)

DtorStep == DtorWait \/ DtorReturn

Next ==
    \/ \E c \in Closures, who \in Closures \cup {Client} : AddCheck(c, who)
    \/ \E c \in Closures : CallStep(c)
    \/ \E r \in Closures : RunnerStep(r)
    \/ \E r \in Closures : RunnerSpurious(r)
    \/ DtorFlag
    \/ DtorStep
    \/ DtorSpurious
    \/ Terminated

(***************************************************************************)
(* A call of add() that has begun continues, the underlying executor runs  *)
(* every runner it was given and schedules its threads, closures return,   *)
(* and a destructor that has begun continues.                              *)
(***************************************************************************)
Fairness ==
    /\ \A c \in Closures : WF_vars(CallStep(c))
    /\ \A r \in Closures : WF_vars(RunnerStep(r))
    /\ WF_vars(DtorStep)

Spec == Init /\ [][Next]_vars
FairSpec == Spec /\ Fairness

-----------------------------------------------------------------------------
(***************************************************************************)
(* "closures submitted to a serial_executor should never run concurrently  *)
(* with one another" (executor_tests.cpp:244).                             *)
(***************************************************************************)
NeverConcurrent ==
    \A r, s \in Closures : runner[r] = "running" /\ runner[s] = "running" => r = s

(***************************************************************************)
(* Closures start in the order in which add() queued them, none twice and  *)
(* none skipped, although several runners drain the one queue.             *)
(***************************************************************************)
FirstInFirstOut == pushed = started \o queue

(***************************************************************************)
(* add() skips the runner when _running > 0.  That never strands a         *)
(* closure: while something is queued and nothing runs, a runner that will *)
(* look at the queue is on its way.                                        *)
(***************************************************************************)
SomebodyWillLook ==
    queue # <<>> /\ ~exiting =>
        \/ running > 0
        \/ \E c \in Closures : call[c] = "submit"
        \/ \E r \in Closures : runner[r] \in {"queued", "woken"}

(***************************************************************************)
(* The destructor returns only when no closure is running, and until then  *)
(* a closure that runs may still use the executor.                         *)
(***************************************************************************)
DestructorWaits ==
    dtor = "destroyed" => \A r \in Closures : runner[r] \notin {"running", "returned"}

\* The destructor returns: the last runner wakes it.
DestructorReturns == (dtor = "flagged") ~> (dtor = "destroyed")

\* Refinement: runners, lock and condition variable implement a serial queue.
Current == IF \E r \in Closures : runner[r] = "running"
           THEN job[CHOOSE r \in Closures : runner[r] = "running"]
           ELSE NoClosure
Abstract == INSTANCE SerialQueue WITH pending <- queue, current <- Current, closed <- exiting

\* The executor does what a serial queue may do.
ImplementsSerialQueue == Abstract!Spec

\* A queued closure is started, and a started one finishes.
ImplementsFairSerialQueue == Abstract!FairSpec
=============================================================================
