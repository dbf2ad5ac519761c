----------------------------- MODULE ThreadPool -----------------------------
(***************************************************************************)
(* The thread pool of ePub3/utilities/executor.{h,cpp}                     *)
(* (__thread_pool_impl_stdcpp): worker threads that share one queue, and a *)
(* timer thread that moves scheduled closures into that queue.             *)
(*                                                                         *)
(* Every critical section of _mutex is one action: it begins when the      *)
(* mutex is acquired and ends at the unlock or at the wait that releases   *)
(* it.  A condition variable is the set of threads whose state is one of   *)
(* the waiting ones; notifying moves them to a woken state, from which     *)
(* they still have to reacquire the mutex.  wait() may return spuriously.  *)
(* _jobs_in_flight is only ever incremented and never read: left out.      *)
(***************************************************************************)
EXTENDS Executor, Integers, Sequences, FiniteSets

CONSTANTS
    Workers,     \* the threads of _threads
    MaxTime      \* bound on the clock and on scheduled times

ASSUME WorkersAssumption == IsFiniteSet(Workers) /\ Workers # {}
ASSUME MaxTimeAssumption == MaxTime \in Nat

VARIABLES
    queue,       \* _queue
    timedQueue,  \* _timed_queue, the set of its (time, closure) entries
    exiting,     \* _exiting
    worker,      \* where each thread is in _RunWorker
    job,         \* the closure each worker is running
    timer,       \* where the timer thread is in _RunTimer
    deadline,    \* the time point its wait_until was called with
    stale,       \* the referenced time point changed during wait_until
    held,        \* the closure popped from _timed_queue, not yet added
    dtor,        \* progress of the destructor
    clock,       \* system_clock::now()
    submitted,   \* history: the closures in the order add() enqueued them
    started,     \* history: the closures in the order workers took them
    sched        \* history: the time each closure was scheduled for

poolVars  == <<queue, exiting, worker, job, submitted, started>>
timerVars == <<timedQueue, timer, deadline, stale, held, sched>>
vars == <<poolVars, timerVars, dtor, clock>>

Times == 0 .. MaxTime
TimedClosure == [time : Times, closure : Closures]

TypeOK ==
    /\ queue \in Seq(Closures)
    /\ timedQueue \subseteq TimedClosure
    /\ exiting \in BOOLEAN
    /\ worker \in [Workers -> {"ready", "waiting", "woken", "running", "exited"}]
    /\ job \in [Workers -> Closures \cup {NoClosure}]
    /\ timer \in {"ready", "waiting", "waitingUntil", "woken", "wokenUntil",
                  "adding", "exited"}
    /\ deadline \in Times
    /\ stale \in BOOLEAN
    /\ held \in Closures \cup {NoClosure}
    /\ dtor \in {"alive", "flagged", "joining", "destroyed"}
    /\ clock \in Times
    /\ submitted \in Seq(Closures)
    /\ started \in Seq(Closures)
    /\ sched \in [Closures -> Times \cup {-1}]

\* The constructor: the workers and the timer thread have been created.
Init ==
    /\ queue = <<>>
    /\ timedQueue = {}
    /\ exiting = FALSE
    /\ worker = [w \in Workers |-> "ready"]
    /\ job = [w \in Workers |-> NoClosure]
    /\ timer = "ready"
    /\ deadline = 0
    /\ stale = FALSE
    /\ held = NoClosure
    /\ dtor = "alive"
    /\ clock = 0
    /\ submitted = <<>>
    /\ started = <<>>
    /\ sched = [c \in Closures |-> -1]

-----------------------------------------------------------------------------
(***************************************************************************)
(* The condition variables.  notify_one on _jobs_ready wakes some waiting  *)
(* worker if there is one; notify_all wakes every one of them.             *)
(* _timers_updated has the timer thread as its only waiter.                *)
(***************************************************************************)
NotifyNobody == UNCHANGED worker
NotifyOne ==
    IF \E w \in Workers : worker[w] = "waiting"
    THEN \E w \in Workers :
            /\ worker[w] = "waiting"
            /\ worker' = [worker EXCEPT ![w] = "woken"]
    ELSE UNCHANGED worker

NotifyOnlyOne == NotifyOne
NotifyAllWorkers ==
    worker' = [w \in Workers |-> IF worker[w] = "waiting" THEN "woken" ELSE worker[w]]

NotifyTimerDropped == UNCHANGED timer
NotifyTimer ==
    timer' = CASE timer = "waiting"      -> "woken"
               [] timer = "waitingUntil" -> "wokenUntil"
               [] OTHER                  -> timer

\* add(): the push and the notification under _mutex.
EnqueueFirst(c) ==
    queue' = <<c>> \o queue /\ submitted' = Append(submitted, c) /\ NotifyOne
Enqueue(c) ==
    /\ queue' = Append(queue, c)
    /\ submitted' = Append(submitted, c)
    /\ NotifyOne

\* A closure that no client has submitted yet.
Fresh(c) == /\ c # held
            /\ sched[c] = -1
            /\ \A i \in 1 .. Len(submitted) : submitted[i] # c

\* Clients call into a live pool; a running closure may still do so while
\* the destructor waits for it.
Callable == dtor = "alive" \/ \E w \in Workers : worker[w] = "running"

Add(c) ==
    /\ Callable
    /\ Fresh(c)
    /\ Enqueue(c)
    /\ UNCHANGED <<exiting, job, started, timerVars, dtor, clock>>

(***************************************************************************)
(* add_at().  wait_until holds a reference into the priority queue's       *)
(* vector; an emplace meanwhile moves or frees what it refers to.          *)
(***************************************************************************)
AddAt(c, t) ==
    /\ Callable
    /\ Fresh(c)
    /\ timedQueue' = timedQueue \cup {[time |-> t, closure |-> c]}
    /\ sched' = [sched EXCEPT ![c] = t]
    /\ stale' = (stale \/ timer \in {"waitingUntil", "wokenUntil"})
    /\ NotifyTimer
    /\ UNCHANGED <<poolVars, deadline, held, dtor, clock>>

\* add_after(): add_at(now() + rel_time).
AddAfter(c, d) == clock + d \in Times /\ AddAt(c, clock + d)

-----------------------------------------------------------------------------
(***************************************************************************)
(* _RunWorker                                                              *)
(***************************************************************************)
NothingQueuedUnchecked == TRUE
NothingQueued == queue = <<>>

WorkerWait(w) ==
    /\ worker[w] = "ready"
    /\ ~exiting
    /\ NothingQueued
    /\ worker' = [worker EXCEPT ![w] = "waiting"]
    /\ UNCHANGED <<queue, exiting, job, submitted, started, timerVars, dtor, clock>>

\* wait() returns although nobody notified.
WorkerSpurious(w) ==
    /\ worker[w] = "waiting"
    /\ worker' = [worker EXCEPT ![w] = "woken"]
    /\ UNCHANGED <<queue, exiting, job, submitted, started, timerVars, dtor, clock>>

WorkerExit(w) ==
    /\ worker[w] \in {"ready", "woken"}
    /\ exiting
    /\ worker' = [worker EXCEPT ![w] = "exited"]
    /\ UNCHANGED <<queue, exiting, job, submitted, started, timerVars, dtor, clock>>

\* The job a worker was woken for is gone: continue.
WorkerRetry(w) ==
    /\ worker[w] = "woken"
    /\ ~exiting
    /\ queue = <<>>
    /\ worker' = [worker EXCEPT ![w] = "ready"]
    /\ UNCHANGED <<queue, exiting, job, submitted, started, timerVars, dtor, clock>>

WorkerTake(w) ==
    /\ worker[w] \in {"ready", "woken"}
    /\ ~exiting
    /\ queue # <<>>
    /\ worker' = [worker EXCEPT ![w] = "running"]
    /\ job' = [job EXCEPT ![w] = Head(queue)]
    /\ queue' = Tail(queue)
    /\ started' = Append(started, Head(queue))
    /\ UNCHANGED <<exiting, submitted, timerVars, dtor, clock>>

\* The closure returns (one that throws terminates the program).
WorkerDone(w) ==
    /\ worker[w] = "running"
    /\ worker' = [worker EXCEPT ![w] = "ready"]
    /\ job' = [job EXCEPT ![w] = NoClosure]
    /\ UNCHANGED <<queue, exiting, submitted, started, timerVars, dtor, clock>>

-----------------------------------------------------------------------------
(***************************************************************************)
(* _RunTimer                                                               *)
(***************************************************************************)
\* __timed_closure_less orders by "<", so that std::priority_queue::top()
\* is an entry with the LATEST time.
Tops == {e \in timedQueue : \A f \in timedQueue : f.time <= e.time}

TimerExit ==
    /\ timer \in {"ready", "woken", "wokenUntil"}
    /\ exiting
    /\ timer' = "exited"
    /\ UNCHANGED <<poolVars, timedQueue, deadline, stale, held, sched, dtor, clock>>

TimerWait ==
    /\ timer = "ready"
    /\ ~exiting
    /\ IF timedQueue = {}
       THEN timer' = "waiting" /\ UNCHANGED <<deadline, stale>>
       ELSE /\ timer' = "waitingUntil"
            /\ stale' = FALSE
            /\ \E e \in Tops : deadline' = e.time
    /\ UNCHANGED <<poolVars, timedQueue, held, sched, dtor, clock>>

\* wait_until gives up at its deadline.
TimerExpire ==
    /\ timer = "waitingUntil"
    /\ clock >= deadline
    /\ timer' = "wokenUntil"
    /\ UNCHANGED <<poolVars, timedQueue, deadline, stale, held, sched, dtor, clock>>

TimerSpurious ==
    /\ timer \in {"waiting", "waitingUntil"}
    /\ NotifyTimer
    /\ UNCHANGED <<poolVars, timedQueue, deadline, stale, held, sched, dtor, clock>>

(***************************************************************************)
(* wait_until computes its status after it has reacquired the mutex, by    *)
(* comparing the clock with the time point it was given; if that has been  *)
(* overwritten or freed meanwhile, the comparison may go either way.       *)
(***************************************************************************)
TimedOut == timer = "wokenUntil" /\ (clock >= deadline \/ stale)
NotTimedOut == \/ timer = "woken"
               \/ timer = "wokenUntil" /\ (clock < deadline \/ stale)

TimerRetry ==
    /\ NotTimedOut
    /\ ~exiting
    /\ timer' = "ready"
    /\ UNCHANGED <<poolVars, timedQueue, deadline, stale, held, sched, dtor, clock>>

\* pop() after top().
PopTimedForgotten(e) == UNCHANGED timedQueue
PopTimed(e) == timedQueue' = timedQueue \ {e}

TimerPop ==
    /\ TimedOut
    /\ ~exiting
    /\ \E e \in Tops : held' = e.closure /\ PopTimed(e)
    /\ timer' = "adding"
    /\ UNCHANGED <<poolVars, deadline, stale, sched, dtor, clock>>

\* The timer thread calls add() with the mutex released.
TimerAdd ==
    /\ timer = "adding"
    /\ Enqueue(held)
    /\ held' = NoClosure
    /\ timer' = "ready"
    /\ UNCHANGED <<exiting, job, started, timedQueue, deadline, stale, sched, dtor, clock>>

-----------------------------------------------------------------------------
(***************************************************************************)
(* The destructor                                                          *)
(***************************************************************************)
DtorFlag ==
    /\ dtor = "alive"
    /\ dtor' = "flagged"
    /\ exiting' = TRUE
    /\ UNCHANGED <<queue, worker, job, submitted, started, timerVars, clock>>

DtorNotify ==
    /\ dtor = "flagged"
    /\ dtor' = "joining"
    /\ NotifyAllWorkers
    /\ NotifyTimer
    /\ UNCHANGED <<queue, exiting, job, submitted, started,
                   timedQueue, deadline, stale, held, sched, clock>>

\* Every thread has been joined.
Joined == (\A w \in Workers : worker[w] = "exited") /\ timer = "exited"

DtorJoin ==
    /\ dtor = "joining"
    /\ Joined
    /\ dtor' = "destroyed"
    /\ UNCHANGED <<poolVars, timerVars, clock>>

Tick ==
    /\ clock < MaxTime
    /\ clock' = clock + 1
    /\ UNCHANGED <<poolVars, timerVars, dtor>>

Terminated == dtor = "destroyed" /\ UNCHANGED vars

-----------------------------------------------------------------------------
WorkerStep(w) == WorkerWait(w) \/ WorkerExit(w) \/ WorkerRetry(w)
                 \/ WorkerTake(w) \/ WorkerDone(w)

TimerStep == TimerExit \/ TimerWait \/ TimerExpire \/ TimerRetry
             \/ TimerPop \/ TimerAdd

DtorStep == DtorNotify \/ DtorJoin

Next ==
    \/ \E c \in Closures : Add(c)
    \/ \E c \in Closures, t \in Times : AddAt(c, t)
    \/ \E c \in Closures, d \in Times : AddAfter(c, d)
    \/ \E w \in Workers : WorkerStep(w)
    \/ \E w \in Workers : WorkerSpurious(w)
    \/ TimerStep
    \/ TimerSpurious
    \/ DtorFlag
    \/ DtorStep
    \/ Tick
    \/ Terminated

(***************************************************************************)
(* Every thread is scheduled, closures return, time passes, and a          *)
(* destructor that has begun continues.  Clients need not do anything.     *)
(***************************************************************************)
Fairness ==
    /\ \A w \in Workers : WF_vars(WorkerStep(w))
    /\ WF_vars(TimerStep)
    /\ WF_vars(DtorStep)
    /\ WF_vars(Tick)

Spec == Init /\ [][Next]_vars
FairSpec == Spec /\ Fairness

-----------------------------------------------------------------------------
(***************************************************************************)
(* What add() enqueued is, in this order, what workers have taken followed *)
(* by what is still queued: the pool starts closures first in, first out,  *)
(* and loses and repeats none, whichever worker wakes for which of them.   *)
(***************************************************************************)
FirstInFirstOut == submitted = started \o queue

(***************************************************************************)
(* A scheduled closure is in exactly one place: the timed queue, the timer *)
(* thread's hands between its two critical sections, or, once, among the   *)
(* closures that were enqueued.                                            *)
(***************************************************************************)
ScheduledOnce ==
    \A c \in Closures :
        LET timed == {e \in timedQueue : e.closure = c}
            added == {i \in 1 .. Len(submitted) : submitted[i] = c}
        IN  sched[c] # -1 =>
                Cardinality(timed) + Cardinality(added)
                    + (IF held = c THEN 1 ELSE 0) = 1

(***************************************************************************)
(* "thread_pool will run closures on the next available thread"            *)
(* (executor_tests.cpp:78): while some worker sleeps in wait(), each       *)
(* queued job has a worker of its own that is awake and idle.              *)
(***************************************************************************)
Awake == {w \in Workers : worker[w] \in {"ready", "woken"}}
NextAvailableThread ==
    ~exiting /\ (\E w \in Workers : worker[w] = "waiting")
        => Len(queue) <= Cardinality(Awake)

\* No wakeup is lost: a queued closure is taken unless the pool is torn down.
QueuedIsStarted ==
    \A c \in Closures :
        (\E i \in 1 .. Len(queue) : queue[i] = c)
            ~> (exiting \/ \E i \in 1 .. Len(started) : started[i] = c)

(***************************************************************************)
(* The timer thread never sleeps past an add_at(): it is in the wait       *)
(* without a limit only while nothing is scheduled, and in the one with a  *)
(* limit only for the top the timed queue has now, through a reference     *)
(* that is still good.  (The top is the LATEST entry, executor.h:576: when *)
(* an earlier one is enqueued is not bounded, a client that keeps          *)
(* scheduling later closures holds it back.)                               *)
(***************************************************************************)
SleepsForTheTop ==
    ~exiting =>
        /\ timer = "waiting" => timedQueue = {}
        /\ timer = "waitingUntil" => ~stale /\ \E e \in Tops : deadline = e.time

\* The destructor returns: every sleeping thread is told to exit.
DestructorReturns == (dtor = "flagged") ~> (dtor = "destroyed")

-----------------------------------------------------------------------------
(***************************************************************************)
(* "scheduled_executor should only enqueue closures after a given          *)
(* duration" (executor_tests.cpp:161).                                     *)
(***************************************************************************)
NotEnqueuedEarly ==
    \A i \in 1 .. Len(submitted) : sched[submitted[i]] <= clock
=============================================================================
