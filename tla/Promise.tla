------------------------------ MODULE Promise -------------------------------
(***************************************************************************)
(* promise, future and the shared state between them                       *)
(* (ePub3/utilities/future.h: promise, __shared_state_base, future::get,   *)
(* wait, wait_until), for the shared_future case of several waiters.       *)
(*                                                                         *)
(* The promise creates its shared state lazily, by a load and a compare-   *)
(* and-exchange.  A state is named after the thread that allocated it.  A  *)
(* critical section of a state's __mutex_ is one action.  No wait callback *)
(* is installed (nothing in the SDK calls set_wait_callback).              *)
(***************************************************************************)
EXTENDS Naturals, FiniteSets

CONSTANTS
    Setters,    \* threads that each fulfil the promise once
    Getter,     \* the thread that calls get_future()
    Waiters,    \* threads that hold a copy of the shared_future
    Ops,        \* what setters may do
    Nothing     \* no state, no result, no exception

AllOps == {"set_value", "set_exception", "set_value_at_thread_exit"}
ASSUME OpsAssumption == Ops \subseteq AllOps
ASSUME ThreadsAssumption == /\ Getter \notin Setters
                            /\ Nothing \notin Setters \cup {Getter, "broken", "ready", "timeout"}
                            /\ "broken" \notin Setters

Threads == Setters \cup {Getter}

VARIABLES
    shared,       \* promise::__future_
    obtained,     \* promise::__future_obtained_
    promise,      \* the promise's lifetime
    pc,           \* where each thread is in its call on the promise
    op,           \* which call that is
    done,         \* __done_ of each state
    exc,          \* __exc_: who set it, or "broken"
    result,       \* __result_: who set it
    constructed,  \* __is_constructed_
    future,       \* the state the future refers to
    waiter,       \* where each waiter is
    timed,        \* whether it waits in wait_until
    outcome       \* what it was given: a result, an exception, a status

stateVars   == <<done, exc, result, constructed>>
promiseVars == <<shared, obtained, promise, pc, op, future>>
waiterVars  == <<waiter, timed, outcome>>
vars == <<stateVars, promiseVars, waiterVars>>

TypeOK ==
    /\ shared \in Threads \cup {Nothing}
    /\ obtained \in BOOLEAN
    /\ promise \in {"alive", "destroyed"}
    /\ pc \in [Threads -> {"idle", "absent", "ready", "exiting", "returned", "threw"}]
    /\ op \in [Threads -> Ops \cup {"get_future", Nothing}]
    /\ done \in [Threads -> BOOLEAN]
    /\ exc \in [Threads -> Setters \cup {"broken", Nothing}]
    /\ result \in [Threads -> Setters \cup {Nothing}]
    /\ constructed \in [Threads -> BOOLEAN]
    /\ future \in Threads \cup {Nothing}
    /\ waiter \in [Waiters -> {"idle", "waiting", "woken", "expired", "returned"}]
    /\ timed \in [Waiters -> BOOLEAN]
    /\ outcome \in [Waiters -> Setters \cup {"broken", "ready", "timeout", Nothing}]
    /\ \A w \in Waiters : outcome[w] # Nothing <=> waiter[w] = "returned"

Init ==
    /\ shared = Nothing
    /\ obtained = FALSE
    /\ promise = "alive"
    /\ pc = [t \in Threads |-> "idle"]
    /\ op = [t \in Threads |-> Nothing]
    /\ done = [t \in Threads |-> FALSE]
    /\ exc = [t \in Threads |-> Nothing]
    /\ result = [t \in Threads |-> Nothing]
    /\ constructed = [t \in Threads |-> FALSE]
    /\ future = Nothing
    /\ waiter = [w \in Waiters |-> "idle"]
    /\ timed = [w \in Waiters |-> FALSE]
    /\ outcome = [w \in Waiters |-> Nothing]

Goto(t, where) == pc' = [pc EXCEPT ![t] = where]

-----------------------------------------------------------------------------
(***************************************************************************)
(* lazy_init(): a load, and a compare-and-exchange if it found nothing.    *)
(* set_value_at_thread_exit() does not call it.                            *)
(***************************************************************************)
CallOps(t) == IF t = Getter THEN {"get_future"} ELSE Ops

LoadShared(t, o) ==
    /\ promise = "alive"
    /\ pc[t] = "idle"
    /\ o \in CallOps(t)
    /\ op' = [op EXCEPT ![t] = o]
    /\ Goto(t, IF shared = Nothing /\ o # "set_value_at_thread_exit"
               THEN "absent" ELSE "ready")
    /\ UNCHANGED <<shared, obtained, promise, future, stateVars, waiterVars>>

ExchangeBlindly(t) == t
Exchange(t) == IF shared = Nothing THEN t ELSE shared

CreateShared(t) ==
    /\ pc[t] = "absent"
    /\ shared' = Exchange(t)
    /\ Goto(t, "ready")
    /\ UNCHANGED <<obtained, promise, op, future, stateVars, waiterVars>>

\* get_future()
GetFuture ==
    /\ pc[Getter] = "ready"
    /\ obtained' = TRUE
    /\ future' = IF obtained THEN future ELSE shared
    /\ Goto(Getter, IF obtained THEN "threw" ELSE "returned")
    /\ UNCHANGED <<shared, promise, op, stateVars, waiterVars>>

-----------------------------------------------------------------------------
(***************************************************************************)
(* mark_finished_internal(): __done_ and the notification of the waiters.  *)
(***************************************************************************)
WakeNone(s) == UNCHANGED waiter
WakeAll(s) ==
    waiter' = [w \in Waiters |->
                  IF waiter[w] = "waiting" /\ future = s THEN "woken" ELSE waiter[w]]
MarkFinished(s) == done' = [done EXCEPT ![s] = TRUE] /\ WakeAll(s)

\* if (__future_->__done_) throw promise_already_satisfied()
AlreadySatisfied == done[shared]

SetterThrows(t) ==
    /\ pc[t] = "ready"
    /\ op[t] \in {"set_value", "set_exception"}
    /\ AlreadySatisfied
    /\ Goto(t, "threw")
    /\ UNCHANGED <<shared, obtained, promise, op, future, stateVars, waiterVars>>

SetValue(t) ==
    /\ pc[t] = "ready" /\ op[t] = "set_value"
    /\ ~AlreadySatisfied
    /\ result' = [result EXCEPT ![shared] = t]
    /\ MarkFinished(shared)
    /\ Goto(t, "returned")
    /\ UNCHANGED <<shared, obtained, promise, op, future, exc, constructed, timed, outcome>>

SetException(t) ==
    /\ pc[t] = "ready" /\ op[t] = "set_exception"
    /\ ~AlreadySatisfied
    /\ exc' = [exc EXCEPT ![shared] = t]
    /\ MarkFinished(shared)
    /\ Goto(t, "returned")
    /\ UNCHANGED <<shared, obtained, promise, op, future, result, constructed, timed, outcome>>

\* set_value_at_thread_exit(): the result is stored, the state is put on the
\* thread's __at_thread_exit() list.  It throws when there is no state
\* (promise_moved) or the state has a value.
SetAtExit(t) ==
    /\ pc[t] = "ready" /\ op[t] = "set_value_at_thread_exit"
    /\ IF shared = Nothing \/ (shared # Nothing /\ done[shared] /\ exc[shared] = Nothing)
       THEN Goto(t, "threw") /\ UNCHANGED <<result, constructed>>
       ELSE /\ result' = [result EXCEPT ![shared] = t]
            /\ constructed' = [constructed EXCEPT ![shared] = TRUE]
            /\ Goto(t, "exiting")
    /\ UNCHANGED <<shared, obtained, promise, op, future, done, exc, waiterVars>>

\* The thread exits: its list is deleted, nothing is made ready.
ThreadExit(t) ==
    /\ pc[t] = "exiting"
    /\ Goto(t, "returned")
    /\ UNCHANGED <<shared, obtained, promise, op, future, stateVars, waiterVars>>

(***************************************************************************)
(* ~promise(), when no call on the promise is in progress.                 *)
(***************************************************************************)
LeftUnfulfilledIgnored == FALSE
LeftUnfulfilled == shared # Nothing /\ ~done[shared] /\ ~constructed[shared]

DestroyPromise ==
    /\ promise = "alive"
    /\ \A t \in Threads : pc[t] \in {"idle", "returned", "threw"}
    /\ promise' = "destroyed"
    /\ IF LeftUnfulfilled
       THEN exc' = [exc EXCEPT ![shared] = "broken"] /\ MarkFinished(shared)
       ELSE UNCHANGED <<exc, done, waiter>>
    /\ UNCHANGED <<shared, obtained, pc, op, future, result, constructed, timed, outcome>>

-----------------------------------------------------------------------------
(***************************************************************************)
(* wait() and get() of a shared_future (untimed), wait_until() (timed).    *)
(***************************************************************************)
\* What a waiter that finds __done_ set is given.
Given(w) == IF timed'[w] THEN "ready"
            ELSE IF exc[future] # Nothing THEN exc[future] ELSE result[future]

\* The test of the wait loop, with __mutex_ held.
TestDone(w) ==
    IF done[future]
    THEN /\ waiter' = [waiter EXCEPT ![w] = "returned"]
         /\ outcome' = [outcome EXCEPT ![w] = Given(w)]
    ELSE /\ waiter' = [waiter EXCEPT ![w] = "waiting"]
         /\ UNCHANGED outcome

WaitBegin(w, t) ==
    /\ waiter[w] = "idle"
    /\ future # Nothing
    /\ timed' = [timed EXCEPT ![w] = t]
    /\ TestDone(w)
    /\ UNCHANGED <<stateVars, promiseVars>>

WaitResume(w) ==
    /\ waiter[w] = "woken"
    /\ UNCHANGED timed
    /\ TestDone(w)
    /\ UNCHANGED <<stateVars, promiseVars>>

WaitSpurious(w) ==
    /\ waiter[w] = "waiting"
    /\ waiter' = [waiter EXCEPT ![w] = "woken"]
    /\ UNCHANGED <<timed, outcome, stateVars, promiseVars>>

\* The deadline passes; the mutex has to be reacquired before it shows.
WaitExpire(w) ==
    /\ timed[w] /\ waiter[w] = "waiting"
    /\ waiter' = [waiter EXCEPT ![w] = "expired"]
    /\ UNCHANGED <<timed, outcome, stateVars, promiseVars>>

\* if (st == timeout && !__done_) return timeout
LateStatus == IF done[future] THEN "ready" ELSE "timeout"
WaitTimeout(w) ==
    /\ waiter[w] = "expired"
    /\ waiter' = [waiter EXCEPT ![w] = "returned"]
    /\ outcome' = [outcome EXCEPT ![w] = LateStatus]
    /\ UNCHANGED <<timed, stateVars, promiseVars>>

Finished == /\ promise = "destroyed"
            /\ UNCHANGED vars

-----------------------------------------------------------------------------
SetterStep(t) == CreateShared(t) \/ SetterThrows(t) \/ SetValue(t) \/ SetException(t)
                 \/ SetAtExit(t) \/ ThreadExit(t)

Next ==
    \/ \E t \in Threads : \E o \in CallOps(t) : LoadShared(t, o)
    \/ \E t \in Threads : SetterStep(t)
    \/ GetFuture
    \/ DestroyPromise
    \/ \E w \in Waiters, t \in BOOLEAN : WaitBegin(w, t)
    \/ \E w \in Waiters : WaitResume(w) \/ WaitSpurious(w) \/ WaitExpire(w) \/ WaitTimeout(w)
    \/ Finished

\* Calls that have begun go on; woken waiters are scheduled.
Fairness ==
    /\ \A t \in Threads : WF_vars(SetterStep(t))
    /\ WF_vars(GetFuture)
    /\ \A w \in Waiters : WF_vars(WaitResume(w) \/ WaitTimeout(w))

Spec == Init /\ [][Next]_vars
FairSpec == Spec /\ Fairness

-----------------------------------------------------------------------------
\* Nobody sleeps on a state that is ready: no notification is lost.
NobodySleepsOnReady == \A w \in Waiters : waiter[w] = "waiting" => ~done[future]

(***************************************************************************)
(* "an unfulfilled promise will set an exceptional value at destruction    *)
(* time" (future_tests.cpp:145): the future of a destroyed promise is      *)
(* ready, and is the one the promise's calls acted on.  A value stored for *)
(* thread exit is the exception: its list is deleted at the exit, nothing  *)
(* is made ready.                                                          *)
(***************************************************************************)
DestroyedMeansReady ==
    promise = "destroyed" /\ future # Nothing => done[future] \/ constructed[future]

\* Every waiter of a destroyed promise is released, with the same exception.
WaitersAreReleased ==
    \A w \in Waiters :
        (promise = "destroyed" /\ waiter[w] # "idle" /\ ~constructed[future])
            ~> (waiter[w] = "returned")
=============================================================================
