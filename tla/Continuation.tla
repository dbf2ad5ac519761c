---------------------------- MODULE Continuation ----------------------------
(***************************************************************************)
(* future::then (ePub3/utilities/future.h): a continuation is attached to  *)
(* a parent state by one thread while another one makes the parent ready.  *)
(*                                                                         *)
(* Whoever finds both the value and the continuation launches it, inside   *)
(* do_continuation: it gives up the parent's __mutex_, launches, takes the *)
(* mutex again and drops __continuation_ptr_, perhaps the last reference.  *)
(* The mutex of the parent is modelled by its owner, the one of the        *)
(* continuation's own state by atomic actions.  The continuation calls     *)
(* get() on its parent, as the SDK's does (content_module_manager.cpp).    *)
(* The parent lives as long as its promise or its future: then() moves the *)
(* future into the continuation, which drops it when it returns.           *)
(***************************************************************************)
EXTENDS Naturals

CONSTANTS
    Setter,      \* the thread that makes the parent ready
    Caller,      \* the thread that calls then()
    Worker,      \* the thread, or the executor's job, of the continuation
    Nobody,
    Kinds,       \* which continuation states are created
    MayAbandon   \* whether the caller may drop the new future unread

ASSUME ContinuationAssumption ==
    /\ Kinds \subseteq {"async", "executor", "deferred"}
    /\ MayAbandon \in BOOLEAN
    /\ Setter # Caller /\ Setter # Worker /\ Caller # Worker
    /\ Nobody \notin {Setter, Caller, Worker}

VARIABLES
    kind,       \* which shared state then() creates
    owner,      \* who holds the parent's __mutex_
    done,       \* __done_ of the parent
    attached,   \* the parent's __continuation_ptr_ is not null
    held,       \* the caller holds the future then() returned
    thread,     \* __thr_ has been assigned
    deferred,   \* __is_deferred_ of the continuation's state
    finished,   \* __done_ of the continuation's state
    pc,         \* where each thread is
    runs        \* history: how often the continuation was called

vars == <<kind, owner, done, attached, held, thread, deferred, finished, pc, runs>>

Launchers == {Setter, Caller}

TypeOK ==
    /\ kind \in {"async", "executor", "deferred"}
    /\ owner \in {Setter, Caller, Nobody}
    /\ owner # Nobody => pc[owner] \in {"joining", "execute", "inside"}
    /\ done \in BOOLEAN /\ attached \in BOOLEAN /\ held \in BOOLEAN
    /\ thread \in BOOLEAN /\ deferred \in BOOLEAN /\ finished \in BOOLEAN
    /\ pc[Setter] \in {"idle", "spawned", "relock", "joining", "execute", "inside", "returned", "gone"}
    /\ pc[Caller] \in {"idle", "spawned", "relock", "joining", "execute", "inside", "returned",
                       "waiting", "got", "dropping", "dropped", "lost"}
    /\ pc[Worker] \in {"none", "started", "inside", "returned", "marked", "ended"}
    /\ runs \in 0 .. 2

\* A promise's future, or one of make_ready_future, which has no promise.
Init ==
    /\ kind \in Kinds
    /\ owner = Nobody
    /\ done \in BOOLEAN
    /\ attached = FALSE
    /\ held = FALSE
    /\ thread = FALSE
    /\ deferred = (kind = "deferred")
    /\ finished = FALSE
    /\ pc = [t \in {Setter, Caller, Worker} |->
               IF t = Worker THEN "none" ELSE IF t = Setter /\ done THEN "gone" ELSE "idle"]
    /\ runs = 0

Goto(t, where) == pc' = [pc EXCEPT ![t] = where]

(***************************************************************************)
(* The references to the parent's state: the promise's, and the future's   *)
(* until the continuation has returned.  The parent's destructor releases  *)
(* what __continuation_ptr_ still holds.                                   *)
(***************************************************************************)
FutureIsGone == pc[Worker] \in {"returned", "marked", "ended"}
ParentIsGone == pc[Setter] = "gone" /\ FutureIsGone

-----------------------------------------------------------------------------
(***************************************************************************)
(* do_continuation(), entered with the parent's mutex held.                *)
(***************************************************************************)
\* launch_continuation(): unlock and start a thread, or give the executor a
\* job, or execute() in place with the mutex held.
Launch(a) ==
    IF kind = "deferred"
    THEN owner' = a /\ Goto(a, "execute")
    ELSE owner' = Nobody /\ pc' = [pc EXCEPT ![a] = "spawned", ![Worker] = "started"]

Unlaunched(a) == owner' = Nobody /\ Goto(a, "returned")

\* promise::set_value: mark_finished_internal
SetValue ==
    /\ pc[Setter] = "idle"
    /\ owner = Nobody
    /\ done' = TRUE
    /\ IF attached THEN Launch(Setter) ELSE Unlaunched(Setter)
    /\ UNCHANGED <<kind, attached, held, thread, deferred, finished, runs>>

\* ~promise, after the value has been set
DropPromise ==
    /\ pc[Setter] = "returned"
    /\ Goto(Setter, "gone")
    /\ attached' = (attached /\ ~FutureIsGone)
    /\ UNCHANGED <<kind, owner, done, held, thread, deferred, finished, runs>>

\* future::then: set_continuation_ptr
LaunchesNever == FALSE
LaunchesAlways == TRUE
LaunchesAtOnce == done
Then ==
    /\ pc[Caller] = "idle"
    /\ owner = Nobody
    /\ attached' = TRUE
    /\ held' = TRUE
    /\ IF LaunchesAtOnce THEN Launch(Caller) ELSE Unlaunched(Caller)
    /\ UNCHANGED <<kind, done, thread, deferred, finished, runs>>

\* __thr_ = std::thread(...)
Assign(a) ==
    /\ pc[a] = "spawned"
    /\ thread' = (kind = "async")
    /\ Goto(a, "relock")
    /\ UNCHANGED <<kind, owner, done, attached, held, deferred, finished, runs>>

(***************************************************************************)
(* The references to the continuation's state: __continuation_ptr_, the    *)
(* caller's future, the self captured by the executor's job.  The one who  *)
(* drops the last reference runs the destructor, which joins the thread.   *)
(***************************************************************************)
JobHolds == kind = "executor" /\ pc[Worker] \notin {"none", "ended"}
Unjoined == FALSE
MustJoin == kind = "async" /\ thread /\ pc[Worker] # "ended"

\* if (!__lk.owns_lock()) __lk.lock(); __continuation_ptr_.reset()
Relock(a) ==
    /\ pc[a] = "relock"
    /\ ~ParentIsGone
    /\ owner = Nobody
    /\ attached' = FALSE
    /\ IF ~held /\ ~JobHolds /\ MustJoin
       THEN owner' = a /\ Goto(a, "joining")
       ELSE UNCHANGED owner /\ Goto(a, "returned")
    /\ UNCHANGED <<kind, done, held, thread, deferred, finished, runs>>

\* The same in then() with the parent destroyed, its mutex and its pointer with
\* it: the call crashes or waits for ever, or finds the memory as it was and
\* goes on.  (In set_value() the promise keeps the parent.)
RelockFreed ==
    /\ pc[Caller] = "relock"
    /\ ParentIsGone
    /\ \E outcome \in {"lost", "returned"} : Goto(Caller, outcome)
    /\ UNCHANGED <<kind, owner, done, attached, held, thread, deferred, finished, runs>>

\* The thread has ended; the destructor returns and the mutex is released.
Joined(a) ==
    /\ pc[a] = "joining"
    /\ pc[Worker] = "ended"
    /\ owner' = Nobody
    /\ Goto(a, "returned")
    /\ UNCHANGED <<kind, done, attached, held, thread, deferred, finished, runs>>

-----------------------------------------------------------------------------
(***************************************************************************)
(* run(), or the executor's job: the continuation calls get() on its       *)
(* parent, which takes the parent's mutex.                                 *)
(***************************************************************************)
WorkerCall ==
    /\ pc[Worker] = "started"
    /\ runs' = runs + 1
    /\ Goto(Worker, "inside")
    /\ UNCHANGED <<kind, owner, done, attached, held, thread, deferred, finished>>

WorkerGet ==
    /\ pc[Worker] = "inside"
    /\ owner = Nobody /\ done
    /\ Goto(Worker, "returned")
    /\ attached' = (attached /\ pc[Setter] # "gone")
    /\ UNCHANGED <<kind, owner, done, held, thread, deferred, finished, runs>>

\* mark_finished_with_result, which the caller's get() waits for
WorkerMark ==
    /\ pc[Worker] = "returned"
    /\ finished' = TRUE
    /\ Goto(Worker, "marked")
    /\ UNCHANGED <<kind, owner, done, attached, held, thread, deferred, runs>>

WorkerEnd ==
    /\ pc[Worker] = "marked"
    /\ Goto(Worker, "ended")
    /\ UNCHANGED <<kind, owner, done, attached, held, thread, deferred, finished, runs>>

-----------------------------------------------------------------------------
(***************************************************************************)
(* execute() of a deferred continuation, by the thread that launches it or *)
(* by the caller's get().  The parent's __continuation_ptr_ is reset       *)
(* without the parent's mutex when the caller does it.                     *)
(***************************************************************************)
Execute(a) ==
    /\ pc[a] = "execute"
    /\ attached' = FALSE
    /\ runs' = runs + 1
    /\ Goto(a, "inside")
    /\ UNCHANGED <<kind, owner, done, held, thread, deferred, finished>>

\* The parent's get() returns; nobody but the caller's get() gets this far.
ExecuteReturn(a) ==
    /\ pc[a] = "inside"
    /\ owner = Nobody /\ done
    /\ finished' = TRUE
    /\ Goto(a, "got")
    /\ UNCHANGED <<kind, owner, done, attached, held, thread, deferred, runs>>

-----------------------------------------------------------------------------
(***************************************************************************)
(* The caller, after then(): get(), which joins a thread it can see, waits *)
(* and returns; or it drops the future.                                    *)
(***************************************************************************)
GetDeferred ==
    /\ pc[Caller] = "returned"
    /\ deferred
    /\ deferred' = FALSE
    /\ Goto(Caller, "execute")
    /\ UNCHANGED <<kind, owner, done, attached, held, thread, finished, runs>>

GetJoin ==
    /\ pc[Caller] = "returned"
    /\ ~deferred
    /\ ~MustJoin
    /\ Goto(Caller, "waiting")
    /\ UNCHANGED <<kind, owner, done, attached, held, thread, deferred, finished, runs>>

GetReturn ==
    /\ pc[Caller] = "waiting"
    /\ finished
    /\ Goto(Caller, "got")
    /\ UNCHANGED <<kind, owner, done, attached, held, thread, deferred, finished, runs>>

\* ~future: the last reference joins.
Drop ==
    /\ pc[Caller] = "got" \/ (MayAbandon /\ pc[Caller] = "returned")
    /\ held' = FALSE
    /\ Goto(Caller, IF ~attached /\ ~JobHolds /\ MustJoin THEN "dropping" ELSE "dropped")
    /\ UNCHANGED <<kind, owner, done, attached, thread, deferred, finished, runs>>

DropJoined ==
    /\ pc[Caller] = "dropping"
    /\ pc[Worker] = "ended"
    /\ Goto(Caller, "dropped")
    /\ UNCHANGED <<kind, owner, done, attached, held, thread, deferred, finished, runs>>

AllDone == /\ pc[Setter] = "gone" /\ pc[Caller] = "dropped"
           /\ UNCHANGED vars

-----------------------------------------------------------------------------
LaunchStep(a) == Assign(a) \/ Relock(a) \/ Joined(a) \/ Execute(a)
CallerStep == LaunchStep(Caller) \/ RelockFreed \/ ExecuteReturn(Caller) \/ GetDeferred \/ GetJoin \/ GetReturn
              \/ Drop \/ DropJoined
WorkerStep == WorkerCall \/ WorkerGet \/ WorkerMark \/ WorkerEnd

Next ==
    \/ SetValue \/ DropPromise \/ Then
    \/ LaunchStep(Setter)
    \/ CallerStep
    \/ WorkerStep
    \/ AllDone

(***************************************************************************)
(* The three threads are scheduled and mutexes are fair; the setter does   *)
(* set the value, the caller does call then() and get().                   *)
(***************************************************************************)
Fairness ==
    /\ WF_vars(SetValue) /\ WF_vars(Then)
    /\ SF_vars(LaunchStep(Setter)) /\ SF_vars(CallerStep) /\ SF_vars(WorkerStep)

Spec == Init /\ [][Next]_vars
FairSpec == Spec /\ Fairness

-----------------------------------------------------------------------------
(***************************************************************************)
(* The continuation is called once, whichever of then() and set_value()    *)
(* comes first and however they overlap.  A deferred one is called twice   *)
(* when get() and set_value() overlap: execute() resets the parent's       *)
(* __continuation_ptr_ without the parent's mutex.                         *)
(***************************************************************************)
CalledOnce == kind # "deferred" => runs <= 1

(***************************************************************************)
(* The continuation's state is not destroyed under its thread: the last    *)
(* reference goes only when the thread has ended or is being joined.       *)
(***************************************************************************)
NotDestroyedUnderThread ==
    (kind = "async" /\ ~held /\ ~attached /\ pc[Worker] \notin {"none", "ended"})
        => \/ \E a \in Launchers : pc[a] = "joining"
           \/ pc[Caller] = "dropping"

(***************************************************************************)
(* Both calls return and the future then() returned is fulfilled, but for  *)
(* three ways in which the code does not get there: a launcher runs a      *)
(* deferred continuation with the mutex held that its get() asks for; a    *)
(* launcher drops the last reference to an abandoned continuation with the *)
(* mutex held and joins the thread that waits for it; then() on a ready    *)
(* future whose promise is gone comes back to a parent that the            *)
(* continuation, which is faster, has destroyed (future.h:771).            *)
(***************************************************************************)
Fulfilled == pc[Setter] \in {"returned", "gone"} /\ pc[Caller] = "dropped" /\ finished
RunsUnderLock == \E a \in Launchers : owner = a /\ pc[a] = "inside"
JoinsUnderLock == \E a \in Launchers : owner = a /\ pc[a] = "joining" /\ ~FutureIsGone
BothReturn == <>(Fulfilled \/ RunsUnderLock \/ JoinsUnderLock \/ pc[Caller] = "lost")

=============================================================================
