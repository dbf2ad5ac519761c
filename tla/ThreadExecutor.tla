--------------------------- MODULE ThreadExecutor ---------------------------
(***************************************************************************)
(* thread_executor of ePub3/utilities/executor.h: a detached thread for    *)
(* each closure, and a destructor that waits for a counter of running ones.*)
(*                                                                         *)
(* A critical section of __lock_ is one action; the counters are atomics   *)
(* that are changed outside it, each change in an action of its own.  The  *)
(* model ends where the destructor returns: a thread that is still in      *)
(* __run_closure_thread then works on a destroyed object.                  *)
(***************************************************************************)
EXTENDS Integers, FiniteSets

CONSTANTS
    Closures,   \* closures, the calls of add() that submit them, their threads
    Client      \* a caller of add() outside the executor

ASSUME ClosuresAssumption == IsFiniteSet(Closures) /\ Client \notin Closures

VARIABLES
    pending,    \* __pending_count_
    running,    \* __running_count_
    destruct,   \* __destruct_
    call,       \* where each call of add() is
    caller,     \* who makes it: a client, or a closure that is running
    thread,     \* where each closure's thread is in __run_closure_thread
    ran,        \* history: the closures that have run to their end
    dtor        \* where the destructor is

vars == <<pending, running, destruct, call, caller, thread, ran, dtor>>

TypeOK ==
    /\ pending \in Nat
    /\ running \in Nat
    /\ destruct \in BOOLEAN
    /\ call \in [Closures -> {"none", "checked", "counted", "returned"}]
    /\ caller \in [Closures -> Closures \cup {Client}]
    /\ thread \in [Closures -> {"none", "spawned", "admitted", "entered", "running",
                                "returned", "leaving", "done"}]
    /\ ran \subseteq Closures
    /\ dtor \in {"alive", "flagged", "waiting", "woken", "destroyed"}

\* The constructor does not initialise __destruct_: it may hold either value.
Init ==
    /\ pending = 0
    /\ running = 0
    /\ destruct \in BOOLEAN
    /\ call = [c \in Closures |-> "none"]
    /\ caller = [c \in Closures |-> Client]
    /\ thread = [c \in Closures |-> "none"]
    /\ ran = {}
    /\ dtor = "alive"

Alive == dtor # "destroyed"

-----------------------------------------------------------------------------
(***************************************************************************)
(* add()                                                                   *)
(***************************************************************************)
InCall(c) == call[c] \in {"checked", "counted"}

\* A closure makes one call at a time; clients call a live executor.
MayCall(who) ==
    \/ who = Client /\ dtor = "alive"
    \/ /\ who \in Closures
       /\ thread[who] = "running"
       /\ \A c \in Closures : InCall(c) => caller[c] # who

AddCheck(c, who) ==
    /\ Alive
    /\ call[c] = "none"
    /\ MayCall(who)
    /\ call' = [call EXCEPT ![c] = IF destruct THEN "returned" ELSE "checked"]
    /\ caller' = [caller EXCEPT ![c] = who]
    /\ UNCHANGED <<pending, running, destruct, thread, ran, dtor>>

\* __pending_count_++
AddCount(c) ==
    /\ Alive
    /\ call[c] = "checked"
    /\ pending' = pending + 1
    /\ call' = [call EXCEPT ![c] = "counted"]
    /\ UNCHANGED <<running, destruct, caller, thread, ran, dtor>>

\* Under __lock_ the thread is created and detached.
AddSpawn(c) ==
    /\ Alive
    /\ call[c] = "counted"
    /\ thread' = [thread EXCEPT ![c] = "spawned"]
    /\ call' = [call EXCEPT ![c] = "returned"]
    /\ UNCHANGED <<pending, running, destruct, caller, ran, dtor>>

-----------------------------------------------------------------------------
(***************************************************************************)
(* __run_closure_thread                                                    *)
(***************************************************************************)
\* if (__running_count_ == 0) __cleanup_cv_.notify_all(), under __lock_
NotifyNever == UNCHANGED dtor
Notify == dtor' = IF running = 0 /\ dtor = "waiting" THEN "woken" ELSE dtor

\* if (!__destruct_)
TurnedAwayInverted == ~destruct
TurnedAway == destruct

ThreadAdmit(c) ==
    /\ Alive
    /\ thread[c] = "spawned"
    /\ ~TurnedAway
    /\ thread' = [thread EXCEPT ![c] = "admitted"]
    /\ UNCHANGED <<pending, running, destruct, call, caller, ran, dtor>>

\* The executor is going away: the closure is dropped.
ThreadRefuse(c) ==
    /\ Alive
    /\ thread[c] = "spawned"
    /\ TurnedAway
    /\ thread' = [thread EXCEPT ![c] = "done"]
    /\ Notify
    /\ UNCHANGED <<pending, running, destruct, call, caller, ran>>

\* __running_count_++, with __lock_ released
ThreadEnter(c) ==
    /\ Alive
    /\ thread[c] = "admitted"
    /\ running' = running + 1
    /\ thread' = [thread EXCEPT ![c] = "entered"]
    /\ UNCHANGED <<pending, destruct, call, caller, ran, dtor>>

\* __pending_count_--
OnePendingLess == pending - 1

ThreadRun(c) ==
    /\ Alive
    /\ thread[c] = "entered"
    /\ pending' = OnePendingLess
    /\ thread' = [thread EXCEPT ![c] = "running"]
    /\ UNCHANGED <<running, destruct, call, caller, ran, dtor>>

\* The closure returns, once a call it made has returned.
ThreadReturn(c) ==
    /\ Alive
    /\ thread[c] = "running"
    /\ \A d \in Closures : InCall(d) => caller[d] # c
    /\ ran' = ran \cup {c}
    /\ thread' = [thread EXCEPT ![c] = "returned"]
    /\ UNCHANGED <<pending, running, destruct, call, caller, dtor>>

\* __running_count_--, still without __lock_
ThreadLeave(c) ==
    /\ Alive
    /\ thread[c] = "returned"
    /\ running' = running - 1
    /\ thread' = [thread EXCEPT ![c] = "leaving"]
    /\ UNCHANGED <<pending, destruct, call, caller, ran, dtor>>

ThreadNotify(c) ==
    /\ Alive
    /\ thread[c] = "leaving"
    /\ thread' = [thread EXCEPT ![c] = "done"]
    /\ Notify
    /\ UNCHANGED <<pending, running, destruct, call, caller, ran>>

-----------------------------------------------------------------------------
(***************************************************************************)
(* The destructor.  No client is inside add() when it is called.           *)
(***************************************************************************)
DtorFlag ==
    /\ dtor = "alive"
    /\ \A c \in Closures : InCall(c) => caller[c] # Client
    /\ destruct' = TRUE
    /\ dtor' = "flagged"
    /\ UNCHANGED <<pending, running, call, caller, thread, ran>>

NoneRunning == running = 0

DtorWait ==
    /\ dtor \in {"flagged", "woken"}
    /\ ~NoneRunning
    /\ dtor' = "waiting"
    /\ UNCHANGED <<pending, running, destruct, call, caller, thread, ran>>

DtorSpurious ==
    /\ dtor = "waiting"
    /\ dtor' = "woken"
    /\ UNCHANGED <<pending, running, destruct, call, caller, thread, ran>>

DtorReturn ==
    /\ dtor \in {"flagged", "woken"}
    /\ NoneRunning
    /\ dtor' = "destroyed"
    /\ UNCHANGED <<pending, running, destruct, call, caller, thread, ran>>

Terminated == dtor = "destroyed" /\ UNCHANGED vars

-----------------------------------------------------------------------------
CallStep(c) == AddCount(c) \/ AddSpawn(c)

ThreadStep(c) == ThreadAdmit(c) \/ ThreadRefuse(c) \/ ThreadEnter(c) \/ ThreadRun(c)
                 \/ ThreadReturn(c) \/ ThreadLeave(c) \/ ThreadNotify(c)

DtorStep == DtorWait \/ DtorReturn

Next ==
    \/ \E c \in Closures, who \in Closures \cup {Client} : AddCheck(c, who)
    \/ \E c \in Closures : CallStep(c)
    \/ \E c \in Closures : ThreadStep(c)
    \/ DtorFlag
    \/ DtorStep
    \/ DtorSpurious
    \/ Terminated

(***************************************************************************)
(* Threads are scheduled, closures return, calls of add() and a destructor *)
(* that have begun continue.                                               *)
(***************************************************************************)
Fairness ==
    /\ \A c \in Closures : WF_vars(CallStep(c)) /\ WF_vars(ThreadStep(c))
    /\ WF_vars(DtorStep)

Spec == Init /\ [][Next]_vars
FairSpec == Spec /\ Fairness

-----------------------------------------------------------------------------
\* The destructor returns: the thread that brings the count to 0 wakes it.
DestructorReturns == (dtor = "flagged") ~> (dtor = "destroyed")

\* A closure that add() accepted runs, unless the executor is torn down.
AcceptedRuns == \A c \in Closures : (call[c] = "counted") ~> (c \in ran \/ destruct)

-----------------------------------------------------------------------------
(***************************************************************************)
(* "thread_executor should reap all in-flight threads in its destructor"   *)
(* (executor_tests.cpp:308).                                               *)
(***************************************************************************)
ReapsAllThreads ==
    dtor = "destroyed" =>
        \A c \in Closures : thread[c] \in {"none", "done"} /\ (thread[c] = "done" => c \in ran)
=============================================================================
