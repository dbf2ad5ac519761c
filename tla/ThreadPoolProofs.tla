--------------------------- MODULE ThreadPoolProofs ---------------------------
(***************************************************************************)
(* Proofs about ThreadPool, for any closures, any number of workers and    *)
(* any times: closures start first in, first out, as long as a worker      *)
(* sleeps every queued closure has a worker that is on its way, and a      *)
(* scheduled closure is in one place.                                      *)
(***************************************************************************)
EXTENDS ThreadPool, FiniteSetTheorems, TLAPS

WorkerStates == {"ready", "waiting", "woken", "running", "exited"}

\* The part of TypeOK that concerns the queues and the workers
PoolTypes ==
    /\ queue \in Seq(Closures)
    /\ submitted \in Seq(Closures)
    /\ started \in Seq(Closures)
    /\ worker \in [Workers -> WorkerStates]
    /\ timedQueue \subseteq TimedClosure
    /\ timer = "adding" => held \in Closures

\* The destructor sets _exiting before it does anything else.
FlagFirst == dtor # "alive" => exiting

IInv == PoolTypes /\ FlagFirst /\ FirstInFirstOut /\ NextAvailableThread

-----------------------------------------------------------------------------
\* The head of the queue moves to the end of what has been started.
LEMMA HeadStarted ==
    ASSUME NEW S, NEW a \in Seq(S), NEW q \in Seq(S), q # <<>>
    PROVE  /\ Head(q) \in S /\ Tail(q) \in Seq(S) /\ Len(Tail(q)) = Len(q) - 1
           /\ Append(a, Head(q)) \in Seq(S)
           /\ a \o q = Append(a, Head(q)) \o Tail(q)
  OBVIOUS

\* A closure is added at the end of the queue.
LEMMA LastAdded ==
    ASSUME NEW S, NEW a \in Seq(S), NEW q \in Seq(S), NEW c \in S
    PROVE  /\ Append(q, c) \in Seq(S) /\ Len(Append(q, c)) = Len(q) + 1
           /\ Append(a \o q, c) \in Seq(S)
           /\ Append(a \o q, c) = a \o Append(q, c)
  OBVIOUS

\* The workers that are awake can be counted.
LEMMA AwakeFinite ==
    IsFiniteSet(Awake) /\ Cardinality(Awake) \in Nat
<1>1. Awake \in SUBSET Workers
  BY DEF Awake
<1>2. IsFiniteSet(Awake)
  BY <1>1, WorkersAssumption, FS_Subset
<1> QED
  BY <1>2, FS_CardinalityType

\* A worker wakes.
LEMMA OneMore ==
    ASSUME PoolTypes, NEW w \in Workers, worker[w] \notin {"ready", "woken"},
           NEW s \in {"ready", "woken"}, worker' = [worker EXCEPT ![w] = s]
    PROVE  Cardinality(Awake') = Cardinality(Awake) + 1
<1>1. Awake' = Awake \cup {w} /\ w \notin Awake
  BY DEF Awake, PoolTypes
<1> QED
  BY <1>1, AwakeFinite, FS_AddElement

\* A worker takes a closure and is no longer available.
LEMMA OneLess ==
    ASSUME PoolTypes, NEW w \in Workers, worker[w] \in {"ready", "woken"},
           worker' = [worker EXCEPT ![w] = "running"]
    PROVE  Cardinality(Awake') = Cardinality(Awake) - 1
<1>1. Awake' = Awake \ {w} /\ w \in Awake
  BY DEF Awake, PoolTypes
<1> QED
  BY <1>1, AwakeFinite, FS_RemoveElement

\* The constructor
LEMMA InitIInv == Init => IInv
<1> SUFFICES ASSUME Init PROVE IInv
  OBVIOUS
<1>1. PoolTypes
  BY DEF Init, PoolTypes, WorkerStates
<1>2. FlagFirst /\ FirstInFirstOut
  BY DEF Init, FlagFirst, FirstInFirstOut
<1>3. NextAvailableThread
  BY DEF Init, NextAvailableThread
<1> QED
  BY <1>1, <1>2, <1>3 DEF IInv

-----------------------------------------------------------------------------
\* add(), by a client or by the timer thread: the notification reaches a
\* sleeping worker, if there is one.
LEMMA EnqueueKeeps ==
    ASSUME IInv, NEW c \in Closures, Enqueue(c), UNCHANGED <<started, exiting>>
    PROVE  /\ queue' \in Seq(Closures) /\ submitted' \in Seq(Closures)
           /\ worker' \in [Workers -> WorkerStates]
           /\ FirstInFirstOut' /\ NextAvailableThread'
<1>1. PoolTypes /\ FirstInFirstOut /\ NextAvailableThread
  BY DEF IInv
<1>2. queue' = Append(queue, c) /\ submitted' = Append(submitted, c) /\ NotifyOne
  BY DEF Enqueue
<1>3. queue \in Seq(Closures) /\ started \in Seq(Closures) /\ submitted = started \o queue
  BY <1>1 DEF PoolTypes, FirstInFirstOut
<1>4. /\ queue' \in Seq(Closures) /\ Len(queue') = Len(queue) + 1
      /\ submitted' \in Seq(Closures) /\ submitted' = started \o queue'
  <2>1. /\ Append(queue, c) \in Seq(Closures) /\ Len(Append(queue, c)) = Len(queue) + 1
        /\ Append(started \o queue, c) \in Seq(Closures)
        /\ Append(started \o queue, c) = started \o Append(queue, c)
    BY ONLY <1>3, c \in Closures, LastAdded
  <2>2. submitted' = Append(started \o queue, c)
    BY <1>2, <1>3, Zenon
  <2> QED
    BY <1>2, <2>1, <2>2, Zenon
<1>5. FirstInFirstOut'
  BY <1>4 DEF FirstInFirstOut
<1>6. CASE \E w \in Workers : worker[w] = "waiting"
  <2>1. PICK w \in Workers : worker[w] = "waiting" /\ worker' = [worker EXCEPT ![w] = "woken"]
    BY <1>2, <1>6 DEF NotifyOne
  <2>2. worker' \in [Workers -> WorkerStates]
    BY <1>1, <2>1 DEF PoolTypes, WorkerStates
  <2>3. Cardinality(Awake') = Cardinality(Awake) + 1
    BY <1>1, <2>1, OneMore
  <2>4. ~exiting => Len(queue) <= Cardinality(Awake)
    BY <1>1, <1>6 DEF NextAvailableThread
  <2>5. ~exiting => Len(queue') <= Cardinality(Awake')
    BY <1>3, <1>4, <2>3, <2>4, AwakeFinite
  <2> QED
    BY <1>4, <1>5, <2>2, <2>5 DEF NextAvailableThread
<1>7. CASE ~\E w \in Workers : worker[w] = "waiting"
  <2>1. worker' = worker
    BY <1>2, <1>7 DEF NotifyOne
  <2> QED
    BY <1>1, <1>4, <1>5, <1>7, <2>1 DEF PoolTypes, NextAvailableThread
<1> QED
  BY <1>6, <1>7

\* add(), add_at() and add_after()
LEMMA AddIInv ==
    ASSUME IInv, NEW c \in Closures, Add(c) \/ \E t \in Times : AddAt(c, t) \/ AddAfter(c, t)
    PROVE  IInv'
<1>1. CASE Add(c)
  <2>1. Enqueue(c) /\ UNCHANGED <<exiting, started, timedQueue, timer, held, dtor>>
    BY <1>1 DEF Add, timerVars
  <2>2. /\ queue' \in Seq(Closures) /\ submitted' \in Seq(Closures)
        /\ worker' \in [Workers -> WorkerStates]
        /\ FirstInFirstOut' /\ NextAvailableThread'
    BY <2>1, EnqueueKeeps
  <2> QED
    BY <2>1, <2>2 DEF IInv, PoolTypes, FlagFirst
<1>2. CASE \E t \in Times : AddAt(c, t) \/ AddAfter(c, t)
  <2>1. PICK t \in Times : AddAt(c, t)
    BY <1>2 DEF AddAfter
  <2>2. /\ timedQueue' = timedQueue \cup {[time |-> t, closure |-> c]} /\ NotifyTimer
        /\ UNCHANGED <<queue, exiting, worker, submitted, started, held, dtor>>
    BY <2>1 DEF AddAt, poolVars
  <2>3. timer' = "adding" => timer = "adding"
    BY <2>2 DEF NotifyTimer
  <2>4. timedQueue' \subseteq TimedClosure
    BY <2>2 DEF IInv, PoolTypes, TimedClosure
  <2>5. PoolTypes' /\ FlagFirst' /\ FirstInFirstOut'
    BY <2>2, <2>3, <2>4 DEF IInv, PoolTypes, FlagFirst, FirstInFirstOut
  <2>6. NextAvailableThread'
    BY <2>2 DEF IInv, NextAvailableThread, Awake
  <2> QED
    BY <2>5, <2>6 DEF IInv
<1> QED
  BY <1>1, <1>2

\* _RunWorker: a worker sleeps only after it has seen an empty queue.
LEMMA WorkerIInv ==
    ASSUME IInv, NEW w \in Workers, WorkerStep(w) \/ WorkerSpurious(w)
    PROVE  IInv'
<1>1. UNCHANGED <<exiting, submitted, timedQueue, timer, held, dtor>>
  BY DEF WorkerStep, WorkerWait, WorkerExit, WorkerRetry, WorkerTake, WorkerDone, WorkerSpurious, timerVars
<1>2. PoolTypes /\ FlagFirst /\ FirstInFirstOut /\ NextAvailableThread
  BY DEF IInv
<1>3. FlagFirst'
  BY <1>1, <1>2 DEF FlagFirst
<1>4. queue \in Seq(Closures) /\ started \in Seq(Closures) /\ submitted = started \o queue
  BY <1>2 DEF PoolTypes, FirstInFirstOut
<1>5. CASE WorkerTake(w)
  <2>1. /\ worker[w] \in {"ready", "woken"} /\ worker' = [worker EXCEPT ![w] = "running"] /\ queue # <<>>
        /\ queue' = Tail(queue) /\ started' = Append(started, Head(queue))
    BY <1>5 DEF WorkerTake
  <2>2. /\ Tail(queue) \in Seq(Closures) /\ Len(Tail(queue)) = Len(queue) - 1
        /\ Append(started, Head(queue)) \in Seq(Closures)
        /\ started \o queue = Append(started, Head(queue)) \o Tail(queue)
    BY <1>4, <2>1, HeadStarted
  <2>3. FirstInFirstOut'
    BY <1>1, <1>4, <2>1, <2>2, Zenon DEF FirstInFirstOut
  <2>4. queue' \in Seq(Closures) /\ started' \in Seq(Closures) /\ Len(queue') = Len(queue) - 1
    BY <2>1, <2>2, Zenon
  <2>5. worker' \in [Workers -> WorkerStates]
    BY <1>2, <2>1 DEF PoolTypes, WorkerStates
  <2>6. PoolTypes'
    BY <1>1, <1>2, <2>4, <2>5 DEF PoolTypes
  <2>7. Cardinality(Awake') = Cardinality(Awake) - 1
    BY <1>2, <2>1, OneLess
  <2>8. (\E v \in Workers : worker'[v] = "waiting") => \E v \in Workers : worker[v] = "waiting"
    BY <1>2, <2>1 DEF PoolTypes
  <2>9. NextAvailableThread'
    <3> SUFFICES ASSUME ~exiting', \E v \in Workers : worker'[v] = "waiting"
                 PROVE  Len(queue') <= Cardinality(Awake')
      BY DEF NextAvailableThread
    <3>1. Len(queue) <= Cardinality(Awake)
      BY <1>1, <1>2, <2>8 DEF NextAvailableThread
    <3>2. Len(queue) \in Nat
      BY <1>4
    <3> QED
      BY <2>4, <2>7, <3>1, <3>2, AwakeFinite
  <2> QED
    BY <1>3, <2>3, <2>6, <2>9 DEF IInv
<1>6. CASE ~WorkerTake(w)
  <2>1. UNCHANGED <<queue, started>>
    BY <1>6 DEF WorkerStep, WorkerWait, WorkerExit, WorkerRetry, WorkerDone, WorkerSpurious
  <2>2. FirstInFirstOut'
    BY <1>1, <1>2, <2>1 DEF FirstInFirstOut
  <2>3. PICK s \in WorkerStates : worker' = [worker EXCEPT ![w] = s]
    BY <1>6 DEF WorkerStep, WorkerWait, WorkerExit, WorkerRetry, WorkerDone, WorkerSpurious, WorkerStates
  <2>4. worker' \in [Workers -> WorkerStates]
    BY <1>2, <2>3 DEF PoolTypes
  <2>5. PoolTypes'
    BY <1>1, <1>2, <2>1, <2>4 DEF PoolTypes
  <2>6. NextAvailableThread'
    <3>1. CASE exiting
      BY <1>1, <3>1 DEF NextAvailableThread
    <3>2. CASE queue = <<>>
      <4>1. Cardinality(Awake') \in Nat
        BY AwakeFinite, WorkersAssumption, FS_Subset, FS_CardinalityType DEF Awake
      <4> QED
        BY <2>1, <3>2, <4>1 DEF NextAvailableThread
    <3>3. CASE ~exiting /\ queue # <<>>
      <4>1. /\ worker[w] \in {"waiting", "running"}
            /\ worker' = [worker EXCEPT ![w] = worker'[w]] /\ worker'[w] \in {"ready", "woken"}
        BY <1>2, <1>6, <3>3
           DEF WorkerStep, WorkerWait, WorkerExit, WorkerRetry, WorkerDone, WorkerSpurious, NothingQueued, PoolTypes
      <4>2. Cardinality(Awake') = Cardinality(Awake) + 1
        BY <1>2, <4>1, OneMore
      <4>3. (\E v \in Workers : worker'[v] = "waiting") => \E v \in Workers : worker[v] = "waiting"
        BY <1>2, <4>1 DEF PoolTypes
      <4>4. Len(queue) \in Nat
        BY <1>4
      <4> QED
        BY <1>1, <1>2, <2>1, <4>2, <4>3, <4>4, AwakeFinite DEF NextAvailableThread
    <3> QED
      BY <3>1, <3>2, <3>3
  <2> QED
    BY <1>3, <2>2, <2>5, <2>6 DEF IInv
<1> QED
  BY <1>5, <1>6

\* _RunTimer: what it pops it adds.
LEMMA TimerIInv ==
    ASSUME IInv, TimerStep \/ TimerSpurious
    PROVE  IInv'
<1>1. PoolTypes /\ FlagFirst /\ FirstInFirstOut /\ NextAvailableThread
  BY DEF IInv
<1>2. CASE TimerAdd
  <2>1. Enqueue(held) /\ timer' = "ready" /\ UNCHANGED <<exiting, started, timedQueue, dtor>> /\ held \in Closures
    BY <1>1, <1>2 DEF TimerAdd, PoolTypes
  <2>2. /\ queue' \in Seq(Closures) /\ submitted' \in Seq(Closures)
        /\ worker' \in [Workers -> WorkerStates]
        /\ FirstInFirstOut' /\ NextAvailableThread'
    BY <2>1, EnqueueKeeps
  <2> QED
    BY <1>1, <2>1, <2>2 DEF IInv, PoolTypes, FlagFirst
<1>3. CASE ~TimerAdd
  <2>1. UNCHANGED <<queue, exiting, worker, submitted, started, dtor>>
    BY <1>3 DEF TimerStep, TimerExit, TimerWait, TimerExpire, TimerRetry, TimerPop, TimerSpurious, poolVars
  <2>2. timedQueue' \subseteq TimedClosure /\ (timer' = "adding" => held' \in Closures)
    <3>1. CASE TimerPop
      <4>1. PICK e \in Tops : held' = e.closure /\ timedQueue' = timedQueue \ {e}
        BY <3>1 DEF TimerPop, PopTimed
      <4>2. e \in TimedClosure
        BY <1>1, <4>1 DEF Tops, PoolTypes
      <4> QED
        BY <1>1, <4>1, <4>2 DEF PoolTypes, TimedClosure
    <3>2. CASE ~TimerPop
      <4>1. UNCHANGED <<timedQueue, held>> /\ timer' # "adding"
        BY <1>3, <3>2 DEF TimerStep, TimerExit, TimerWait, TimerExpire, TimerRetry, TimerSpurious, NotifyTimer
      <4> QED
        BY <1>1, <4>1 DEF PoolTypes
    <3> QED
      BY <3>1, <3>2
  <2>3. PoolTypes' /\ FlagFirst' /\ FirstInFirstOut'
    BY <1>1, <2>1, <2>2 DEF PoolTypes, FlagFirst, FirstInFirstOut
  <2>4. NextAvailableThread'
    BY <1>1, <2>1 DEF NextAvailableThread, Awake
  <2> QED
    BY <2>3, <2>4 DEF IInv
<1> QED
  BY <1>2, <1>3

\* The destructor, the clock and stuttering
LEMMA OtherIInv ==
    ASSUME IInv, DtorFlag \/ DtorStep \/ Tick \/ UNCHANGED vars
    PROVE  IInv'
<1>1. UNCHANGED <<queue, submitted, started, timedQueue, held>> /\ (timer' = "adding" => timer = "adding")
  BY DEF DtorFlag, DtorStep, DtorNotify, DtorJoin, Tick, vars, poolVars, timerVars, NotifyTimer
<1>2. worker' \in [Workers -> WorkerStates]
  BY DEF IInv, PoolTypes, WorkerStates, DtorFlag, DtorStep, DtorNotify, NotifyAllWorkers, DtorJoin, Tick, vars, poolVars
<1>3. PoolTypes' /\ FirstInFirstOut'
  BY <1>1, <1>2 DEF IInv, PoolTypes, FirstInFirstOut
<1>4. FlagFirst'
  BY DEF IInv, FlagFirst, DtorFlag, DtorStep, DtorNotify, DtorJoin, Tick, vars, poolVars
<1>5. NextAvailableThread'
  <2>1. CASE exiting'
    BY <2>1 DEF NextAvailableThread
  <2>2. CASE ~exiting'
    <3>1. UNCHANGED <<worker, exiting>>
      BY <2>2 DEF IInv, FlagFirst, DtorFlag, DtorStep, DtorNotify, DtorJoin, Tick, vars, poolVars
    <3> QED
      BY <1>1, <3>1 DEF IInv, NextAvailableThread, Awake
  <2> QED
    BY <2>1, <2>2
<1> QED
  BY <1>3, <1>4, <1>5 DEF IInv

\* Every step preserves the invariant.
LEMMA NextIInv == IInv /\ [Next]_vars => IInv'
<1> SUFFICES ASSUME IInv, [Next]_vars PROVE IInv'
  OBVIOUS
<1>1. CASE \/ \E c \in Closures : Add(c)
           \/ \E c \in Closures, t \in Times : AddAt(c, t) \/ AddAfter(c, t)
  BY <1>1, AddIInv
<1>2. CASE \E w \in Workers : WorkerStep(w) \/ WorkerSpurious(w)
  BY <1>2, WorkerIInv
<1>3. CASE TimerStep \/ TimerSpurious
  BY <1>3, TimerIInv
<1>4. CASE DtorFlag \/ DtorStep \/ Tick \/ UNCHANGED vars
  BY <1>4, OtherIInv
<1> QED
  BY <1>1, <1>2, <1>3, <1>4 DEF Next, Terminated

\* The inductive invariant holds in every reachable state.
THEOREM Invariance == Spec => []IInv
  BY InitIInv, NextIInv, PTL DEF Spec

\* Workers start closures in the order add() queued them, none twice and none
\* skipped, however many workers there are.
THEOREM StartsInOrder == Spec => []FirstInFirstOut
<1>1. IInv => FirstInFirstOut
  BY DEF IInv
<1> QED
  BY <1>1, Invariance, PTL

\* One notify_one() for each closure is enough: while a worker sleeps, no
\* queued closure waits for a worker that is busy.
THEOREM EnoughAwake == Spec => []NextAvailableThread
<1>1. IInv => NextAvailableThread
  BY DEF IInv
<1> QED
  BY <1>1, Invariance, PTL

-----------------------------------------------------------------------------
(***************************************************************************)
(* Scheduled closures                                                      *)
(***************************************************************************)
Timed == {e.closure : e \in timedQueue}
Added == {submitted[i] : i \in 1 .. Len(submitted)}

\* A closure is at most once in each place and in at most one of them, and
\* one that has been scheduled is in one.
AtMostOne ==
    /\ \A e, f \in timedQueue : e.closure = f.closure => e = f
    /\ \A i, j \in 1 .. Len(submitted) : submitted[i] = submitted[j] => i = j
    /\ \A e \in timedQueue : sched[e.closure] # -1 /\ e.closure # held /\ e.closure \notin Added
    /\ held # NoClosure => timer = "adding" /\ sched[held] # -1 /\ held \notin Added
AtLeastOne ==
    /\ sched = [c \in Closures |-> sched[c]]
    /\ \A c \in Closures : sched[c] # -1 => c \in Timed \/ held = c \/ c \in Added
Places == AtMostOne /\ AtLeastOne

\* What add() does to the closures that have been added
LEMMA AddedOnce ==
    ASSUME submitted \in Seq(Closures), NEW c \in Closures, submitted' = Append(submitted, c)
    PROVE  /\ Added' = Added \cup {c}
           /\ c \notin Added /\ (\A i, j \in 1 .. Len(submitted) : submitted[i] = submitted[j] => i = j)
                  => \A i, j \in 1 .. Len(submitted') : submitted'[i] = submitted'[j] => i = j
<1>1. /\ Len(submitted') = Len(submitted) + 1 /\ Len(submitted) \in Nat
      /\ submitted'[Len(submitted) + 1] = c
      /\ \A i \in 1 .. Len(submitted) : submitted'[i] = submitted[i]
  OBVIOUS
<1> QED
  BY ONLY <1>1 DEF Added

LEMMA InitPlaces == Init => Places
  BY DEF Init, Places, AtMostOne, AtLeastOne, Timed, Added

\* add() and add_at() of a closure that is nowhere yet
LEMMA AddPlaces ==
    ASSUME IInv, Places, NEW c \in Closures, Add(c) \/ \E t \in Times : AddAt(c, t) \/ AddAfter(c, t)
    PROVE  Places'
<1>1. PoolTypes /\ AtMostOne /\ AtLeastOne
  BY DEF IInv, Places
<1>2. c # held /\ sched[c] = -1 /\ c \notin Added
  BY DEF Add, AddAt, AddAfter, Fresh, Added
<1>3. \A e \in timedQueue : e.closure \in Closures
  BY <1>1 DEF PoolTypes, TimedClosure
<1>4. CASE Add(c)
  <2>1. submitted' = Append(submitted, c) /\ UNCHANGED <<timedQueue, timer, held, sched>>
    BY <1>4 DEF Add, Enqueue, timerVars
  <2>2. /\ Added' = Added \cup {c}
        /\ \A i, j \in 1 .. Len(submitted') : submitted'[i] = submitted'[j] => i = j
    BY <1>1, <1>2, <2>1, AddedOnce DEF PoolTypes, AtMostOne
  <2>3. held # NoClosure => held \in Closures
    BY <1>1 DEF PoolTypes, AtMostOne
  <2>4. AtMostOne'
    BY <1>1, <1>2, <1>3, <2>1, <2>2, <2>3 DEF AtMostOne
  <2>5. AtLeastOne'
    BY <1>1, <2>1, <2>2 DEF AtLeastOne, Timed
  <2> QED
    BY <2>4, <2>5 DEF Places
<1>5. CASE \E t \in Times : AddAt(c, t) \/ AddAfter(c, t)
  <2>1. PICK t \in Times : AddAt(c, t)
    BY <1>5 DEF AddAfter
  <2>2. /\ timedQueue' = timedQueue \cup {[time |-> t, closure |-> c]} /\ sched' = [sched EXCEPT ![c] = t]
        /\ NotifyTimer /\ UNCHANGED <<submitted, held>>
    BY <2>1 DEF AddAt, poolVars
  <2>3. t # -1
    BY MaxTimeAssumption DEF Times
  <2>4. \A d \in Closures : sched'[d] = IF d = c THEN t ELSE sched[d]
    BY <1>1, <2>2 DEF AtLeastOne
  <2>5. held # NoClosure => held \in Closures /\ timer = "adding" /\ timer' = "adding"
    BY <1>1, <2>2 DEF PoolTypes, AtMostOne, NotifyTimer
  <2>6. Added' = Added
    BY <2>2 DEF Added
  <2>7. AtMostOne'
    <3>1. \A e, f \in timedQueue' : e.closure = f.closure => e = f
      BY <1>1, <1>2, <2>2 DEF AtMostOne
    <3>2. \A e \in timedQueue' : sched'[e.closure] # -1 /\ e.closure # held' /\ e.closure \notin Added'
      BY <1>1, <1>2, <1>3, <2>2, <2>3, <2>4, <2>6 DEF AtMostOne
    <3>3. held' # NoClosure => timer' = "adding" /\ sched'[held'] # -1 /\ held' \notin Added'
      BY <1>1, <1>2, <2>2, <2>4, <2>5, <2>6 DEF AtMostOne, Added
    <3> QED
      BY <1>1, <2>2, <3>1, <3>2, <3>3 DEF AtMostOne
  <2>8. AtLeastOne'
    <3>1. Timed \cup {c} \subseteq Timed'
      <4>1. [time |-> t, closure |-> c].closure = c
        OBVIOUS
      <4> QED
        BY <2>2, <4>1 DEF Timed
    <3>2. sched' = [d \in Closures |-> sched'[d]]
      BY <1>1, <2>2 DEF AtLeastOne
    <3> QED
      BY <1>1, <2>2, <2>4, <2>6, <3>1, <3>2 DEF AtLeastOne
  <2> QED
    BY <2>7, <2>8 DEF Places
<1> QED
  BY <1>4, <1>5

\* _RunTimer: a closure goes from the timed queue into the timer thread's
\* hands and from there into the queue.
LEMMA TimerPlaces ==
    ASSUME IInv, Places, TimerPop \/ TimerAdd
    PROVE  Places'
<1>1. PoolTypes /\ AtMostOne /\ AtLeastOne
  BY DEF IInv, Places
<1>2. \A e \in timedQueue : e.closure \in Closures
  BY <1>1 DEF PoolTypes, TimedClosure
<1>3. CASE TimerPop
  <2>1. PICK e \in timedQueue : held' = e.closure /\ timedQueue' = timedQueue \ {e}
    BY <1>3 DEF TimerPop, PopTimed, Tops
  <2>2. timer # "adding" /\ timer' = "adding" /\ UNCHANGED <<submitted, sched>>
    BY <1>3 DEF TimerPop, TimedOut, poolVars
  <2>3. held = NoClosure
    BY <1>1, <2>2 DEF AtMostOne
  <2>4. Added' = Added
    BY <2>2 DEF Added
  <2>5. AtMostOne'
    <3>1. \A f \in timedQueue' : sched'[f.closure] # -1 /\ f.closure # held' /\ f.closure \notin Added'
      BY <1>1, <2>1, <2>2, <2>4 DEF AtMostOne
    <3>2. timer' = "adding" /\ sched'[held'] # -1 /\ held' \notin Added'
      BY <1>1, <2>1, <2>2 DEF AtMostOne, Added
    <3> QED
      BY <1>1, <2>1, <2>2, <3>1, <3>2 DEF AtMostOne
  <2>6. AtLeastOne'
    BY <1>1, <2>1, <2>2, <2>3, <2>4, NoClosureAssumption DEF AtLeastOne, Timed
  <2> QED
    BY <2>5, <2>6 DEF Places
<1>4. CASE TimerAdd
  <2>1. /\ submitted' = Append(submitted, held) /\ held' = NoClosure /\ held \in Closures
        /\ UNCHANGED <<timedQueue, sched>>
    BY <1>1, <1>4 DEF TimerAdd, Enqueue, PoolTypes
  <2>2. held \notin Added
    BY <1>1, <2>1, NoClosureAssumption DEF AtMostOne
  <2>3. /\ Added' = Added \cup {held}
        /\ \A i, j \in 1 .. Len(submitted') : submitted'[i] = submitted'[j] => i = j
    BY <1>1, <2>1, <2>2, AddedOnce DEF PoolTypes, AtMostOne
  <2>4. AtMostOne'
    BY <1>1, <1>2, <2>1, <2>3, NoClosureAssumption DEF AtMostOne
  <2>5. AtLeastOne'
    BY <1>1, <2>1, <2>3 DEF AtLeastOne, Timed
  <2> QED
    BY <2>4, <2>5 DEF Places
<1> QED
  BY <1>3, <1>4

LEMMA NextPlaces == IInv /\ Places /\ [Next]_vars => Places'
<1> SUFFICES ASSUME IInv, Places, [Next]_vars PROVE Places'
  OBVIOUS
<1>1. CASE \/ \E c \in Closures : Add(c)
           \/ \E c \in Closures, t \in Times : AddAt(c, t) \/ AddAfter(c, t)
  BY <1>1, AddPlaces
<1>2. CASE TimerPop \/ TimerAdd
  BY <1>2, TimerPlaces
<1>3. CASE /\ UNCHANGED <<timedQueue, held, sched, submitted>>
           /\ timer = "adding" => timer' = "adding"
  BY <1>3 DEF Places, AtMostOne, AtLeastOne, Timed, Added
<1>4. CASE \/ \E w \in Workers : WorkerStep(w) \/ WorkerSpurious(w)
           \/ TimerExit \/ TimerWait \/ TimerExpire \/ TimerRetry \/ TimerSpurious
           \/ DtorFlag \/ DtorStep \/ Tick \/ UNCHANGED vars
  <2>1. UNCHANGED <<timedQueue, held, sched, submitted>> /\ (timer = "adding" => timer' = "adding")
    BY <1>4 DEF WorkerStep, WorkerWait, WorkerExit, WorkerRetry, WorkerTake, WorkerDone, WorkerSpurious,
       TimerExit, TimerWait, TimerExpire, TimerRetry, NotTimedOut, TimerSpurious, NotifyTimer,
       DtorFlag, DtorStep, DtorNotify, DtorJoin, Tick, vars, poolVars, timerVars
  <2> QED
    BY <1>3, <2>1
<1> QED
  BY <1>1, <1>2, <1>4 DEF Next, Terminated, TimerStep

\* A closure scheduled by add_at() or add_after() is in the timed queue, in the
\* timer thread's hands or, once, among the closures that were enqueued: the
\* timer thread neither loses nor repeats one between its two critical
\* sections, for any number of closures and times.
THEOREM ScheduledInOnePlace == Spec => []ScheduledOnce
<1>1. IInv /\ Places => ScheduledOnce
  <2> SUFFICES ASSUME Places, NEW c \in Closures, sched[c] # -1
               PROVE  Cardinality({e \in timedQueue : e.closure = c})
                          + Cardinality({i \in 1 .. Len(submitted) : submitted[i] = c})
                          + (IF held = c THEN 1 ELSE 0) = 1
    BY DEF ScheduledOnce
  <2> DEFINE timed == {e \in timedQueue : e.closure = c}
             added == {i \in 1 .. Len(submitted) : submitted[i] = c}
  <2>1. ASSUME NEW e \in timed PROVE timed = {e}
    BY DEF Places, AtMostOne
  <2>2. ASSUME NEW i \in added PROVE added = {i}
    BY DEF Places, AtMostOne
  <2>3. /\ timed # {} => held # c /\ added = {}
        /\ held = c => added = {}
        /\ timed # {} \/ held = c \/ added # {}
    <3>1. timed # {} => held # c /\ c \notin Added
      BY DEF Places, AtMostOne
    <3>2. held = c => c \notin Added
      BY NoClosureAssumption DEF Places, AtMostOne
    <3>3. added # {} <=> c \in Added
      BY DEF Added
    <3>4. timed # {} <=> c \in Timed
      BY DEF Timed
    <3>5. c \in Timed \/ held = c \/ c \in Added
      BY DEF Places, AtLeastOne
    <3> QED
      BY <3>1, <3>2, <3>3, <3>4, <3>5
  <2>4. Cardinality(timed) = IF timed = {} THEN 0 ELSE 1
    BY <2>1, FS_EmptySet, FS_Singleton
  <2>5. Cardinality(added) = IF added = {} THEN 0 ELSE 1
    BY <2>2, FS_EmptySet, FS_Singleton
  <2> QED
    BY <2>3, <2>4, <2>5
<1> QED
  BY <1>1, InitPlaces, NextPlaces, Invariance, PTL DEF Spec

-----------------------------------------------------------------------------
\* add_at() finds the timer thread asleep and wakes it, so that it looks at
\* the timed queue again before it sleeps again; only a timer thread that has
\* seen the timeout pops.
LEMMA NextSleeps == SleepsForTheTop /\ [Next]_vars => SleepsForTheTop'
<1> SUFFICES ASSUME SleepsForTheTop, [Next]_vars PROVE SleepsForTheTop'
  OBVIOUS
<1>1. CASE \E c \in Closures, t \in Times : AddAt(c, t) \/ AddAfter(c, t)
  <2>1. timer' \notin {"waiting", "waitingUntil"}
    BY <1>1 DEF AddAt, AddAfter, NotifyTimer
  <2> QED
    BY <2>1 DEF SleepsForTheTop
<1>2. CASE TimerWait
  <2>1. UNCHANGED timedQueue /\ Tops' = Tops
    BY <1>2 DEF TimerWait, Tops
  <2> QED
    BY <1>2, <2>1 DEF TimerWait, SleepsForTheTop
<1>3. CASE TimerExit \/ TimerExpire \/ TimerRetry \/ TimerPop \/ TimerAdd \/ TimerSpurious
           \/ DtorNotify \/ DtorFlag
  <2>1. timer' \notin {"waiting", "waitingUntil"} \/ exiting'
    BY <1>3 DEF TimerExit, TimerExpire, TimerRetry, TimerPop, TimerAdd, TimerSpurious, DtorNotify, DtorFlag,
       NotifyTimer
  <2> QED
    BY <2>1 DEF SleepsForTheTop
<1>4. CASE \/ \E c \in Closures : Add(c)
           \/ \E w \in Workers : WorkerStep(w) \/ WorkerSpurious(w)
           \/ DtorJoin \/ Tick \/ UNCHANGED vars
  <2>1. UNCHANGED <<exiting, timer, timedQueue, deadline, stale>>
    BY <1>4 DEF Add, WorkerStep, WorkerWait, WorkerExit, WorkerRetry, WorkerTake, WorkerDone, WorkerSpurious,
       DtorJoin, Tick, vars, poolVars, timerVars
  <2>2. Tops' = Tops
    BY <2>1 DEF Tops
  <2> QED
    BY <2>1, <2>2 DEF SleepsForTheTop
<1> QED
  BY <1>1, <1>2, <1>3, <1>4 DEF Next, Terminated, TimerStep, DtorStep

\* The timer thread sleeps without a limit only while nothing is scheduled and
\* otherwise for the top of the timed queue, for any closures and times: no
\* add_at() goes by while it is about to sleep or asleep.
THEOREM TimerIsNotMissed == Spec => []SleepsForTheTop
<1>1. Init => SleepsForTheTop
  BY DEF Init, SleepsForTheTop
<1> QED
  BY <1>1, NextSleeps, PTL DEF Spec
=============================================================================
