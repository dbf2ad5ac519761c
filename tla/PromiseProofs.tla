---------------------------- MODULE PromiseProofs ----------------------------
(***************************************************************************)
(* Proofs about Promise, for any threads that fulfil the promise and any   *)
(* waiters: no notification is lost, whoever creates the shared state, and *)
(* a destroyed promise leaves its future ready.                            *)
(***************************************************************************)
EXTENDS Promise, TLAPS

\* Which calls a thread makes, and which of them need the shared state.
CallsAreTyped ==
    /\ \A t \in Threads : pc[t] # "idle" => op[t] \in CallOps(t)
    /\ \A t \in Threads : pc[t] = "ready" /\ op[t] # "set_value_at_thread_exit" => shared # Nothing

\* The future and the promise share one state, whoever allocated it.
OneState ==
    /\ future # Nothing => future = shared /\ obtained
    /\ \A w \in Waiters : waiter[w] # "idle" => future # Nothing

\* Nobody is in a call on a promise that has been destroyed.
QuietWhenDestroyed ==
    promise = "destroyed" => \A t \in Threads : pc[t] \in {"idle", "returned", "threw"}

\* A ready state has a value or an exception to give.
ReadyHasValue == \A t \in Threads : done[t] => exc[t] # Nothing \/ result[t] # Nothing

IInv ==
    /\ TypeOK
    /\ CallsAreTyped
    /\ OneState
    /\ QuietWhenDestroyed
    /\ ReadyHasValue
    /\ NobodySleepsOnReady
    /\ DestroyedMeansReady

-----------------------------------------------------------------------------
\* The promise is constructed without a state.
LEMMA InitIInv == Init => IInv
<1> SUFFICES ASSUME Init PROVE IInv
  OBVIOUS
<1>1. TypeOK
  BY DEF Init, TypeOK
<1>2. CallsAreTyped /\ OneState /\ QuietWhenDestroyed /\ ReadyHasValue
  BY DEF Init, CallsAreTyped, OneState, QuietWhenDestroyed, ReadyHasValue
<1>3. NobodySleepsOnReady /\ DestroyedMeansReady
  BY DEF Init, NobodySleepsOnReady, DestroyedMeansReady
<1> QED
  BY <1>1, <1>2, <1>3 DEF IInv

\* lazy_init(): the load, and the compare-and-exchange.
LEMMA LazyInitIInv ==
    ASSUME IInv, NEW t \in Threads, CreateShared(t) \/ \E o \in CallOps(t) : LoadShared(t, o)
    PROVE  IInv'
<1>1. CASE CreateShared(t)
  <2> USE <1>1 DEF CreateShared, Goto, Exchange, stateVars, waiterVars, IInv
  <2>1. shared' \in Threads /\ shared' # Nothing
    BY ThreadsAssumption DEF TypeOK, Threads
  <2>2. TypeOK'
    BY <2>1 DEF TypeOK
  <2>3. CallsAreTyped'
    BY <2>1 DEF CallsAreTyped, TypeOK, CallOps
  <2>4. OneState'
    BY DEF OneState
  <2>5. QuietWhenDestroyed'
    BY DEF QuietWhenDestroyed
  <2>6. ReadyHasValue' /\ NobodySleepsOnReady' /\ DestroyedMeansReady'
    BY DEF ReadyHasValue, NobodySleepsOnReady, DestroyedMeansReady
  <2> QED
    BY <2>2, <2>3, <2>4, <2>5, <2>6
<1>2. CASE \E o \in CallOps(t) : LoadShared(t, o)
  <2>1. PICK o \in CallOps(t) : LoadShared(t, o)
    BY <1>2
  <2> USE <2>1 DEF LoadShared, Goto, stateVars, waiterVars, IInv
  <2>2. TypeOK'
    BY DEF TypeOK, CallOps
  <2>3. CallsAreTyped'
    BY DEF CallsAreTyped, TypeOK, CallOps
  <2>4. OneState' /\ QuietWhenDestroyed'
    BY DEF OneState, QuietWhenDestroyed
  <2>5. ReadyHasValue' /\ NobodySleepsOnReady' /\ DestroyedMeansReady'
    BY DEF ReadyHasValue, NobodySleepsOnReady, DestroyedMeansReady
  <2> QED
    BY <2>2, <2>3, <2>4, <2>5
<1> QED
  BY <1>1, <1>2

\* get_future(): the state exists, since get_future() calls lazy_init().
LEMMA GetFutureIInv ==
    ASSUME IInv, GetFuture
    PROVE  IInv'
<1> USE DEF GetFuture, Goto, stateVars, waiterVars, IInv
<1>1. Getter \in Threads
  BY DEF Threads
<1>2. shared \in Threads /\ shared # Nothing
  BY <1>1 DEF CallsAreTyped, CallOps, TypeOK
<1>3. promise = "alive"
  BY <1>1 DEF QuietWhenDestroyed, TypeOK
<1>4. TypeOK'
  BY <1>1, <1>2 DEF TypeOK
<1>5. CallsAreTyped'
  BY <1>1 DEF CallsAreTyped, TypeOK
<1>6. OneState'
  BY <1>2 DEF OneState, TypeOK
<1>7. QuietWhenDestroyed' /\ ReadyHasValue' /\ DestroyedMeansReady'
  BY <1>3 DEF QuietWhenDestroyed, ReadyHasValue, DestroyedMeansReady
<1>8. NobodySleepsOnReady'
  BY DEF NobodySleepsOnReady, OneState, TypeOK
<1> QED
  BY <1>4, <1>5, <1>6, <1>7, <1>8

\* mark_finished_internal() wakes all who wait for the state.
LEMMA Marked ==
    ASSUME IInv, NEW s \in Threads, MarkFinished(s), UNCHANGED future
    PROVE  /\ done' \in [Threads -> BOOLEAN] /\ done'[s]
           /\ \A t \in Threads : t # s => done'[t] = done[t]
           /\ waiter' \in [Waiters -> {"idle", "waiting", "woken", "expired", "returned"}]
           /\ \A w \in Waiters : /\ waiter'[w] = "idle" <=> waiter[w] = "idle"
                                 /\ waiter'[w] = "returned" <=> waiter[w] = "returned"
           /\ NobodySleepsOnReady'
<1> USE DEF IInv, MarkFinished, WakeAll
<1>1. done' \in [Threads -> BOOLEAN] /\ done'[s] /\ \A t \in Threads : t # s => done'[t] = done[t]
  BY DEF TypeOK
<1>2. /\ waiter' \in [Waiters -> {"idle", "waiting", "woken", "expired", "returned"}]
      /\ \A w \in Waiters : /\ waiter'[w] = "idle" <=> waiter[w] = "idle"
                            /\ waiter'[w] = "returned" <=> waiter[w] = "returned"
  BY DEF TypeOK
<1>3. ASSUME NEW w \in Waiters, waiter'[w] = "waiting" PROVE ~done'[future]
  <2>1. waiter[w] = "waiting" /\ future # s
    BY <1>3 DEF TypeOK
  <2>2. future \in Threads
    BY <2>1 DEF OneState, TypeOK
  <2> QED
    BY <1>1, <2>1, <2>2 DEF NobodySleepsOnReady
<1> QED
  BY <1>1, <1>2, <1>3 DEF NobodySleepsOnReady

\* set_value() and set_exception() at once
LEMMA SetIInv ==
    ASSUME IInv, NEW t \in Threads, SetValue(t) \/ SetException(t)
    PROVE  IInv'
<1> USE DEF SetValue, SetException, Goto
<1>1. t \in Setters
  BY DEF IInv, CallsAreTyped, CallOps, Threads, TypeOK
<1>2. shared \in Threads /\ shared # Nothing
  BY DEF IInv, CallsAreTyped, TypeOK
<1>3. MarkFinished(shared) /\ UNCHANGED <<shared, obtained, promise, op, future, constructed, timed, outcome>>
  OBVIOUS
<1>4. /\ done' \in [Threads -> BOOLEAN] /\ done'[shared]
      /\ \A u \in Threads : u # shared => done'[u] = done[u]
      /\ waiter' \in [Waiters -> {"idle", "waiting", "woken", "expired", "returned"}]
      /\ \A w \in Waiters : /\ waiter'[w] = "idle" <=> waiter[w] = "idle"
                            /\ waiter'[w] = "returned" <=> waiter[w] = "returned"
      /\ NobodySleepsOnReady'
  BY <1>2, <1>3, Marked
<1>5. /\ pc' = [pc EXCEPT ![t] = "returned"] /\ pc[t] = "ready"
      /\ pc' \in [Threads -> {"idle", "absent", "ready", "exiting", "returned", "threw"}]
  BY DEF IInv, TypeOK
<1>6. /\ exc' \in [Threads -> Setters \cup {"broken", Nothing}]
      /\ result' \in [Threads -> Setters \cup {Nothing}]
  BY <1>1 DEF IInv, TypeOK
<1>7. TypeOK'
  BY <1>3, <1>4, <1>5, <1>6 DEF IInv, TypeOK
<1>8. CallsAreTyped'
  BY <1>3, <1>5 DEF IInv, CallsAreTyped, TypeOK
<1>9. OneState'
  BY <1>3, <1>4 DEF IInv, OneState
<1>10. QuietWhenDestroyed'
  BY <1>3, <1>5 DEF IInv, QuietWhenDestroyed, TypeOK
<1>11. ReadyHasValue'
  BY <1>1, <1>2, <1>4, ThreadsAssumption DEF IInv, ReadyHasValue, TypeOK
<1>12. DestroyedMeansReady'
  BY <1>3, <1>4 DEF IInv, DestroyedMeansReady, OneState
<1> QED
  BY <1>4, <1>7, <1>8, <1>9, <1>10, <1>11, <1>12 DEF IInv

\* The calls that make nothing ready.
LEMMA OtherSetterIInv ==
    ASSUME IInv, NEW t \in Threads, SetterThrows(t) \/ SetAtExit(t) \/ ThreadExit(t)
    PROVE  IInv'
<1> USE DEF SetterThrows, SetAtExit, ThreadExit, Goto, stateVars, waiterVars
<1>1. UNCHANGED <<shared, obtained, promise, op, future, done, exc, waiter, timed, outcome>>
  OBVIOUS
<1>2. /\ pc' \in [Threads -> {"idle", "absent", "ready", "exiting", "returned", "threw"}]
      /\ \A u \in Threads : u # t => pc'[u] = pc[u]
      /\ pc[t] \in {"ready", "exiting"} /\ pc'[t] \in {"exiting", "returned", "threw"}
  BY DEF IInv, TypeOK
<1>3. /\ result' \in [Threads -> Setters \cup {Nothing}]
      /\ constructed' \in [Threads -> BOOLEAN]
      /\ \A u \in Threads : result[u] # Nothing => result'[u] # Nothing
      /\ \A u \in Threads : constructed[u] => constructed'[u]
  <2>1. CASE SetAtExit(t) /\ pc'[t] = "exiting"
    <3>1. t \in Setters
      BY <2>1 DEF IInv, CallsAreTyped, CallOps, Threads, TypeOK
    <3>2. shared \in Threads
      BY <2>1 DEF IInv, TypeOK
    <3>3. /\ result' = [result EXCEPT ![shared] = t]
          /\ constructed' = [constructed EXCEPT ![shared] = TRUE]
      BY <2>1, <1>2 DEF IInv, TypeOK
    <3>4. /\ result \in [Threads -> Setters \cup {Nothing}]
          /\ constructed \in [Threads -> BOOLEAN]
      BY DEF IInv, TypeOK
    <3>5. t # Nothing
      BY <3>1, ThreadsAssumption
    <3> HIDE DEF SetterThrows, SetAtExit, ThreadExit
    <3>6. /\ result' \in [Threads -> Setters \cup {Nothing}]
          /\ \A u \in Threads : result[u] # Nothing => result'[u] # Nothing
      BY <3>1, <3>2, <3>3, <3>4, <3>5
    <3>7. /\ constructed' \in [Threads -> BOOLEAN]
          /\ \A u \in Threads : constructed[u] => constructed'[u]
      BY <3>2, <3>3, <3>4
    <3> QED
      BY <3>6, <3>7
  <2>2. CASE ~(SetAtExit(t) /\ pc'[t] = "exiting")
    BY <2>2 DEF IInv, TypeOK
  <2> QED
    BY <2>1, <2>2
<1>4. TypeOK'
  BY <1>1, <1>2, <1>3 DEF IInv, TypeOK
<1>5. CallsAreTyped'
  BY <1>1, <1>2 DEF IInv, CallsAreTyped, TypeOK
<1>6. OneState' /\ NobodySleepsOnReady'
  BY <1>1 DEF IInv, OneState, NobodySleepsOnReady
<1>7. QuietWhenDestroyed'
  BY <1>1, <1>2 DEF IInv, QuietWhenDestroyed, TypeOK
<1>8. ReadyHasValue'
  BY <1>1, <1>3 DEF IInv, ReadyHasValue
<1>9. DestroyedMeansReady'
  BY <1>1, <1>3 DEF IInv, DestroyedMeansReady, TypeOK
<1> QED
  BY <1>4, <1>5, <1>6, <1>7, <1>8, <1>9 DEF IInv

\* ~promise(): an unfulfilled state gets an exception.
LEMMA DestroyIInv ==
    ASSUME IInv, DestroyPromise
    PROVE  IInv'
<1> USE DEF DestroyPromise
<1>1. UNCHANGED <<shared, obtained, pc, op, future, result, constructed, timed, outcome>>
  OBVIOUS
<1>2. CASE LeftUnfulfilled
  <2>1. shared \in Threads /\ shared # Nothing /\ MarkFinished(shared) /\ exc' = [exc EXCEPT ![shared] = "broken"]
    BY <1>2 DEF IInv, TypeOK, LeftUnfulfilled
  <2>2. /\ done' \in [Threads -> BOOLEAN] /\ done'[shared]
        /\ \A u \in Threads : u # shared => done'[u] = done[u]
        /\ waiter' \in [Waiters -> {"idle", "waiting", "woken", "expired", "returned"}]
        /\ \A w \in Waiters : /\ waiter'[w] = "idle" <=> waiter[w] = "idle"
                              /\ waiter'[w] = "returned" <=> waiter[w] = "returned"
        /\ NobodySleepsOnReady'
    BY <1>1, <2>1, Marked
  <2>3. TypeOK'
    BY <1>1, <2>1, <2>2 DEF IInv, TypeOK
  <2>4. CallsAreTyped' /\ QuietWhenDestroyed'
    BY <1>1 DEF IInv, CallsAreTyped, QuietWhenDestroyed
  <2>5. OneState'
    BY <1>1, <2>2 DEF IInv, OneState
  <2>6. ReadyHasValue'
    BY <1>1, <2>1, <2>2, ThreadsAssumption DEF IInv, ReadyHasValue, TypeOK
  <2>7. DestroyedMeansReady'
    BY <1>1, <2>2 DEF IInv, DestroyedMeansReady, OneState
  <2> QED
    BY <2>2, <2>3, <2>4, <2>5, <2>6, <2>7 DEF IInv
<1>3. CASE ~LeftUnfulfilled
  <2>1. UNCHANGED <<exc, done, waiter>>
    BY <1>3
  <2>2. TypeOK'
    BY <1>1, <2>1 DEF IInv, TypeOK
  <2>3. CallsAreTyped' /\ QuietWhenDestroyed' /\ OneState' /\ ReadyHasValue' /\ NobodySleepsOnReady'
    BY <1>1, <2>1 DEF IInv, CallsAreTyped, QuietWhenDestroyed, OneState, ReadyHasValue, NobodySleepsOnReady
  <2>4. DestroyedMeansReady'
    BY <1>1, <1>3, <2>1 DEF IInv, DestroyedMeansReady, OneState, LeftUnfulfilled
  <2> QED
    BY <2>2, <2>3, <2>4 DEF IInv
<1> QED
  BY <1>2, <1>3

\* The waiters change nothing but themselves.
LEMMA WaiterIInv ==
    ASSUME IInv, NEW w \in Waiters,
           \/ \E b \in BOOLEAN : WaitBegin(w, b)
           \/ WaitResume(w) \/ WaitSpurious(w) \/ WaitExpire(w) \/ WaitTimeout(w)
    PROVE  IInv'
<1> USE DEF WaitBegin, WaitResume, WaitSpurious, WaitExpire, WaitTimeout, TestDone, stateVars, promiseVars
<1>1. UNCHANGED <<done, exc, result, constructed, shared, obtained, promise, pc, op, future>>
  OBVIOUS
<1>2. future \in Threads /\ future # Nothing
  BY DEF IInv, OneState, TypeOK
<1>3. /\ waiter' \in [Waiters -> {"idle", "waiting", "woken", "expired", "returned"}]
      /\ \A v \in Waiters : v # w => waiter'[v] = waiter[v] /\ outcome'[v] = outcome[v]
      /\ waiter'[w] = "waiting" => ~done[future]
      /\ waiter[w] # "returned"
  BY DEF IInv, TypeOK
<1>4. timed' \in [Waiters -> BOOLEAN]
  BY DEF IInv, TypeOK
<1>5. /\ outcome' \in [Waiters -> Setters \cup {"broken", "ready", "timeout", Nothing}]
      /\ outcome'[w] # Nothing <=> waiter'[w] = "returned"
  <2> DEFINE Outcomes == Setters \cup {"broken", "ready", "timeout", Nothing}
  <2>1. outcome \in [Waiters -> Outcomes] /\ waiter \in [Waiters -> {"idle", "waiting", "woken", "expired", "returned"}]
    BY DEF IInv, TypeOK
  <2>2. waiter[w] # "returned" /\ outcome[w] = Nothing
    BY <1>3 DEF IInv, TypeOK
  <2>3. CASE waiter' = [waiter EXCEPT ![w] = "returned"]
    <3>1. \/ outcome' = [outcome EXCEPT ![w] = LateStatus]
          \/ outcome' = [outcome EXCEPT ![w] = Given(w)] /\ done[future]
      <4>1. waiter'[w] = "returned"
        BY <2>1, <2>3
      <4>2. CASE WaitSpurious(w) \/ WaitExpire(w)
        BY <2>1, <4>1, <4>2
      <4>3. CASE WaitTimeout(w)
        BY <4>3
      <4>4. CASE WaitResume(w) \/ \E b \in BOOLEAN : WaitBegin(w, b)
        <5>1. TestDone(w)
          BY <4>4
        <5> QED
          BY <2>1, <4>1, <5>1
      <4> QED
        BY <4>2, <4>3, <4>4
    <3>2. LateStatus \in Outcomes /\ LateStatus # Nothing
      BY ThreadsAssumption DEF LateStatus
    <3>3. ASSUME done[future] PROVE Given(w) \in Outcomes /\ Given(w) # Nothing
      BY <1>2, <3>3, ThreadsAssumption DEF Given, IInv, TypeOK, ReadyHasValue
    <3> HIDE DEF WaitBegin, WaitResume, WaitSpurious, WaitExpire, WaitTimeout, TestDone
    <3>4. PICK x \in Outcomes : x # Nothing /\ outcome' = [outcome EXCEPT ![w] = x]
      BY <3>1, <3>2, <3>3
    <3> QED
      BY <2>1, <2>3, <3>4
  <2>4. CASE waiter' # [waiter EXCEPT ![w] = "returned"]
    <3>1. UNCHANGED outcome /\ waiter'[w] # "returned"
      BY <2>1, <2>4
    <3> QED
      BY <2>1, <2>2, <3>1
  <2> QED
    BY <2>3, <2>4
<1>6. TypeOK'
  BY <1>1, <1>3, <1>4, <1>5 DEF IInv, TypeOK
<1>7. CallsAreTyped' /\ QuietWhenDestroyed' /\ ReadyHasValue' /\ DestroyedMeansReady'
  BY <1>1 DEF IInv, CallsAreTyped, QuietWhenDestroyed, ReadyHasValue, DestroyedMeansReady
<1>8. OneState' /\ NobodySleepsOnReady'
  BY <1>1, <1>2, <1>3 DEF IInv, OneState, NobodySleepsOnReady
<1> QED
  BY <1>6, <1>7, <1>8 DEF IInv

\* Every step preserves the invariant.
LEMMA NextIInv == IInv /\ [Next]_vars => IInv'
<1> SUFFICES ASSUME IInv, [Next]_vars PROVE IInv'
  OBVIOUS
<1>1. CASE UNCHANGED vars
  BY <1>1 DEF IInv, vars, stateVars, promiseVars, waiterVars, TypeOK, CallsAreTyped, OneState,
              QuietWhenDestroyed, ReadyHasValue, NobodySleepsOnReady, DestroyedMeansReady
<1>2. CASE Next
  BY <1>1, <1>2, LazyInitIInv, GetFutureIInv, SetIInv, OtherSetterIInv, DestroyIInv, WaiterIInv
     DEF Next, SetterStep, Finished
<1> QED
  BY <1>1, <1>2

\* The inductive invariant holds in every reachable state.
THEOREM Invariance == Spec => []IInv
  BY InitIInv, NextIInv, PTL DEF Spec

\* No notification is lost: a thread sleeps only on a state that is not ready.
THEOREM NoLostWakeup == Spec => []NobodySleepsOnReady
<1>1. IInv => NobodySleepsOnReady
  BY DEF IInv
<1> QED
  BY <1>1, Invariance, PTL

\* ~promise() leaves the future ready, or with a value for thread exit.
THEOREM DestructorFulfils == Spec => []DestroyedMeansReady
<1>1. IInv => DestroyedMeansReady
  BY DEF IInv
<1> QED
  BY <1>1, Invariance, PTL
=============================================================================
