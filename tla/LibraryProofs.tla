---------------------------- MODULE LibraryProofs ----------------------------
(***************************************************************************)
(* Proofs about Library, for any publications, identifiers and content     *)
(* modules: the library keeps the container of every package it hands out  *)
(* where maps have emplace(), a container that a content module opened is  *)
(* returned after the module's filters have been registered, and a saved   *)
(* publication survives the process.                                       *)
(***************************************************************************)
EXTENDS Library, FiniteSetTheorems, TLAPS

\* The fields of the records; what a container is numbered does not matter.
Shapes ==
    /\ open = [pc |-> open.pc, path |-> open.path, left |-> open.left, before |-> open.before,
               value |-> open.value, by |-> open.by, chain |-> open.chain]
    /\ fut = [state |-> fut.state, by |-> fut.by, value |-> fut.value]
    /\ call = [op |-> call.op, id |-> call.id, todo |-> call.todo]

\* Which paths are known, saved and opened: the empty one, which Load() may
\* have added, has no container.
PathsAreKnown ==
    /\ \A p \in DOMAIN containers : p \in Paths \/ (p = EmptyPath /\ containers[p] = Null)
    /\ \A i \in DOMAIN packages : packages[i].path \in Paths
    /\ file \in Seq({Line(p) : p \in Paths})
    /\ open.path \in Paths \cup {EmptyPath}
    /\ call.op \in {"add", "find"} => open.path \in Paths
    /\ call.op = "save" => call.todo \subseteq DOMAIN containers
    /\ open.path = EmptyPath => ~IsContainer(open.value) /\ ~IsContainer(fut.value)

\* A path that is known has all its identifiers in the map of packages.
IdsAreKnown ==
    \A p \in DOMAIN containers : p \in Paths => Contents[p] \subseteq DOMAIN packages

\* How far the future and its module are, and what is in the chains then.
FutureKeepsUp ==
    /\ open.before \subseteq filters
    /\ IF fut.state = "taken" THEN fut.value = Null ELSE open.pc \in {"check", "get"}
    /\ open.pc \in {"closed", "asking", "check", "get", "default"} => open.by = SDK
    /\ fut.state \in {"answered", "ready"} /\ IsContainer(fut.value) => open.before \subseteq open.chain
    /\ fut.state = "ready" /\ IsContainer(fut.value) /\ fut.by # SDK => fut.by \in filters
    /\ open.pc = "done" /\ IsContainer(open.value) /\ open.by # SDK =>
           open.by \in filters /\ open.before \subseteq open.chain

IInv == Shapes /\ PathsAreKnown /\ IdsAreKnown /\ FutureKeepsUp /\ OwnersAlive

-----------------------------------------------------------------------------
\* The new library is empty.
LEMMA InitIInv == Init => IInv
<1> SUFFICES ASSUME Init PROVE IInv
  OBVIOUS
<1> USE DEF Init, Closed, NoFuture, Idle, EmptyMap
<1>1. Shapes
  BY DEF Shapes
<1>2. PathsAreKnown
  BY DEF PathsAreKnown, IsContainer, Null, EmptyPath
<1>3. IdsAreKnown /\ OwnersAlive
  BY DEF IdsAreKnown, OwnersAlive
<1>4. FutureKeepsUp
  BY DEF FutureKeepsUp, IsContainer, Null, SDK
<1> QED
  BY <1>1, <1>2, <1>3, <1>4 DEF IInv

-----------------------------------------------------------------------------
\* AddPublicationsInContainer(), for whatever container
LEMMA AddedMaps ==
    ASSUME IInv, NEW path \in Paths, NEW c, AddPublicationsInContainer(path, c), UNCHANGED emplace
    PROVE  /\ \A p \in DOMAIN containers' : p \in Paths \/ (p = EmptyPath /\ containers'[p] = Null)
           /\ \A i \in DOMAIN packages' : packages'[i].path \in Paths
           /\ IdsAreKnown' /\ OwnersAlive'
<1>1. /\ DOMAIN containers' = DOMAIN containers \cup {path}
      /\ \A p \in DOMAIN containers : containers'[p] = containers[p]
      /\ path \notin DOMAIN containers => containers'[path] = c
  BY DEF AddPublicationsInContainer, WithContainer, Entry, Merged
<1>2. /\ DOMAIN Entries(path, c) = Contents[path]
      /\ \A i \in Contents[path] : Entries(path, c)[i].path = path /\ Entries(path, c)[i].pkg = c
  BY DEF Entries
<1>3. DOMAIN packages' = DOMAIN packages \cup Contents[path]
  BY <1>2 DEF AddPublicationsInContainer, WithPackages, Merged
<1>4. \A i \in DOMAIN packages' : \/ i \in DOMAIN packages /\ packages'[i] = packages[i]
                                  \/ /\ packages'[i].path = path /\ packages'[i].pkg = c
                                     /\ emplace => i \notin DOMAIN packages /\ i \in Contents[path]
  BY <1>2 DEF AddPublicationsInContainer, WithPackages, Merged
<1>5. \A p \in DOMAIN containers' : p \in Paths \/ (p = EmptyPath /\ containers'[p] = Null)
  BY <1>1 DEF IInv, PathsAreKnown
<1>6. \A i \in DOMAIN packages' : packages'[i].path \in Paths
  BY <1>4 DEF IInv, PathsAreKnown
<1>7. IdsAreKnown'
  BY <1>1, <1>3 DEF IInv, IdsAreKnown
<1>8. OwnersAlive'
  <2> SUFFICES ASSUME emplace, NEW i \in DOMAIN packages', packages'[i].pkg # Null
               PROVE  /\ packages'[i].path \in DOMAIN containers'
                      /\ containers'[packages'[i].path] = packages'[i].pkg
    BY DEF OwnersAlive, Known
  <2>1. CASE i \in DOMAIN packages /\ packages'[i] = packages[i]
    BY <1>1, <2>1 DEF IInv, OwnersAlive, Known
  <2>2. CASE packages'[i].path = path /\ packages'[i].pkg = c /\ i \notin DOMAIN packages /\ i \in Contents[path]
    <3>1. path \notin DOMAIN containers
      BY <2>2 DEF IInv, IdsAreKnown
    <3> QED
      BY <1>1, <2>2, <3>1
  <2> QED
    BY <1>4, <2>1, <2>2
<1> QED
  BY <1>5, <1>6, <1>7, <1>8

\* OpenContainer() begins.
LEMMA BeginIInv ==
    ASSUME IInv, NEW path \in Paths \cup {EmptyPath}, BeginOpen(path), UNCHANGED <<emplace, filters, library>>,
           file' = file, call' = [op |-> call'.op, id |-> call'.id, todo |-> call'.todo],
           call'.op \in {"add", "find"} => path \in Paths,
           call'.op = "save" => call'.todo \subseteq DOMAIN containers
    PROVE  IInv'
<1> USE DEF BeginOpen, NoFuture, library
<1>1. Shapes'
  BY DEF Shapes
<1>2. PathsAreKnown'
  BY DEF IInv, PathsAreKnown, IsContainer, Null
<1>3. IdsAreKnown' /\ OwnersAlive'
  BY DEF IInv, IdsAreKnown, OwnersAlive, Known
<1>4. FutureKeepsUp'
  BY DEF IInv, FutureKeepsUp, IsContainer, Null, SDK
<1> QED
  BY <1>1, <1>2, <1>3, <1>4 DEF IInv

\* A step of OpenContainer() leaves the library alone.
LEMMA OpenStep ==
    ASSUME IInv, UNCHANGED <<emplace, library, file, call>>, Shapes', FutureKeepsUp',
           open'.path = open.path,
           open.path = EmptyPath => ~IsContainer(open'.value) /\ ~IsContainer(fut'.value)
    PROVE  IInv'
<1>1. PathsAreKnown'
  BY DEF IInv, PathsAreKnown, library
<1>2. IdsAreKnown' /\ OwnersAlive'
  BY DEF IInv, IdsAreKnown, OwnersAlive, Known, library
<1> QED
  BY <1>1, <1>2 DEF IInv

\* LoadContentAtPath() asks a module.
LEMMA AskIInv ==
    ASSUME IInv, AskModule
    PROVE  IInv'
<1>1. UNCHANGED <<emplace, filters, library, file, call>> /\ open.pc = "asking"
  BY DEF AskModule
<1>2. Shapes /\ PathsAreKnown /\ FutureKeepsUp
  BY DEF IInv
<1>3. PICK pc, left, value, chain :
          /\ open' = [pc |-> pc, path |-> open.path, left |-> left, before |-> open.before,
                      value |-> value, by |-> open.by, chain |-> chain]
          /\ \/ pc \in {"check", "asking"} /\ value = open.value /\ fut' = NoFuture
             \/ pc = "done" /\ value = Threw /\ fut' = NoFuture
             \/ /\ pc = "check" /\ value = open.value /\ chain = filters /\ open.path # EmptyPath
                /\ fut' = [state |-> fut'.state, by |-> fut'.by, value |-> fut'.value]
                /\ fut'.state \in {"answered", "pending", "deferred"}
  <2> DEFINE m == Min(open.left)
  <2>1. CASE /\ open' = [open EXCEPT !.left = @ \ {m}, !.pc = IF open.left = {m} THEN "check" ELSE "asking"]
             /\ fut' = NoFuture
    <3> DEFINE next == IF open.left = {m} THEN "check" ELSE "asking"
    <3>1. open' = [pc |-> next, path |-> open.path, left |-> open.left \ {m}, before |-> open.before,
                   value |-> open.value, by |-> open.by, chain |-> open.chain]
      BY <1>2, <2>1 DEF Shapes
    <3>2. next \in {"check", "asking"}
      OBVIOUS
    <3> QED
      BY <2>1, <3>1, <3>2
  <2>2. CASE open' = [open EXCEPT !.pc = "done", !.value = Threw] /\ fut' = NoFuture
    <3>1. open' = [pc |-> "done", path |-> open.path, left |-> open.left, before |-> open.before,
                   value |-> Threw, by |-> open.by, chain |-> open.chain]
      BY <1>2, <2>2 DEF Shapes
    <3> QED
      BY <2>2, <3>1
  <2>3. CASE /\ open.path # EmptyPath
             /\ open' = [open EXCEPT !.pc = "check", !.chain = filters]
             /\ fut' \in {[state |-> "answered", by |-> m, value |-> Fresh]}
                    \cup [state : {"pending", "deferred"}, by : {m}, value : {Null}]
    <3>1. open' = [pc |-> "check", path |-> open.path, left |-> open.left, before |-> open.before,
                   value |-> open.value, by |-> open.by, chain |-> filters]
      BY <1>2, <2>3 DEF Shapes
    <3>2. /\ fut' = [state |-> fut'.state, by |-> fut'.by, value |-> fut'.value]
          /\ fut'.state \in {"answered", "pending", "deferred"}
      BY <2>3
    <3> QED
      BY <2>3, <3>1, <3>2
  <2> QED
    BY <2>1, <2>2, <2>3 DEF AskModule
<1>4. Shapes'
  BY <1>1, <1>2, <1>3 DEF Shapes, NoFuture
<1>5. FutureKeepsUp'
  BY <1>1, <1>2, <1>3 DEF FutureKeepsUp, NoFuture, IsContainer, Threw
<1>6. open.path = EmptyPath => ~IsContainer(open'.value) /\ ~IsContainer(fut'.value)
  BY <1>2, <1>3 DEF PathsAreKnown, NoFuture, IsContainer, Threw, Null
<1> QED
  BY <1>1, <1>3, <1>4, <1>5, <1>6, OpenStep

\* A content module answers.
LEMMA AnswerIInv ==
    ASSUME IInv, ModuleAnswers
    PROVE  IInv'
<1>1. UNCHANGED <<emplace, filters, library, file, call>> /\ fut.state = "pending"
  BY DEF ModuleAnswers
<1>2. PICK c \in Outcomes(open.path) : fut' = [fut EXCEPT !.state = "answered", !.value = c]
  BY DEF ModuleAnswers
<1>3. open' = [open EXCEPT !.chain = filters]
  BY DEF ModuleAnswers
<1>4. Shapes /\ FutureKeepsUp
  BY DEF IInv
<1>5. /\ open' = [pc |-> open.pc, path |-> open.path, left |-> open.left, before |-> open.before,
                  value |-> open.value, by |-> open.by, chain |-> filters]
      /\ fut' = [state |-> "answered", by |-> fut.by, value |-> c]
  BY <1>2, <1>3, <1>4 DEF Shapes
<1>6. Shapes'
  BY <1>1, <1>4, <1>5 DEF Shapes
<1>7. FutureKeepsUp'
  BY <1>1, <1>4, <1>5 DEF FutureKeepsUp
<1>8. open.path = EmptyPath => ~IsContainer(open'.value) /\ ~IsContainer(fut'.value)
  BY <1>5 DEF IInv, PathsAreKnown, Outcomes, IsContainer, Threw
<1> QED
  BY <1>1, <1>5, <1>6, <1>7, <1>8, OpenStep

\* The continuation registers the module's filters.
LEMMA ContinueIInv ==
    ASSUME IInv, Continue
    PROVE  IInv'
<1>1. UNCHANGED <<emplace, open, library, file, call>> /\ fut.state = "answered"
  BY DEF Continue, Launched
<1>2. Shapes /\ FutureKeepsUp
  BY DEF IInv
<1>3. fut' = [state |-> "ready", by |-> fut.by, value |-> fut.value]
  BY <1>2 DEF Continue, Shapes
<1>4. filters' = Continued(fut.value, fut.by)
  BY DEF Continue
<1>5. filters \subseteq filters' /\ (IsContainer(fut.value) => fut.by \in filters')
  BY <1>4 DEF Continued, IsContainer, Threw
<1>6. Shapes'
  BY <1>1, <1>2, <1>3 DEF Shapes
<1>7. FutureKeepsUp'
  BY <1>1, <1>2, <1>3, <1>5 DEF FutureKeepsUp
<1>8. open.path = EmptyPath => ~IsContainer(open'.value) /\ ~IsContainer(fut'.value)
  BY <1>1, <1>3 DEF IInv, PathsAreKnown
<1> QED
  BY <1>1, <1>6, <1>7, <1>8, OpenStep

\* OpenContainer() looks at the future, or gets its value.
LEMMA TakeIInv ==
    ASSUME IInv, CheckFuture \/ Get
    PROVE  IInv'
<1>1. UNCHANGED <<emplace, filters, library, file, call>> /\ open.pc \in {"check", "get"}
  BY DEF CheckFuture, Get
<1>2. Shapes /\ PathsAreKnown /\ FutureKeepsUp
  BY DEF IInv
<1>3. \/ /\ fut.state = "ready" /\ fut' = NoFuture
         /\ open' = [pc |-> "done", path |-> open.path, left |-> open.left, before |-> open.before,
                     value |-> fut.value, by |-> fut.by, chain |-> open.chain]
      \/ /\ fut.state = "taken" /\ fut' = fut
         /\ open' = [pc |-> "done", path |-> open.path, left |-> open.left, before |-> open.before,
                     value |-> Threw, by |-> open.by, chain |-> open.chain]
      \/ /\ fut' \in {fut, NoFuture}
         /\ open' = [pc |-> open'.pc, path |-> open.path, left |-> open.left, before |-> open.before,
                     value |-> open.value, by |-> open.by, chain |-> open.chain]
         /\ open'.pc = "get" \/ (open'.pc = "default" /\ fut' = NoFuture)
  <2>1. CASE Get
    BY <1>2, <2>1 DEF Get, Shapes
  <2>2. CASE CheckFuture
    <3>1. CASE fut.state = "taken"
      BY <1>2, <2>2, <3>1 DEF CheckFuture, Shapes
    <3>2. CASE fut.state = "ready" /\ fut.value = Null
      BY <1>2, <2>2, <3>2 DEF CheckFuture, Shapes
    <3>3. CASE fut.state = "ready" /\ fut.value # Null
      BY <1>2, <2>2, <3>3 DEF CheckFuture, Shapes
    <3>4. CASE fut.state \notin {"taken", "ready"}
      <4>1. fut' = fut /\ open' = [open EXCEPT !.pc = "get"]
        BY <2>2, <3>4 DEF CheckFuture
      <4>2. open' = [pc |-> "get", path |-> open.path, left |-> open.left, before |-> open.before,
                     value |-> open.value, by |-> open.by, chain |-> open.chain]
        BY <1>2, <4>1 DEF Shapes
      <4>3. open'.pc = "get"
        BY <4>2
      <4>4. open' = [pc |-> open'.pc, path |-> open.path, left |-> open.left, before |-> open.before,
                     value |-> open.value, by |-> open.by, chain |-> open.chain]
        BY <4>2, <4>3
      <4>5. fut' \in {fut, NoFuture}
        BY <4>1
      <4> QED
        BY <4>3, <4>4, <4>5
    <3> QED
      BY <3>1, <3>2, <3>3, <3>4
  <2> QED
    BY <2>1, <2>2
<1>4. Shapes'
  BY <1>1, <1>2, <1>3 DEF Shapes, NoFuture
<1>5. FutureKeepsUp'
  BY <1>1, <1>2, <1>3 DEF FutureKeepsUp, NoFuture, IsContainer, Threw
<1>6. open.path = EmptyPath => ~IsContainer(open'.value) /\ ~IsContainer(fut'.value)
  BY <1>2, <1>3 DEF PathsAreKnown, NoFuture, IsContainer, Threw, Null
<1>7. open'.path = open.path
  BY <1>3
<1> QED
  BY <1>1, <1>4, <1>5, <1>6, <1>7, OpenStep

\* get() runs a deferred module, or the SDK opens the file itself.
LEMMA OpenIInv ==
    ASSUME IInv, GetDeferred \/ OpenDefault
    PROVE  IInv'
<1>1. UNCHANGED <<emplace, library, file, call>>
  BY DEF GetDeferred, OpenDefault
<1>2. Shapes /\ PathsAreKnown /\ FutureKeepsUp
  BY DEF IInv
<1>3. CASE GetDeferred
  <2>1. PICK c \in Outcomes(open.path) :
            /\ open' = [open EXCEPT !.pc = IF c = Threw THEN "crashed" ELSE "done",
                                    !.value = c, !.by = fut.by, !.chain = filters]
            /\ filters' = Continued(c, fut.by)
    BY <1>3 DEF GetDeferred
  <2>2. fut' = NoFuture
    BY <1>3 DEF GetDeferred
  <2> DEFINE end == IF c = Threw THEN "crashed" ELSE "done"
  <2>3. open' = [pc |-> end, path |-> open.path, left |-> open.left, before |-> open.before,
                 value |-> c, by |-> fut.by, chain |-> filters]
    BY <1>2, <2>1 DEF Shapes
  <2>4. filters \subseteq filters' /\ (IsContainer(c) => fut.by \in filters')
    BY <2>1 DEF Continued, IsContainer, Threw
  <2>5. end \in {"crashed", "done"}
    OBVIOUS
  <2> HIDE DEF end
  <2>6. Shapes'
    BY <1>1, <1>2, <2>2, <2>3 DEF Shapes, NoFuture
  <2>7. FutureKeepsUp'
    BY <1>2, <2>2, <2>3, <2>4, <2>5 DEF FutureKeepsUp, NoFuture
  <2>8. open.path = EmptyPath => ~IsContainer(open'.value) /\ ~IsContainer(fut'.value)
    BY <2>1, <2>2, <2>3 DEF Outcomes, NoFuture, IsContainer, Threw, Null
  <2> QED
    BY <1>1, <2>3, <2>6, <2>7, <2>8, OpenStep
<1>4. CASE OpenDefault
  <2>1. PICK c \in Outcomes(open.path) : open' = [open EXCEPT !.pc = "done", !.value = c]
    BY <1>4 DEF OpenDefault
  <2>2. UNCHANGED <<fut, filters>> /\ open.pc = "default"
    BY <1>4 DEF OpenDefault
  <2>3. open' = [pc |-> "done", path |-> open.path, left |-> open.left, before |-> open.before,
                 value |-> c, by |-> open.by, chain |-> open.chain]
    BY <1>2, <2>1 DEF Shapes
  <2>4. Shapes'
    BY <1>1, <1>2, <2>2, <2>3 DEF Shapes
  <2>5. FutureKeepsUp'
    BY <1>2, <2>2, <2>3 DEF FutureKeepsUp
  <2>6. open.path = EmptyPath => ~IsContainer(open'.value) /\ ~IsContainer(fut'.value)
    BY <1>2, <2>1, <2>2, <2>3 DEF PathsAreKnown, Outcomes, IsContainer, Threw
  <2> QED
    BY <1>1, <2>3, <2>4, <2>5, <2>6, OpenStep
<1> QED
  BY <1>3, <1>4

-----------------------------------------------------------------------------
\* A call returns, and with it OpenContainer(), if it was called.
LEMMA ClosedKeepsUp ==
    ASSUME IInv, open' = Closed, UNCHANGED <<fut, filters>>, open.pc \in {"closed", "done"}
    PROVE  FutureKeepsUp'
  BY DEF IInv, FutureKeepsUp, Closed, IsContainer, Null, SDK

\* The client adds publications, or looks one up.
LEMMA AddIInv ==
    ASSUME IInv,
           \/ \E p \in Paths : AddOpened(p) \/ AddPublications(p)
           \/ \E i \in Ids : PackageForEPubURL(i)
           \/ AddReturns
    PROVE  IInv'
<1>1. ASSUME NEW p \in Paths, AddOpened(p) PROVE IInv'
  <2>1. UNCHANGED <<emplace, filters, open, fut, file, call>> /\ AddPublicationsInContainer(p, Fresh)
    BY <1>1 DEF AddOpened
  <2>2. /\ \A q \in DOMAIN containers' : q \in Paths \/ (q = EmptyPath /\ containers'[q] = Null)
        /\ \A i \in DOMAIN packages' : packages'[i].path \in Paths
        /\ IdsAreKnown' /\ OwnersAlive'
    BY <2>1, AddedMaps
  <2>3. call.op = "none"
    BY <1>1 DEF AddOpened, Ready, Idle
  <2>4. PathsAreKnown'
    BY <2>1, <2>2, <2>3 DEF IInv, PathsAreKnown
  <2>5. Shapes' /\ FutureKeepsUp'
    BY <2>1 DEF IInv, Shapes, FutureKeepsUp
  <2> QED
    BY <2>2, <2>4, <2>5 DEF IInv
<1>2. ASSUME NEW p \in Paths, AddPublications(p) PROVE IInv'
  <2>1. /\ BeginOpen(p) /\ UNCHANGED <<emplace, filters, library>> /\ file' = file
        /\ call' = [op |-> "add", id |-> 0, todo |-> {}]
    BY <1>2 DEF AddPublications, Idle
  <2> QED
    BY <2>1, BeginIInv
<1>3. ASSUME NEW i \in Ids, PackageForEPubURL(i) PROVE IInv'
  <2>1. /\ BeginOpen(packages[i].path) /\ UNCHANGED <<emplace, filters, library>> /\ file' = file
        /\ call' = [op |-> "find", id |-> i, todo |-> {}]
    BY <1>3 DEF PackageForEPubURL, Idle
  <2>2. packages[i].path \in Paths
    BY <1>3 DEF PackageForEPubURL, MustLoad, IInv, PathsAreKnown
  <2> QED
    BY <2>1, <2>2, BeginIInv
<1>4. CASE AddReturns
  <2>1. /\ UNCHANGED <<emplace, filters, fut, file>> /\ open' = Closed /\ call' = Idle
        /\ open.pc = "done" /\ call.op \in {"add", "find"}
    BY <1>4 DEF AddReturns
  <2>2. Shapes' /\ FutureKeepsUp'
    BY <2>1, ClosedKeepsUp DEF IInv, Shapes, Closed, Idle
  <2>3. open.path \in Paths
    BY <2>1 DEF IInv, PathsAreKnown
  <2>4. fut.value = Null
    BY <2>1 DEF IInv, FutureKeepsUp
  <2>5. CASE UNCHANGED library
    <3>1. IdsAreKnown' /\ OwnersAlive'
      BY <2>1, <2>5 DEF IInv, IdsAreKnown, OwnersAlive, Known, library
    <3>2. PathsAreKnown'
      BY <2>1, <2>4, <2>5 DEF IInv, PathsAreKnown, library, Closed, Idle, IsContainer, Null
    <3> QED
      BY <2>2, <3>1, <3>2 DEF IInv
  <2>6. CASE AddPublicationsInContainer(open.path, open.value)
    <3>1. /\ \A q \in DOMAIN containers' : q \in Paths \/ (q = EmptyPath /\ containers'[q] = Null)
          /\ \A i \in DOMAIN packages' : packages'[i].path \in Paths
          /\ IdsAreKnown' /\ OwnersAlive'
      BY <2>1, <2>3, <2>6, AddedMaps
    <3>2. PathsAreKnown'
      BY <2>1, <2>4, <3>1 DEF IInv, PathsAreKnown, Closed, Idle, IsContainer, Null
    <3> QED
      BY <2>2, <3>1, <3>2 DEF IInv
  <2> QED
    BY <1>4, <2>5, <2>6 DEF AddReturns
<1> QED
  BY <1>1, <1>2, <1>3, <1>4

\* The library is saved.
LEMMA SaveIInv ==
    ASSUME IInv, WriteToFile \/ WriteLine \/ WriteOpened \/ WriteReturns
    PROVE  IInv'
<1>1. UNCHANGED <<emplace, filters, library>>
  BY DEF WriteToFile, WriteLine, WriteOpened, WriteReturns
<1>2. IdsAreKnown' /\ OwnersAlive'
  BY <1>1 DEF IInv, IdsAreKnown, OwnersAlive, Known, library
<1>3. ASSUME NEW p \in Paths PROVE Append(file, Line(p)) \in Seq({Line(q) : q \in Paths})
  <2>1. Line(p) \in {Line(q) : q \in Paths} /\ file \in Seq({Line(q) : q \in Paths})
    BY DEF IInv, PathsAreKnown
  <2> QED
    BY <2>1
<1>4. CASE WriteToFile
  <2>1. /\ UNCHANGED <<open, fut>> /\ file' = <<>>
        /\ call' = [op |-> "save", id |-> 0, todo |-> DOMAIN containers]
    BY <1>4 DEF WriteToFile, Idle
  <2>2. Shapes' /\ FutureKeepsUp'
    BY <1>1, <2>1 DEF IInv, Shapes, FutureKeepsUp
  <2>3. PathsAreKnown'
    BY <1>1, <2>1 DEF IInv, PathsAreKnown, library
  <2> QED
    BY <1>2, <2>2, <2>3 DEF IInv
<1>5. CASE WriteLine
  <2>1. PICK p \in call.todo :
            \/ BeginOpen(p) /\ UNCHANGED <<file, call>>
            \/ /\ containers[p] # Null /\ file' = Append(file, Line(p))
               /\ call' = [call EXCEPT !.todo = @ \ {p}] /\ UNCHANGED <<open, fut>>
    BY <1>5 DEF WriteLine
  <2>2. call.op = "save"
    BY <1>5 DEF WriteLine, Saving
  <2>3. p \in DOMAIN containers /\ call.todo \subseteq DOMAIN containers
    BY <2>2 DEF IInv, PathsAreKnown
  <2>4. CASE BeginOpen(p) /\ UNCHANGED <<file, call>>
    <3>1. p \in Paths \cup {EmptyPath}
      BY <2>3 DEF IInv, PathsAreKnown
    <3>2. call' = [op |-> call'.op, id |-> call'.id, todo |-> call'.todo]
      BY <2>4 DEF IInv, Shapes
    <3> QED
      BY <1>1, <2>2, <2>3, <2>4, <3>1, <3>2, BeginIInv
  <2>5. CASE /\ containers[p] # Null /\ file' = Append(file, Line(p))
             /\ call' = [call EXCEPT !.todo = @ \ {p}] /\ UNCHANGED <<open, fut>>
    <3>1. p \in Paths
      BY <2>3, <2>5 DEF IInv, PathsAreKnown
    <3>2. call' = [op |-> call.op, id |-> call.id, todo |-> call.todo \ {p}]
      BY <2>5 DEF IInv, Shapes
    <3>3. file' \in Seq({Line(q) : q \in Paths})
      BY <1>3, <2>5, <3>1
    <3>4. Shapes' /\ FutureKeepsUp'
      BY <1>1, <2>5, <3>2 DEF IInv, Shapes, FutureKeepsUp
    <3>5. PathsAreKnown'
      BY <1>1, <2>2, <2>3, <2>5, <3>2, <3>3 DEF IInv, PathsAreKnown, library, Line
    <3> QED
      BY <1>2, <3>4, <3>5 DEF IInv
  <2> QED
    BY <2>1, <2>4, <2>5
<1>6. CASE WriteOpened
  <2>1. open' = Closed /\ fut' = fut /\ open.pc = "done" /\ call.op = "save"
    BY <1>6 DEF WriteOpened, Saving
  <2>2. file' \in Seq({Line(q) : q \in Paths})
    <3>1. CASE IsContainer(open.value)
      <4>1. open.path \in Paths
        BY <3>1 DEF IInv, PathsAreKnown
      <4>2. file' = Append(file, Line(open.path))
        BY <1>6, <3>1 DEF WriteOpened
      <4> QED
        BY <1>3, <4>1, <4>2
    <3>2. CASE ~IsContainer(open.value)
      BY <1>6, <3>2 DEF WriteOpened, IInv, PathsAreKnown
    <3> QED
      BY <3>1, <3>2
  <2>3. \/ call' = [op |-> call.op, id |-> call.id, todo |-> call.todo \ {open.path}]
        \/ call' = Idle
    BY <1>6 DEF WriteOpened, IInv, Shapes
  <2>4. Shapes'
    BY <2>1, <2>3 DEF IInv, Shapes, Closed, Idle
  <2>5. FutureKeepsUp' /\ fut.value = Null
    BY <1>1, <2>1, ClosedKeepsUp DEF IInv, FutureKeepsUp
  <2>6. /\ call'.op \notin {"add", "find"}
        /\ call'.op = "save" => call'.todo \subseteq DOMAIN containers
    BY <2>1, <2>3 DEF IInv, PathsAreKnown, Idle
  <2>7. PathsAreKnown'
    BY <1>1, <2>1, <2>2, <2>5, <2>6 DEF IInv, PathsAreKnown, library, Closed, IsContainer, Null, Line
  <2> QED
    BY <1>2, <2>4, <2>5, <2>7 DEF IInv
<1>7. CASE WriteReturns
  <2>1. UNCHANGED <<open, fut, file>> /\ call' = Idle
    BY <1>7 DEF WriteReturns
  <2>2. Shapes' /\ FutureKeepsUp'
    BY <1>1, <2>1 DEF IInv, Shapes, FutureKeepsUp, Idle
  <2>3. PathsAreKnown'
    BY <1>1, <2>1 DEF IInv, PathsAreKnown, library, Idle
  <2> QED
    BY <1>2, <2>2, <2>3 DEF IInv
<1> QED
  BY <1>4, <1>5, <1>6, <1>7

\* The process ends, and the next one loads what has been saved: the packages
\* of the first line, and the path of the first line, with no container.
LEMMA RestartIInv ==
    ASSUME IInv, Restart
    PROVE  IInv'
<1>1. /\ filters' = {} /\ open' = Closed /\ fut' = NoFuture /\ call' = Idle /\ UNCHANGED <<emplace, file>>
      /\ containers' = LoadedContainers /\ packages' = LoadedPackages
  BY DEF Restart
<1>2. Shapes' /\ FutureKeepsUp'
  BY <1>1 DEF Shapes, FutureKeepsUp, Closed, NoFuture, Idle, IsContainer, Null, SDK
<1>3. file \in Seq({Line(p) : p \in Paths})
  BY DEF IInv, PathsAreKnown
<1>4. CASE file = <<>>
  <2>1. containers' = EmptyMap /\ packages' = EmptyMap
    BY <1>1, <1>4 DEF LoadedContainers, LoadedPackages
  <2>2. PathsAreKnown'
    BY <1>1, <1>3, <2>1 DEF PathsAreKnown, EmptyMap, Closed, NoFuture, Idle, IsContainer, Null, Line
  <2>3. IdsAreKnown' /\ OwnersAlive'
    BY <2>1 DEF IdsAreKnown, OwnersAlive, EmptyMap
  <2> QED
    BY <1>2, <2>2, <2>3 DEF IInv
<1>5. CASE file # <<>>
  <2>1. file[1] \in {Line(p) : p \in Paths}
    BY <1>3, <1>5
  <2>2. PICK p \in Paths : file[1].path = p /\ file[1].ids = Contents[p]
    BY <2>1 DEF Line
  <2>3. packages' = [i \in Contents[p] |-> [path |-> p, pkg |-> Null]]
    BY <1>1, <1>5, <2>2 DEF LoadedPackages
  <2>4. DOMAIN packages' = Contents[p] /\ \A i \in Contents[p] : packages'[i].path = p /\ packages'[i].pkg = Null
    BY <2>3
  <2>5. containers' \in {Entry(p, Null), Merged(Entry(p, Null), Entry(EmptyPath, Null))}
    BY <1>1, <1>5, <2>2 DEF LoadedContainers
  <2>6. /\ DOMAIN containers' \subseteq {p, EmptyPath}
        /\ \A q \in DOMAIN containers' : containers'[q] = Null
    BY <2>5 DEF Entry, Merged
  <2>7. EmptyPath \notin Paths
    BY DEF EmptyPath, Paths
  <2>8. PathsAreKnown'
    BY <1>1, <1>3, <2>4, <2>6 DEF PathsAreKnown, Closed, NoFuture, Idle, IsContainer, Null, Line
  <2>9. IdsAreKnown' /\ OwnersAlive'
    BY <2>4, <2>6, <2>7 DEF IdsAreKnown, OwnersAlive
  <2> QED
    BY <1>2, <2>8, <2>9 DEF IInv
<1> QED
  BY <1>4, <1>5

\* Nothing the invariant speaks of changes.
LEMMA StutterIInv ==
    ASSUME IInv, UNCHANGED vars \/ \E m \in Modules : RegisterContentModule(m)
    PROVE  IInv'
<1>1. UNCHANGED <<emplace, filters, open, fut, library, file, call>>
  BY DEF vars, RegisterContentModule
<1>2. Shapes' /\ FutureKeepsUp'
  BY <1>1 DEF IInv, Shapes, FutureKeepsUp
<1>3. PathsAreKnown' /\ IdsAreKnown' /\ OwnersAlive'
  BY <1>1 DEF IInv, PathsAreKnown, IdsAreKnown, OwnersAlive, Known, library, Line
<1> QED
  BY <1>2, <1>3 DEF IInv

\* Every step preserves the invariant.
LEMMA NextIInv == IInv /\ [Next]_vars => IInv'
<1> SUFFICES ASSUME IInv, [Next]_vars PROVE IInv'
  OBVIOUS
<1>1. CASE SystemStep
  BY <1>1, AskIInv, AnswerIInv, ContinueIInv, TakeIInv, OpenIInv, AddIInv, SaveIInv DEF SystemStep
<1>2. CASE \/ \E p \in Paths : AddOpened(p) \/ AddPublications(p)
           \/ \E i \in Ids : PackageForEPubURL(i)
  BY <1>2, AddIInv
<1>3. CASE WriteToFile \/ Restart
  BY <1>3, SaveIInv, RestartIInv
<1>4. CASE UNCHANGED vars \/ \E m \in Modules : RegisterContentModule(m)
  BY <1>4, StutterIInv
<1> QED
  BY <1>1, <1>2, <1>3, <1>4 DEF Next

\* The inductive invariant holds in every reachable state.
THEOREM Invariance == Spec => []IInv
  BY InitIInv, NextIInv, PTL DEF Spec

\* With emplace(), the library keeps the container of each package it returns,
\* whatever is added, looked up, saved and loaded, and in whichever order.
THEOREM ContainersAreKept == Spec => []OwnersAlive
<1>1. IInv => OwnersAlive
  BY DEF IInv
<1> QED
  BY <1>1, Invariance, PTL

\* OpenContainer() returns a module's container when the module's filters are
\* registered, however the module answers.
THEOREM FiltersComeFirst == Spec => []FiltersApply
<1>1. IInv => FiltersApply
  BY DEF IInv, FutureKeepsUp, FiltersApply
<1> QED
  BY <1>1, Invariance, PTL

-----------------------------------------------------------------------------
(***************************************************************************)
(* What is looked up is found, and what is saved survives                  *)
(***************************************************************************)
\* An entry leads to a path that is known and that has the identifier, and a
\* lookup opens the path its identifier is at.
EntriesFit ==
    /\ \A i \in DOMAIN packages : Known(packages[i].path) /\ i \in Contents[packages[i].path]
    /\ call.op = "find" => call.id \in Contents[open.path]

\* What a save has written is known, as is the path it opens, and the shelf is
\* what it wrote until the next save begins.
ShelfIsFile ==
    /\ call.op = "save" => /\ shelf = {}
                           /\ \A k \in DOMAIN file : Known(file[k].path)
                           /\ open.path \in DOMAIN containers \cup {EmptyPath}
    /\ open.pc = "closed" => open.path = EmptyPath
    /\ shelf # {} => shelf = {file[k].path : k \in DOMAIN file}
    /\ Cardinality(shelf) = 1 => shelf \subseteq DOMAIN containers

SInv == EntriesFit /\ ShelfIsFile

LEMMA InitSInv == Init => SInv
  BY FS_EmptySet DEF Init, SInv, EntriesFit, ShelfIsFile, EmptyMap, Idle, Closed

\* A step of OpenContainer() stays at its path and leaves the rest alone.
LEMMA OpenKeepsPath ==
    ASSUME IInv, \/ AskModule \/ ModuleAnswers \/ Continue \/ CheckFuture
                 \/ Get \/ GetDeferred \/ OpenDefault
    PROVE  /\ open'.path = open.path /\ UNCHANGED <<emplace, library, file, call, shelf>>
           /\ open'.pc = "closed" => open.pc = "closed"
<1>1. Shapes
  BY DEF IInv
<1>2. UNCHANGED <<emplace, library, file, call, shelf>>
  BY DEF AskModule, ModuleAnswers, Continue, CheckFuture, Get, GetDeferred, OpenDefault
<1>3. CASE AskModule
  <2> DEFINE m == Min(open.left)
  <2>1. \/ open' = [open EXCEPT !.left = @ \ {m}, !.pc = IF open.left = {m} THEN "check" ELSE "asking"]
        \/ open' = [open EXCEPT !.pc = "done", !.value = Threw]
        \/ open' = [open EXCEPT !.pc = "check", !.chain = filters]
    BY <1>3 DEF AskModule
  <2> HIDE DEF m
  <2>2. open'.path = open.path /\ open'.pc # "closed"
    BY <1>1, <2>1 DEF Shapes
  <2> QED
    BY <1>2, <2>2
<1>4. CASE CheckFuture
  <2>1. \/ open' = [open EXCEPT !.pc = "done", !.value = Threw]
        \/ open' = [open EXCEPT !.pc = "default"]
        \/ open' = [open EXCEPT !.pc = "done", !.value = fut.value, !.by = fut.by]
        \/ open' = [open EXCEPT !.pc = "get"]
    BY <1>4 DEF CheckFuture
  <2> QED
    BY <1>1, <1>2, <2>1 DEF Shapes
<1>5. CASE ModuleAnswers \/ Continue \/ Get \/ OpenDefault
  BY <1>1, <1>2, <1>5 DEF Shapes, ModuleAnswers, Continue, Get, OpenDefault
<1>6. CASE GetDeferred
  <2>1. PICK c \in Outcomes(open.path) :
            open' = [open EXCEPT !.pc = IF c = Threw THEN "crashed" ELSE "done",
                                 !.value = c, !.by = fut.by, !.chain = filters]
    BY <1>6 DEF GetDeferred
  <2> QED
    BY <1>1, <1>2, <2>1 DEF Shapes
<1> QED
  BY <1>3, <1>4, <1>5, <1>6

\* Adding a container adds entries that fit, and forgets no path.
LEMMA AddedFits ==
    ASSUME EntriesFit, NEW path \in Paths, NEW c, AddPublicationsInContainer(path, c), UNCHANGED emplace
    PROVE  /\ \A i \in DOMAIN packages' : Known(packages[i].path)' /\ i \in Contents[packages'[i].path]
           /\ DOMAIN containers \subseteq DOMAIN containers'
<1>1. DOMAIN containers' = DOMAIN containers \cup {path}
  BY DEF AddPublicationsInContainer, WithContainer, Entry, Merged
<1>2. /\ DOMAIN Entries(path, c) = Contents[path]
      /\ \A i \in Contents[path] : Entries(path, c)[i].path = path
  BY DEF Entries
<1>3. \A i \in DOMAIN packages' : \/ i \in DOMAIN packages /\ packages'[i] = packages[i]
                                  \/ i \in Contents[path] /\ packages'[i].path = path
  BY <1>2 DEF AddPublicationsInContainer, WithPackages, Merged
<1> QED
  BY <1>1, <1>3 DEF EntriesFit, Known

\* The client adds publications, or looks one up.
LEMMA AddSInv ==
    ASSUME IInv, SInv,
           \/ \E p \in Paths : AddOpened(p) \/ AddPublications(p)
           \/ \E i \in Ids : PackageForEPubURL(i)
           \/ AddReturns
    PROVE  SInv'
<1>1. UNCHANGED <<emplace, file, shelf>> /\ EntriesFit /\ ShelfIsFile
  BY DEF AddOpened, AddPublications, PackageForEPubURL, AddReturns, SInv
<1>2. CASE /\ UNCHANGED library
           /\ call'.op # "save" /\ (call'.op = "find" => call'.id \in Contents[open'.path])
           /\ open'.pc = "closed" => open'.path = EmptyPath
  <2>1. EntriesFit'
    BY <1>1, <1>2 DEF EntriesFit, Known, library
  <2>2. ShelfIsFile'
    BY <1>1, <1>2 DEF ShelfIsFile, library
  <2> QED
    BY <2>1, <2>2 DEF SInv
<1>3. CASE /\ call'.op = "none" /\ (open'.pc = "closed" => open'.path = EmptyPath)
           /\ \E p \in Paths : \E c : AddPublicationsInContainer(p, c)
  <2>1. PICK p \in Paths : \E c : AddPublicationsInContainer(p, c)
    BY <1>3
  <2>2. PICK c : AddPublicationsInContainer(p, c)
    BY <2>1
  <2>3. /\ \A i \in DOMAIN packages' : Known(packages[i].path)' /\ i \in Contents[packages'[i].path]
        /\ DOMAIN containers \subseteq DOMAIN containers'
    BY <1>1, <2>2, AddedFits
  <2>4. EntriesFit'
    BY <1>3, <2>3 DEF EntriesFit
  <2>5. ShelfIsFile'
    BY <1>1, <1>3, <2>3 DEF ShelfIsFile
  <2> QED
    BY <2>4, <2>5 DEF SInv
<1>4. ASSUME NEW p \in Paths, AddOpened(p) PROVE SInv'
  BY <1>1, <1>3, <1>4 DEF AddOpened, Ready, Idle, ShelfIsFile
<1>5. ASSUME NEW p \in Paths, AddPublications(p) PROVE SInv'
  <2>1. /\ call' = [op |-> "add", id |-> 0, todo |-> {}] /\ UNCHANGED library
        /\ open'.pc # "closed"
    BY <1>5 DEF AddPublications, Idle, BeginOpen
  <2> QED
    BY <1>2, <2>1
<1>6. ASSUME NEW i \in Ids, PackageForEPubURL(i) PROVE SInv'
  <2>1. /\ call' = [op |-> "find", id |-> i, todo |-> {}] /\ UNCHANGED library
        /\ open'.path = packages[i].path /\ open'.pc # "closed" /\ i \in DOMAIN packages
    BY <1>6 DEF PackageForEPubURL, Idle, BeginOpen, MustLoad
  <2>2. i \in Contents[packages[i].path]
    BY <1>1, <2>1 DEF EntriesFit
  <2> QED
    BY <1>2, <2>1, <2>2
<1>7. CASE AddReturns
  <2>1. call' = Idle /\ open' = Closed /\ open.path \in Paths
    BY <1>7 DEF AddReturns, IInv, PathsAreKnown
  <2>2. call'.op = "none" /\ open'.path = EmptyPath
    BY <2>1 DEF Idle, Closed
  <2> QED
    BY <1>2, <1>3, <1>7, <2>1, <2>2 DEF AddReturns
<1> QED
  BY <1>4, <1>5, <1>6, <1>7

\* A save begins with an empty shelf, writes paths that are known, and makes
\* the shelf what it has written when it is complete.
LEMMA SaveSInv ==
    ASSUME IInv, SInv, WriteToFile \/ WriteLine \/ WriteOpened \/ WriteReturns
    PROVE  SInv'
<1>1. UNCHANGED library /\ EntriesFit /\ ShelfIsFile /\ PathsAreKnown /\ Shapes
  BY DEF WriteToFile, WriteLine, WriteOpened, WriteReturns, SInv, IInv
<1>2. ASSUME call'.op # "find" PROVE EntriesFit'
  BY <1>1, <1>2 DEF EntriesFit, Known, library
<1>3. CASE WriteToFile
  <2>1. /\ file' = <<>> /\ shelf' = {} /\ open' = open /\ open.pc = "closed"
        /\ call'.op = "save"
    BY <1>3 DEF WriteToFile, Ready, Idle
  <2>2. ShelfIsFile'
    BY <1>1, <2>1, FS_EmptySet DEF ShelfIsFile
  <2> QED
    BY <1>2, <2>1, <2>2 DEF SInv
<1>4. ASSUME call.op = "save", shelf' = shelf, call'.op # "find",
             file' = file \/ \E q \in DOMAIN containers : file' = Append(file, Line(q)),
             open' = open \/ open'.path \in DOMAIN containers \cup {EmptyPath},
             open'.pc = "closed" => open'.path = EmptyPath
      PROVE  SInv'
  <2>1. shelf' = {} /\ \A k \in DOMAIN file : file[k].path \in DOMAIN containers
    BY <1>1, <1>4 DEF ShelfIsFile, Known
  <2>2. \A k \in DOMAIN file' : file'[k].path \in DOMAIN containers
    <3>1. CASE file' = file
      BY <2>1, <3>1
    <3>2. ASSUME NEW q \in DOMAIN containers, file' = Append(file, Line(q))
          PROVE  \A k \in DOMAIN file' : file'[k].path \in DOMAIN containers
      <4>1. Line(q).path = q
        BY DEF Line
      <4>2. file \in Seq({Line(p) : p \in Paths})
        BY <1>1 DEF PathsAreKnown
      <4>3. \A k \in DOMAIN file' : (k \in DOMAIN file /\ file'[k] = file[k]) \/ file'[k] = Line(q)
        BY <3>2, <4>2
      <4> QED
        BY <2>1, <4>1, <4>3
    <3> QED
      BY <1>4, <3>1, <3>2
  <2>3. open'.path \in DOMAIN containers \cup {EmptyPath}
    BY <1>1, <1>4 DEF ShelfIsFile
  <2>4. ShelfIsFile'
    BY <1>1, <1>4, <2>1, <2>2, <2>3, FS_EmptySet DEF ShelfIsFile, Known, library
  <2> QED
    BY <1>2, <1>4, <2>4 DEF SInv
<1>5. CASE WriteLine
  <2>1. PICK p \in call.todo :
            IF containers[p] = Null
            THEN BeginOpen(p) /\ UNCHANGED <<file, call>>
            ELSE /\ file' = Append(file, Line(p))
                 /\ call' = [call EXCEPT !.todo = @ \ {p}]
                 /\ UNCHANGED <<open, fut>>
    BY <1>5 DEF WriteLine
  <2>2. call.op = "save" /\ shelf' = shelf /\ p \in DOMAIN containers
    BY <1>1, <1>5 DEF WriteLine, Saving, PathsAreKnown
  <2>3. call'.op = "save"
    BY <1>1, <2>1, <2>2 DEF Shapes
  <2>4. file' = file \/ file' = Append(file, Line(p))
    BY <2>1
  <2>5. open' = open \/ (open'.path = p /\ open'.pc # "closed")
    BY <2>1 DEF BeginOpen
  <2> QED
    BY <1>1, <1>4, <2>2, <2>3, <2>4, <2>5 DEF ShelfIsFile
<1>6. CASE WriteOpened
  <2>1. call.op = "save" /\ shelf' = shelf /\ open' = Closed
    BY <1>6 DEF WriteOpened, Saving
  <2>2. open'.path = EmptyPath
    BY <2>1 DEF Closed
  <2>3. call'.op # "find"
    <3>1. call' = Idle \/ call' = [call EXCEPT !.todo = @ \ {open.path}]
      BY <1>6 DEF WriteOpened
    <3> QED
      BY <1>1, <2>1, <3>1 DEF Idle, Shapes
  <2>4. file' = file \/ (IsContainer(open.value) /\ file' = Append(file, Line(open.path)))
    BY <1>6 DEF WriteOpened
  <2>5. IsContainer(open.value) => open.path \in DOMAIN containers
    BY <1>1, <2>1 DEF PathsAreKnown, ShelfIsFile
  <2> QED
    BY <1>4, <2>1, <2>2, <2>3, <2>4, <2>5
<1>7. CASE WriteReturns
  <2>1. /\ file' = file /\ shelf' = {file[k].path : k \in DOMAIN file} /\ open' = open
        /\ \A k \in DOMAIN file : file[k].path \in DOMAIN containers
    BY <1>1, <1>7 DEF WriteReturns, ShelfIsFile, Known
  <2>2. call'.op = "none"
    BY <1>7 DEF WriteReturns, Idle
  <2>3. ShelfIsFile'
    BY <1>1, <2>1, <2>2 DEF ShelfIsFile, library
  <2> QED
    BY <1>2, <2>2, <2>3 DEF SInv
<1> QED
  BY <1>3, <1>5, <1>6, <1>7

\* The next process knows what the first line of the file says.
LEMMA RestartSInv ==
    ASSUME IInv, SInv, Restart
    PROVE  SInv'
<1>1. /\ UNCHANGED <<file, shelf>> /\ ShelfIsFile
      /\ file \in Seq({Line(p) : p \in Paths})
  BY DEF Restart, SInv, IInv, PathsAreKnown
<1>2. call'.op = "none" /\ open'.path = EmptyPath
  BY DEF Restart, Idle, Closed
<1>3. CASE file = <<>>
  <2>1. packages' = EmptyMap
    BY <1>3 DEF Restart, LoadedPackages
  <2>2. EntriesFit'
    BY <1>2, <2>1 DEF EntriesFit, EmptyMap
  <2>3. shelf' = {}
    BY <1>1, <1>3 DEF ShelfIsFile
  <2>4. ShelfIsFile'
    BY <1>2, <2>3, FS_EmptySet DEF ShelfIsFile
  <2> QED
    BY <2>2, <2>4 DEF SInv
<1>4. CASE file # <<>>
  <2>1. 1 \in DOMAIN file
    BY <1>1, <1>4
  <2>2. PICK p \in Paths : file[1] = Line(p)
    BY <1>1, <2>1
  <2>3. file[1].path = p /\ file[1].ids = Contents[p]
    BY <2>2 DEF Line
  <2>4. packages' = [i \in Contents[p] |-> [path |-> p, pkg |-> Null]]
    BY <1>4, <2>3 DEF Restart, LoadedPackages
  <2>5. p \in DOMAIN containers'
    BY <1>4, <2>3 DEF Restart, LoadedContainers, Entry, Merged
  <2>6. EntriesFit'
    BY <1>2, <2>4, <2>5 DEF EntriesFit, Known
  <2>7. p \in shelf \/ shelf = {}
    BY <1>1, <2>1, <2>3 DEF ShelfIsFile
  <2>8. Cardinality(shelf) = 1 => shelf = {p}
    <3>1. IsFiniteSet(DOMAIN file)
      BY <1>1, FS_Interval
    <3>2. IsFiniteSet({file[k].path : k \in DOMAIN file})
      <4> DEFINE T == {file[k].path : k \in DOMAIN file}
      <4>1. [k \in DOMAIN file |-> file[k].path] \in Surjection(DOMAIN file, T)
        BY DEF Surjection
      <4>2. \E f : f \in Surjection(DOMAIN file, T)
        BY <4>1
      <4> HIDE DEF T
      <4>3. IsFiniteSet(T)
        BY <3>1, <4>2, FS_Surjection DEF ExistsSurjection
      <4> QED
        BY <4>3 DEF T
    <3>3. IsFiniteSet(shelf)
      BY <1>1, <3>2, FS_EmptySet DEF ShelfIsFile
    <3>4. CASE shelf = {}
      BY <3>4, FS_EmptySet
    <3>5. CASE p \in shelf /\ Cardinality(shelf) = 1
      BY <3>3, <3>5, FS_Singleton
    <3> QED
      BY <2>7, <3>4, <3>5
  <2>9. ShelfIsFile'
    BY <1>1, <1>2, <2>5, <2>8 DEF ShelfIsFile
  <2> QED
    BY <2>6, <2>9 DEF SInv
<1> QED
  BY <1>3, <1>4

LEMMA NextSInv == IInv /\ SInv /\ [Next]_vars => SInv'
<1> SUFFICES ASSUME IInv, SInv, [Next]_vars PROVE SInv'
  OBVIOUS
<1>1. CASE /\ open'.path = open.path /\ UNCHANGED <<library, file, call, shelf>>
           /\ open'.pc = "closed" => open.pc = "closed"
  <2>1. EntriesFit'
    BY <1>1 DEF SInv, EntriesFit, Known, library
  <2>2. ShelfIsFile'
    BY <1>1 DEF SInv, ShelfIsFile, Known, library
  <2> QED
    BY <2>1, <2>2 DEF SInv
<1>2. CASE \/ AskModule \/ ModuleAnswers \/ Continue \/ CheckFuture
           \/ Get \/ GetDeferred \/ OpenDefault
  BY <1>1, <1>2, OpenKeepsPath
<1>3. CASE UNCHANGED vars \/ \E m \in Modules : RegisterContentModule(m)
  BY <1>1, <1>3 DEF vars, RegisterContentModule
<1>4. CASE \/ \E p \in Paths : AddOpened(p) \/ AddPublications(p)
           \/ \E i \in Ids : PackageForEPubURL(i)
           \/ AddReturns
  BY <1>4, AddSInv
<1>5. CASE WriteToFile \/ WriteLine \/ WriteOpened \/ WriteReturns
  BY <1>5, SaveSInv
<1>6. CASE Restart
  BY <1>6, RestartSInv
<1> QED
  BY <1>2, <1>3, <1>4, <1>5, <1>6 DEF Next, SystemStep

\* What the shelf, the file and the maps say fits together in every reachable
\* state, those after a restart in the middle of a save included.
THEOREM ShelfInvariance == Spec => [](IInv /\ SInv)
<1>1. IInv /\ SInv /\ [Next]_vars => (IInv /\ SInv)'
  BY NextIInv, NextSInv
<1> QED
  BY <1>1, InitIInv, InitSInv, PTL DEF Spec

\* A publication that a complete save wrote alone is known, with all its
\* identifiers, to this process and the next until another save begins.
THEOREM OnePublicationSurvives == Spec => []ShelfSurvives
<1>1. ASSUME IInv, SInv PROVE ShelfSurvives
  <2> SUFFICES ASSUME Cardinality(shelf) = 1, NEW p \in shelf
               PROVE  /\ Known(p)
                      /\ \A i \in Contents[p] : i \in DOMAIN packages /\ Known(packages[i].path)
    BY DEF ShelfSurvives
  <2>1. p \in DOMAIN containers
    BY <1>1 DEF SInv, ShelfIsFile
  <2>2. PICK k \in DOMAIN file : p = file[k].path
    BY <1>1 DEF SInv, ShelfIsFile
  <2>3. p \in Paths
    BY <1>1, <2>2 DEF IInv, PathsAreKnown, Line
  <2> QED
    BY <1>1, <2>1, <2>3 DEF IInv, IdsAreKnown, SInv, EntriesFit, Known
<1> QED
  BY <1>1, ShelfInvariance, PTL

=============================================================================
