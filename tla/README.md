# Verification of the Readium SDK core (ePub3)

TLA+ models of the C++ core of the Readium SDK (`src/ePub3`), the TLC
configurations that check them on small instances, and TLAPS proofs about them.
`PROJECT.json` maps every definition to the lines it models and lists the runs,
the mutants, the hazards and the theorems.

Check a model with `tlc -config X.cfg MCX` and the proofs of a module with
`tlapm XProofs.tla`.

## 1. The system

The SDK opens EPUB publications for a reading system. A *container* (zip
archive) holds *packages*; a package is described by an XML document from which
the SDK builds a manifest, a spine (the reading order), metadata, content
handlers, navigation tables and media overlays. Resources are read through
*byte streams* and *content filters* (decryption, font obfuscation,
preprocessing). *Futures* and *executors* of its own (written before C++14)
carry the work of content modules and user actions.

| component (source under `src/ePub3`) | state | operations | interacts with | what is hard | what makes it correct |
|---|---|---|---|---|---|
| thread_pool (`utilities/executor.{h,cpp}`) | queue, priority queue of timed closures, exit flag, two condition variables | add, add_at, add_after, workers, timer thread, destructor | every other executor, futures | lost wakeups, timeouts racing add_at, destruction | FIFO, nothing lost or repeated, not early, the destructor returns and leaves no thread |
| serial_executor | queue, `_running`, `_exiting` | add, runners, destructor | submits runners to any executor | "is a runner active?" is a counter; several runners, one queue | one at a time, in order, none stranded |
| thread_executor | two atomic counters, `__destruct_` | add, one detached thread per closure, destructor | - | counters change outside the lock | the destructor waits for all threads |
| loop_executor | queue, two flags | add, loop, run_queued_closures, try_one_closure, make_loop_exit | run by its owner | closures that add closures, two queues popped side by side | each runs once and in order |
| promise / future (`utilities/future.{h,cpp}`) | lazily created shared state | set_value, set_exception, ..._at_thread_exit, get_future, get, wait, wait_until, destructor | continuations | two creators, setters, waiters and timeouts race | one setter wins, no waiter sleeps on a ready state |
| continuations (`future::then`) | parent's continuation, own state and thread | then, do_continuation, execute, get | executors | attaching races the value; a mutex is taken again around a join | called once, both sides return |
| content filters (`ePub/filter_*.cpp`) | set of filters, chain, cache | register, build chain, open stream, read, read range | manifest items | empty results, failing reads, filters that change lengths, ranges | every byte through all filters in order; ranges agree with the whole |
| package, manifest, spine, errors (`ePub/package.cpp`, `manifest.cpp`, `spine.cpp`, `utilities/error_handler.*`) | manifest, linked spine, handlers, navigation | Unpack, SpineItem stepping, CFI to item and back | container, filters, client's error handler | the handler may tolerate anything; loops over fallback chains | reading order, CFIs find their item, what opens is valid, opening ends |
| content modules, container (`content_module_manager.cpp`, `container.cpp`) | registered modules, packages | LoadContentAtPath, Open | futures, filters, library | futures consumed by get(), late answers, filters registered by a continuation | every call ends; a module's filters are there when its container is returned |
| library (`library.cpp`) | containers by path, packages by identifier, the saved file | Add, Load, Write, PackageForEPubURL | containers, content modules | lazily loaded entries, two kinds of map, a crash while saving | what is saved is found again; the packages it hands out have their container |
| media overlays (`media-overlays_smil_*.cpp`) | tree of par/seq per spine item | parse, find by time, index or percentage | package | boundaries of clips, unsigned differences, parallels that do not count | every time has a position in a clip; a place kept as a percentage comes back |
| CFI (`cfi.cpp`) | components, ends of a range | parse, print, compile ranges, append, cut, compare | package | offsets of several kinds in one component, floats printed with six digits, ends of different length | printing loses no more than those digits; accepted ranges are in order |
| run loops, asynchronous streams, ring buffer | event sources, pipes | Run, Stop, WakeUp | each other | lost wakeups | (not compiled, see section 7) |

## 2. Modules

| module | models | how state and actions correspond |
|---|---|---|
| `ThreadPool` | `__thread_pool_impl_stdcpp` | one action per critical section of `_mutex`; worker and timer threads are where they are in `_RunWorker` / `_RunTimer`; a condition variable is the set of threads in a waiting state; wait() may return spuriously; `wait_until` holds a reference into the priority queue, which a later add_at can change (`stale`) |
| `Executor` | executor.h | the closures, which the three executors with a queue have in common |
| `SerialQueue` | what serial_executor promises | a queue and the closure that runs |
| `SerialExecutor` | serial_executor | the check, push and submit of add(), the wait, loop and end of a runner, and the flag, wait and return of the destructor are each an action; the underlying executor starts runners in any order and number |
| `ExecutorProofs` (of `SerialExecutor` and `LoopExecutor`), `ThreadPoolProofs`, `PromiseProofs`, `ContinuationProofs`, `LibraryProofs`, `FilterChainProofs`, `PackageProofs`, `PositionsProofs` (of `CFI` and `MediaOverlays`) | - | the theorems of section 5 |
| `ThreadExecutor` | thread_executor | each change of an atomic counter outside `__lock_` is an action; `__destruct_` starts with either value, since nothing initialises it |
| `LoopExecutor` | loop_executor | the three methods of the owner, step by step; make_loop_exit from a closure, and from another thread as a read and a write |
| `Promise` | promise, shared state, get/wait/wait_until | the state is created by a load and a compare-and-exchange; critical sections of the state's mutex are actions |
| `Continuation` | future::then | the parent's mutex is a variable with an owner, because do_continuation() gives it up and takes it again around the launch; async, executor and deferred continuations; the parent lives until its promise is gone and the continuation, which owns its future, has returned (`ParentIsGone`), and then() may come back to it later (`RelockFreed`: it crashes, waits for ever or finds the memory as it was) |
| `FilterChain` | FilterManagerImpl, FilterChain, both filter streams, the four filters | a byte is its place and the filters it has been through; `left` is what the input still yields, and the cache is filled as long as `_cacheHasBeenFilledUp` (`filled`) is false, so also a second time after raw bytes have been served; filters are in-place, shrinking, growing, empty or range filters; the loops over the chain are recursive functions, so that they can be reasoned about |
| `Package` | Package::Unpack, ManifestItem::Fallback, SpineItem, CFIs of spine items, HandleError | one action per element and per round of a loop over Fallback(); the handler is the set of errors it tolerates; an ending is open, false, threw or crashed (a null pointer is dereferenced); an NCX has any tables, or none if its document cannot be read or has no navMap |
| `Library` | Library, Container::OpenContainer, ContentModuleManager | one client thread (Library has no lock), the threads of the content modules, and a process that may end at any step; `open` is the call of OpenContainer() in progress, `fut` the future it waits for (pending, deferred, answered by the module, ready after the continuation, taken by get()); a package is named by its container, and `Contents` says which identifiers a path has |
| `CFI` | CFI and CFI::Component | a string is a sequence of pieces, component strings and tokens; `Parse` is the loop of Component::Parse over the tokens, a recursive function like every loop that is reasoned about, `Stringified` is what AppendComponents() prints (floats are counted in their smallest unit and printed as the nearest number of six digits, `Printable`), `Compile` and `RangeRefused` are CompileCFI(); the operations build CFIs from others |
| `MediaOverlays` | MediaOverlaysSmilModel, SMILData, Sequence, Parallel | trees as the parser builds them (`Bodies`), nested at most `MaxDepth` deep (libxml2 refuses documents nested deeper than its limit, 256 elements); the searches over them are recursive functions, one for each recursive method; a parallel has any number of texts and audios in the order of the document, of which the tree keeps the last of each kind; differences are modulo `Word`, and a clip's duration goes through an int32_t in the parser; `PositionAt` and `PositionToTime` are PercentToPosition() and PositionToPercent(), which change nothing and are evaluated in the properties |
| `Positions` | the two ways to name a place in a publication | `CFI` and `MediaOverlays` side by side; they do not interact, and a behaviour is one of the first or one of the second |

`MCx` instantiates `x`; all constants are given in the cfg files, which replace
no definition. Operators such as `SetNextForgetsPrev` or `CacheBytesRewound` are mutated
forms of the definition that follows them, as a plausible bug would have it; with
one of them in its place, TLC finds the property violated that `PROJECT.json`
names for it.

A module's TypeOK documents its variables; it is a property of the run of
`SerialExecutor` only, and part of the invariants that are proved of
`LoopExecutor` and `Promise`.

## 3. Runs

| run | instance | shows |
|---|---|---|
| thread_pool | 2 closures, 2 workers, times 0..1 | FIFO, scheduled closures in one place, an awake worker per queued job; the timer thread sleeps only for what is on top of the timed queue now (`SleepsForTheTop`); queued closures start, the destructor returns |
| thread_pool_early (violation) | 2 closures, 1 worker, times 0..2 | the timer pops the entry on top, which may not be the one that expired: enqueued before its time |
| serial_executor | 3 closures, each may be added by a client or a running closure | mutual exclusion, order, nobody stranded, a safe destructor that returns, refinement of `SerialQueue` with its fairness |
| thread_executor | 3 closures | an accepted closure runs unless the executor goes away; no wakeup of the destructor is lost |
| thread_executor_reap (violation) | 3 closures | a thread that was admitted and has not yet counted itself outlives the executor |
| loop_executor | 3 closures, 3 calls | each closure runs once in order, run_queued_closures runs a prefix |
| promise | 2 setters, 1 getter, 2 waiters, all operations | no sleeper on a ready state; the future of a destroyed promise is ready, whoever created the state, and its waiters are released |
| continuation | the three kinds, kept or abandoned, of a promise's future or of make_ready_future | no state is destroyed under its thread, a continuation that is not deferred is called once; both sides return, but for three dead ends that `BothReturn` names and section 6 describes |
| filter_chain | 2 filters of 5 kinds, 2 priorities, 3 bytes in chunks of 2, any failing read | all bytes of a stream went through the same filters, and if nothing fails through all in order (`EveryByteFiltered`); reading and refilling change nothing that is served (`ContentIsFixed`); ranges are slices |
| package | 2 ids, 2 items, 3 itemrefs, 2 bindings, both handlers, both kinds of map | the spine is the reading order both ways, CFIs lead back to their item, only valid packages open under the default handler, Unpack() ends unless a fallback chain is circular |
| library | 2 paths that share one of 2 identifiers, 2 modules, both kinds of map, restarts at any step | a module's filters are registered before its container is returned, and apply from its second container on (`FiltersApply`); with emplace() the library keeps the container of every package it hands out (`OwnersAlive`); a library of one publication survives a restart (`ShelfSurvives`); every call ends (`CallsReturn`) |
| positions | components of up to 3 tokens out of 9, ranges with ends of 1 or 2 components, CFIs of up to 2 components; books of 1 or 2 spine items, bodies of up to 2 containers, with parallels of one or several texts and audios in both orders, empty clips, clips without an end and clips longer than an int32_t | a printed CFI is parsed to the same CFI with its floats rounded; no range out of order is accepted; every time has a position inside the clip it names, also at the boundaries; a place in a clip, kept as a percentage, is where the percentage leads (`PlaceComesBack`); a document of regular parallels lasts what its parser adds up |

Why the bounds are enough: two workers are needed for a notification to reach
the wrong one, two timed closures for the wrong one to be popped; with three
closures one runs, one is queued and one is being added, or one runner runs, one
sleeps and one is submitted; two waiters and two setters show every race on a
state that is created, set and waited for; two filters have every relative order,
and three bytes with chunks of two an incomplete chunk; two manifest items give
every shape of chain that matters (ending, dangling, a circle with and without
its first item), three itemrefs a non-linear one between two linear ones. Two
modules give a first and a last one, one that declines before one that answers;
two paths with a common identifier every way in which two containers can compete
for an entry, and two lines of a saved file the line after the first. Three
tokens of a component give every order of two offsets and a qualifier or an
indirection; clips of length 0, 1 and 2 in sequences beside and inside each
other (`MaxDepth` = 1: a sequence in the body) every boundary between a clip, a
sequence and a document; a deeper sequence is searched by the same code as one in
the body, and the proofs are for any depth.
Bounded: `MaxTime` (clock and scheduled times), `MaxCalls` (calls of
the loop executor's methods), `MaxItems`, `MaxRefs`, `MaxBindings`,
`MaxComponents` (of a CFI), `MaxDepth` (of sequences in a body), `Word` (32 in place of 2^32, above every sum of
durations; half of it is the end of int32_t), `Printable` (floats of one digit in
place of six, with offsets of two digits that are rounded), and the closures, each added at most once.

CHECK_DEADLOCK FALSE: `LoopExecutor` (the owner may stop calling), `Package`
(Unpack ends), `Positions` (a cleared CFI and a failed Initialize() end),
`Continuation` (the code does deadlock with an abandoned or a deferred
continuation, see section 6).

## 4. Fairness

Weak fairness of each thread's own steps: the operating system schedules
threads, closures return (an obligation of the client), a call or destructor
that has begun goes on. Nothing is assumed of clients, so that they may never
call; `ThreadPool` also lets time pass, and in `Continuation`, which is about these two
calls, set_value() and then() are called. There a step that takes the
parent's mutex is strongly fair: a thread that asks for a mutex that is free
again and again gets it. `Package` runs in one thread, which goes on. In
`Library` the call in progress and the module it waits for go on (`SystemStep`);
that a module which has taken a file answers is an obligation of the module.

## 5. Proofs

`ExecutorProofs` proves of `SerialExecutor`, for every finite set of closures (assumptions:
`ClosuresAssumption`, and that `Client` and `NoClosure` are no closures,
`ClientAssumption` and `NoClosureAssumption`):

* `TypeCorrect`: []TypeOK; `_running` does not become negative;
* `MutualExclusion`: []NeverConcurrent;
* `StartsInOrder`: []FirstInFirstOut;
* `NoneStranded`: []SomebodyWillLook, if the queue is not empty and the executor
  is not closing, some runner or some call is on its way to look at it;
* `DestructorIsSafe`: []DestructorWaits;
* `Refinement`: SerialExecutor implements SerialQueue (its safety part).

The inductive invariant `IInv` strengthens them by: `_running` is 0 or 1, and 1
exactly while one runner is between increment and decrement (`RunningCounts`:
without it two runners could both find 0); a runner sleeps only while another
one is active (`SleepersAreCovered`: the active one notifies it, and is the
reason why add() may skip submitting a runner); a runner has a job exactly while
it runs (`JobWhileRunning`, for the refinement mapping); a call submits its
runner last (`RunnerAfterCall`); a destroyed executor has `_running` = 0. There
is one lemma per group of actions, and for the refinement one per abstract step.

`ThreadPoolProofs` proves, for any closures and times and every finite, nonempty
set of workers (`WorkersAssumption`):

* `StartsInOrder`: []FirstInFirstOut, what has been started followed by what is
  queued is what was added, in that order;
* `EnoughAwake`: []NextAvailableThread, while a worker sleeps there are at least
  as many workers awake and without a closure as there are closures queued, so
  that one notify_one() for each closure is enough;
* `ScheduledInOnePlace`: []ScheduledOnce, a scheduled closure is in the timed
  queue, in the timer thread's hands or among the enqueued ones, once;
* `TimerIsNotMissed`: []SleepsForTheTop, the timer thread waits without a limit
  only while nothing is scheduled, and with one only for the entry on top. It is
  inductive by itself: every add_at() wakes the timer, which looks again.

Its invariant adds the types of the queues and the workers (`PoolTypes`) and that
the destructor sets `_exiting` first (`FlagFirst`). The steps that wake or occupy
a worker change the number of workers awake by one (`OneMore`, `OneLess`, with
the library's theorems about finite sets); a worker goes to sleep only when it
has seen an empty queue under the lock. For `ScheduledOnce` the invariant is
`Places`: the places do not overlap, two entries of the timed queue have
different closures, and no closure was added twice (`AtMostOne`), and what was
scheduled is in one of them (`AtLeastOne`); the timer thread holds a closure only
between its two critical sections, when it has taken it out of the timed queue
and has not added it yet.

`ExecutorProofs` also proves, of `LoopExecutor`, for every set of
closures and any number of calls:

* `RunsInOrder`: []PopsWhatRan, the closures that ran are the first of those that
  were added, in their order;
* `RunsWhatWasQueued`: []CopyIsPrefix, the copy that run_queued_closures() works
  through remains a prefix of the queue while closures add to the queue.

Its invariant adds that the closure that runs is the front of the queue, and of
the copy if there is one (`RunsItsFront`: the code pops both after the closure
has returned), and that there is a copy only in run_queued_closures()
(`CopyOnlyThere`).

`PromiseProofs` proves, for every set of setters and of waiters (assumption:
`ThreadsAssumption`, the threads and the markers are told apart):

* `NoLostWakeup`: []NobodySleepsOnReady;
* `DestructorFulfils`: []DestroyedMeansReady.

Its invariant adds that a call which uses the state has found or created one
(`CallsAreTyped`), that the future refers to the promise's state, whoever's
allocation won (`OneState`: otherwise the setter would wake the wrong waiters and
the destructor fulfil the wrong state), that nobody is in a call on a destroyed
promise (`QuietWhenDestroyed`) and that a ready state has something to give
(`ReadyHasValue`).

`ContinuationProofs` proves, for any choice of the kinds of continuation
(assumption: `ContinuationAssumption`, the three threads and the marker for
nobody are told apart):

* `LaunchedOnce`: []CalledOnce, a continuation that is not deferred is called at
  most once, however then() and set_value() overlap;
* `StateOutlivesThread`: []NotDestroyedUnderThread.

Its invariant says that the launch comes from the second of the two calls, that
only one of them launches (`LaunchedBySecond`), that the worker counts as having
called the continuation from its first step on (`RunsCount`), and who refers to
the continuation's state at each point, and that its thread is known before a
reference to it is dropped (`References`: otherwise the destructor would have
nothing to join; a parent that is gone has taken its reference with it). It holds for async and executor continuations; of a deferred
one neither property is claimed (section 6).

`LibraryProofs` proves, for any paths, identifiers, content modules and contents
of publications:

* `ContainersAreKept`: []OwnersAlive, where maps have emplace() a package in the
  library's map belongs to the container the library keeps for its path;
* `FiltersComeFirst`: []FiltersApply, a module that opened a container has its
  filters registered when the call returns, and in the container's chains if it
  had them before the call;
* `OnePublicationSurvives`: []ShelfSurvives, through calls, failing saves and
  restarts.

Its invariant adds the shapes of maps, files and calls (`Shapes`), that the
empty path, which Load() may add, never has a container (`PathsAreKnown`), that a known path has all its identifiers in
the map (`IdsAreKnown`: without it adding a path again could put the packages of a
second container, which dies, into the map) and that a future is
ready only after the continuation that registers the filters (`FutureKeepsUp`).
A second invariant, `SInv`, is proved on top of it: every entry leads to a known
path that has its identifier, and a lookup opens that path (`EntriesFit`); what a
save has written so far is known, and until the next save the shelf is what the
file says (`ShelfIsFile`: the restart loads the file, not the shelf).

`FilterChainProofs` proves, for any finite set of filters, any natural priorities,
and any positive size of the resource and of a chunk (`FilterAssumption`):

* `AllFiltersApply`: []EveryByteFiltered;
* `RangesAreSlices`: []RangeAgreesWithWhole;
* `ReadingOnlyMoves`: ContentIsFixed, an action property: what a stream has begun
  to serve is the same after every step, a second filling of the cache included.

The hard part is what the loops compute. A loop over the chain is a recursive
function in the model; `LoopHasResults` shows that it has a value after each
pass, and `Passes` is induction over the passes (a first pass that breaks a
property is impossible, by `LeastNat`, from the library's theorem that the order
of the naturals is well-founded). `ApplyingProps` says that the filters picked
from the chain are those that sniff the item, in the order of the chain;
`FilterBytesMarks` that a healthy chain marks every byte with each of its filters,
in order, and never hands an empty buffer to the next one: a filter that shrinks
takes one byte, and there are fewer of them than bytes. `FilterBytesAlike` needs no
health: whatever filters fail, all bytes that come out carry the same marks. The
invariant then says that the chain is the registered filters by priority and that one
that is not registered gave way to another (`Chained`), that what has been read and
what is still in the cache are together what the filters made of the resource once the
input is drawn, and empty before (`Streamed`: with nothing left, a second filling adds
nothing), and that a range stream answers with a slice of it (`Ranged`).

`PackageProofs` proves, for any number of identifiers, items, itemrefs and
bindings, both error handlers and both kinds of map:

* `SpineIsReadingOrder`: []ReadingOrder;
* `CfiLeadsBack`: []CfiFindsItem;
* `OpenedIsValid`: []OpenIsValid;
* `OpeningAdvances`: EveryStepAdvances, an action property: while no fallback chain
  is circular, every step leaves less to do.

`ListInv` is the list while it is built: the itemrefs read so far that the
manifest knows (`Listed`), linked from each to the nearest one in both directions,
with `_spine` and `cur` at its ends (`Linked`); and an item whose fallbacks are
looked through belongs to a known itemref (`AtKnown`). From a complete list it
follows by induction along the links that at() and Index() count the itemrefs
before one (`AtBefore`, `IndexCounts`), and that NextStep() and PriorStep() find
the nearest linear one in their direction (`StepNearest`, stated once for a link
and a measure of what is left to go). The CFIs only use these facts. For
`OpenIsValid`, `ValidInv` follows what the default handler refuses: there are
itemrefs, none was skipped and content handlers are XHTML items.
Its part about fallback chains, `NoCircle`, is about closed sets (sets of items
whose fallbacks stay in the set): a walk that began in one never leaves it, so
that an item whose walk has ended without a refusal is in none; a circular chain,
which is longer than there are items, would by the pigeonhole principle contain
one (`EscapeIsEnough`). `OpeningAdvances` is the part of `OpeningEnds` that needs no
fairness: parts of Unpack(), elements of a part and items of a chain (`PartsLeft`,
`ElementsLeft`, `ItemsLeft`) are naturals, of which each step lowers one and keeps
those before it. A chain that is not circular has a length (`ChainEnds`), which a
call of Fallback() lowers (`ChainShrinks`); and the chain of a spine item is followed
only for an itemref that is still to be added (`AtKnown`), so that the end of the
chain finishes an element.

`PositionsProofs` proves of `CFI`, for any strings of any length (assumptions:
`StringsAssumption`, a string is pieces of components with markers in any order;
`PrintableAssumption`, the numbers of six digits are natural and 0 is one):

* `RangesInOrder`: []RangesAreOrdered;
* `CFISurvives`: []PrintThenParse.

The invariant `CFIInv` says that every component of the CFI is one that Parse() can
make (`Sound`: an offset of a text belongs to a character offset, and a component
with a character offset or with both others has no indirection and not the other
kind), and that a range which has been through CompileCFI() was not refused.
`ParseLoop` and `ParseIsSound` show it for every string of tokens, by induction
over the passes of the loop; the operations that join, cut and split lists of
components keep it (`ListsJoined`, `ListCut`, `CompiledIsSound`). For
`PrintThenParse` the loop is followed over the tokens that AppendComponents() writes
for one component: after each of them the component read so far agrees with the
printed one in what has been printed (`Agrees`, `ReadsOn`), so that at the end they
are the same (`ComponentSurvives`, `ListSurvives`). What is printed is the rounded
component, and rounding to the nearest printable number does nothing to a number that
is rounded and keeps numbers in order (`NearestStays`, `NearestInOrder`): so a range
that was accepted is accepted again (`RoundedRange`, `SameRangeAccepted`).
`AcceptedIsOrdered` compares the ends at the first place where they differ.

It proves of `MediaOverlays`, for any publications and any depth of their trees:

* `EverySeekLands`: []SeekLandsInClip;
* `EveryPlaceReturns`: []PlaceComesBack;
* `DurationsAlwaysAgree`: []DurationsAgree.

Assumed are a positive `Word` and a natural `MaxDepth` (`WordAssumption`), and that
the audio of one publication fits in a word (`BooksAssumption`; the code adds
milliseconds in 32 bits, which is 49 days of audio). The methods walk over
trees, so that two things are needed before anything can be said of them. One is
induction over trees, `TreeInduction`: a set that contains a body whenever it
contains the sequences in it contains all bodies, since otherwise it would lack one
whose nesting is least (`Rank`). The other is that a recursive function over trees
satisfies its own equation: `WalkHasResults` shows it for every step that looks only
at the values of the sequences inside a body (`Steady`), because such a step changes
nothing more once it has been taken as often as the trees are deep; `DurationWalk`,
`ParallelWalk`, `NodeWalk`, `OffsetWalk`, `ParallelsWalk` and the others apply it to
each method.

On the way down the search looks for the first child whose end is not before the
time, and subtracts what came before it. `Sums`, `SumsGrow` and `NoWrap` are about
the running sums (none of the differences wraps), `FirstAnswers` and `NoneAnswers`
say which child answers; they are used for the children of a body and again for the
documents of a publication. `Lands` is what a search in a body yields for a time:
a parallel that is one of those GetParallel() enumerates, whose clip begins before the time
and does not end before it; `AllExplored` proves it for all bodies, `KidFound` being
the step from a child to its parent, and `SeekPlaces` carries it over to
publications. The invariant `OverlaysInv` says that a document is not parsed yet,
empty or the book's (so that the total fits in the word, `TotalFits`), and that what
the parser has added up belongs to documents behind it. For the way back, `AllReturn`
shows by induction over trees that a search for the time ClipOffset() gives to a place
inside a clip leads to that clip and no other: the running sums are strictly smaller
before it and reach the time with it (`OnlyAnswer`, `KidIsAsked`); `PlacesReturn` does
the same over the documents. `SameDuration`, by the same induction, is that the
parser's sum and the tree's duration agree if all parallels are `Regular`: then of the
audios only one is added, the one that is kept (`OneOfSum`, `RegularTime`), and neither
the int32_t nor the uint32_t wraps (`ClipTimes`).

`SideBySide` shows that the specification of the run implies both: a behaviour of
`Positions` is one of `CFI` and one of `MediaOverlays`.

Each inductive invariant was checked by TLC on the instance of its run before it
was proved.

Only model-checked: all liveness (fairness and ENABLED are out of the prover's
reach), and `ThreadExecutor`, whose properties are liveness or violated. Every
invariant that a passing run checks is proved.

## 6. What the models show beside the runs

Seen in the models or while translating, without a run of their own:

* The timed priority queue has the latest time on top (`executor.h:576`), so
  that the timer thread sleeps until then. A client that goes on scheduling later
  closures keeps an earlier one waiting for ever; no property bounds that wait.
* `thread_executor::__destruct_` is not initialised (`executor.h:479`).
* `_make_loop_exit` outlives the call it was meant for (`executor.cpp:79`).
* `set_value_at_thread_exit` never makes the state ready (`future.cpp:126`).
* A deferred continuation may be called twice, or lock against itself, when
  get() and set_value() overlap (`future.h:3794`).
* A filter that returns no data leaves the raw bytes in the cache, which are
  served; a range read may report more bytes than it copied. After the raw bytes
  the cache is filled once more, from an input that yields nothing.
* `filter.h:213` describes an order of last in, first out, set up by a
  SetNextFilter() that does not exist; the code's order is that of the priorities
  (`filter_manager.h:73`), which is what `EveryByteFiltered` states.
* A fallback chain that runs into a circle which does not contain its first item
  is followed for ever by Unpack() (`package.cpp:606`), with any handler; the
  test (`package_tests.cpp:913`) has a circle through the first item. `OpeningEnds`
  excludes circular chains for this reason. With a tolerant handler the search for
  a content document (`package.cpp:648`) does not end either.
* A refused error is returned as false in the parts of Unpack() whose catch
  blocks mean to throw it on: epub_spec_error is no std::system_error
  (`package.cpp:669`).
* Null pointers are dereferenced where a missing binding handler is tolerated
  (`package.cpp:962`) and where navigation tables lack a toc (`package.cpp:1014`).
* A package whose NCX cannot be read, or has no navMap, opens without a table and
  without an error (`package.cpp:1037`, `:289`, `:353`), also under the default
  handler, which refuses a package without any NCX; `OpenIsValid` says nothing of
  tables.
* An NCX toc replaces an empty toc only in builds whose maps lack emplace().
* "Correct the CFI" (`package.cpp:264`) writes a constant to a copy.
* `error_handler.h:41` says the default handler returns false "except for
  Critical spec violations"; it returns false for critical and major ones
  (`error_handler.cpp:173`).
* `ManifestItem::BaseHref()` takes the substring of an empty string
  (`manifest.cpp:212`).
* do_continuation() takes the parent's mutex again after it has started the
  continuation's thread, and then drops what may be the last reference to the
  continuation's state, whose destructor joins the thread: with an abandoned
  future set_value() deadlocks (`future.h:772`).
* do_continuation() also locks and writes to the parent after the launch, when the
  continuation may have dropped the last reference to it (`future.h:771`): then() on
  a future whose promise is gone, as make_ready_future(...).then() in
  `content_module_manager.cpp:95`, may come back to freed memory. These two and the
  deferred continuation are the dead ends of `BothReturn`.
* The set of registered filters is ordered by priority alone and drops a second
  filter of one priority (`filter_manager_impl.cpp:39`), while `filter.h:220` says
  "a later-added filter will not 'replace' one that was added earlier".
* If all content modules decline, OpenContainer() gets a future without a state
  and throws, although the SDK could open the file (`content_module_manager.cpp:110`).
  A module that declines late ends the call with a null container, one that
  declines at once lets the others try (`container.cpp:125`). A module that
  declines late has its filters registered.
* get() of a deferred future that threw dereferences a null pointer
  (`future.h:822`).
* The first container of a content module is opened before the module's filters
  are registered, so that its packages' chains lack them
  (`content_module_manager.cpp:98`, `package.cpp:399`).
* Load() reads only the first line of a saved library; each further one becomes an
  empty path (`library.cpp:54`), on which the next save throws after it has
  truncated the file. `library.h:41` says "A library can optionally be written out
  to disk and then loaded back in".
* Where maps have emplace(), PackageForEPubURL() of a loaded library never finds a
  package and opens the container again each time (`library.cpp:122`), while
  `library.h:116` says "if container is loaded, LookupEntry will contain a Package"; where they have not, adding a path again leaves
  packages whose container nobody keeps.
* CompileCFI() reads past the end of the shorter end of a range (`cfi.cpp:354`), and
  refuses ranges in order such as /4/8 to /6/2. It accepts ends with equal offsets,
  where the comment (`cfi.cpp:364`) says "the end offset must be > the start offset".
  Floats are printed with six significant digits (`cfi.cpp:216`, `:220`): 1234.567
  comes back as 1234.57. HasSpatialTemporalOffset() asks for
  both offsets (`cfi.h:283`), so that components the comments exclude are accepted;
  what is then printed is not what was parsed. The side bias is not printed, and
  Clear() leaves the range. Parse() does not end on a marker without a number
  (`cfi.cpp:435`).
* PercentToPosition() never sets the indices PositionToPercent() needs
  (`media-overlays_smil_model.cpp:1101`); a restored percentage may lose a
  millisecond each time (:1110); the audio of a parallel whose foreign text comes
  second is counted in the parser's sum only (:1005), as are all audios of a parallel
  but the last (:951), while a clip of 2^31 ms or more is counted in the tree only
  (:943); two bodies in one document
  end the parsing of all others (:467).
* RingBuffer moves its positions by the length asked for instead of the one that
  fits (`ring_buffer.cpp`); only code that is not compiled uses it.

## 7. Not modelled

* Run loops, asynchronous streams and the ring buffer: SUPPORT_ASYNC is not
  defined in any build of the repository, and nothing else uses them.
* Archives and synchronous streams: wrappers of libzip and stdio; the failing
  read is modelled where it matters, in `FilterChain`.
* Metadata, collections, titles, the entries of navigation tables, encryption and
  signature documents, container.xml: read once from XML into maps, without a
  protocol. What they lead to in the other parts is input there.
* XML wrappers, strings, IRIs, locale, content handlers: data types and text.
* packaged_task, when_all, when_any: nothing in the SDK uses them.
* Platform bindings (JNI, Objective-C, WinRT) and the Windows thread pool:
  wrappers of the classes above and of the operating system.
* Vendored libraries (boost, libxml2, libzip and others), which are most of the
  repository's lines.

## 8. What is left

Modelled: the executors, futures, continuations, filters, opening a package, the
library with its content modules, CFIs and media overlays. Proved: all safety
properties of the runs. A next step would be the parts of section 7 that read XML
into maps, should they get a protocol of their own.
