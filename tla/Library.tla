------------------------------- MODULE Library -------------------------------
(***************************************************************************)
(* The library and the way a container is opened (ePub3/ePub/library.cpp,  *)
(* container.cpp, content_module_manager.cpp): a client's thread adds,     *)
(* looks up and saves publications; each container is opened by asking the *)
(* content modules in the order of their names, one of which may answer    *)
(* later from a thread of its own, and then by the SDK itself.  The        *)
(* process may end at any time; the next one loads the saved file.         *)
(*                                                                         *)
(* Library has no lock, so there is one client thread.  A path or a name   *)
(* is a number, in the order of the strings, and has no comma or newline   *)
(* (the file has no quoting).  Content modules are external: what one      *)
(* does is chosen when it is asked.  A publication does not change on disk *)
(* while the library knows it, but opening it may fail each time.          *)
(***************************************************************************)
EXTENDS Integers, FiniteSets, Sequences, FiniteSetsExt, Functions

CONSTANTS
    NumPaths, NumIds, NumModules,
    Contents    \* the unique identifiers of the packages at each path

Paths == 1 .. NumPaths
Ids == 1 .. NumIds
Modules == 1 .. NumModules

ASSUME LibraryAssumption ==
    /\ NumPaths \in Nat /\ NumIds \in Nat /\ NumModules \in Nat
    /\ Contents \in [Paths -> SUBSET Ids]

EmptyPath == 0
SDK == 0                  \* opened by OpenContainerForContentModule
Null == 0                 \* the null container or package
Threw == -1               \* an exception instead of a container
IsContainer(c) == c > 0   \* containers are numbered

VARIABLES
    emplace,      \* EPUB_HAVE(CXX_MAP_EMPLACE): a map keeps the first of a key
    known,        \* ContentModuleManager::_known_modules
    filters,      \* the modules whose RegisterContentFilters() has run
    open,         \* the call of OpenContainer(): where it is, its path, the
                  \* modules still to ask, filters when it began, the
                  \* container (value), and filters when it was opened
    fut,          \* the future LoadContentAtPath() made, and its module
    containers,   \* _containers
    packages,     \* _packages, a package being named by its container
    file,         \* the saved library, a sequence of lines
    call,         \* the client's call: its operation, the identifier looked
                  \* up, and the containers still to save
    shelf         \* history: the paths of the last complete save

library == <<containers, packages>>
vars == <<emplace, known, filters, open, fut, library, file, call, shelf>>

\* Containers are told apart: a number is free when nobody holds it.
Held == Range(containers) \cup {packages[i].pkg : i \in DOMAIN packages}
Fresh == Min(1 .. Cardinality(Held) + 1 \ Held)

\* What opening the file at a path can end in; there is no archive at "".
Outcomes(path) == IF path = EmptyPath THEN {Threw} ELSE {Fresh, Null, Threw}

NoFuture == [state |-> "taken", by |-> SDK, value |-> Null]
Closed == [pc |-> "closed", path |-> EmptyPath, left |-> {}, before |-> {},
           value |-> Null, by |-> SDK, chain |-> {}]
Idle == [op |-> "none", id |-> 0, todo |-> {}]
EmptyMap == [x \in {} |-> Null]

\* Two maps in one; the entries of the first prevail.
Merged(f, g) == [x \in DOMAIN f \cup DOMAIN g |-> IF x \in DOMAIN f THEN f[x] ELSE g[x]]
Entry(key, value) == [x \in {key} |-> value]

Init ==
    /\ emplace \in BOOLEAN
    /\ known = {} /\ filters = {}
    /\ open = Closed /\ fut = NoFuture
    /\ containers = EmptyMap /\ packages = EmptyMap
    /\ file = <<>> /\ call = Idle /\ shelf = {}

-----------------------------------------------------------------------------
(***************************************************************************)
(* ContentModuleManager                                                    *)
(***************************************************************************)
Unlocked == open.pc # "asking"    \* _mutex is held while modules are asked

\* RegisterContentModule(), by a thread of the application
RegisterContentModule(m) ==
    /\ Unlocked /\ m \notin known
    /\ known' = known \cup {m}
    /\ UNCHANGED <<emplace, filters, open, fut, library, file, call, shelf>>

\* Container::OpenContainer() enters LoadContentAtPath(): without modules the
\* future is ready with a null container.
BeginOpen(path) ==
    /\ open' = [pc |-> IF known = {} THEN "check" ELSE "asking", path |-> path,
                left |-> known, before |-> filters, value |-> Null, by |-> SDK, chain |-> {}]
    /\ fut' = [NoFuture EXCEPT !.state = IF known = {} THEN "ready" ELSE "taken"]

\* A pass of the loop.  A ready null container is taken out of the future and
\* the next module asked, if there is one; an exception comes out of get().
AskModule ==
    /\ open.pc = "asking"
    /\ LET m == Min(open.left)
           Declined == [open EXCEPT !.left = @ \ {m},
                                    !.pc = IF open.left = {m} THEN "check" ELSE "asking"]
       IN \/ open' = Declined /\ fut' = NoFuture
          \/ open' = [open EXCEPT !.pc = "done", !.value = Threw] /\ fut' = NoFuture
          \/ /\ open.path # EmptyPath
             /\ open' = [open EXCEPT !.pc = "check", !.chain = filters]
             /\ fut' \in {[state |-> "answered", by |-> m, value |-> Fresh]}
                    \cup [state : {"pending", "deferred"}, by : {m}, value : {Null}]
    /\ UNCHANGED <<emplace, known, filters, library, file, call, shelf>>

\* A module that works on the file answers, from a thread of its own.
ModuleAnswers ==
    /\ fut.state = "pending"
    /\ \E c \in Outcomes(open.path) :
           fut' = [fut EXCEPT !.state = "answered", !.value = c]
    /\ open' = [open EXCEPT !.chain = filters]
    /\ UNCHANGED <<emplace, known, filters, library, file, call, shelf>>

\* The continuation, on its thread: get() rethrows, or the module registers
\* its filters, also if it has declined; then the caller's future is ready.
Unregistered(c, m) == filters
Continued(c, m) == IF c = Threw THEN filters ELSE filters \cup {m}
LaunchedOnValue == fut.state = "answered" /\ fut.value # Null
Launched == fut.state = "answered"
Continue ==
    /\ Launched
    /\ filters' = Continued(fut.value, fut.by)
    /\ fut' = [fut EXCEPT !.state = "ready"]
    /\ UNCHANGED <<emplace, known, open, library, file, call, shelf>>

-----------------------------------------------------------------------------
(***************************************************************************)
(* Container::OpenContainer(), with the future                             *)
(***************************************************************************)
\* wait_for(0): a future whose value was taken throws future_uninitialized;
\* a ready null container makes the SDK open the file itself; for one that is
\* not ready the call goes on to get().
CheckFuture ==
    /\ open.pc = "check"
    /\ open' = CASE fut.state = "taken" -> [open EXCEPT !.pc = "done", !.value = Threw]
                 [] fut.state = "ready" /\ fut.value = Null -> [open EXCEPT !.pc = "default"]
                 [] fut.state = "ready" /\ fut.value # Null ->
                        [open EXCEPT !.pc = "done", !.value = fut.value, !.by = fut.by]
                 [] OTHER -> [open EXCEPT !.pc = "get"]
    /\ fut' = IF fut.state = "ready" THEN NoFuture ELSE fut
    /\ UNCHANGED <<emplace, known, filters, library, file, call, shelf>>

\* get() returns what the continuation returned, a null container included.
Get ==
    /\ open.pc = "get" /\ fut.state = "ready"
    /\ open' = [open EXCEPT !.pc = "done", !.value = fut.value, !.by = fut.by]
    /\ fut' = NoFuture
    /\ UNCHANGED <<emplace, known, filters, library, file, call, shelf>>

\* get() of a deferred future: the module and the continuation run in the
\* caller.  wait_internal() does not rethrow what a deferred state threw, and
\* get() dereferences the null __result_.
GetDeferred ==
    /\ open.pc = "get" /\ fut.state = "deferred"
    /\ \E c \in Outcomes(open.path) :
           /\ open' = [open EXCEPT !.pc = IF c = Threw THEN "crashed" ELSE "done",
                                   !.value = c, !.by = fut.by, !.chain = filters]
           /\ filters' = Continued(c, fut.by)
    /\ fut' = NoFuture
    /\ UNCHANGED <<emplace, known, library, file, call, shelf>>

\* OpenContainerForContentModule()
OpenDefault ==
    /\ open.pc = "default"
    /\ \E c \in Outcomes(open.path) :
           open' = [open EXCEPT !.pc = "done", !.value = c]
    /\ UNCHANGED <<emplace, known, filters, fut, library, file, call, shelf>>

-----------------------------------------------------------------------------
(***************************************************************************)
(* Library                                                                 *)
(***************************************************************************)
Known(path) == path \in DOMAIN containers

\* AddPublicationsInContainer(): a path that is known keeps its container,
\* and an identifier its entry where maps have emplace().
Entries(path, c) == [i \in Contents[path] |-> [path |-> path, pkg |-> c]]
WithContainerReplaced(path, c) == Merged(Entry(path, c), containers)
WithContainer(path, c) == Merged(containers, Entry(path, c))
WithPackages(path, c) ==
    IF emplace THEN Merged(packages, Entries(path, c)) ELSE Merged(Entries(path, c), packages)

AddPublicationsInContainer(path, c) ==
    /\ containers' = WithContainer(path, c)
    /\ packages' = WithPackages(path, c)

\* The client adds a container it has opened itself.
Ready == call = Idle /\ open.pc = "closed"
AddOpened(path) ==
    /\ Ready
    /\ AddPublicationsInContainer(path, Fresh)
    /\ UNCHANGED <<emplace, known, filters, open, fut, file, call, shelf>>

\* AddPublicationsInContainerAtPath(), called by the client, or by
\* PackageForEPubURL() for an entry without a package.
AddPublications(path) ==
    /\ Ready
    /\ call' = [Idle EXCEPT !.op = "add"]
    /\ BeginOpen(path)
    /\ UNCHANGED <<emplace, known, filters, library, file, shelf>>

\* The other cases of PackageForEPubURL() change nothing.
MustLoad(id) == id \in DOMAIN packages /\ packages[id].pkg = Null
PackageForEPubURL(id) ==
    /\ Ready /\ MustLoad(id)
    /\ call' = [Idle EXCEPT !.op = "find", !.id = id]
    /\ BeginOpen(packages[id].path)
    /\ UNCHANGED <<emplace, known, filters, library, file, shelf>>

\* The call returns, or the exception of OpenContainer() leaves it.  Where
\* maps have emplace() the entry without a package stays, is what a lookup
\* returns, and makes the next lookup open the container again.
AddReturns ==
    /\ call.op \in {"add", "find"} /\ open.pc = "done"
    /\ IF IsContainer(open.value)
       THEN AddPublicationsInContainer(open.path, open.value)
       ELSE UNCHANGED library
    /\ open' = Closed /\ call' = Idle
    /\ UNCHANGED <<emplace, known, filters, fut, file, shelf>>

\* WriteToFile(): the file is truncated, ...
WriteToFile ==
    /\ Ready
    /\ call' = [Idle EXCEPT !.op = "save", !.todo = DOMAIN containers]
    /\ file' = <<>> /\ shelf' = {}
    /\ UNCHANGED <<emplace, known, filters, open, fut, library>>

\* ... and each container, in the order of the paths, written with its
\* identifiers and a flush; one that is not loaded is opened, and not kept.
Line(path) == [path |-> path, ids |-> Contents[path]]
Saving == call.op = "save" /\ call.todo # {}
WriteLine ==
    /\ Saving /\ open.pc = "closed"
    /\ \E path \in call.todo :
           /\ \A p \in call.todo : path <= p
           /\ IF containers[path] = Null
              THEN BeginOpen(path) /\ UNCHANGED <<file, call>>
              ELSE /\ file' = Append(file, Line(path))
                   /\ call' = [call EXCEPT !.todo = @ \ {path}]
                   /\ UNCHANGED <<open, fut>>
    /\ UNCHANGED <<emplace, known, filters, library, shelf>>

\* A container that is null is skipped; an exception ends the call, with
\* the lines written so far in the file.
WriteOpened ==
    /\ Saving /\ open.pc = "done"
    /\ file' = IF IsContainer(open.value) THEN Append(file, Line(open.path)) ELSE file
    /\ call' = IF open.value = Threw THEN Idle ELSE [call EXCEPT !.todo = @ \ {open.path}]
    /\ open' = Closed
    /\ UNCHANGED <<emplace, known, filters, fut, library, shelf>>

WriteReturns ==
    /\ call.op = "save" /\ call.todo = {}
    /\ call' = Idle
    /\ shelf' = {file[k].path : k \in DOMAIN file}
    /\ UNCHANGED <<emplace, known, filters, open, fut, library, file>>

\* Load(): the string stream is never cleared, so that no field is read of a
\* line after the first and each stands for the empty path without packages.
LoadedNothing == EmptyMap
LoadedContainers ==
    CASE file = <<>> -> EmptyMap
      [] Len(file) = 1 -> Entry(file[1].path, Null)
      [] OTHER -> Merged(Entry(file[1].path, Null), Entry(EmptyPath, Null))
LoadedPackages ==
    IF file = <<>> THEN EmptyMap
    ELSE [i \in file[1].ids |-> [path |-> file[1].path, pkg |-> Null]]

\* The process ends, at any moment, and the next one calls MainLibrary().
Restart ==
    /\ known' = {} /\ filters' = {}
    /\ open' = Closed /\ fut' = NoFuture /\ call' = Idle
    /\ containers' = LoadedContainers
    /\ packages' = LoadedPackages
    /\ UNCHANGED <<emplace, file, shelf>>

-----------------------------------------------------------------------------
SystemStep ==
    \/ AskModule \/ ModuleAnswers \/ Continue
    \/ CheckFuture \/ Get \/ GetDeferred \/ OpenDefault
    \/ AddReturns \/ WriteLine \/ WriteOpened \/ WriteReturns

Next ==
    \/ SystemStep
    \/ \E m \in Modules : RegisterContentModule(m)
    \/ \E p \in Paths : AddOpened(p) \/ AddPublications(p)
    \/ \E i \in Ids : PackageForEPubURL(i)
    \/ WriteToFile
    \/ Restart

\* The client's thread and the threads of the modules run on, and a module
\* that has taken a file answers.
Spec == Init /\ [][Next]_vars /\ WF_vars(SystemStep)

-----------------------------------------------------------------------------
(***************************************************************************)
(* Properties                                                              *)
(***************************************************************************)
\* When OpenContainer() returns a container of a content module, that module
\* has registered its content filters; and if it had before the call, they
\* are in the chains of the container's packages (the first container of a
\* module is opened before its filters are registered).
FiltersApply ==
    open.pc = "done" /\ IsContainer(open.value) /\ open.by # SDK =>
        /\ open.by \in filters
        /\ open.by \in open.before => open.by \in open.chain

\* Where maps have emplace(), the library keeps the container of each package
\* it can return: Package holds its container by a weak pointer only, and
\* ManifestItem::GetEncryptionInfo() uses it unchecked.
OwnersAlive ==
    emplace => \A i \in DOMAIN packages :
        packages[i].pkg # Null => /\ Known(packages[i].path)
                                  /\ containers[packages[i].path] = packages[i].pkg

\* A library of one publication survives: after a complete save, whatever is
\* called and whenever the process ends, until the next save its path is
\* known and its identifiers lead to a path that is known.
ShelfSurvives ==
    Cardinality(shelf) = 1 => \A p \in shelf :
        /\ Known(p)
        /\ \A i \in Contents[p] : i \in DOMAIN packages /\ Known(packages[i].path)

\* Every call ends, by returning, with an exception or with the process.
CallsReturn == call.op # "none" ~> call.op = "none" \/ open.pc = "crashed"

=============================================================================
