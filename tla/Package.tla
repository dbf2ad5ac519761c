------------------------------- MODULE Package -------------------------------
(***************************************************************************)
(* Opening a package (ePub3/ePub/package.cpp, manifest.cpp, spine.cpp):    *)
(* Package::Unpack() reads the package document part by part, reports what *)
(* is wrong with it to the client's error handler, and builds the manifest,*)
(* the linked list of spine items, the content handlers and the navigation *)
(* tables.  What the handler refuses is thrown; what becomes of the        *)
(* exception depends on the part.                                          *)
(*                                                                         *)
(* An identifier is a number, in the order of the strings; None is the     *)
(* empty string.  A spine item is its place among the itemref elements and *)
(* Null is the null pointer.  Left out is what no later part of Unpack()   *)
(* decides on: the collections, the metadata properties and the lookup by  *)
(* XML identifier, the entries of the navigation tables, the titles copied *)
(* from them, the media support and the media overlays.                    *)
(***************************************************************************)
EXTENDS Naturals, FiniteSets, Sequences, SequencesExt

CONSTANTS
    NumIds,      \* how many identifiers there are
    MaxItems,    \* bound on the item elements of the manifest
    MaxRefs,     \* bound on the itemref elements of the spine
    MaxBindings  \* bound on the mediaType elements of the bindings

ASSUME PackageAssumption ==
    NumIds \in Nat /\ MaxItems \in Nat /\ MaxRefs \in Nat /\ MaxBindings \in Nat

Ids == 1 .. NumIds
None == 0
Null == 0

\* An item element, with its media type and its fallback attribute; a broken
\* one lacks an attribute that ManifestItem::ParseXML() needs.
Broken == [id |-> None]
Item == [id : Ids, type : {"xhtml", "other"}, fallback : Ids \cup {None}]
Itemref == [idref : Ids, linear : BOOLEAN]
Nodes == 1 .. MaxRefs

VARIABLES
    doc,        \* the package document: how many item elements it has (they
                \* are chosen when they are read), and its itemref elements
    emplace,    \* EPUB_HAVE(CXX_MAP_EMPLACE): a map keeps the first of a key
    tolerated,  \* the errors for which the error handler returns true
    pc,         \* the part Unpack() is at, or how it ended
    pos,        \* the element it is at
    todo,       \* the items whose fallback chain is still to be checked
    start,      \* the item whose chain is checked (the one member of idents)
    walk,       \* the item a loop over Fallback() is at
    manifest,   \* _manifest
    spine,      \* _spine
    next, prev, \* SpineItem::_next and _prev
    cur,        \* the spine item added last
    handlers,   \* _contentHandlers, as pairs of a media type and an item
    navigation  \* _navigation: the tables and the document they come from

config == <<doc, emplace, tolerated>>
loop == <<todo, start, walk>>
list == <<spine, next, prev, cur>>
vars == <<config, pc, pos, loop, manifest, list, handlers, navigation>>

-----------------------------------------------------------------------------
(***************************************************************************)
(* Errors, by the severity of error_lookup_table.cpp                       *)
(***************************************************************************)
Severe == {"InvalidPackageDocument", "IllegalPrefix", "NoSpine", "NoManifestItems", "NoSpineItems",
           "CircularReference", "InvalidSpineIdref", "NoMetadata", "UniqueIDInvalid",
           "MissingMetadata", "HandlerNoMediaType", "MultipleBindings", "CoreMediaType",
           "HandlerNotFound", "HandlerInvalidType", "HandlerNotScripted", "NoNavDocument"}
Mild == {"NoVersion", "OutOfOrder", "NoContentDocument", "InvalidRefinement"}

\* The handler is the default one, or one of a client that tolerates all.
DefaultErrorHandler == Mild
Policies == {DefaultErrorHandler, Severe \cup Mild}

\* __DispatchError: what a step does with the errors it meets.
Refuses(errors) == ~(errors \subseteq tolerated)

\* The errors of a step at most one of which is met.
OneOf(errors) == {{}} \cup {{e} : e \in errors}

-----------------------------------------------------------------------------
Init ==
    /\ doc \in [items : 0 .. MaxItems, itemrefs : SeqOf(Itemref, MaxRefs)]
    /\ emplace \in BOOLEAN
    /\ tolerated \in Policies
    /\ pc = "root"
    /\ pos = 1
    /\ todo = {} /\ start = None /\ walk = None
    /\ manifest = [i \in Ids |-> Broken]
    /\ spine = Null /\ cur = Null
    /\ next = [n \in Nodes |-> Null]
    /\ prev = [n \in Nodes |-> Null]
    /\ handlers = {}
    /\ navigation = {}

Goto(part) == pc' = part /\ pos' = 1

\* A refused error is an epub_spec_error, which is no std::system_error: it
\* ends in the catch (...) of the parts that have one.
Caught == Goto("false")
Thrown == Goto("threw")

(***************************************************************************)
(* The root element, the version, the prefixes and the order of its        *)
(* children: not in a try block.                                           *)
(***************************************************************************)
Fatal == {"InvalidPackageDocument", "NoSpine"}
Root ==
    /\ pc = "root"
    /\ \E errors \in OneOf(Fatal \cup {"NoVersion", "IllegalPrefix", "OutOfOrder"}) :
           IF Refuses(errors) THEN Thrown
           ELSE IF errors \cap Fatal # {} THEN Goto("false") ELSE Goto("lists")
    /\ UNCHANGED <<config, loop, manifest, list, handlers, navigation>>

-----------------------------------------------------------------------------
(***************************************************************************)
(* The manifest                                                            *)
(***************************************************************************)
EmptyLists == (IF doc.items = 0 THEN {"NoManifestItems"} ELSE {})
              \cup (IF doc.itemrefs = <<>> THEN {"NoSpineItems"} ELSE {})

\* _manifest.emplace(), or operator[]
Stored(m, item) ==
    IF item = Broken \/ (emplace /\ m[item.id] # Broken) THEN m ELSE [m EXCEPT ![item.id] = item]

Lists ==
    /\ pc = "lists"
    /\ IF Refuses(EmptyLists) THEN Caught ELSE Goto("manifest")
    /\ UNCHANGED <<config, loop, manifest, list, handlers, navigation>>

ManifestNode(item) ==
    /\ pc = "manifest" /\ pos <= doc.items
    /\ manifest' = Stored(manifest, item)
    /\ pos' = pos + 1
    /\ UNCHANGED <<config, pc, loop, list, handlers, navigation>>

HasFallback(i) == manifest[i] # Broken /\ manifest[i].fallback # None
ManifestEnd ==
    /\ pc = "manifest" /\ pos > doc.items
    /\ Goto("fallbacks")
    /\ todo' = {i \in Ids : HasFallback(i)}
    /\ UNCHANGED <<config, start, walk, manifest, list, handlers, navigation>>

\* ManifestItem::Fallback(), None for the null pointer
FallbackStays(i) == i
Fallback(i) == IF HasFallback(i) /\ manifest[manifest[i].fallback] # Broken
               THEN manifest[i].fallback ELSE None

\* for ( auto &pair : _manifest ): idents holds the first item of the chain
FallbackStart ==
    /\ pc = "fallbacks" /\ walk = None /\ todo # {}
    /\ start' = CHOOSE i \in todo : \A j \in todo : i <= j
    /\ walk' = start'
    /\ todo' = todo \ {start'}
    /\ UNCHANGED <<config, pc, pos, manifest, list, handlers, navigation>>

\* while ( item != nullptr && !item->FallbackID().empty() )
FallbackStep ==
    /\ pc = "fallbacks" /\ walk # None
    /\ LET circular == HasFallback(walk) /\ manifest[walk].fallback = start
       IN  IF circular /\ Refuses({"CircularReference"})
           THEN Caught /\ UNCHANGED walk
           ELSE /\ walk' = IF circular \/ ~HasFallback(walk) THEN None ELSE Fallback(walk)
                /\ UNCHANGED <<pc, pos>>
    /\ UNCHANGED <<config, todo, start, manifest, list, handlers, navigation>>

FallbackEnd ==
    /\ pc = "fallbacks" /\ walk = None /\ todo = {}
    /\ Goto("spine")
    /\ UNCHANGED <<config, loop, manifest, list, handlers, navigation>>

-----------------------------------------------------------------------------
(***************************************************************************)
(* The spine                                                               *)
(***************************************************************************)
\* An idref that is not in the manifest is skipped, if the handler agrees.
UnknownIsFine == {}
Unknown == {"InvalidSpineIdref"}
SpineNode ==
    /\ pc = "spine" /\ walk = None /\ pos <= Len(doc.itemrefs)
    /\ IF manifest[doc.itemrefs[pos].idref] # Broken
       THEN walk' = doc.itemrefs[pos].idref /\ UNCHANGED <<pc, pos>>
       ELSE /\ IF Refuses(Unknown) THEN Caught ELSE pos' = pos + 1 /\ UNCHANGED pc
            /\ UNCHANGED walk
    /\ UNCHANGED <<config, todo, start, manifest, list, handlers, navigation>>

\* cur->SetNextItem(next), or _spine = next
SetNextForgetsPrev(c, n) ==
    IF c = Null THEN spine' = n /\ UNCHANGED <<next, prev>>
    ELSE next' = [next EXCEPT ![n] = next[c], ![c] = n] /\ UNCHANGED <<spine, prev>>
SetNextItem(c, n) ==
    IF c = Null
    THEN spine' = n /\ UNCHANGED <<next, prev>>
    ELSE /\ next' = [next EXCEPT ![n] = next[c], ![c] = n]
         /\ prev' = [prev EXCEPT ![n] = c]
         /\ UNCHANGED spine

\* One round of do ... while ( (manifestItem = manifestItem->Fallback()) ),
\* and what follows the loop in the last one
ContentStep ==
    /\ pc = "spine" /\ walk # None
    /\ LET isContentDoc == manifest[walk].type = "xhtml"
       IN  IF ~isContentDoc /\ Fallback(walk) # None
           THEN walk' = Fallback(walk) /\ UNCHANGED <<pc, pos, list>>
           ELSE /\ walk' = None
                /\ IF ~isContentDoc /\ Refuses({"NoContentDocument"})
                   THEN Caught /\ UNCHANGED list
                   ELSE /\ SetNextItem(cur, pos)
                        /\ cur' = pos
                        /\ pos' = pos + 1
                        /\ UNCHANGED pc
    /\ UNCHANGED <<config, todo, start, manifest, handlers, navigation>>

SpineEnd ==
    /\ pc = "spine" /\ walk = None /\ pos > Len(doc.itemrefs)
    /\ Goto("metadata")
    /\ UNCHANGED <<config, loop, manifest, list, handlers, navigation>>

-----------------------------------------------------------------------------
(***************************************************************************)
(* Metadata, bindings and navigation                                       *)
(***************************************************************************)
Metadata ==
    /\ pc = "metadata"
    /\ \E errors \in OneOf({"NoMetadata", "UniqueIDInvalid", "MissingMetadata", "InvalidRefinement"}) :
           IF Refuses(errors) THEN Caught ELSE Goto("bindings")
    /\ UNCHANGED <<config, loop, manifest, list, handlers, navigation>>

\* What is wrong with a mediaType element of a media type and a handler
BindingErrors(mediaType, handler, scripted) ==
    UNION {IF \E h \in handlers : h[1] = mediaType THEN {"MultipleBindings"} ELSE {},
           IF mediaType = "core" THEN {"CoreMediaType"} ELSE {},
           IF handler = None \/ manifest[handler] = Broken THEN {"HandlerNotFound"}
           ELSE (IF manifest[handler].type # "xhtml" THEN {"HandlerInvalidType"} ELSE {})
                \cup (IF scripted THEN {} ELSE {"HandlerNotScripted"})}

\* Here an exception of the handler's refusal is thrown on.  A handler item
\* that is missing, and tolerated, is a null pointer that is dereferenced.
Binding(mediaType, handler, scripted) ==
    /\ pc = "bindings" /\ pos <= MaxBindings
    /\ LET errors == BindingErrors(mediaType, handler, scripted)
       IN  IF Refuses(errors)
           THEN Thrown /\ UNCHANGED handlers
           ELSE IF "HandlerNotFound" \in errors
           THEN Goto("crashed") /\ UNCHANGED handlers
           ELSE /\ handlers' = handlers \cup {<<mediaType, handler>>}
                /\ pos' = pos + 1
                /\ UNCHANGED pc
    /\ UNCHANGED <<config, loop, manifest, list, navigation>>

\* A mediaType element without media-type: throw false
BindingNoMediaType ==
    /\ pc = "bindings" /\ pos <= MaxBindings
    /\ IF Refuses({"HandlerNoMediaType"}) THEN Thrown ELSE Goto("false")
    /\ UNCHANGED <<config, loop, manifest, list, handlers, navigation>>

BindingEnd ==
    /\ pc = "bindings"
    /\ Goto("navigation")
    /\ UNCHANGED <<config, loop, manifest, list, handlers, navigation>>

\* The tables of the EPUB 3 navigation documents.  If there is a table but no
\* "toc", _navigation["toc"] is a null pointer that is dereferenced.
NavDocuments(tables) ==
    /\ pc = "navigation"
    /\ navigation' = tables \X {"nav"}
    /\ Goto(IF tables # {} /\ {"toc", "emptyToc"} \cap tables = {} THEN "crashed"
            ELSE IF "toc" \in tables THEN "open" ELSE "ncx")
    /\ UNCHANGED <<config, loop, manifest, list, handlers>>

\* _navigation.emplace(), or operator[], of the tables of the NCX; an empty
\* "toc" has the key of one that is not empty.
Key(table) == IF table = "emptyToc" THEN "toc" ELSE table
WithTables(tables) ==
    IF emplace
    THEN navigation \cup ({t \in tables : \A n \in navigation : Key(n[1]) # Key(t)} \X {"ncx"})
    ELSE {n \in navigation : \A t \in tables : Key(n[1]) # Key(t)} \cup (tables \X {"ncx"})

\* The NCX of the spine's toc attribute: there is no such attribute, no such
\* item, or there is one.  NavTablesFromManifestItem() returns the tables of
\* its document: none, and no error, for a document that cannot be read or has
\* neither a navMap nor another list.
Ncx(attribute, tables) ==
    /\ pc = "ncx"
    /\ LET errors == IF attribute = "missing" \/ (attribute = "none" /\ navigation = {})
                     THEN {"NoNavDocument"} ELSE {}
       IN  IF Refuses(errors)
           THEN Thrown /\ UNCHANGED navigation
           ELSE /\ Goto("open")
                /\ navigation' = IF attribute = "present" THEN WithTables(tables) ELSE navigation
    /\ UNCHANGED <<config, loop, manifest, list, handlers>>

\* The tables a navigation document or an NCX may have
Tables == {{}, {"toc"}, {"emptyToc"}, {"other"}, {"toc", "other"}, {"emptyToc", "other"}}

Next ==
    \/ Root \/ Lists
    \/ (\E item \in Item \cup {Broken} : ManifestNode(item)) \/ ManifestEnd
    \/ FallbackStart \/ FallbackStep \/ FallbackEnd
    \/ SpineNode \/ ContentStep \/ SpineEnd
    \/ Metadata
    \/ \E t \in {"core", "foreign"}, h \in Ids \cup {None}, s \in BOOLEAN : Binding(t, h, s)
    \/ BindingNoMediaType \/ BindingEnd
    \/ \E tables \in Tables : NavDocuments(tables)
    \/ \E attribute \in {"none", "missing", "present"}, tables \in Tables : Ncx(attribute, tables)

Spec == Init /\ [][Next]_vars /\ WF_vars(Next)

-----------------------------------------------------------------------------
(***************************************************************************)
(* Reading an open package                                                 *)
(***************************************************************************)
\* PackageBase::SpineItemAt(), SpineItem::at(): the k-th Next() of the first
At(k) == LET item[i \in 0 .. k] == IF i = 0 THEN spine
                                   ELSE IF item[i - 1] = Null THEN Null ELSE next[item[i - 1]]
         IN  item[k]

SpineItems == {At(k) : k \in 0 .. MaxRefs} \ {Null}

\* SpineItem::Index()
Index(n) == LET index[m \in Nodes] == IF prev[m] = Null THEN 0 ELSE index[prev[m]] + 1
            IN  index[n]

\* SpineItem::NextStep() and PriorStep()
StepThrough(link, n) ==
    LET step[m \in Nodes \cup {Null}] ==
            IF m = Null THEN Null ELSE IF doc.itemrefs[m].linear THEN m ELSE step[link[m]]
    IN  step[link[n]]
NextStep(n) == StepThrough(next, n)
PriorStep(n) == StepThrough(prev, n)

\* IndexOfSpineItemWithIDRef(); size_t(-1) + 1 is 0
IndexPlusOne(id) ==
    LET places == {k \in 0 .. MaxRefs : At(k) # Null /\ doc.itemrefs[At(k)].idref = id}
    IN  IF places = {} THEN 0 ELSE 1 + CHOOSE k \in places : \A l \in places : k <= l

\* The second component of CFIForManifestItem() and CFIForSpineItem()
CFIForManifestItem(id) == [nodeIndex |-> IndexPlusOne(id) * 2, qualifier |-> id]
CFIForSpineItem(n) == [nodeIndex |-> (Index(n) + 1) * 2, qualifier |-> doc.itemrefs[n].idref]

\* ConfirmOrCorrectSpineItemQualifier(): the first item of that idref, if the
\* one at the index has another.  (The index it "corrects" is a copy's.)
Confirmed(n, qualifier) == n
Corrected(n, qualifier) ==
    IF qualifier = None \/ doc.itemrefs[n].idref = qualifier THEN n
    ELSE IF IndexPlusOne(qualifier) = 0 THEN Null ELSE At(IndexPlusOne(qualifier) - 1)

\* ManifestItemForCFI() of a CFI that leads to the spine: None stands for an
\* odd index (InvalidCFI), one that is out of range (zero wraps around), and
\* a qualifier that no spine item has.
ManifestItemForCFI(cfi) ==
    LET k == cfi.nodeIndex \div 2
        n == IF cfi.nodeIndex % 2 = 1 \/ k = 0 \/ At(k - 1) = Null THEN Null
             ELSE Corrected(At(k - 1), cfi.qualifier)
    IN  IF n = Null THEN None ELSE doc.itemrefs[n].idref

-----------------------------------------------------------------------------
Ended == {"open", "false", "threw", "crashed"}

TypeOK ==
    /\ pc \in Ended \cup {"root", "lists", "manifest", "fallbacks", "spine", "metadata", "bindings",
                         "navigation", "ncx"}
    /\ pos \in Nat /\ todo \subseteq Ids
    /\ start \in Ids \cup {None} /\ walk \in Ids \cup {None}
    /\ \A i \in Ids : manifest[i] = Broken \/ (manifest[i] \in Item /\ manifest[i].id = i)
    /\ spine \in Nodes \cup {Null} /\ cur \in Nodes \cup {Null}
    /\ next \in [Nodes -> Nodes \cup {Null}] /\ prev \in [Nodes -> Nodes \cup {Null}]
    /\ handlers \subseteq {"core", "foreign"} \X Ids
    /\ navigation \subseteq {"toc", "emptyToc", "other"} \X {"nav", "ncx"}

(***************************************************************************)
(* "Package should have multiple spine items" (package_tests.cpp:968): the *)
(* list is, in the order of the document, the itemrefs that the manifest   *)
(* knows, each after those before it; Index() agrees, by the links back;   *)
(* and a linear item is the next step of another if that is its prior one. *)
(***************************************************************************)
Known == {n \in 1 .. Len(doc.itemrefs) : manifest[doc.itemrefs[n].idref] # Broken}
Before(n) == Cardinality({m \in Known : m < n})
ReadingOrder ==
    pc \in {"metadata", "bindings", "navigation", "ncx", "open"} =>
        /\ SpineItems = Known
        /\ \A n \in Known : At(Before(n)) = n /\ Index(n) = Before(n)
        /\ \A m, n \in Known :
               (doc.itemrefs[m].linear /\ doc.itemrefs[n].linear) => (NextStep(m) = n <=> PriorStep(n) = m)

(***************************************************************************)
(* A CFI of an item of the spine leads back to the item, also when the     *)
(* spine has changed since and its index is that of another item; a CFI    *)
(* made for an item that is not in the spine leads nowhere.                *)
(***************************************************************************)
InSpine == {doc.itemrefs[n].idref : n \in SpineItems}
CfiFindsItem ==
    pc = "open" =>
        /\ \A n \in SpineItems : ManifestItemForCFI(CFIForSpineItem(n)) = doc.itemrefs[n].idref
        /\ \A id \in Ids : ManifestItemForCFI(CFIForManifestItem(id)) = IF id \in InSpine THEN id ELSE None
        /\ \A id \in InSpine, k \in 1 .. Cardinality(SpineItems) :
               ManifestItemForCFI([nodeIndex |-> 2 * k, qualifier |-> id]) = id

(***************************************************************************)
(* With the default handler, which refuses critical and major violations,  *)
(* a package that opens has none of those: it has a spine, every itemref   *)
(* is in it, no fallback chain is circular (error table: "A fallback chain *)
(* MUST NOT contain circular references"), and each content handler is an  *)
(* XHTML item.  It need not have a navigation table: an NCX that is in the *)
(* manifest but cannot be read, or has no navMap, is no error to Unpack(). *)
(***************************************************************************)
\* The chain of an item, by the document: longer than there are items
Circular(i) ==
    LET chain[k \in 0 .. NumIds] == IF k = 0 THEN i
                                    ELSE IF chain[k - 1] = None \/ manifest[chain[k - 1]] = Broken THEN None
                                    ELSE manifest[chain[k - 1]].fallback
    IN  chain[NumIds] # None /\ manifest[chain[NumIds]] # Broken
OpenIsValid ==
    (pc = "open" /\ tolerated = DefaultErrorHandler) =>
        /\ spine # Null
        /\ Cardinality(SpineItems) = Len(doc.itemrefs)
        /\ \A i \in Ids : ~Circular(i)
        /\ \A h \in handlers : manifest[h[2]] # Broken /\ manifest[h[2]].type = "xhtml"

(***************************************************************************)
(* Unpack() returns or throws, if no fallback chain is circular: its loops *)
(* over Fallback() end only at an item without one.  (A chain that runs    *)
(* into a circle its first item is not part of is followed for ever.)      *)
(***************************************************************************)
OpeningEnds == <>(pc \in Ended) \/ []<>(\E i \in Ids : Circular(i))

=============================================================================
