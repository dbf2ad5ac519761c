---------------------------- MODULE PackageProofs ----------------------------
(***************************************************************************)
(* Proofs about Package, for any number of identifiers, manifest items,    *)
(* spine items and bindings: the list of spine items is the reading order, *)
(* a CFI made for an item finds it, a package the default error handler    *)
(* lets through has none of the violations it refuses, and every step      *)
(* leaves less to do while no fallback chain is circular.                  *)
(***************************************************************************)
EXTENDS Package, FiniteSetTheorems, SequenceTheorems, WellFoundedInduction, TLAPS

-----------------------------------------------------------------------------
(***************************************************************************)
(* Induction over the passes of a loop                                     *)
(***************************************************************************)
\* A set of numbers has a least one.
LEMMA LeastNat ==
    ASSUME NEW T, T \subseteq Nat, T # {}
    PROVE  \E x \in T : \A y \in T : x <= y
<1>1. PICK x \in T : \A y \in T : ~(<<y, x>> \in OpToRel(<, Nat))
  BY NatLessThanWellFounded, WFMin
<1>2. \A y \in T : <<y, x>> \in OpToRel(<, Nat) <=> y < x
  BY DEF OpToRel
<1>3. \A y \in T : ~(y < x)
  BY <1>1, <1>2, Zenon
<1> QED
  BY <1>3

\* What holds before a loop of n passes, and after a pass if it held before
\* the pass, holds after each pass: a first pass that breaks it is impossible.
LEMMA Passes ==
    ASSUME NEW n \in Nat, NEW G, 0 \in G, \A i \in 1 .. n : i - 1 \in G => i \in G
    PROVE  \A i \in 0 .. n : i \in G
<1> DEFINE T == {i \in 0 .. n : i \notin G}
<1> SUFFICES ASSUME T # {} PROVE FALSE
  OBVIOUS
<1>1. PICK x \in T : \A y \in T : x <= y
  <2>1. T \subseteq Nat
    OBVIOUS
  <2> HIDE DEF T
  <2> QED
    BY <2>1, LeastNat
<1>2. x \in 1 .. n /\ x \notin G
  BY <1>1
<1>3. x - 1 \notin T
  BY <1>1, <1>2
<1> QED
  BY <1>2, <1>3

\* A loop of n passes, of which pass i turns d into g[i][d], has a result
\* after each pass.
Steps(D, n) == [1 .. n -> [D -> D]]
Results(D, a, n, g) == {r \in [0 .. n -> D] : r[0] = a /\ \A i \in 1 .. n : r[i] = g[i][r[i - 1]]}

LEMMA LoopHasResults ==
    ASSUME NEW D, NEW a \in D, NEW n \in Nat, NEW g \in Steps(D, n)
    PROVE  \E r : r \in Results(D, a, n, g)
<1> USE DEF Steps
<1> DEFINE Good(m, r) == r[0] = a /\ \A i \in 1 .. m : r[i] = g[i][r[i - 1]]
           Has(m) == \E r \in [0 .. m -> D] : Good(m, r)
           G == {m \in 0 .. n : Has(m)}
<1>1. Has(0)
  <2>1. [i \in 0 .. 0 |-> a] \in [0 .. 0 -> D] /\ Good(0, [i \in 0 .. 0 |-> a])
    OBVIOUS
  <2> HIDE DEF Good
  <2> QED
    BY <2>1
<1>2. ASSUME NEW m \in 1 .. n, Has(m - 1) PROVE Has(m)
  <2>1. PICK r \in [0 .. m - 1 -> D] : Good(m - 1, r)
    BY <1>2
  <2> DEFINE s == [i \in 0 .. m |-> IF i = m THEN g[m][r[m - 1]] ELSE r[i]]
  <2>2. s \in [0 .. m -> D]
    OBVIOUS
  <2>3. \A i \in 0 .. m - 1 : s[i] = r[i]
    OBVIOUS
  <2>4. s[m] = g[m][s[m - 1]]
    OBVIOUS
  <2>5. Good(m, s)
    BY <2>1, <2>3, <2>4
  <2> HIDE DEF Good, s
  <2> QED
    BY <2>2, <2>5
<1> HIDE DEF Has
<1>3. 0 \in G /\ \A m \in 1 .. n : m - 1 \in G => m \in G
  BY <1>1, <1>2
<1>4. n \in G
  <2> HIDE DEF G
  <2>1. \A i \in 0 .. n : i \in G
    BY ONLY <1>3, Passes, n \in Nat
  <2> QED
    BY <2>1
<1> QED
  BY <1>4 DEF Has, Results

-----------------------------------------------------------------------------
(***************************************************************************)
(* The inductive invariant                                                 *)
(***************************************************************************)
Early == {"root", "lists", "manifest", "fallbacks"}
Late == {"metadata", "bindings", "navigation", "ncx", "open", "crashed"}
Failed == {"false", "threw"}

\* The document has at most as many itemrefs as there are nodes.
DocOK ==
    /\ doc.items \in Nat
    /\ doc.itemrefs \in Seq(Itemref) /\ Len(doc.itemrefs) <= MaxRefs
    /\ tolerated \in Policies
    /\ DOMAIN manifest = Ids
    /\ pos # 0

\* The itemrefs that are in the list
Listed == IF pc \in Early THEN {} ELSE {n \in Known : pc = "spine" => n < pos}

\* A place is the least or the greatest of a set, or null if that is empty.
IsFirst(n, S) == IF S = {} THEN n = Null ELSE n \in S /\ \A m \in S : n <= m
IsLast(n, S) == IF S = {} THEN n = Null ELSE n \in S /\ \A m \in S : m <= n

\* The links lead from each listed itemref to the nearest ones.
Linked ==
    /\ IsFirst(spine, Listed) /\ IsLast(cur, Listed)
    /\ \A n \in Listed : /\ IsFirst(next[n], {m \in Listed : n < m})
                         /\ IsLast(prev[n], {m \in Listed : m < n})
    /\ \A n \in Nodes \ Listed : next[n] = Null /\ prev[n] = Null

\* The item whose fallbacks are looked through belongs to the itemref at pos.
AtKnown == pc = "spine" /\ walk # None => pos \in Known

ListInv == TypeOK /\ DocOK /\ AtKnown /\ (pc \notin Failed => Linked)

-----------------------------------------------------------------------------
\* The list is empty at first.
LEMMA InitList == Init => ListInv
<1> SUFFICES ASSUME Init PROVE ListInv
  OBVIOUS
<1>1. /\ doc.items \in 0 .. MaxItems
      /\ doc.itemrefs \in SeqOf(Itemref, MaxRefs)
  BY DEF Init
<1>2. PICK m \in 0 .. MaxRefs : doc.itemrefs \in [1 .. m -> Itemref]
  BY <1>1 DEF SeqOf
<1>3. doc.itemrefs \in Seq(Itemref) /\ Len(doc.itemrefs) = m
  BY <1>2
<1>4. DocOK
  BY <1>1, <1>3, PackageAssumption DEF Init, DocOK
<1>5. TypeOK
  BY DEF Init, TypeOK, Broken
<1>6. Listed = {}
  BY DEF Init, Listed, Early
<1>7. Linked
  BY <1>6 DEF Init, Linked, IsFirst, IsLast
<1>8. AtKnown
  BY DEF Init, AtKnown
<1> QED
  BY <1>4, <1>5, <1>7, <1>8 DEF ListInv

\* The parts that are neither the manifest nor the spine
OtherPart ==
    \/ Root \/ Lists \/ ManifestEnd \/ FallbackStart \/ FallbackStep \/ FallbackEnd \/ SpineEnd \/ Metadata
    \/ \E t \in {"core", "foreign"}, h \in Ids \cup {None}, s \in BOOLEAN : Binding(t, h, s)
    \/ BindingNoMediaType \/ BindingEnd
    \/ \E tables \in Tables : NavDocuments(tables)
    \/ \E attribute \in {"none", "missing", "present"}, tables \in Tables : Ncx(attribute, tables)

\* A fallback is an identifier, of an item that is there, or none.
LEMMA FallbackType ==
    ASSUME TypeOK, NEW i \in Ids
    PROVE  /\ HasFallback(i) => manifest[i].fallback \in Ids
           /\ Fallback(i) \in Ids \cup {None}
           /\ Fallback(i) # None => HasFallback(i) /\ Fallback(i) = manifest[i].fallback
  BY DEF TypeOK, HasFallback, Fallback, Item, Broken

\* What the other parts change is of its type.
LEMMA OtherType ==
    ASSUME TypeOK, DocOK, OtherPart
    PROVE  TypeOK' /\ DocOK' /\ UNCHANGED <<doc, tolerated, manifest, list>>
<1>1. UNCHANGED <<config, manifest, list>>
  BY DEF OtherPart, Root, Lists, ManifestEnd, FallbackStart, FallbackStep, FallbackEnd, SpineEnd, Metadata,
         Binding, BindingNoMediaType, BindingEnd, NavDocuments, Ncx
<1> DEFINE Parts == Ended \cup {"root", "lists", "manifest", "fallbacks", "spine", "metadata", "bindings",
                                "navigation", "ncx"}
<1>2. UNCHANGED <<pc, pos>> \/ (pc' \in Parts /\ pos' = 1) \/ (pc' = pc /\ pos' = pos + 1)
  BY DEF OtherPart, Root, Lists, ManifestEnd, FallbackStart, FallbackStep, FallbackEnd, SpineEnd, Metadata,
         Binding, BindingNoMediaType, BindingEnd, NavDocuments, Ncx, Goto, Caught, Thrown, Ended
<1>3. UNCHANGED loop \/ ManifestEnd \/ FallbackStart \/ FallbackStep
  BY DEF OtherPart, Root, Lists, FallbackEnd, SpineEnd, Metadata,
         Binding, BindingNoMediaType, BindingEnd, NavDocuments, Ncx
<1>4. todo' \subseteq Ids /\ start' \in Ids \cup {None} /\ walk' \in Ids \cup {None}
  <2>1. CASE UNCHANGED loop
    BY <2>1 DEF TypeOK, loop
  <2>2. CASE ManifestEnd
    BY <2>2 DEF ManifestEnd, TypeOK
  <2>3. CASE FallbackStart
    <3>1. todo # {} /\ todo \subseteq Nat /\ todo \subseteq Ids
      BY <2>3, PackageAssumption DEF FallbackStart, TypeOK, Ids
    <3>2. \E i \in todo : \A j \in todo : i <= j
      BY <3>1, LeastNat
    <3>3. start' \in todo
      BY <2>3, <3>2 DEF FallbackStart
    <3> QED
      BY <2>3, <3>1, <3>3 DEF FallbackStart
  <2>4. CASE FallbackStep
    <3>1. walk \in Ids /\ todo' = todo /\ start' = start
      BY <2>4 DEF FallbackStep, TypeOK
    <3>2. walk' = walk \/ walk' = None \/ walk' = Fallback(walk)
      BY <2>4 DEF FallbackStep
    <3> QED
      BY <3>1, <3>2, FallbackType DEF TypeOK
  <2> QED
    BY <1>3, <2>1, <2>2, <2>3, <2>4
<1>5. UNCHANGED handlers \/ \E t \in {"core", "foreign"}, h \in Ids \cup {None}, s \in BOOLEAN : Binding(t, h, s)
  BY DEF OtherPart, Root, Lists, ManifestEnd, FallbackStart, FallbackStep, FallbackEnd, SpineEnd, Metadata,
         BindingNoMediaType, BindingEnd, NavDocuments, Ncx
<1>6. handlers' \subseteq {"core", "foreign"} \X Ids
  <2>1. CASE UNCHANGED handlers
    BY <2>1 DEF TypeOK
  <2>2. ASSUME NEW t \in {"core", "foreign"}, NEW h \in Ids \cup {None}, NEW s \in BOOLEAN, Binding(t, h, s)
        PROVE  handlers' \subseteq {"core", "foreign"} \X Ids
    <3>1. CASE handlers' = handlers
      BY <3>1 DEF TypeOK
    <3>2. CASE handlers' # handlers
      <4>1. "HandlerNotFound" \notin BindingErrors(t, h, s) /\ handlers' = handlers \cup {<<t, h>>}
        BY <2>2, <3>2 DEF Binding
      <4>2. h # None
        BY <4>1 DEF BindingErrors
      <4> QED
        BY <4>1, <4>2 DEF TypeOK
    <3> QED
      BY <3>1, <3>2
  <2> QED
    BY <1>5, <2>1, <2>2
<1>7. \/ UNCHANGED navigation
      \/ \E tables \in Tables : navigation' = tables \X {"nav"} \/ navigation' = WithTables(tables)
  BY DEF OtherPart, Root, Lists, ManifestEnd, FallbackStart, FallbackStep, FallbackEnd, SpineEnd, Metadata,
         Binding, BindingNoMediaType, BindingEnd, NavDocuments, Ncx
<1>8. navigation' \subseteq {"toc", "emptyToc", "other"} \X {"nav", "ncx"}
  <2>1. \A tables \in Tables : tables \subseteq {"toc", "emptyToc", "other"}
    BY DEF Tables
  <2>2. \A tables : \A n \in WithTables(tables) : n \in navigation \/ n \in tables \X {"ncx"}
    BY DEF WithTables
  <2> QED
    BY <1>7, <2>1, <2>2 DEF TypeOK
<1>9. pc' \in Parts /\ pos' \in Nat /\ pos' # 0
  BY <1>2 DEF TypeOK, DocOK
<1>10. TypeOK'
  BY <1>1, <1>4, <1>6, <1>8, <1>9 DEF TypeOK, list
<1>11. DocOK'
  BY <1>1, <1>9 DEF DocOK, config
<1> QED
  BY <1>1, <1>10, <1>11 DEF config

\* The same list links the same itemrefs.
LEMMA SameLinked ==
    ASSUME Linked, UNCHANGED list, Listed' = Listed
    PROVE  Linked'
<1>1. spine' = spine /\ next' = next /\ prev' = prev /\ cur' = cur
  BY DEF list
<1> DEFINE L == Listed
<1>2. L' = L
  OBVIOUS
<1> HIDE DEF L
<1>3. (/\ IsFirst(spine, L) /\ IsLast(cur, L)
       /\ \A n \in L : /\ IsFirst(next[n], {m \in L : n < m})
                       /\ IsLast(prev[n], {m \in L : m < n})
       /\ \A n \in Nodes \ L : next[n] = Null /\ prev[n] = Null)'
  BY <1>1, <1>2 DEF Linked, IsFirst, IsLast, L
<1> QED
  BY <1>3 DEF Linked, L

\* The parts before the spine leave the list empty, and those after it leave
\* it complete.
LEMMA OtherList ==
    ASSUME ListInv, OtherPart
    PROVE  ListInv'
<1>1. TypeOK' /\ DocOK' /\ UNCHANGED <<doc, tolerated, manifest, list>>
  BY OtherType DEF ListInv
<1>2. Known' = Known
  BY <1>1 DEF Known
<1>3. \/ pc \in Early /\ pc' \in Early
      \/ pc \in Late /\ pc' \in Late
      \/ pc \in Early /\ pc' = "spine" /\ pos' = 1 /\ walk' = None
      \/ pc = "spine" /\ pc' = "metadata" /\ pos > Len(doc.itemrefs)
      \/ pc' \in Failed
  BY DEF OtherPart, Root, Lists, ManifestEnd, FallbackStart, FallbackStep, FallbackEnd, SpineEnd, Metadata,
         Binding, BindingNoMediaType, BindingEnd, NavDocuments, Ncx, Goto, Caught, Thrown, loop, Early, Late, Failed
<1>4. AtKnown'
  BY <1>3 DEF AtKnown, Early, Late, Failed
<1>5. CASE pc' \in Failed
  BY <1>1, <1>4, <1>5 DEF ListInv
<1>6. CASE pc' \notin Failed
  <2>1. pc \notin Failed
    BY <1>3, <1>6 DEF Early, Late, Failed
  <2>2. Listed' = Listed
    <3>1. CASE pc \in Early /\ pc' \in Early
      BY <3>1 DEF Listed
    <3>2. CASE pc \in Late /\ pc' \in Late
      BY <1>2, <3>2 DEF Listed, Late, Early
    <3>3. CASE pc \in Early /\ pc' = "spine" /\ pos' = 1 /\ walk' = None
      <4>1. \A n \in Known : ~(n < 1)
        BY DEF Known, ListInv, DocOK
      <4> QED
        BY <1>2, <3>3, <4>1 DEF Listed, Early
    <3>4. CASE pc = "spine" /\ pc' = "metadata" /\ pos > Len(doc.itemrefs)
      <4>1. \A n \in Known : n < pos
        BY <3>4 DEF Known, ListInv, DocOK, TypeOK
      <4> QED
        BY <1>2, <3>4, <4>1 DEF Listed, Early
    <3> QED
      BY <1>3, <1>6, <3>1, <3>2, <3>3, <3>4
  <2>3. Linked'
    BY <1>1, <2>1, <2>2, SameLinked DEF ListInv
  <2> QED
    BY <1>1, <1>4, <2>3 DEF ListInv
<1> QED
  BY <1>5, <1>6

\* An item is read.
LEMMA ManifestList ==
    ASSUME ListInv, NEW item \in Item \cup {Broken}, ManifestNode(item)
    PROVE  ListInv'
<1>1. /\ UNCHANGED <<config, pc, loop, list, handlers, navigation>> /\ pc = "manifest"
      /\ pos' = pos + 1 /\ manifest' = Stored(manifest, item)
  BY DEF ManifestNode
<1>2. /\ DOMAIN manifest' = Ids
      /\ \A i \in Ids : manifest'[i] = manifest[i] \/ (item # Broken /\ i = item.id /\ manifest'[i] = item)
  BY <1>1 DEF Stored, ListInv, DocOK
<1>3. item = Broken \/ item \in Item
  OBVIOUS
<1>4. TypeOK'
  <2>1. \A i \in Ids : manifest'[i] = Broken \/ (manifest'[i] \in Item /\ manifest'[i].id = i)
    BY <1>2, <1>3 DEF ListInv, TypeOK
  <2> QED
    BY <1>1, <2>1 DEF ListInv, TypeOK, loop, list
<1>5. DocOK'
  BY <1>1, <1>2 DEF ListInv, DocOK, TypeOK, config
<1>6. Linked'
  <2>1. Listed' = Listed /\ pc \notin Failed
    BY <1>1 DEF Listed, Early, Failed
  <2> QED
    BY <1>1, <2>1, SameLinked DEF ListInv
<1>7. AtKnown'
  BY <1>1 DEF AtKnown
<1> QED
  BY <1>4, <1>5, <1>6, <1>7 DEF ListInv

\* An itemref is read; one that the manifest does not know is skipped.
LEMMA SpineNodeList ==
    ASSUME ListInv, SpineNode
    PROVE  ListInv'
<1>1. /\ UNCHANGED <<config, todo, start, manifest, list, handlers, navigation>>
      /\ pc = "spine" /\ walk = None /\ pos <= Len(doc.itemrefs)
  BY DEF SpineNode
<1>2. pos \in 1 .. Len(doc.itemrefs)
  BY <1>1 DEF ListInv, DocOK, TypeOK
<1>3. doc.itemrefs[pos].idref \in Ids
  <2>1. doc.itemrefs[pos] \in Itemref
    BY <1>2, ElementOfSeq DEF ListInv, DocOK
  <2> QED
    BY <2>1 DEF Itemref
<1>4. \/ pos \in Known /\ walk' = doc.itemrefs[pos].idref /\ UNCHANGED <<pc, pos>>
      \/ pos \notin Known /\ walk' = walk /\ pos' = pos + 1 /\ pc' = pc
      \/ walk' = walk /\ pc' = "false" /\ pos' = 1
  BY <1>2 DEF SpineNode, Known, Caught, Goto
<1>5. TypeOK'
  <2>1. pc' \in {"spine", "false"} /\ pos' \in Nat /\ walk' \in Ids \cup {None}
    BY <1>1, <1>3, <1>4 DEF ListInv, TypeOK
  <2> QED
    BY <1>1, <2>1 DEF ListInv, TypeOK, list, Ended
<1>6. DocOK'
  BY <1>1, <1>4 DEF ListInv, DocOK, TypeOK, config
<1>7. Known' = Known
  BY <1>1 DEF Known, config
<1>8. AtKnown'
  BY <1>1, <1>4, <1>7 DEF AtKnown
<1>9. CASE pc' = "false"
  BY <1>5, <1>6, <1>8, <1>9 DEF ListInv, Failed
<1>10. CASE pc' # "false"
  <2>1. Listed' = Listed
    <3>1. CASE pos' = pos /\ pc' = pc
      BY <1>7, <3>1 DEF Listed
    <3>2. CASE pos \notin Known /\ pos' = pos + 1 /\ pc' = pc
      <4>1. \A n \in Known : n < pos <=> n < pos + 1
        BY <1>2, <3>2 DEF Known, ListInv, DocOK
      <4> QED
        BY <1>1, <1>7, <3>2, <4>1 DEF Listed
    <3> QED
      BY <1>4, <1>10, <3>1, <3>2
  <2>2. Linked'
    BY <1>1, <2>1, SameLinked DEF ListInv, Failed
  <2> QED
    BY <1>5, <1>6, <1>8, <2>2 DEF ListInv
<1> QED
  BY <1>9, <1>10

\* An itemref that comes after all that are listed is added to the list.
LEMMA SetNextLinked ==
    ASSUME TypeOK, Linked, pos \in Nodes, Listed \subseteq Nodes, \A n \in Listed : n < pos,
           SetNextItem(cur, pos), cur' = pos, Listed' = Listed \cup {pos}
    PROVE  Linked'
<1> DEFINE L == Listed
           M == L \cup {pos}
           M2 == Listed'
<1>1. M2 = M
  OBVIOUS
<1>2. (\A n \in L : n \in Nat) /\ pos \in Nat /\ pos # Null /\ pos \notin L /\ Null \notin L /\ \A n \in L : n < pos
  BY PackageAssumption DEF Nodes, Null
<1>3. /\ IsFirst(spine, L) /\ IsLast(cur, L)
      /\ \A n \in L : /\ IsFirst(next[n], {m \in L : n < m})
                      /\ IsLast(prev[n], {m \in L : m < n})
      /\ \A n \in Nodes \ L : next[n] = Null /\ prev[n] = Null
  BY DEF Linked
<1>4. L \subseteq Nodes
  OBVIOUS
<1> HIDE DEF L
<1>5. /\ IsFirst(spine', M) /\ IsLast(cur', M)
      /\ \A n \in M : /\ IsFirst(next'[n], {m \in M : n < m})
                      /\ IsLast(prev'[n], {m \in M : m < n})
      /\ \A n \in Nodes \ M : next'[n] = Null /\ prev'[n] = Null
  <2>1. CASE cur = Null
    <3>1. L = {} /\ M = {pos}
      BY <1>2, <1>3, <2>1 DEF IsLast
    <3>2. spine' = pos /\ next' = next /\ prev' = prev
      BY <2>1 DEF SetNextItem
    <3>3. next[pos] = Null /\ prev[pos] = Null
      BY <1>3, <3>1
    <3>4. {m \in M : pos < m} = {} /\ {m \in M : m < pos} = {}
      BY <1>2, <3>1
    <3> HIDE DEF M
    <3> QED
      BY <1>2, <1>3, <3>1, <3>2, <3>3, <3>4 DEF IsFirst, IsLast
  <2>2. CASE cur # Null
    <3>1. cur \in L /\ \A n \in L : n <= cur
      BY <1>3, <2>2 DEF IsLast
    <3>2. next[cur] = Null
      <4>1. {m \in L : cur < m} = {}
        BY <1>2, <3>1
      <4> QED
        BY <1>3, <3>1, <4>1 DEF IsFirst
    <3>3. /\ spine' = spine
          /\ next' \in [Nodes -> Nodes \cup {Null}] /\ prev' \in [Nodes -> Nodes \cup {Null}]
          /\ next'[pos] = Null /\ next'[cur] = pos /\ \A n \in Nodes \ {pos, cur} : next'[n] = next[n]
          /\ prev'[pos] = cur /\ \A n \in Nodes \ {pos} : prev'[n] = prev[n]
      <4>1. /\ next' = [next EXCEPT ![pos] = next[cur], ![cur] = pos]
            /\ prev' = [prev EXCEPT ![pos] = cur] /\ spine' = spine
        BY <2>2 DEF SetNextItem
      <4>2. cur \in Nodes /\ pos \in Nodes /\ cur # pos
        BY <1>2, <1>4, <3>1
      <4> QED
        BY <3>2, <4>1, <4>2 DEF TypeOK
    <3>4. IsFirst(spine', M)
      BY <1>2, <1>3, <3>1, <3>3 DEF IsFirst
    <3>5. IsLast(cur', M)
      BY <1>2 DEF IsLast
    <3>6. ASSUME NEW n \in M PROVE IsFirst(next'[n], {m \in M : n < m})
      <4>1. CASE n = pos
        <5>1. {m \in M : n < m} = {}
          <6>1. \A m \in L : ~(pos < m)
            BY <1>2
          <6>2. ~(pos < pos)
            BY <1>2
          <6> QED
            BY <4>1, <6>1, <6>2
        <5> QED
          BY <3>3, <4>1, <5>1 DEF IsFirst
      <4>2. CASE n = cur
        <5>1. {m \in M : n < m} = {pos}
          BY <1>2, <3>1, <4>2
        <5> QED
          BY <1>2, <3>3, <4>2, <5>1 DEF IsFirst
      <4>3. CASE n # pos /\ n # cur
        <5>1. n \in L /\ next'[n] = next[n] /\ n < cur
          BY <1>2, <1>4, <3>1, <3>3, <4>3
        <5>2. cur \in {m \in L : n < m}
          BY <3>1, <5>1
        <5>3. next[n] \in L /\ n < next[n] /\ \A m \in L : n < m => next[n] <= m
          BY <1>3, <5>1, <5>2 DEF IsFirst
        <5>4. next[n] \in {m \in M : n < m} /\ \A m \in {x \in M : n < x} : next[n] <= m
          BY <1>2, <5>3
        <5> QED
          BY <5>1, <5>4 DEF IsFirst
      <4> QED
        BY <4>1, <4>2, <4>3
    <3>7. ASSUME NEW n \in M PROVE IsLast(prev'[n], {m \in M : m < n})
      <4>1. CASE n = pos
        <5>1. {m \in M : m < n} = L
          <6>1. ~(pos < pos)
            BY <1>2
          <6> QED
            BY <1>2, <4>1, <6>1
        <5> QED
          BY <3>1, <3>3, <4>1, <5>1 DEF IsLast
      <4>2. CASE n # pos
        <5>1. n \in L /\ prev'[n] = prev[n]
          BY <1>4, <3>3, <4>2
        <5>2. {m \in M : m < n} = {m \in L : m < n}
          BY <1>2, <5>1
        <5> QED
          BY <1>3, <5>1, <5>2
      <4> QED
        BY <4>1, <4>2
    <3>8. \A n \in Nodes \ M : next'[n] = Null /\ prev'[n] = Null
      BY <1>3, <3>1, <3>3
    <3> QED
      BY <3>4, <3>5, <3>6, <3>7, <3>8
  <2> QED
    BY <2>1, <2>2
<1> HIDE DEF M, M2
<1>6. /\ IsFirst(spine', M2) /\ IsLast(cur', M2)
      /\ \A n \in M2 : /\ IsFirst(next'[n], {m \in M2 : n < m})
                       /\ IsLast(prev'[n], {m \in M2 : m < n})
      /\ \A n \in Nodes \ M2 : next'[n] = Null /\ prev'[n] = Null
  BY <1>1, <1>5
<1> QED
  BY <1>6 DEF Linked, M2, IsFirst, IsLast, Nodes, Null

\* A round of the loop over the fallbacks of an itemref's item; the last one
\* adds the itemref to the list.
LEMMA ContentList ==
    ASSUME ListInv, ContentStep
    PROVE  ListInv'
<1>1. /\ UNCHANGED <<config, todo, start, manifest, handlers, navigation>>
      /\ pc = "spine" /\ walk # None
  BY DEF ContentStep
<1>2. walk \in Ids /\ pos \in Known /\ Fallback(walk) \in Ids \cup {None}
  BY <1>1, FallbackType DEF ListInv, AtKnown, TypeOK
<1>3. \/ walk' = Fallback(walk) /\ UNCHANGED <<pc, pos, list>>
      \/ walk' = None /\ pc' = "false" /\ pos' = 1 /\ UNCHANGED list
      \/ walk' = None /\ pc' = pc /\ pos' = pos + 1 /\ SetNextItem(cur, pos) /\ cur' = pos
  BY DEF ContentStep, Caught, Goto
<1>4. pos \in Nodes /\ pos \in Nat /\ Known \subseteq Nodes /\ \A n \in Known : n \in Nat
  BY <1>2, PackageAssumption DEF Known, Nodes, ListInv, DocOK
<1>5. /\ spine' \in Nodes \cup {Null} /\ cur' \in Nodes \cup {Null}
      /\ next' \in [Nodes -> Nodes \cup {Null}] /\ prev' \in [Nodes -> Nodes \cup {Null}]
  BY <1>3, <1>4 DEF ListInv, TypeOK, SetNextItem, list
<1>6. TypeOK'
  <2>1. pc' \in {"spine", "false"} /\ pos' \in Nat /\ walk' \in Ids \cup {None}
    BY <1>1, <1>2, <1>3, <1>4
  <2> QED
    BY <1>1, <1>5, <2>1 DEF ListInv, TypeOK, Ended
<1>7. DocOK'
  BY <1>1, <1>3, <1>4 DEF ListInv, DocOK, config
<1>8. Known' = Known
  BY <1>1 DEF Known, config
<1>9. AtKnown'
  BY <1>2, <1>3, <1>8 DEF AtKnown
<1>10. CASE pc' = "false"
  BY <1>6, <1>7, <1>9, <1>10 DEF ListInv, Failed
<1>11. CASE walk' = Fallback(walk) /\ UNCHANGED <<pc, pos, list>>
  <2>1. Listed' = Listed
    BY <1>8, <1>11 DEF Listed
  <2>2. Linked'
    BY <1>1, <1>11, <2>1, SameLinked DEF ListInv, Failed
  <2> QED
    BY <1>6, <1>7, <1>9, <2>2 DEF ListInv
<1>12. CASE pc' = pc /\ pos' = pos + 1 /\ SetNextItem(cur, pos) /\ cur' = pos
  <2>1. Listed = {n \in Known : n < pos} /\ Listed' = {n \in Known : n < pos + 1}
    BY <1>1, <1>8, <1>12 DEF Listed, Early
  <2>2. Listed' = Listed \cup {pos}
    <3>1. \A n \in Known : n < pos + 1 <=> (n < pos \/ n = pos)
      BY <1>4
    <3> QED
      BY <1>2, <2>1, <3>1
  <2>3. Linked'
    BY <1>1, <1>4, <1>12, <2>1, <2>2, SetNextLinked DEF ListInv, Failed
  <2> QED
    BY <1>6, <1>7, <1>9, <2>3 DEF ListInv
<1> QED
  BY <1>3, <1>10, <1>11, <1>12

LEMMA NextList == ListInv /\ [Next]_vars => ListInv'
<1> SUFFICES ASSUME ListInv, [Next]_vars PROVE ListInv'
  OBVIOUS
<1>1. CASE OtherPart
  BY <1>1, OtherList
<1>2. ASSUME NEW item \in Item \cup {Broken}, ManifestNode(item) PROVE ListInv'
  BY <1>2, ManifestList
<1>3. CASE SpineNode
  BY <1>3, SpineNodeList
<1>4. CASE ContentStep
  BY <1>4, ContentList
<1>5. CASE UNCHANGED vars
  <2>1. UNCHANGED <<doc, emplace, tolerated, pc, pos, todo, start, walk, manifest, spine, next, prev, cur,
                    handlers, navigation>>
    BY <1>5 DEF vars, config, loop, list
  <2>2. Known' = Known /\ TypeOK' /\ DocOK'
    BY <2>1 DEF Known, ListInv, TypeOK, DocOK
  <2>3. AtKnown' /\ Listed' = Listed
    BY <2>1, <2>2 DEF AtKnown, Listed, ListInv
  <2>4. pc' \notin Failed => Linked'
    BY <2>1, <2>3, SameLinked DEF ListInv, list
  <2> QED
    BY <2>2, <2>3, <2>4 DEF ListInv
<1>6. OtherPart \/ (\E item \in Item \cup {Broken} : ManifestNode(item)) \/ SpineNode \/ ContentStep \/ UNCHANGED vars
  BY DEF Next, OtherPart
<1> QED
  BY <1>1, <1>2, <1>3, <1>4, <1>5, <1>6

\* Every step of Unpack() keeps the links of the spine in the order of the
\* document.
THEOREM Invariance == Spec => []ListInv
<1>1. Init => ListInv
  BY InitList
<1>2. ListInv /\ [Next]_vars => ListInv'
  BY NextList
<1> QED
  BY <1>1, <1>2, PTL DEF Spec

-----------------------------------------------------------------------------
(***************************************************************************)
(* Walking along the links                                                 *)
(***************************************************************************)
\* What is left of the invariant when the spine is complete
Complete ==
    /\ IsFiniteSet(Known) /\ \A n \in Known : n \in Nodes /\ n \in Nat /\ n # Null
    /\ spine \in Nodes \cup {Null}
    /\ next \in [Nodes -> Nodes \cup {Null}] /\ prev \in [Nodes -> Nodes \cup {Null}]
    /\ IsFirst(spine, Known)
    /\ \A n \in Known : /\ IsFirst(next[n], {m \in Known : n < m})
                        /\ IsLast(prev[n], {m \in Known : m < n})
    /\ \A n \in Nodes \ Known : next[n] = Null /\ prev[n] = Null

LEMMA LateComplete ==
    ASSUME ListInv, pc \in Late
    PROVE  Complete
<1>1. Listed = Known /\ Linked
  BY DEF ListInv, Late, Failed, Early, Listed
<1>2. \A n \in Known : n \in Nodes /\ n \in Nat /\ n # Null
  BY PackageAssumption DEF Known, ListInv, DocOK, Nodes, Null
<1>3. IsFiniteSet(Known)
  <2>1. IsFiniteSet(1 .. Len(doc.itemrefs))
    <3>1. Len(doc.itemrefs) \in Nat
      BY DEF ListInv, DocOK
    <3> QED
      BY <3>1, FS_Interval
  <2>2. Known \in SUBSET (1 .. Len(doc.itemrefs))
    BY DEF Known
  <2> QED
    BY <2>1, <2>2, FS_Subset
<1> QED
  BY <1>1, <1>2, <1>3 DEF Complete, Linked, ListInv, TypeOK

\* A known itemref counts those before it.
LEMMA BeforeType ==
    ASSUME Complete, NEW n \in Known
    PROVE  Before(n) \in Nat /\ IsFiniteSet({m \in Known : m < n})
<1>1. {m \in Known : m < n} \in SUBSET Known
  OBVIOUS
<1> QED
  BY <1>1, FS_Subset, FS_CardinalityType DEF Complete, Before

\* The link back leads to the one before, and forth again.
LEMMA BeforePrev ==
    ASSUME Complete, NEW n \in Known
    PROVE  IF prev[n] = Null THEN Before(n) = 0 /\ spine = n
           ELSE prev[n] \in Known /\ prev[n] < n /\ Before(n) = Before(prev[n]) + 1 /\ next[prev[n]] = n
<1>1. IsFirst(spine, Known) /\ IsLast(prev[n], {m \in Known : m < n}) /\ \A m \in Known : m \in Nat /\ m # Null
  BY DEF Complete
<1>2. CASE {m \in Known : m < n} = {}
  <2>1. prev[n] = Null
    BY <1>1, <1>2 DEF IsLast
  <2>2. Before(n) = 0
    BY <1>2, FS_EmptySet DEF Before
  <2>3. spine \in Known /\ spine <= n
    BY <1>1 DEF IsFirst
  <2>4. ~(spine < n)
    BY <1>2, <2>3
  <2> QED
    BY <1>1, <2>1, <2>2, <2>3, <2>4
<1>3. CASE {m \in Known : m < n} # {}
  <2> DEFINE p == prev[n]
  <2>1. p \in Known /\ p < n /\ p # Null /\ \A m \in Known : m < n => m <= p
    BY <1>1, <1>3 DEF IsLast
  <2>2. IsFirst(next[p], {m \in Known : p < m})
    BY <2>1 DEF Complete
  <2> HIDE DEF p
  <2>3. next[p] = n
    <3>1. n \in {m \in Known : p < m}
      BY <2>1
    <3>2. next[p] \in Known /\ p < next[p] /\ next[p] <= n
      BY <2>2, <3>1 DEF IsFirst
    <3>3. ~(next[p] < n)
      BY <1>1, <2>1, <3>2
    <3> QED
      BY <1>1, <3>2, <3>3
  <2>4. {m \in Known : m < n} = {m \in Known : m < p} \cup {p}
    BY <1>1, <2>1
  <2>5. p \notin {m \in Known : m < p}
    BY <1>1, <2>1
  <2>6. Before(n) = Before(p) + 1
    BY <2>1, <2>4, <2>5, FS_AddElement, BeforeType DEF Before
  <2> QED
    BY <2>1, <2>3, <2>6 DEF p
<1> QED
  BY <1>2, <1>3

\* The link forth leads to a known itemref.
LEMMA NextKnown ==
    ASSUME Complete, NEW n \in Known, next[n] # Null
    PROVE  next[n] \in Known
  BY DEF Complete, IsFirst

\* SpineItem::at() follows the links one by one.
LEMMA AtLoop ==
    ASSUME Complete, NEW k \in Nat
    PROVE  \E t : /\ t[0] = spine
                  /\ \A i \in 1 .. k : t[i] = IF t[i - 1] = Null THEN Null ELSE next[t[i - 1]]
                  /\ At(k) = t[k]
<1> DEFINE D == Nodes \cup {Null}
           Pass(d) == IF d = Null THEN Null ELSE next[d]
           g == [i \in 1 .. k |-> [d \in D |-> Pass(d)]]
           Body(t) == [i \in 0 .. k |-> IF i = 0 THEN spine ELSE Pass(t[i - 1])]
           t == CHOOSE t : t = Body(t)
<1>1. spine \in D /\ \A d \in D : Pass(d) \in D
  BY DEF Complete
<1>2. At(k) = t[k]
  BY DEF At
<1> HIDE DEF D, Pass
<1>3. \A i \in 1 .. k : \A d \in D : g[i][d] = Pass(d)
  OBVIOUS
<1> HIDE DEF g
<1>4. \E r : r \in Results(D, spine, k, g)
  <2>1. g \in Steps(D, k)
    BY <1>1 DEF Steps, g
  <2> QED
    BY ONLY <1>1, <2>1, LoopHasResults, k \in Nat
<1>5. \E r : r = Body(r)
  <2>1. PICK r \in [0 .. k -> D] : r[0] = spine /\ \A i \in 1 .. k : r[i] = g[i][r[i - 1]]
    BY <1>4 DEF Results
  <2>2. \A i \in 1 .. k : r[i] = Pass(r[i - 1])
    BY <1>1, <1>3, <2>1
  <2> DEFINE b == Body(r)
  <2>3. /\ b[0] = spine /\ \A i \in 1 .. k : b[i] = Pass(r[i - 1])
        /\ DOMAIN b = 0 .. k /\ b = [i \in DOMAIN b |-> b[i]]
    BY <1>1
  <2> HIDE DEF b
  <2>4. \A i \in 0 .. k : i = 0 \/ i \in 1 .. k
    OBVIOUS
  <2>5. \A i \in 0 .. k : r[i] = b[i]
    BY <2>1, <2>2, <2>3, <2>4
  <2>6. r = b
    BY <2>1, <2>3, <2>5
  <2> QED
    BY <2>6 DEF b
<1>6. t = Body(t)
  BY <1>5
<1> HIDE DEF t
<1>7. t[0] = spine /\ \A i \in 1 .. k : t[i] = Pass(t[i - 1])
  <2>1. Body(t)[0] = spine /\ \A i \in 1 .. k : Body(t)[i] = Pass(t[i - 1])
    OBVIOUS
  <2> HIDE DEF Body
  <2> QED
    BY <1>6, <2>1
<1> QED
  BY <1>2, <1>7 DEF Pass

\* The next place is one link further.
LEMMA AtStep ==
    ASSUME Complete
    PROVE  At(0) = spine /\ \A k \in Nat : At(k + 1) = IF At(k) = Null THEN Null ELSE next[At(k)]
<1>1. At(0) = spine
  BY AtLoop
<1>2. ASSUME NEW k \in Nat PROVE At(k + 1) = IF At(k) = Null THEN Null ELSE next[At(k)]
  <2>1. PICK t : /\ t[0] = spine
                 /\ \A i \in 1 .. k : t[i] = IF t[i - 1] = Null THEN Null ELSE next[t[i - 1]]
                 /\ At(k) = t[k]
    BY AtLoop
  <2>2. PICK u : /\ u[0] = spine
                 /\ \A i \in 1 .. k + 1 : u[i] = IF u[i - 1] = Null THEN Null ELSE next[u[i - 1]]
                 /\ At(k + 1) = u[k + 1]
    <3>1. k + 1 \in Nat
      OBVIOUS
    <3> QED
      BY <3>1, AtLoop
  <2> DEFINE G == {i \in 0 .. k : t[i] = u[i]}
  <2>3. 0 \in G /\ \A i \in 1 .. k : i - 1 \in G => i \in G
    BY <2>1, <2>2
  <2> HIDE DEF G
  <2>4. \A i \in 0 .. k : i \in G
    BY <2>3, Passes
  <2>5. t[k] = u[k]
    BY <2>4 DEF G
  <2>6. k + 1 \in 1 .. k + 1 /\ (k + 1) - 1 = k
    OBVIOUS
  <2> QED
    BY <2>1, <2>2, <2>5, <2>6
<1> QED
  BY <1>1, <1>2

\* Every place holds a known itemref, until the list ends.
LEMMA AtIsKnown ==
    ASSUME Complete, NEW k \in Nat
    PROVE  At(k) \in Known \cup {Null}
<1> DEFINE G == {i \in 0 .. k : At(i) \in Known \cup {Null}}
<1>1. 0 \in G
  <2>1. At(0) \in Known \cup {Null}
    BY AtStep DEF Complete, IsFirst
  <2> QED
    BY <2>1
<1>2. ASSUME NEW i \in 1 .. k, i - 1 \in G PROVE i \in G
  <2>1. i - 1 \in Nat /\ (i - 1) + 1 = i /\ At(i - 1) \in Known \cup {Null}
    BY <1>2
  <2>2. At(i) = IF At(i - 1) = Null THEN Null ELSE next[At(i - 1)]
    BY <2>1, AtStep
  <2>3. At(i) \in Known \cup {Null}
    BY <2>1, <2>2, NextKnown
  <2> QED
    BY <2>3
<1> HIDE DEF G
<1>3. \A i \in 0 .. k : i \in G
  BY <1>1, <1>2, Passes
<1> QED
  BY <1>3 DEF G

\* An itemref is at the place that counts those before it.
LEMMA AtBefore ==
    ASSUME Complete
    PROVE  \A n \in Known : At(Before(n)) = n
<1> DEFINE T == {n \in Known : At(Before(n)) # n}
<1> SUFFICES ASSUME T # {} PROVE FALSE
  OBVIOUS
<1>1. PICK n \in T : \A m \in T : n <= m
  <2>1. T \subseteq Nat
    BY DEF Complete
  <2> HIDE DEF T
  <2> QED
    BY <2>1, LeastNat
<1>2. n \in Known /\ At(Before(n)) # n
  BY <1>1
<1>3. CASE prev[n] = Null
  BY <1>2, <1>3, BeforePrev, AtStep
<1>4. CASE prev[n] # Null
  <2>1. prev[n] \in Known /\ prev[n] < n /\ Before(n) = Before(prev[n]) + 1 /\ next[prev[n]] = n
    BY <1>2, <1>4, BeforePrev
  <2>2. prev[n] \in Nat /\ n \in Nat /\ prev[n] # Null
    BY <1>2, <2>1 DEF Complete
  <2>3. At(Before(prev[n])) = prev[n]
    BY <1>1, <2>1, <2>2
  <2>4. At(Before(prev[n]) + 1) = next[prev[n]]
    BY <2>1, <2>2, <2>3, AtStep, BeforeType
  <2> QED
    BY <1>2, <2>1, <2>4
<1> QED
  BY <1>3, <1>4

\* The places up to the bound hold all known itemrefs.
LEMMA ItemsAreKnown ==
    ASSUME ListInv, Complete
    PROVE  SpineItems = Known
<1>1. SpineItems \subseteq Known
  <2>1. \A k \in 0 .. MaxRefs : At(k) \in Known \cup {Null}
    BY AtIsKnown, PackageAssumption
  <2> QED
    BY <2>1 DEF SpineItems
<1>2. ASSUME NEW n \in Known PROVE n \in SpineItems
  <2>1. At(Before(n)) = n /\ n # Null
    BY AtBefore DEF Complete
  <2>2. Before(n) \in 0 .. MaxRefs
    <3>1. Len(doc.itemrefs) \in Nat /\ Len(doc.itemrefs) <= MaxRefs
      BY DEF ListInv, DocOK
    <3>2. {m \in Known : m < n} \in SUBSET (1 .. Len(doc.itemrefs))
      BY DEF Known
    <3>3. IsFiniteSet(1 .. Len(doc.itemrefs)) /\ Cardinality(1 .. Len(doc.itemrefs)) = Len(doc.itemrefs)
      BY <3>1, FS_Interval
    <3>4. Before(n) <= Len(doc.itemrefs)
      BY <3>2, <3>3, FS_Subset DEF Before
    <3>5. Before(n) \in Nat
      BY BeforeType
    <3> HIDE DEF Before
    <3> QED
      BY <3>1, <3>4, <3>5, PackageAssumption
  <2> QED
    BY <2>1, <2>2 DEF SpineItems
<1> QED
  BY <1>1, <1>2

\* SpineItem::Index() counts the links back.
LEMMA IndexCounts ==
    ASSUME Complete
    PROVE  \A n \in Known : Index(n) = Before(n)
<1> DEFINE Body(f) == [m \in Nodes |-> IF prev[m] = Null THEN 0 ELSE f[prev[m]] + 1]
           t == CHOOSE f : f = Body(f)
           w == [m \in Nodes |-> IF m \in Known THEN Before(m) ELSE 0]
<1>1. \A n : Index(n) = t[n]
  BY DEF Index
<1>2. w = Body(w)
  <2>1. ASSUME NEW m \in Nodes PROVE w[m] = Body(w)[m]
    <3>1. Body(w)[m] = IF prev[m] = Null THEN 0 ELSE w[prev[m]] + 1
      OBVIOUS
    <3>2. CASE m \notin Known
      <4>1. prev[m] = Null
        BY <3>2 DEF Complete
      <4> QED
        BY <3>1, <3>2, <4>1
    <3>3. CASE m \in Known /\ prev[m] = Null
      BY <3>1, <3>3, BeforePrev
    <3>4. CASE m \in Known /\ prev[m] # Null
      <4>1. prev[m] \in Known /\ Before(m) = Before(prev[m]) + 1
        BY <3>4, BeforePrev
      <4>2. prev[m] \in Nodes
        BY <4>1 DEF Complete
      <4> QED
        BY <3>1, <3>4, <4>1, <4>2
    <3> QED
      BY <3>2, <3>3, <3>4
  <2>2. w = [m \in Nodes |-> w[m]] /\ Body(w) = [m \in Nodes |-> Body(w)[m]]
    OBVIOUS
  <2> HIDE DEF w, Body
  <2> QED
    BY <2>1, <2>2
<1> HIDE DEF w
<1>3. t = Body(t)
  BY <1>2
<1> HIDE DEF t
<1>4. \A m \in Nodes : t[m] = IF prev[m] = Null THEN 0 ELSE t[prev[m]] + 1
  <2>1. \A m \in Nodes : Body(t)[m] = IF prev[m] = Null THEN 0 ELSE t[prev[m]] + 1
    OBVIOUS
  <2> HIDE DEF Body
  <2> QED
    BY <1>3, <2>1
<1> HIDE DEF Body
<1> DEFINE T == {n \in Known : t[n] # Before(n)}
<1>5. ASSUME T # {} PROVE FALSE
  <2>1. PICK n \in T : \A m \in T : n <= m
    <3>1. T \subseteq Nat
      BY DEF Complete
    <3> HIDE DEF T
    <3> QED
      BY <1>5, <3>1, LeastNat
  <2>2. n \in Known /\ t[n] # Before(n) /\ n \in Nodes
    BY <2>1 DEF Complete
  <2>3. CASE prev[n] = Null
    BY <1>4, <2>2, <2>3, BeforePrev
  <2>4. CASE prev[n] # Null
    <3>1. prev[n] \in Known /\ prev[n] < n /\ Before(n) = Before(prev[n]) + 1
      BY <2>2, <2>4, BeforePrev
    <3>2. prev[n] \in Nat /\ n \in Nat
      BY <2>2, <3>1 DEF Complete
    <3>3. t[prev[n]] = Before(prev[n])
      BY <2>1, <3>1, <3>2
    <3> QED
      BY <1>4, <2>2, <2>4, <3>1, <3>3
  <2> QED
    BY <2>3, <2>4
<1> QED
  BY <1>1, <1>5

\* The one of a set that is nearest from where all of it is left to go
Nearest(left, n, S) == IF S = {} THEN n = Null ELSE n \in S /\ \A m \in S : left[m] <= left[n]
Ahead(left, n) == {m \in Known : left[m] < left[n]}
Linear(n) == doc.itemrefs[n].linear
LinearAhead(left, n) == {m \in Ahead(left, n) : Linear(m)}

\* A link that leads to the nearest known itemref
Nears(link, left) ==
    /\ link \in [Nodes -> Nodes \cup {Null}] /\ left \in [Nodes -> Nat]
    /\ \A m, n \in Known : left[m] = left[n] => m = n
    /\ \A n \in Known : Nearest(left, link[n], Ahead(left, n))
    /\ \A n \in Nodes \ Known : link[n] = Null

\* There is a nearest one, and only one.
LEMMA NearestExists ==
    ASSUME Complete, NEW left \in [Nodes -> Nat], NEW n \in Known, NEW S \in SUBSET Ahead(left, n)
    PROVE  \E m : Nearest(left, m, S)
<1>1. CASE S = {}
  BY <1>1 DEF Nearest
<1>2. CASE S # {}
  <2> DEFINE T == {left[n] - left[m] : m \in S}
  <2>1. left[n] \in Nat /\ \A m \in S : left[m] \in Nat /\ left[m] < left[n]
    BY DEF Ahead, Complete
  <2>2. T \subseteq Nat /\ T # {}
    BY <1>2, <2>1
  <2> HIDE DEF T
  <2>3. PICK x \in T : \A y \in T : x <= y
    BY <2>2, LeastNat
  <2>4. PICK m \in S : x = left[n] - left[m]
    BY DEF T
  <2>5. \A y \in S : left[n] - left[m] <= left[n] - left[y]
    BY <2>3, <2>4 DEF T
  <2>6. \A y \in S : left[y] <= left[m]
    BY <2>1, <2>5
  <2> QED
    BY <2>6 DEF Nearest
<1> QED
  BY <1>1, <1>2

LEMMA NearestUnique ==
    ASSUME Complete, NEW link, NEW left, Nears(link, left), NEW S \in SUBSET Known, NEW m, NEW n,
           Nearest(left, m, S), Nearest(left, n, S)
    PROVE  m = n
<1>1. CASE S = {}
  BY <1>1 DEF Nearest
<1>2. CASE S # {}
  <2>1. m \in Known /\ n \in Known /\ left[m] <= left[n] /\ left[n] <= left[m]
    BY <1>2 DEF Nearest
  <2>2. left[m] \in Nat /\ left[n] \in Nat
    BY <2>1 DEF Nears, Complete
  <2> QED
    BY <2>1, <2>2 DEF Nears
<1> QED
  BY <1>1, <1>2

\* One link on, either the nearest linear itemref is there, or it is the
\* nearest one from there.
LEMMA NearestOn ==
    ASSUME Complete, NEW link, NEW left, Nears(link, left), NEW n \in Known, NEW x,
           IF link[n] = Null THEN x = Null
           ELSE IF Linear(link[n]) THEN x = link[n] ELSE Nearest(left, x, LinearAhead(left, link[n]))
    PROVE  Nearest(left, x, LinearAhead(left, n))
<1>1. Nearest(left, link[n], Ahead(left, n))
  BY DEF Nears
<1>2. \A m \in Known : m # Null /\ left[m] \in Nat
  BY DEF Complete, Nears
<1>3. CASE Ahead(left, n) = {}
  <2>1. LinearAhead(left, n) = {} /\ link[n] = Null
    BY <1>1, <1>3 DEF LinearAhead, Nearest
  <2> QED
    BY <2>1 DEF Nearest
<1>4. CASE Ahead(left, n) # {}
  <2>1. /\ link[n] \in Known /\ left[link[n]] < left[n] /\ link[n] # Null
        /\ \A m \in Known : left[m] < left[n] => left[m] <= left[link[n]]
    BY <1>1, <1>2, <1>4 DEF Nearest, Ahead
  <2>2. CASE Linear(link[n])
    <3>1. x = link[n] /\ x \in LinearAhead(left, n) /\ \A m \in LinearAhead(left, n) : left[m] <= left[x]
      BY <2>1, <2>2 DEF LinearAhead, Ahead
    <3> QED
      BY <3>1 DEF Nearest
  <2>3. CASE ~Linear(link[n])
    <3>1. ASSUME NEW m \in Known PROVE m \in LinearAhead(left, n) <=> m \in LinearAhead(left, link[n])
      <4>1. left[m] = left[link[n]] => m = link[n]
        BY <2>1 DEF Nears
      <4>2. (Linear(m) /\ left[m] < left[n]) <=> (Linear(m) /\ left[m] < left[link[n]])
        BY <1>2, <2>1, <2>3, <4>1
      <4> QED
        BY <4>2 DEF LinearAhead, Ahead
    <3>2. LinearAhead(left, n) = LinearAhead(left, link[n])
      BY <3>1 DEF LinearAhead, Ahead
    <3> QED
      BY <2>1, <2>3, <3>2
  <2> QED
    BY <2>2, <2>3
<1> QED
  BY <1>3, <1>4

\* SpineItem::NextStep() and PriorStep() find the nearest linear itemref.
LEMMA StepNearest ==
    ASSUME Complete, NEW link, NEW left, Nears(link, left)
    PROVE  \A n \in Known : Nearest(left, StepThrough(link, n), LinearAhead(left, n))
<1> DEFINE D == Nodes \cup {Null}
           Body(f) == [m \in D |-> IF m = Null THEN Null ELSE IF Linear(m) THEN m ELSE f[link[m]]]
           t == CHOOSE f : f = Body(f)
           Near(m) == CHOOSE x : Nearest(left, x, LinearAhead(left, m))
           w == [m \in D |-> IF m = Null THEN Null ELSE IF Linear(m) THEN m ELSE IF m \in Known THEN Near(m) ELSE Null]
<1>1. \A n : StepThrough(link, n) = t[link[n]]
  BY DEF StepThrough, Linear
<1>2. Null \in D /\ Known \subseteq D /\ \A m \in D : m # Null => m \in Nodes /\ link[m] \in D
  BY DEF Nears, Complete
<1>3. \A n \in Known : Nearest(left, Near(n), LinearAhead(left, n))
  <2>1. ASSUME NEW n \in Known PROVE \E x : Nearest(left, x, LinearAhead(left, n))
    <3>1. left \in [Nodes -> Nat] /\ LinearAhead(left, n) \in SUBSET Ahead(left, n)
      BY DEF Nears, LinearAhead
    <3> QED
      BY <3>1, NearestExists
  <2> QED
    BY <2>1
<1> HIDE DEF Near, D
<1>4. w = Body(w)
  <2>1. /\ w[Null] = Null
        /\ \A m \in D : /\ m # Null /\ Linear(m) => w[m] = m
                        /\ m # Null /\ ~Linear(m) /\ m \in Known => w[m] = Near(m)
                        /\ m # Null /\ ~Linear(m) /\ m \notin Known => w[m] = Null
    BY <1>2
  <2>2. \A m \in D : Body(w)[m] = IF m = Null THEN Null ELSE IF Linear(m) THEN m ELSE w[link[m]]
    OBVIOUS
  <2>3. w = [m \in D |-> w[m]] /\ Body(w) = [m \in D |-> Body(w)[m]]
    OBVIOUS
  <2> HIDE DEF w, Body
  <2>4. ASSUME NEW m \in D PROVE w[m] = Body(w)[m]
    <3>1. CASE m = Null \/ Linear(m)
      BY <2>1, <2>2, <3>1
    <3>2. CASE m # Null /\ ~Linear(m) /\ m \notin Known
      <4>1. link[m] = Null
        BY <1>2, <3>2 DEF Nears
      <4> QED
        BY <2>1, <2>2, <3>2, <4>1
    <3>3. CASE m # Null /\ ~Linear(m) /\ m \in Known
      <4>1. Body(w)[m] = w[link[m]] /\ w[m] = Near(m)
        BY <2>1, <2>2, <3>3
      <4>2. link[m] \in Known \cup {Null}
        BY <3>3 DEF Nears, Nearest, Ahead
      <4>3. IF link[m] = Null THEN w[link[m]] = Null
            ELSE IF Linear(link[m]) THEN w[link[m]] = link[m]
            ELSE Nearest(left, w[link[m]], LinearAhead(left, link[m]))
        BY <1>2, <1>3, <2>1, <4>2
      <4>4. Nearest(left, w[link[m]], LinearAhead(left, m)) /\ Nearest(left, Near(m), LinearAhead(left, m))
        BY <1>3, <3>3, <4>3, NearestOn
      <4>5. LinearAhead(left, m) \in SUBSET Known
        BY DEF LinearAhead, Ahead
      <4> QED
        BY <4>1, <4>4, <4>5, NearestUnique
    <3> QED
      BY <3>1, <3>2, <3>3
  <2> QED
    BY <2>3, <2>4
<1> HIDE DEF w
<1>5. t = Body(t)
  BY <1>4
<1> HIDE DEF t
<1>6. \A m \in D : t[m] = IF m = Null THEN Null ELSE IF Linear(m) THEN m ELSE t[link[m]]
  <2>1. \A m \in D : Body(t)[m] = IF m = Null THEN Null ELSE IF Linear(m) THEN m ELSE t[link[m]]
    OBVIOUS
  <2> HIDE DEF Body
  <2> QED
    BY <1>5, <2>1
<1> HIDE DEF Body
<1> DEFINE Good(n) == Nearest(left, t[link[n]], LinearAhead(left, n))
           T == {left[n] : n \in {m \in Known : ~Good(m)}}
<1>7. ASSUME T # {} PROVE FALSE
  <2>1. PICK x \in T : \A y \in T : x <= y
    <3>1. T \subseteq Nat
      BY DEF Nears, Complete
    <3> HIDE DEF T
    <3> QED
      BY <1>7, <3>1, LeastNat
  <2>2. PICK n \in Known : x = left[n] /\ ~Good(n)
    BY <2>1
  <2>3. ASSUME NEW m \in Known, left[m] < left[n] PROVE Good(m)
    <3>1. left[m] \in Nat /\ left[n] \in Nat
      BY <2>2 DEF Nears, Complete
    <3>2. ~(left[n] <= left[m])
      BY <2>3, <3>1
    <3> HIDE DEF Good
    <3> QED
      BY <2>1, <2>2, <3>2
  <2>4. link[n] = Null \/ (link[n] \in Known /\ left[link[n]] < left[n])
    BY <2>2 DEF Nears, Nearest, Ahead
  <2>5. IF link[n] = Null THEN t[link[n]] = Null
        ELSE IF Linear(link[n]) THEN t[link[n]] = link[n]
        ELSE Nearest(left, t[link[n]], LinearAhead(left, link[n]))
    BY <1>2, <1>6, <2>3, <2>4
  <2>6. Good(n)
    BY <2>2, <2>5, NearestOn
  <2> QED
    BY <2>2, <2>6
<1> HIDE DEF Good
<1>8. \A n \in Known : Good(n)
  BY <1>7
<1> QED
  BY <1>1, <1>8 DEF Good

\* Both links lead to the nearest itemref, in their direction.
LEMMA LinksNear ==
    ASSUME Complete
    PROVE  Nears(next, [n \in Nodes |-> MaxRefs - n]) /\ Nears(prev, [n \in Nodes |-> n])
<1> DEFINE f == [n \in Nodes |-> MaxRefs - n]
           b == [n \in Nodes |-> n]
<1>1. f \in [Nodes -> Nat] /\ b \in [Nodes -> Nat]
  BY PackageAssumption DEF Nodes
<1>2. ASSUME NEW m \in Known, NEW n \in Known
      PROVE  /\ f[m] < f[n] <=> n < m
             /\ f[m] <= f[n] <=> n <= m
             /\ f[m] = f[n] => m = n
             /\ b[m] = m /\ b[n] = n
  <2>1. m \in Nodes /\ n \in Nodes /\ m \in Nat /\ n \in Nat
    BY DEF Complete
  <2>2. f[m] = MaxRefs - m /\ f[n] = MaxRefs - n /\ b[m] = m /\ b[n] = n
    BY <2>1
  <2> QED
    BY <2>1, <2>2, PackageAssumption
<1> HIDE DEF f, b
<1>3. ASSUME NEW n \in Known PROVE Nearest(f, next[n], Ahead(f, n)) /\ Nearest(b, prev[n], Ahead(b, n))
  <2>1. Ahead(f, n) = {m \in Known : n < m} /\ Ahead(b, n) = {m \in Known : m < n}
    BY <1>2 DEF Ahead
  <2>2. IsFirst(next[n], Ahead(f, n)) /\ IsLast(prev[n], Ahead(b, n))
    BY <2>1 DEF Complete
  <2>3. Ahead(f, n) \subseteq Known /\ Ahead(b, n) \subseteq Known
    BY DEF Ahead
  <2> QED
    BY <1>2, <2>2, <2>3 DEF IsFirst, IsLast, Nearest
<1>4. Nears(next, f) /\ Nears(prev, b)
  BY <1>1, <1>2, <1>3 DEF Nears, Complete
<1> QED
  BY <1>4 DEF f, b

\* A linear item is the next step of another if that is its prior one.
LEMMA StepsAgree ==
    ASSUME Complete, NEW m \in Known, NEW n \in Known, Linear(m), Linear(n)
    PROVE  NextStep(m) = n <=> PriorStep(n) = m
<1> DEFINE f == [x \in Nodes |-> MaxRefs - x]
           b == [x \in Nodes |-> x]
<1>1. Nearest(f, NextStep(m), LinearAhead(f, m)) /\ Nearest(b, PriorStep(n), LinearAhead(b, n))
  <2>1. Nears(next, f) /\ Nears(prev, b)
    BY LinksNear
  <2> HIDE DEF f, b
  <2> QED
    BY <2>1, StepNearest DEF NextStep, PriorStep
<1>2. \A x, y \in Known : /\ f[x] < f[y] <=> y < x
                          /\ f[x] <= f[y] <=> y <= x
                          /\ b[x] < b[y] <=> x < y
                          /\ b[x] <= b[y] <=> x <= y
  <2>1. \A x \in Known : f[x] = MaxRefs - x /\ b[x] = x /\ x \in Nat
    BY DEF Complete
  <2> HIDE DEF f, b
  <2> QED
    BY <2>1, PackageAssumption
<1> HIDE DEF f, b
<1>3. LinearAhead(f, m) = {x \in Known : m < x /\ Linear(x)} /\ LinearAhead(b, n) = {x \in Known : x < n /\ Linear(x)}
  BY <1>2 DEF LinearAhead, Ahead
<1>4. \A x \in Known : x \in Nat /\ x # Null
  BY DEF Complete
<1>5. NextStep(m) = n <=> (m < n /\ \A x \in Known : (m < x /\ Linear(x)) => n <= x)
  <2>1. ASSUME NextStep(m) = n PROVE m < n /\ \A x \in Known : (m < x /\ Linear(x)) => n <= x
    BY <1>1, <1>2, <1>3, <1>4, <2>1 DEF Nearest
  <2>2. ASSUME m < n, \A x \in Known : (m < x /\ Linear(x)) => n <= x PROVE NextStep(m) = n
    <3>1. n \in LinearAhead(f, m)
      BY <1>3, <2>2
    <3>2. NextStep(m) \in LinearAhead(f, m) /\ f[n] <= f[NextStep(m)]
      BY <1>1, <3>1 DEF Nearest
    <3>3. NextStep(m) \in Known /\ NextStep(m) <= n /\ n <= NextStep(m)
      BY <1>2, <1>3, <2>2, <3>2
    <3> QED
      BY <1>4, <3>3
  <2> QED
    BY <2>1, <2>2
<1>6. PriorStep(n) = m <=> (m < n /\ \A x \in Known : (x < n /\ Linear(x)) => x <= m)
  <2>1. ASSUME PriorStep(n) = m PROVE m < n /\ \A x \in Known : (x < n /\ Linear(x)) => x <= m
    BY <1>1, <1>2, <1>3, <1>4, <2>1 DEF Nearest
  <2>2. ASSUME m < n, \A x \in Known : (x < n /\ Linear(x)) => x <= m PROVE PriorStep(n) = m
    <3>1. m \in LinearAhead(b, n)
      BY <1>3, <2>2
    <3>2. PriorStep(n) \in LinearAhead(b, n) /\ b[m] <= b[PriorStep(n)]
      BY <1>1, <3>1 DEF Nearest
    <3>3. PriorStep(n) \in Known /\ PriorStep(n) <= m /\ m <= PriorStep(n)
      BY <1>2, <1>3, <2>2, <3>2
    <3> QED
      BY <1>4, <3>3
  <2> QED
    BY <2>1, <2>2
<1>7. (\A x \in Known : (m < x /\ Linear(x)) => n <= x) <=> (\A x \in Known : (x < n /\ Linear(x)) => x <= m)
  BY <1>4
<1> QED
  BY <1>5, <1>6, <1>7

\* Whatever the document, its manifest and the errors the client tolerates,
\* the spine items of a package that got that far are its known itemrefs in
\* the order of the document, with the right indices, and stepping forward
\* and back through the linear ones agree.
THEOREM SpineIsReadingOrder == Spec => []ReadingOrder
<1>1. ListInv => ReadingOrder
  <2> SUFFICES ASSUME ListInv, pc \in {"metadata", "bindings", "navigation", "ncx", "open"}
               PROVE  /\ SpineItems = Known
                      /\ \A n \in Known : At(Before(n)) = n /\ Index(n) = Before(n)
                      /\ \A m, n \in Known :
                             (doc.itemrefs[m].linear /\ doc.itemrefs[n].linear) =>
                                 (NextStep(m) = n <=> PriorStep(n) = m)
    BY DEF ReadingOrder
  <2>1. Complete
    BY LateComplete DEF Late
  <2>2. SpineItems = Known
    BY <2>1, ItemsAreKnown
  <2>3. \A n \in Known : At(Before(n)) = n /\ Index(n) = Before(n)
    BY <2>1, AtBefore, IndexCounts
  <2>4. \A m, n \in Known : (Linear(m) /\ Linear(n)) => (NextStep(m) = n <=> PriorStep(n) = m)
    BY <2>1, StepsAgree
  <2> QED
    BY <2>2, <2>3, <2>4 DEF Linear
<1> QED
  BY <1>1, Invariance, PTL

-----------------------------------------------------------------------------
(***************************************************************************)
(* CFIs of spine items                                                     *)
(***************************************************************************)
\* The link forth leads to one that counts one more, or ends the list.
LEMMA NextBefore ==
    ASSUME Complete, NEW n \in Known
    PROVE  IF next[n] = Null THEN Cardinality(Known) = Before(n) + 1
           ELSE next[n] \in Known /\ Before(next[n]) = Before(n) + 1
<1>1. IsFirst(next[n], {m \in Known : n < m}) /\ \A m \in Known : m \in Nat /\ m # Null
  BY DEF Complete
<1>2. CASE {m \in Known : n < m} = {}
  <2>1. next[n] = Null
    BY <1>1, <1>2 DEF IsFirst
  <2>2. Known = {m \in Known : m < n} \cup {n}
    BY <1>1, <1>2
  <2>3. n \notin {m \in Known : m < n}
    BY <1>1
  <2>4. Cardinality({m \in Known : m < n} \cup {n}) = Cardinality({m \in Known : m < n}) + 1
    BY <2>3, FS_AddElement, BeforeType
  <2> QED
    BY <2>1, <2>2, <2>4 DEF Before
<1>3. CASE {m \in Known : n < m} # {}
  <2>1. next[n] \in Known /\ n < next[n] /\ \A m \in Known : n < m => next[n] <= m
    BY <1>1, <1>3 DEF IsFirst
  <2>2. {m \in Known : m < next[n]} = {m \in Known : m < n} \cup {n}
    BY <1>1, <2>1
  <2>3. n \notin {m \in Known : m < n}
    BY <1>1
  <2>4. Cardinality({m \in Known : m < n} \cup {n}) = Cardinality({m \in Known : m < n}) + 1
    BY <2>3, FS_AddElement, BeforeType
  <2>5. Before(next[n]) = Before(n) + 1
    BY <2>2, <2>4 DEF Before
  <2> QED
    BY <1>1, <2>1, <2>5
<1> QED
  BY <1>2, <1>3

\* There is an item at every place below the number of items.
LEMMA AtPlace ==
    ASSUME Complete, NEW k \in Nat, k < Cardinality(Known)
    PROVE  At(k) \in Known
<1> DEFINE G == {i \in 0 .. k : At(i) \in Known /\ Before(At(i)) = i}
<1>1. Cardinality(Known) \in Nat
  BY FS_CardinalityType DEF Complete
<1>2. 0 \in G
  <2>1. Known # {}
    BY <1>1, FS_EmptySet
  <2>2. spine \in Known /\ \A m \in Known : spine <= m
    BY <2>1 DEF Complete, IsFirst
  <2>3. {m \in Known : m < spine} = {}
    BY <2>2 DEF Complete
  <2>4. Before(spine) = 0
    BY <2>3, FS_EmptySet DEF Before
  <2> QED
    BY <2>2, <2>4, AtStep
<1>3. ASSUME NEW i \in 1 .. k, i - 1 \in G PROVE i \in G
  <2>1. i - 1 \in Nat /\ (i - 1) + 1 = i /\ At(i - 1) \in Known /\ Before(At(i - 1)) = i - 1
    BY <1>3
  <2>2. At(i) = next[At(i - 1)]
    <3>1. At(i - 1) # Null
      BY <2>1 DEF Complete
    <3> QED
      BY <2>1, <3>1, AtStep
  <2>3. next[At(i - 1)] # Null
    BY <1>1, <2>1, NextBefore
  <2>4. At(i) \in Known /\ Before(At(i)) = i
    BY <2>1, <2>2, <2>3, NextBefore
  <2> QED
    BY <2>4
<1> HIDE DEF G
<1>4. \A i \in 0 .. k : i \in G
  BY <1>2, <1>3, Passes
<1> QED
  BY <1>4 DEF G

\* IndexOfSpineItemWithIDRef() finds an item of the spine, and no other.
LEMMA IndexFinds ==
    ASSUME Complete, ListInv, NEW id
    PROVE  IF id \in InSpine
           THEN \E k \in Nat : IndexPlusOne(id) = 1 + k /\ At(k) \in Known /\ doc.itemrefs[At(k)].idref = id
           ELSE IndexPlusOne(id) = 0
<1> DEFINE places == {k \in 0 .. MaxRefs : At(k) # Null /\ doc.itemrefs[At(k)].idref = id}
           least == CHOOSE k \in places : \A l \in places : k <= l
<1>1. IndexPlusOne(id) = IF places = {} THEN 0 ELSE 1 + least
  BY DEF IndexPlusOne
<1>2. places \subseteq Nat /\ \A k \in places : At(k) \in Known /\ doc.itemrefs[At(k)].idref = id
  BY AtIsKnown, PackageAssumption
<1>3. id \in InSpine <=> places # {}
  BY DEF InSpine, SpineItems
<1> HIDE DEF places
<1>4. CASE places = {}
  BY <1>1, <1>3, <1>4
<1>5. CASE places # {}
  <2>1. \E k \in places : \A l \in places : k <= l
    BY <1>2, <1>5, LeastNat
  <2>2. least \in places
    BY <2>1
  <2> HIDE DEF least
  <2> QED
    BY <1>1, <1>2, <1>3, <1>5, <2>2
<1> QED
  BY <1>4, <1>5

\* An even index leads to its half.
LEMMA Halves ==
    ASSUME NEW x \in Nat
    PROVE  (x * 2) \div 2 = x /\ (x * 2) % 2 = 0 /\ 2 * x = x * 2
  OBVIOUS

\* What ManifestItemForCFI() makes of a place that is in the spine
LEMMA CfiLeads ==
    ASSUME Complete, ListInv, NEW k \in Nat, At(k) \in Known, NEW id,
           id = doc.itemrefs[At(k)].idref \/ (id \in InSpine /\ id # None)
    PROVE  ManifestItemForCFI([nodeIndex |-> (k + 1) * 2, qualifier |-> id]) = id
<1> DEFINE cfi == [nodeIndex |-> (k + 1) * 2, qualifier |-> id]
           n == Corrected(At(k), id)
<1>1. cfi.nodeIndex \div 2 = k + 1 /\ cfi.nodeIndex % 2 = 0 /\ cfi.qualifier = id
  <2>1. k + 1 \in Nat /\ cfi.nodeIndex = (k + 1) * 2 /\ cfi.qualifier = id
    OBVIOUS
  <2> HIDE DEF cfi
  <2> QED
    BY <2>1, Halves
<1>2. (k + 1) - 1 = k /\ k + 1 # 0 /\ At(k) # Null
  BY DEF Complete
<1> HIDE DEF cfi
<1>3. ManifestItemForCFI(cfi) = IF n = Null THEN None ELSE doc.itemrefs[n].idref
  BY <1>1, <1>2 DEF ManifestItemForCFI
<1>4. n \in Known /\ doc.itemrefs[n].idref = id
  <2>1. CASE id = doc.itemrefs[At(k)].idref
    BY <2>1 DEF Corrected
  <2>2. CASE id # doc.itemrefs[At(k)].idref
    <3>1. PICK l \in Nat : IndexPlusOne(id) = 1 + l /\ At(l) \in Known /\ doc.itemrefs[At(l)].idref = id
      BY <2>2, IndexFinds
    <3>2. IndexPlusOne(id) # 0 /\ IndexPlusOne(id) - 1 = l
      BY <3>1
    <3>3. n = At(l)
      BY <2>2, <3>2 DEF Corrected
    <3> QED
      BY <3>1, <3>3
  <2> QED
    BY <2>1, <2>2
<1>5. n # Null
  BY <1>4 DEF Complete
<1> QED
  BY <1>3, <1>4, <1>5 DEF cfi

\* Whatever became of the manifest and the spine, the CFIs of an open package
\* lead back to the items they were made for.
THEOREM CfiLeadsBack == Spec => []CfiFindsItem
<1>1. ListInv => CfiFindsItem
  <2> SUFFICES ASSUME ListInv, pc = "open" PROVE CfiFindsItem
    BY DEF CfiFindsItem
  <2>1. Complete
    BY LateComplete DEF Late
  <2>2. SpineItems = Known
    BY <2>1, ItemsAreKnown
  <2>3. ASSUME NEW n \in SpineItems PROVE ManifestItemForCFI(CFIForSpineItem(n)) = doc.itemrefs[n].idref
    <3>1. Index(n) \in Nat /\ At(Index(n)) = n /\ n \in Known
      BY <2>1, <2>2, BeforeType, IndexCounts, AtBefore
    <3>2. ManifestItemForCFI([nodeIndex |-> (Index(n) + 1) * 2, qualifier |-> doc.itemrefs[n].idref])
              = doc.itemrefs[n].idref
      BY <2>1, <3>1, CfiLeads
    <3> QED
      BY <3>2 DEF CFIForSpineItem
  <2>4. ASSUME NEW id \in Ids
        PROVE  ManifestItemForCFI(CFIForManifestItem(id)) = IF id \in InSpine THEN id ELSE None
    <3>1. CASE id \in InSpine
      <4>1. PICK k \in Nat : IndexPlusOne(id) = 1 + k /\ At(k) \in Known /\ doc.itemrefs[At(k)].idref = id
        BY <2>1, <3>1, IndexFinds
      <4>2. ManifestItemForCFI([nodeIndex |-> (k + 1) * 2, qualifier |-> id]) = id
        BY <2>1, <4>1, CfiLeads
      <4>3. IndexPlusOne(id) * 2 = (k + 1) * 2
        BY <4>1
      <4> QED
        BY <3>1, <4>2, <4>3 DEF CFIForManifestItem
    <3>2. CASE id \notin InSpine
      <4>1. IndexPlusOne(id) = 0
        BY <2>1, <3>2, IndexFinds
      <4>2. CFIForManifestItem(id).nodeIndex = 0 /\ 0 \div 2 = 0
        BY <4>1 DEF CFIForManifestItem
      <4> QED
        BY <3>2, <4>2 DEF ManifestItemForCFI
    <3> QED
      BY <3>1, <3>2
  <2>5. ASSUME NEW id \in InSpine, NEW k \in 1 .. Cardinality(SpineItems)
        PROVE  ManifestItemForCFI([nodeIndex |-> 2 * k, qualifier |-> id]) = id
    <3>1. Cardinality(Known) \in Nat /\ Cardinality(SpineItems) = Cardinality(Known)
      BY <2>1, <2>2, FS_CardinalityType DEF Complete
    <3>2. k - 1 \in Nat /\ k - 1 < Cardinality(Known) /\ ((k - 1) + 1) * 2 = 2 * k
      BY <3>1
    <3>3. At(k - 1) \in Known
      BY <2>1, <3>2, AtPlace
    <3>4. id # None
      <4>1. PICK n \in Known : id = doc.itemrefs[n].idref
        BY <2>2 DEF InSpine
      <4>2. n \in 1 .. Len(doc.itemrefs) /\ doc.itemrefs \in Seq(Itemref)
        BY DEF Known, ListInv, DocOK
      <4>3. doc.itemrefs[n] \in Itemref
        BY <4>2, ElementOfSeq
      <4> QED
        BY <4>1, <4>3, PackageAssumption DEF Itemref, Ids, None
    <3>5. ManifestItemForCFI([nodeIndex |-> ((k - 1) + 1) * 2, qualifier |-> id]) = id
      BY <2>1, <3>2, <3>3, <3>4, CfiLeads
    <3> QED
      BY <3>2, <3>5
  <2> QED
    BY <2>3, <2>4, <2>5 DEF CfiFindsItem
<1> QED
  BY <1>1, Invariance, PTL

-----------------------------------------------------------------------------
(***************************************************************************)
(* A package that the default error handler lets through                   *)
(***************************************************************************)
Default == tolerated = DefaultErrorHandler

\* Past the check of the lists there are itemrefs.
HasItemrefs == pc \notin {"root", "lists"} \cup Failed => doc.itemrefs # <<>>

\* No itemref was skipped.
AllKnown ==
    /\ pc = "spine" => \A n \in 1 .. Len(doc.itemrefs) : n < pos => n \in Known
    /\ pc \in Late => \A n \in 1 .. Len(doc.itemrefs) : n \in Known

\* The content handlers, which come after the manifest, are XHTML items.
HandlersFit ==
    /\ pc \in Early => handlers = {}
    /\ \A h \in handlers : manifest[h[2]] # Broken /\ manifest[h[2]].type = "xhtml"

\* A set of items whose fallbacks never leave it; an item that is in no such
\* set has a chain that ends.
Closed(C) == \A i \in C : Fallback(i) \in C
Escapes(i) == \A C \in SUBSET Ids : Closed(C) => i \notin C

\* The loop over the manifest is done with an item.
Checked(i) == IF pc = "fallbacks" THEN i \notin todo /\ (walk = None \/ i # start)
              ELSE pc \in {"spine"} \cup Late

\* The items it is done with escape; the one it is at stays, with the one it
\* began with, in every closed set.
NoCircle ==
    /\ pc \in {"root", "lists", "manifest"} => walk = None
    /\ \A i \in Ids : HasFallback(i) /\ Checked(i) => Escapes(i)
    /\ pc = "fallbacks" /\ walk # None => \A C \in SUBSET Ids : Closed(C) /\ start \in C => walk \in C

ValidInv == Default => HasItemrefs /\ AllKnown /\ HandlersFit /\ NoCircle

\* What the parts do to the place in the document
LEMMA ItemrefsStep ==
    ASSUME ListInv, Default, HasItemrefs, Next
    PROVE  HasItemrefs'
<1>1. doc' = doc
  BY DEF Next, Root, Lists, ManifestNode, ManifestEnd, FallbackStart, FallbackStep, FallbackEnd, SpineNode, ContentStep,
         SpineEnd, Metadata, Binding, BindingNoMediaType, BindingEnd, NavDocuments, Ncx, config
<1>2. pc \notin {"root", "lists"} \cup Failed \/ pc' \in {"root", "lists"} \cup Failed \/ (Lists /\ pc' = "manifest")
  BY DEF Next, Root, Lists, ManifestNode, ManifestEnd, FallbackStart, FallbackStep, FallbackEnd, SpineNode, ContentStep,
         SpineEnd, Metadata, Binding, BindingNoMediaType, BindingEnd, NavDocuments, Ncx, Goto, Caught, Thrown, Failed
<1>3. CASE Lists /\ pc' = "manifest"
  <2>1. EmptyLists \subseteq Mild
    BY <1>3 DEF Lists, Caught, Goto, Refuses, Default, DefaultErrorHandler
  <2>2. "NoSpineItems" \notin Mild
    BY DEF Mild
  <2>3. doc.itemrefs # <<>>
    BY <2>1, <2>2 DEF EmptyLists
  <2> QED
    BY <1>1, <2>3 DEF HasItemrefs
<1> QED
  BY <1>1, <1>2, <1>3 DEF HasItemrefs

LEMMA AllKnownStep ==
    ASSUME ListInv, Default, AllKnown, Next
    PROVE  AllKnown'
<1> DEFINE N == 1 .. Len(doc.itemrefs)
<1>1. \A n \in N : n \in Nat
  BY DEF ListInv, DocOK
<1>2. CASE OtherPart
  <2>1. doc' = doc /\ Known' = Known
    BY <1>2, OtherType DEF ListInv, Known
  <2>2. \/ pc' \notin Late \cup {"spine"}
        \/ pc \in Late /\ pc' \in Late
        \/ pc' = "spine" /\ pos' = 1
        \/ pc = "spine" /\ pc' = "metadata" /\ pos > Len(doc.itemrefs)
    BY <1>2 DEF OtherPart, Root, Lists, ManifestEnd, FallbackStart, FallbackStep, FallbackEnd, SpineEnd, Metadata,
         Binding, BindingNoMediaType, BindingEnd, NavDocuments, Ncx, Goto, Caught, Thrown, Late
  <2>3. CASE pc' \notin Late \cup {"spine"}
    BY <2>3 DEF AllKnown
  <2>4. CASE pc \in Late /\ pc' \in Late
    BY <2>1, <2>4 DEF AllKnown, Late
  <2>5. CASE pc' = "spine" /\ pos' = 1
    <3>1. \A n \in N : ~(n < 1)
      BY <1>1
    <3> QED
      BY <2>1, <2>5, <3>1 DEF AllKnown, Late
  <2>6. CASE pc = "spine" /\ pc' = "metadata" /\ pos > Len(doc.itemrefs)
    <3>1. \A n \in N : n < pos
      BY <2>6 DEF ListInv, DocOK, TypeOK
    <3> QED
      BY <2>1, <2>6, <3>1 DEF AllKnown
  <2> QED
    BY <2>2, <2>3, <2>4, <2>5, <2>6
<1>3. ASSUME NEW item \in Item \cup {Broken}, ManifestNode(item) PROVE AllKnown'
  BY <1>3 DEF ManifestNode, AllKnown, Late
<1>4. CASE SpineNode
  <2>1. doc' = doc /\ Known' = Known /\ pc = "spine" /\ pos \in N
    BY <1>4 DEF SpineNode, Known, config, ListInv, DocOK, TypeOK
  <2>2. "InvalidSpineIdref" \notin Mild
    BY DEF Mild
  <2>3. (pc' = "spine" /\ pos' = pos) \/ pc' = "false"
    BY <1>4, <2>2 DEF SpineNode, Caught, Goto, Refuses, Unknown, Default, DefaultErrorHandler
  <2> QED
    BY <2>1, <2>3 DEF AllKnown, Late
<1>5. CASE ContentStep
  <2>1. doc' = doc /\ Known' = Known /\ pc = "spine" /\ pos \in Known
    BY <1>5 DEF ContentStep, Known, config, ListInv, AtKnown
  <2>2. (pc' = "spine" /\ pos' = pos) \/ pc' = "false" \/ (pc' = "spine" /\ pos' = pos + 1)
    BY <1>5, <2>1 DEF ContentStep, Caught, Goto
  <2>3. \A n \in N : n < pos + 1 => n < pos \/ n = pos
    BY <1>1 DEF ListInv, TypeOK
  <2> QED
    BY <2>1, <2>2, <2>3 DEF AllKnown, Late
<1> QED
  BY <1>2, <1>3, <1>4, <1>5 DEF Next, OtherPart

LEMMA HandlersStep ==
    ASSUME ListInv, Default, HandlersFit, Next
    PROVE  HandlersFit'
<1>1. pc' \in Early => pc \in Early
  BY DEF Next, Root, Lists, ManifestNode, ManifestEnd, FallbackStart, FallbackStep, FallbackEnd, SpineNode, ContentStep,
         SpineEnd, Metadata, Binding, BindingNoMediaType, BindingEnd, NavDocuments, Ncx, Goto, Caught, Thrown, Early
<1>2. \/ UNCHANGED <<handlers, manifest>>
      \/ pc \in Early /\ UNCHANGED handlers
      \/ \E t \in {"core", "foreign"}, h \in Ids \cup {None}, s \in BOOLEAN : Binding(t, h, s)
  BY DEF Next, Root, Lists, ManifestNode, ManifestEnd, FallbackStart, FallbackStep, FallbackEnd, SpineNode, ContentStep,
         SpineEnd, Metadata, BindingNoMediaType, BindingEnd, NavDocuments, Ncx, Early
<1>3. CASE UNCHANGED <<handlers, manifest>>
  BY <1>1, <1>3 DEF HandlersFit
<1>4. CASE pc \in Early /\ UNCHANGED handlers
  BY <1>4 DEF HandlersFit
<1>5. ASSUME NEW t \in {"core", "foreign"}, NEW h \in Ids \cup {None}, NEW s \in BOOLEAN, Binding(t, h, s)
      PROVE  HandlersFit'
  <2>1. manifest' = manifest /\ pc = "bindings"
    BY <1>5 DEF Binding
  <2>2. UNCHANGED handlers \/ (handlers' = handlers \cup {<<t, h>>} /\ BindingErrors(t, h, s) \subseteq Mild)
    BY <1>5 DEF Binding, Refuses, Default, DefaultErrorHandler
  <2>3. pc' \notin Early
    BY <1>1, <2>1 DEF Early
  <2>4. CASE UNCHANGED handlers
    BY <2>1, <2>3, <2>4 DEF HandlersFit
  <2>5. CASE handlers' = handlers \cup {<<t, h>>} /\ BindingErrors(t, h, s) \subseteq Mild
    <3>1. "HandlerNotFound" \notin Mild /\ "HandlerInvalidType" \notin Mild
      BY DEF Mild
    <3>2. "HandlerNotFound" \notin BindingErrors(t, h, s) /\ "HandlerInvalidType" \notin BindingErrors(t, h, s)
      BY <2>5, <3>1
    <3>3. manifest[h] # Broken /\ manifest[h].type = "xhtml"
      BY <3>2 DEF BindingErrors
    <3>4. \A x \in handlers' : x \in handlers \/ x[2] = h
      BY <2>5
    <3> QED
      BY <2>1, <2>3, <3>3, <3>4 DEF HandlersFit
  <2> QED
    BY <2>2, <2>4, <2>5
<1> QED
  BY <1>2, <1>3, <1>4, <1>5

\* The loop over the manifest refuses a circle that comes back to where it
\* began, and does not come out of another.
LEMMA CircleStep ==
    ASSUME ListInv, Default, NoCircle, Next
    PROVE  NoCircle'
<1>1. \/ pc' \in {"root", "lists", "manifest"} /\ pc \in {"root", "lists", "manifest"} /\ walk' = walk
      \/ ManifestEnd \/ FallbackStart \/ FallbackStep \/ FallbackEnd
      \/ pc \in {"spine"} \cup Late /\ pc' \in {"spine"} \cup Late /\ manifest' = manifest
      \/ pc' \in Failed
  BY DEF Next, Root, Lists, ManifestNode, SpineNode, ContentStep,
         SpineEnd, Metadata, Binding, BindingNoMediaType, BindingEnd, NavDocuments, Ncx, Goto, Caught, Thrown, loop,
         Late, Failed
<1>2. ASSUME manifest' = manifest
      PROVE  /\ \A i : HasFallback(i)' = HasFallback(i) /\ Fallback(i)' = Fallback(i)
             /\ \A C : Closed(C)' = Closed(C)
             /\ \A i : Escapes(i)' = Escapes(i)
  <2>1. \A i : HasFallback(i)' = HasFallback(i) /\ Fallback(i)' = Fallback(i)
    BY <1>2 DEF HasFallback, Fallback
  <2>2. \A C : Closed(C)' = Closed(C)
    BY <2>1 DEF Closed
  <2>3. \A i : Escapes(i)' = Escapes(i)
    BY <2>2 DEF Escapes
  <2> QED
    BY <2>1, <2>2, <2>3
<1>3. CASE pc' \in {"root", "lists", "manifest"} /\ pc \in {"root", "lists", "manifest"} /\ walk' = walk
  <2>1. \A i : ~Checked(i)'
    BY <1>3 DEF Checked, Late
  <2> QED
    BY <1>3, <2>1 DEF NoCircle
<1>4. CASE pc' \in Failed
  <2>1. \A i : ~Checked(i)'
    BY <1>4 DEF Checked, Late, Failed
  <2> QED
    BY <1>4, <2>1 DEF NoCircle, Failed
<1>5. CASE ManifestEnd
  <2>1. pc' = "fallbacks" /\ walk' = None /\ manifest' = manifest /\ todo' = {i \in Ids : HasFallback(i)}
    BY <1>5 DEF ManifestEnd, Goto, NoCircle
  <2>2. \A i \in Ids : ~(HasFallback(i)' /\ Checked(i)')
    BY <1>2, <2>1 DEF Checked
  <2> QED
    BY <2>1, <2>2 DEF NoCircle
<1>6. CASE FallbackStart
  <2>1. /\ pc = "fallbacks" /\ pc' = "fallbacks" /\ manifest' = manifest
        /\ walk = None /\ walk' = start' /\ todo' = todo \ {start'}
    BY <1>6 DEF FallbackStart
  <2>2. \A i \in Ids : Checked(i)' => Checked(i)
    <3>1. start' # None
      <4>1. todo # {} /\ todo \subseteq Nat /\ None \notin todo
        BY <1>6, PackageAssumption DEF FallbackStart, ListInv, TypeOK, Ids, None
      <4>2. \E i \in todo : \A j \in todo : i <= j
        BY <4>1, LeastNat
      <4>3. start' \in todo
        BY <1>6, <4>2 DEF FallbackStart
      <4> QED
        BY <4>1, <4>3
    <3> QED
      BY <2>1, <3>1 DEF Checked
  <2>3. \A i \in Ids : HasFallback(i)' /\ Checked(i)' => Escapes(i)'
    BY <1>2, <2>1, <2>2 DEF NoCircle
  <2> QED
    BY <2>1, <2>3 DEF NoCircle
<1>7. CASE FallbackStep
  <2>1. pc = "fallbacks" /\ walk # None /\ manifest' = manifest /\ todo' = todo /\ start' = start
    BY <1>7 DEF FallbackStep
  <2>2. CASE pc' = "false"
    BY <1>4, <2>2 DEF Failed
  <2>3. CASE pc' # "false"
    <3>1. "CircularReference" \notin Mild
      BY DEF Mild
    <3>2. pc' = "fallbacks" /\ walk' = IF ~HasFallback(walk) THEN None ELSE Fallback(walk)
      BY <1>7, <2>1, <2>3, <3>1 DEF FallbackStep, Caught, Goto, Refuses, Default, DefaultErrorHandler
    <3>3. walk' = Fallback(walk)
      BY <3>2 DEF Fallback
    <3>4. ASSUME NEW C \in SUBSET Ids, Closed(C), start \in C PROVE walk' \in C /\ walk' # None
      <4>1. walk \in C
        BY <2>1, <3>4 DEF NoCircle
      <4>2. Fallback(walk) \in C
        BY <3>4, <4>1 DEF Closed
      <4> QED
        BY <3>3, <4>2, PackageAssumption DEF Ids, None
    <3>5. ASSUME NEW i \in Ids, HasFallback(i), Checked(i)' PROVE Escapes(i)
      <4>1. CASE Checked(i)
        BY <3>5, <4>1 DEF NoCircle
      <4>2. CASE ~Checked(i)
        <5>1. i = start /\ walk' = None
          BY <2>1, <3>2, <3>5, <4>2 DEF Checked
        <5> QED
          BY <3>4, <5>1 DEF Escapes
      <4> QED
        BY <4>1, <4>2
    <3>6. \A i \in Ids : HasFallback(i)' /\ Checked(i)' => Escapes(i)'
      BY <1>2, <2>1, <3>5
    <3>7. \A C \in SUBSET Ids : Closed(C)' /\ start' \in C => walk' \in C
      BY <1>2, <2>1, <3>4
    <3> QED
      BY <3>2, <3>6, <3>7 DEF NoCircle
  <2> QED
    BY <2>2, <2>3
<1>8. CASE FallbackEnd
  <2>1. pc = "fallbacks" /\ walk = None /\ todo = {} /\ pc' = "spine" /\ manifest' = manifest
    BY <1>8 DEF FallbackEnd, Goto
  <2>2. \A i \in Ids : Checked(i)
    BY <2>1 DEF Checked
  <2>3. \A i \in Ids : HasFallback(i)' /\ Checked(i)' => Escapes(i)'
    BY <1>2, <2>1, <2>2 DEF NoCircle
  <2> QED
    BY <2>1, <2>3 DEF NoCircle
<1>9. CASE pc \in {"spine"} \cup Late /\ pc' \in {"spine"} \cup Late /\ manifest' = manifest
  <2>1. \A i \in Ids : Checked(i)
    BY <1>9 DEF Checked, Late
  <2>2. \A i \in Ids : HasFallback(i)' /\ Checked(i)' => Escapes(i)'
    BY <1>2, <1>9, <2>1 DEF NoCircle
  <2> QED
    BY <1>9, <2>2 DEF NoCircle, Late
<1> QED
  BY <1>1, <1>3, <1>4, <1>5, <1>6, <1>7, <1>8, <1>9

LEMMA InitValid == Init => ValidInv
<1> SUFFICES ASSUME Init PROVE HasItemrefs /\ AllKnown /\ HandlersFit /\ NoCircle
  BY DEF ValidInv
<1>1. pc = "root" /\ handlers = {} /\ walk = None
  BY DEF Init
<1> QED
  BY <1>1 DEF HasItemrefs, AllKnown, HandlersFit, NoCircle, Checked, Late

LEMMA NextValid == ListInv /\ ValidInv /\ [Next]_vars => ValidInv'
<1> SUFFICES ASSUME ListInv, ValidInv, [Next]_vars, Default' PROVE ValidInv'
  BY DEF ValidInv
<1>1. tolerated' = tolerated
  BY DEF Next, Root, Lists, ManifestNode, ManifestEnd, FallbackStart, FallbackStep, FallbackEnd, SpineNode, ContentStep,
         SpineEnd, Metadata, Binding, BindingNoMediaType, BindingEnd, NavDocuments, Ncx, config, vars
<1>2. Default
  BY <1>1 DEF Default
<1>3. HasItemrefs /\ AllKnown /\ HandlersFit /\ NoCircle
  BY <1>2 DEF ValidInv
<1>4. CASE Next
  <2>1. HasItemrefs' /\ AllKnown' /\ HandlersFit' /\ NoCircle'
    BY <1>2, <1>3, <1>4, ItemrefsStep, AllKnownStep, HandlersStep, CircleStep
  <2> QED
    BY <2>1 DEF ValidInv
<1>5. CASE UNCHANGED vars
  <2>1. UNCHANGED <<doc, pc, pos, todo, start, walk, manifest, handlers, navigation>>
    BY <1>5 DEF vars, config, loop
  <2>2. HasItemrefs' /\ HandlersFit'
    BY <1>3, <2>1 DEF HasItemrefs, HandlersFit
  <2>3. AllKnown'
    BY <1>3, <2>1 DEF AllKnown, Known
  <2>4. NoCircle'
    <3>1. \A i : HasFallback(i)' = HasFallback(i) /\ Fallback(i)' = Fallback(i) /\ Checked(i)' = Checked(i)
      BY <2>1 DEF HasFallback, Fallback, Checked
    <3>2. \A C : Closed(C)' = Closed(C)
      BY <3>1 DEF Closed
    <3>3. \A i : Escapes(i)' = Escapes(i)
      BY <3>2 DEF Escapes
    <3> QED
      BY <1>3, <2>1, <3>1, <3>2, <3>3 DEF NoCircle
  <2> QED
    BY <2>2, <2>3, <2>4 DEF ValidInv
<1> QED
  BY <1>4, <1>5

-----------------------------------------------------------------------------
\* The chain of an item exists.
LEMMA ChainLoop ==
    ASSUME TypeOK, NEW i \in Ids
    PROVE  \E t : /\ t[0] = i
                  /\ \A k \in 0 .. NumIds : t[k] \in Ids \cup {None}
                  /\ \A k \in 1 .. NumIds :
                         t[k] = IF t[k - 1] = None \/ manifest[t[k - 1]] = Broken THEN None
                                ELSE manifest[t[k - 1]].fallback
                  /\ Circular(i) <=> t[NumIds] # None /\ manifest[t[NumIds]] # Broken
<1> DEFINE D == Ids \cup {None}
           Pass(d) == IF d = None \/ manifest[d] = Broken THEN None ELSE manifest[d].fallback
           g == [k \in 1 .. NumIds |-> [d \in D |-> Pass(d)]]
           Body(t) == [k \in 0 .. NumIds |-> IF k = 0 THEN i ELSE Pass(t[k - 1])]
           t == CHOOSE t : t = Body(t)
<1>1. NumIds \in Nat /\ i \in D /\ \A d \in D : Pass(d) \in D
  BY PackageAssumption DEF TypeOK, Item
<1>2. Circular(i) <=> t[NumIds] # None /\ manifest[t[NumIds]] # Broken
  BY DEF Circular
<1> HIDE DEF D, Pass
<1>3. \A k \in 1 .. NumIds : \A d \in D : g[k][d] = Pass(d)
  OBVIOUS
<1> HIDE DEF g
<1>4. \E r : r \in Results(D, i, NumIds, g)
  <2>1. g \in Steps(D, NumIds)
    BY <1>1 DEF Steps, g
  <2> QED
    BY ONLY <1>1, <2>1, LoopHasResults
<1>5. \E r : r = Body(r)
  <2>1. PICK r \in [0 .. NumIds -> D] : r[0] = i /\ \A k \in 1 .. NumIds : r[k] = g[k][r[k - 1]]
    BY <1>4 DEF Results
  <2>2. \A k \in 1 .. NumIds : r[k] = Pass(r[k - 1])
    BY <1>1, <1>3, <2>1
  <2> DEFINE b == Body(r)
  <2>3. /\ b[0] = i /\ \A k \in 1 .. NumIds : b[k] = Pass(r[k - 1])
        /\ DOMAIN b = 0 .. NumIds /\ b = [k \in DOMAIN b |-> b[k]]
    BY <1>1
  <2> HIDE DEF b
  <2>4. \A k \in 0 .. NumIds : k = 0 \/ k \in 1 .. NumIds
    BY <1>1
  <2>5. \A k \in 0 .. NumIds : r[k] = b[k]
    BY <2>1, <2>2, <2>3, <2>4
  <2>6. r = b
    BY <2>1, <2>3, <2>5
  <2> QED
    BY <2>6 DEF b
<1>6. t = Body(t)
  BY <1>5
<1> HIDE DEF t
<1>7. t[0] = i /\ \A k \in 1 .. NumIds : t[k] = Pass(t[k - 1])
  <2>1. Body(t)[0] = i /\ \A k \in 1 .. NumIds : Body(t)[k] = Pass(t[k - 1])
    BY <1>1
  <2> HIDE DEF Body
  <2> QED
    BY <1>6, <2>1
<1>8. \A k \in 0 .. NumIds : t[k] \in D
  <2> DEFINE G == {k \in 0 .. NumIds : t[k] \in D}
  <2>1. 0 \in G /\ \A k \in 1 .. NumIds : k - 1 \in G => k \in G
    BY <1>1, <1>7
  <2> HIDE DEF G
  <2>2. \A k \in 0 .. NumIds : k \in G
    BY <1>1, <2>1, Passes
  <2> QED
    BY <2>2 DEF G
<1> QED
  BY <1>2, <1>7, <1>8 DEF D, Pass

\* If every item that has a fallback escapes from all closed sets, no chain
\* is circular: one longer than there are items meets an item twice, and the
\* items in between are a closed set.
LEMMA EscapeIsEnough ==
    ASSUME TypeOK, \A i \in Ids : HasFallback(i) => Escapes(i), NEW i \in Ids
    PROVE  ~Circular(i)
<1> SUFFICES ASSUME Circular(i) PROVE FALSE
  OBVIOUS
<1>1. PICK t : /\ t[0] = i
               /\ \A k \in 0 .. NumIds : t[k] \in Ids \cup {None}
               /\ \A k \in 1 .. NumIds :
                      t[k] = IF t[k - 1] = None \/ manifest[t[k - 1]] = Broken THEN None
                             ELSE manifest[t[k - 1]].fallback
               /\ t[NumIds] # None /\ manifest[t[NumIds]] # Broken
  BY ChainLoop
<1>2. NumIds \in Nat
  BY PackageAssumption
<1> DEFINE Live(k) == t[k] # None /\ manifest[t[k]] # Broken
<1>3. \A k \in 0 .. NumIds : Live(k)
  <2> DEFINE G == {j \in 0 .. NumIds : Live(NumIds - j)}
  <2>1. 0 \in G
    <3>1. NumIds - 0 = NumIds
      BY <1>2
    <3> QED
      BY <1>1, <1>2, <3>1
  <2>2. ASSUME NEW j \in 1 .. NumIds, j - 1 \in G PROVE j \in G
    <3> DEFINE k == NumIds - (j - 1)
    <3>1. k \in 1 .. NumIds /\ k - 1 = NumIds - j /\ Live(k)
      BY <1>2, <2>2
    <3> HIDE DEF k
    <3>2. Live(k - 1)
      BY <1>1, <3>1
    <3> QED
      BY <3>1, <3>2
  <2> HIDE DEF G
  <2>3. \A j \in 0 .. NumIds : j \in G
    BY <1>2, <2>1, <2>2, Passes
  <2>4. ASSUME NEW k \in 0 .. NumIds PROVE Live(k)
    <3>1. NumIds - k \in 0 .. NumIds /\ NumIds - (NumIds - k) = k
      BY <1>2
    <3>2. NumIds - k \in G
      BY <2>3, <3>1
    <3>3. Live(NumIds - (NumIds - k))
      BY <3>2 DEF G
    <3> QED
      BY <3>1, <3>3
  <2> QED
    BY <2>4
<1>4. \A k \in 0 .. NumIds : t[k] \in Ids
  BY <1>1, <1>3
<1>5. ASSUME NEW k \in 0 .. NumIds - 1 PROVE HasFallback(t[k]) /\ Fallback(t[k]) = t[k + 1]
  <2>1. k \in 0 .. NumIds /\ k + 1 \in 1 .. NumIds /\ k + 1 \in 0 .. NumIds /\ (k + 1) - 1 = k
    BY <1>2
  <2>2. t[k + 1] = manifest[t[k]].fallback /\ Live(k + 1) /\ Live(k)
    BY <1>1, <1>3, <2>1
  <2> QED
    BY <2>2 DEF HasFallback, Fallback
<1> HIDE DEF Live
<1>6. PICK a \in 0 .. NumIds, b \in 0 .. NumIds : a < b /\ t[a] = t[b]
  <2> DEFINE f == [k \in 0 .. NumIds |-> t[k]]
  <2>1. f \in [0 .. NumIds -> Ids]
    BY <1>4
  <2>2. IsFiniteSet(0 .. NumIds) /\ Cardinality(0 .. NumIds) = NumIds + 1
    <3>1. 0 \in Int /\ NumIds \in Int /\ ~(0 > NumIds) /\ NumIds - 0 + 1 = NumIds + 1
      BY <1>2
    <3> QED
      BY <3>1, FS_Interval
  <2>3. IsFiniteSet(Ids) /\ Cardinality(Ids) <= NumIds
    <3>1. 1 \in Int /\ NumIds \in Int /\ (IF 1 > NumIds THEN 0 ELSE NumIds - 1 + 1) <= NumIds
      BY <1>2
    <3> QED
      BY <3>1, FS_Interval DEF Ids
  <2>4. Cardinality(Ids) < Cardinality(0 .. NumIds)
    <3>1. Cardinality(Ids) \in Nat
      BY <2>3, FS_CardinalityType
    <3> QED
      BY <1>2, <2>2, <2>3, <3>1
  <2>5. \E x, y \in 0 .. NumIds : x # y /\ f[x] = f[y]
    <3> HIDE DEF f
    <3> QED
      BY <2>1, <2>2, <2>3, <2>4, FS_PigeonHole
  <2>6. PICK x \in 0 .. NumIds, y \in 0 .. NumIds : x # y /\ t[x] = t[y]
    BY <2>5
  <2>7. x < y \/ y < x
    BY <1>2, <2>6
  <2> QED
    BY <2>6, <2>7
<1> DEFINE C == {t[k] : k \in a .. b - 1}
<1>7. \A k \in a .. b - 1 : k \in 0 .. NumIds - 1 /\ k \in 0 .. NumIds
  BY <1>2, <1>6
<1>8. C \in SUBSET Ids
  BY <1>4, <1>7
<1>9. Closed(C)
  <2>1. ASSUME NEW k \in a .. b - 1 PROVE Fallback(t[k]) \in C
    <3>1. Fallback(t[k]) = t[k + 1]
      BY <1>5, <1>7
    <3>2. CASE k + 1 \in a .. b - 1
      BY <3>1, <3>2
    <3>3. CASE k + 1 \notin a .. b - 1
      <4>1. k + 1 = b /\ a \in a .. b - 1
        BY <1>2, <1>6, <3>3
      <4> QED
        BY <1>6, <3>1, <4>1
    <3> QED
      BY <3>2, <3>3
  <2> QED
    BY <2>1 DEF Closed
<1>10. a \in a .. b - 1
  BY <1>2, <1>6
<1>11. t[a] \in C /\ t[a] \in Ids /\ HasFallback(t[a])
  BY <1>4, <1>5, <1>7, <1>10
<1> HIDE DEF C
<1> QED
  BY <1>8, <1>9, <1>11 DEF Escapes

\* Whatever the document, a package that opens under the default error
\* handler has a spine of all its itemrefs, no circular fallback chain, and
\* only XHTML items for content handlers.
THEOREM OpenedIsValid == Spec => []OpenIsValid
<1>1. ListInv /\ ValidInv => OpenIsValid
  <2> SUFFICES ASSUME ListInv, ValidInv, pc = "open", tolerated = DefaultErrorHandler
               PROVE  /\ spine # Null
                      /\ Cardinality(SpineItems) = Len(doc.itemrefs)
                      /\ \A i \in Ids : ~Circular(i)
                      /\ \A h \in handlers : manifest[h[2]] # Broken /\ manifest[h[2]].type = "xhtml"
    BY DEF OpenIsValid
  <2>1. HasItemrefs /\ AllKnown /\ HandlersFit /\ NoCircle
    BY DEF ValidInv, Default
  <2>2. pc \in Late /\ Complete
    BY LateComplete DEF Late
  <2>3. Known = 1 .. Len(doc.itemrefs)
    BY <2>1, <2>2 DEF AllKnown, Known
  <2>4. Len(doc.itemrefs) \in Nat /\ Len(doc.itemrefs) # 0
    <3>1. doc.itemrefs \in Seq(Itemref) /\ doc.itemrefs # <<>>
      BY <2>1 DEF ListInv, DocOK, HasItemrefs, Failed
    <3> QED
      BY <3>1, EmptySeq
  <2>5. spine # Null
    <3>1. 1 \in Known
      BY <2>3, <2>4
    <3> QED
      BY <2>2, <3>1 DEF Complete, IsFirst
  <2>6. Cardinality(SpineItems) = Len(doc.itemrefs)
    <3>1. SpineItems = 1 .. Len(doc.itemrefs)
      BY <2>2, <2>3, ItemsAreKnown
    <3>2. 1 \in Int /\ Len(doc.itemrefs) \in Int /\ ~(1 > Len(doc.itemrefs))
          /\ Len(doc.itemrefs) - 1 + 1 = Len(doc.itemrefs)
      BY <2>4
    <3> QED
      BY <3>1, <3>2, FS_Interval
  <2>7. \A i \in Ids : ~Circular(i)
    <3>1. \A i \in Ids : HasFallback(i) => Escapes(i)
      BY <2>1, <2>2 DEF NoCircle, Checked, Late
    <3> QED
      BY <3>1, EscapeIsEnough DEF ListInv
  <2> QED
    BY <2>1, <2>5, <2>6, <2>7 DEF HandlersFit
<1>2. Spec => [](ListInv /\ ValidInv)
  BY InitList, InitValid, NextList, NextValid, PTL DEF Spec
<1> QED
  BY <1>1, <1>2, PTL

-----------------------------------------------------------------------------
(***************************************************************************)
(* Opening ends                                                            *)
(***************************************************************************)
\* How often Fallback() can be called from an item until it returns null
Lengths ==
    [i \in Ids |-> {n \in 0 .. NumIds :
         \E t \in [0 .. n -> Ids] :
             t[0] = i /\ Fallback(t[n]) = None /\ \A k \in 1 .. n : t[k] = Fallback(t[k - 1])}]
ChainLeft ==
    [i \in Ids |-> IF Lengths[i] = {} THEN 0 ELSE CHOOSE n \in Lengths[i] : \A m \in Lengths[i] : n <= m]

\* What is left to do: the parts of Unpack(), the elements of the part, and
\* the items of the chain that is followed.  In the spine an itemref without
\* a chain is still to be looked up.
PartsLeft ==
    CASE pc = "root" -> 9 [] pc = "lists" -> 8 [] pc = "manifest" -> 7 [] pc = "fallbacks" -> 6
      [] pc = "spine" -> 5 [] pc = "metadata" -> 4 [] pc = "bindings" -> 3 [] pc = "navigation" -> 2
      [] pc = "ncx" -> 1 [] OTHER -> 0
ToGo(n) == IF pos > n THEN 0 ELSE n + 1 - pos
ElementsLeft ==
    CASE pc = "manifest" -> ToGo(doc.items) [] pc = "fallbacks" -> Cardinality(todo)
      [] pc = "spine" -> ToGo(Len(doc.itemrefs)) [] pc = "bindings" -> ToGo(MaxBindings) [] OTHER -> 0
ItemsLeft ==
    IF walk # None THEN ChainLeft[walk] + 1 ELSE IF pc = "spine" THEN NumIds + 2 ELSE 0

\* One of them gets less, and those that count more are as they were.
Advances ==
    \/ PartsLeft' < PartsLeft
    \/ PartsLeft' = PartsLeft /\ ElementsLeft' < ElementsLeft
    \/ PartsLeft' = PartsLeft /\ ElementsLeft' = ElementsLeft /\ ItemsLeft' < ItemsLeft

\* While no fallback chain is circular, every step of Unpack() leaves less to
\* do, in parts, elements and items of a chain: it cannot go on for ever.
EveryStepAdvances == [][(\A i \in Ids : ~Circular(i)) => Advances]_vars

\* The least of an item's lengths
LEMMA ChainIsLeast ==
    ASSUME NEW i \in Ids, NEW n \in Lengths[i]
    PROVE  ChainLeft[i] \in Lengths[i] /\ ChainLeft[i] \in 0 .. NumIds /\ ChainLeft[i] <= n
<1>1. Lengths[i] \subseteq 0 .. NumIds
  BY DEF Lengths
<1>2. \E x \in Lengths[i] : \A m \in Lengths[i] : x <= m
  <2>1. Lengths[i] \subseteq Nat /\ Lengths[i] # {}
    BY <1>1, PackageAssumption
  <2> QED
    BY <2>1, LeastNat
<1>3. ChainLeft[i] = CHOOSE x \in Lengths[i] : \A m \in Lengths[i] : x <= m
  BY DEF ChainLeft
<1> QED
  BY <1>1, <1>2, <1>3

\* A chain that is not circular ends.
LEMMA ChainEnds ==
    ASSUME TypeOK, NEW i \in Ids, ~Circular(i)
    PROVE  Lengths[i] # {}
<1>1. PICK t : /\ t[0] = i
               /\ \A k \in 0 .. NumIds : t[k] \in Ids \cup {None}
               /\ \A k \in 1 .. NumIds :
                      t[k] = IF t[k - 1] = None \/ manifest[t[k - 1]] = Broken THEN None
                             ELSE manifest[t[k - 1]].fallback
               /\ ~(t[NumIds] # None /\ manifest[t[NumIds]] # Broken)
  BY ChainLoop
<1>2. NumIds \in Nat
  BY PackageAssumption
<1> DEFINE Live(k) == t[k] # None /\ manifest[t[k]] # Broken
           Dead == {k \in 0 .. NumIds : ~Live(k)}
<1>3. PICK x \in Dead : \A k \in Dead : x <= k
  <2>1. NumIds \in Dead /\ Dead \subseteq Nat
    BY <1>1, <1>2
  <2> HIDE DEF Dead
  <2> QED
    BY <2>1, LeastNat
<1>4. x \in 0 .. NumIds /\ ~Live(x) /\ \A k \in 0 .. x - 1 : Live(k)
  BY <1>2, <1>3
<1>5. \A k \in 0 .. x - 1 : t[k] \in Ids /\ t[k] # None /\ manifest[t[k]] # Broken
  BY <1>1, <1>2, <1>4
<1>6. \A k \in 1 .. x - 1 : t[k] = Fallback(t[k - 1])
  <2> SUFFICES ASSUME NEW k \in 1 .. x - 1 PROVE t[k] = Fallback(t[k - 1])
    OBVIOUS
  <2>1. k - 1 \in 0 .. x - 1 /\ k \in 0 .. x - 1 /\ k \in 1 .. NumIds
    BY <1>2, <1>4
  <2>2. t[k] = manifest[t[k - 1]].fallback
    BY <1>1, <1>5, <2>1
  <2>3. manifest[t[k - 1]] # Broken /\ t[k] # None /\ manifest[t[k]] # Broken
    BY <1>5, <2>1
  <2> QED
    BY <2>2, <2>3 DEF Fallback, HasFallback
<1>7. CASE x = 0
  <2>1. Fallback(i) = None
    <3>1. i # None
      BY DEF Ids, None
    <3>2. manifest[i] = Broken
      BY <1>1, <1>4, <1>7, <3>1
    <3> QED
      BY <3>2 DEF Fallback, HasFallback
  <2> DEFINE u == [k \in 0 .. 0 |-> i]
  <2>2. u \in [0 .. 0 -> Ids] /\ u[0] = i /\ 1 .. 0 = {} /\ 0 \in 0 .. NumIds
    BY <1>2
  <2> HIDE DEF u
  <2>3. 0 \in Lengths[i]
    BY <2>1, <2>2 DEF Lengths
  <2> QED
    BY <2>3
<1>8. CASE x # 0
  <2> DEFINE n == x - 1
             u == [k \in 0 .. n |-> t[k]]
  <2>1. n \in 0 .. NumIds /\ n + 1 = x /\ n \in 0 .. x - 1 /\ x \in 1 .. NumIds
    BY <1>2, <1>4, <1>8
  <2>2. u \in [0 .. n -> Ids] /\ u[0] = i /\ u[n] = t[n]
    BY <1>1, <1>5, <2>1
  <2>3. \A k \in 1 .. n : u[k] = Fallback(u[k - 1])
    <3> SUFFICES ASSUME NEW k \in 1 .. n PROVE u[k] = Fallback(u[k - 1])
      OBVIOUS
    <3>1. k \in 0 .. n /\ k - 1 \in 0 .. n /\ k \in 1 .. x - 1
      BY <2>1
    <3>2. u[k] = t[k] /\ u[k - 1] = t[k - 1]
      BY <3>1
    <3> QED
      BY <1>6, <3>1, <3>2
  <2>4. Fallback(t[n]) = None
    <3>1. t[x] = manifest[t[n]].fallback
      BY <1>1, <1>5, <2>1
    <3> QED
      BY <1>4, <3>1 DEF Fallback, HasFallback
  <2> HIDE DEF u, n
  <2>5. n \in Lengths[i]
    BY <2>1, <2>2, <2>3, <2>4 DEF Lengths
  <2> QED
    BY <2>5
<1> QED
  BY <1>7, <1>8

\* A call of Fallback() leaves less of the chain.
LEMMA ChainShrinks ==
    ASSUME TypeOK, NEW i \in Ids, ~Circular(i)
    PROVE  /\ ChainLeft[i] \in 0 .. NumIds
           /\ Fallback(i) # None => ChainLeft[Fallback(i)] \in 0 .. NumIds /\ ChainLeft[Fallback(i)] < ChainLeft[i]
<1> DEFINE n == ChainLeft[i]
           j == Fallback(i)
<1>1. n \in Lengths[i] /\ n \in 0 .. NumIds
  BY ChainEnds, ChainIsLeast
<1> HIDE DEF n
<1>2. ASSUME j # None PROVE ChainLeft[j] \in 0 .. NumIds /\ ChainLeft[j] < n
  <2>1. j \in Ids
    BY <1>2, FallbackType
  <2>2. PICK u \in [0 .. n -> Ids] : /\ u[0] = i /\ Fallback(u[n]) = None
                                     /\ \A k \in 1 .. n : u[k] = Fallback(u[k - 1])
    BY <1>1 DEF Lengths
  <2>3. n # 0
    BY <1>2, <2>2
  <2> HIDE DEF j
  <2> DEFINE v == [k \in 0 .. n - 1 |-> u[k + 1]]
  <2>4. n - 1 \in 0 .. NumIds /\ \A k \in 0 .. n - 1 : k + 1 \in 1 .. n /\ k + 1 \in 0 .. n
    BY <1>1, <2>3, PackageAssumption
  <2>5. u[1] = j
    <3>1. 1 \in 1 .. n
      BY <1>1, <2>3, PackageAssumption
    <3> QED
      BY <2>2, <3>1 DEF j
  <2>6. v \in [0 .. n - 1 -> Ids] /\ v[0] = j /\ v[n - 1] = u[n]
    <3>1. v \in [0 .. n - 1 -> Ids]
      BY <2>2, <2>4
    <3>2. 0 \in 0 .. n - 1 /\ n - 1 \in 0 .. n - 1 /\ 0 + 1 = 1 /\ (n - 1) + 1 = n
      BY <1>1, <2>3
    <3> QED
      BY <2>5, <3>1, <3>2
  <2>7. \A k \in 1 .. n - 1 : v[k] = Fallback(v[k - 1])
    <3> SUFFICES ASSUME NEW k \in 1 .. n - 1 PROVE v[k] = Fallback(v[k - 1])
      OBVIOUS
    <3>1. k \in 0 .. n - 1 /\ k - 1 \in 0 .. n - 1 /\ k + 1 \in 1 .. n /\ (k + 1) - 1 = k /\ (k - 1) + 1 = k
      BY <1>1, <2>4
    <3>2. v[k] = u[k + 1] /\ v[k - 1] = u[k]
      BY <3>1
    <3> QED
      BY <2>2, <3>1, <3>2
  <2> HIDE DEF v
  <2>8. n - 1 \in Lengths[j]
    BY <2>1, <2>2, <2>4, <2>6, <2>7 DEF Lengths
  <2>9. ChainLeft[j] \in 0 .. NumIds /\ ChainLeft[j] <= n - 1
    BY <2>1, <2>8, ChainIsLeast
  <2> QED
    BY <1>1, <2>9
<1> QED
  BY <1>1, <1>2 DEF n

\* Where a part is left, parts are left.
LEMMA PartAdvances ==
    ASSUME ListInv,
           \/ Root \/ Lists \/ ManifestEnd \/ FallbackEnd \/ SpineEnd \/ Metadata
           \/ BindingNoMediaType \/ BindingEnd
           \/ \E tables \in Tables : NavDocuments(tables)
           \/ \E attribute \in {"none", "missing", "present"}, tables \in Tables : Ncx(attribute, tables)
    PROVE  Advances
<1>1. PartsLeft' < PartsLeft
  BY DEF Root, Lists, ManifestEnd, FallbackEnd, SpineEnd, Metadata, BindingNoMediaType, BindingEnd, NavDocuments,
         Ncx, PartsLeft, Goto, Caught, Thrown
<1> QED
  BY <1>1 DEF Advances

\* Every step leaves less to do.
LEMMA NextAdvances ==
    ASSUME ListInv, \A i \in Ids : ~Circular(i), Next
    PROVE  Advances
<1>1. TypeOK /\ DocOK /\ AtKnown
  BY DEF ListInv
<1>2. NumIds \in Nat /\ MaxBindings \in Nat /\ doc.items \in Nat /\ pos \in Nat /\ Len(doc.itemrefs) \in Nat
  BY <1>1, PackageAssumption DEF TypeOK, DocOK
<1>3. ASSUME NEW item \in Item \cup {Broken}, ManifestNode(item) PROVE Advances
  <2>1. pc = "manifest" /\ pc' = "manifest" /\ doc' = doc /\ pos <= doc.items /\ pos' = pos + 1
    BY <1>3 DEF ManifestNode, config
  <2>2. PartsLeft' = PartsLeft
    BY <2>1 DEF PartsLeft
  <2>3. ElementsLeft' < ElementsLeft
    BY <1>2, <2>1 DEF ElementsLeft, ToGo
  <2> QED
    BY <2>2, <2>3 DEF Advances
<1>4. CASE FallbackStart
  <2> DEFINE first == CHOOSE i \in todo : \A j \in todo : i <= j
  <2>1. pc = "fallbacks" /\ pc' = "fallbacks" /\ todo # {} /\ todo' = todo \ {first}
    BY <1>4 DEF FallbackStart
  <2>2. first \in todo
    <3>1. todo \subseteq Nat
      BY <1>1, <1>2 DEF TypeOK, Ids
    <3>2. \E i \in todo : \A j \in todo : i <= j
      BY <2>1, <3>1, LeastNat
    <3> QED
      BY <3>2
  <2> HIDE DEF first
  <2>3. IsFiniteSet(todo)
    <3>1. IsFiniteSet(Ids)
      BY <1>2, FS_Interval DEF Ids
    <3> QED
      BY <1>1, <3>1, FS_Subset DEF TypeOK
  <2>4. Cardinality(todo') = Cardinality(todo) - 1 /\ Cardinality(todo) \in Nat
    BY <2>1, <2>2, <2>3, FS_RemoveElement, FS_CardinalityType
  <2>5. PartsLeft' = PartsLeft /\ ElementsLeft' < ElementsLeft
    BY <2>1, <2>4 DEF PartsLeft, ElementsLeft
  <2> QED
    BY <2>5 DEF Advances
<1>5. CASE FallbackStep
  <2>1. pc = "fallbacks" /\ walk # None /\ walk \in Ids /\ todo' = todo /\ manifest' = manifest
    BY <1>1, <1>5 DEF FallbackStep, TypeOK
  <2>2. CASE pc' = "false"
    BY <2>1, <2>2 DEF Advances, PartsLeft
  <2>3. CASE pc' = pc /\ walk' = None
    <3>1. PartsLeft' = PartsLeft /\ ElementsLeft' = ElementsLeft
      BY <2>1, <2>3 DEF PartsLeft, ElementsLeft
    <3>2. ItemsLeft' < ItemsLeft
      BY <1>2, <2>1, <2>3, ChainShrinks, <1>1 DEF ItemsLeft
    <3> QED
      BY <3>1, <3>2 DEF Advances
  <2>4. CASE pc' = pc /\ walk' # None /\ walk' = Fallback(walk)
    <3>1. PartsLeft' = PartsLeft /\ ElementsLeft' = ElementsLeft
      BY <2>1, <2>4 DEF PartsLeft, ElementsLeft
    <3>2. ChainLeft' = ChainLeft
      BY <2>1 DEF ChainLeft, Lengths, Fallback, HasFallback
    <3>3. ItemsLeft' < ItemsLeft
      BY <1>1, <1>2, <2>1, <2>4, <3>2, ChainShrinks DEF ItemsLeft
    <3> QED
      BY <3>1, <3>3 DEF Advances
  <2>5. \/ pc' = "false"
        \/ pc' = pc /\ walk' = None
        \/ pc' = pc /\ walk' # None /\ walk' = Fallback(walk)
    BY <1>5 DEF FallbackStep, Caught, Goto
  <2> QED
    BY <2>2, <2>3, <2>4, <2>5
<1>6. CASE SpineNode
  <2>1. pc = "spine" /\ walk = None /\ pos <= Len(doc.itemrefs) /\ doc' = doc /\ manifest' = manifest
    BY <1>6 DEF SpineNode, config
  <2>2. CASE pc' = "false"
    BY <2>1, <2>2 DEF Advances, PartsLeft
  <2>3. CASE pc' = pc /\ pos' = pos + 1
    <3>1. PartsLeft' = PartsLeft /\ ElementsLeft' < ElementsLeft
      BY <1>2, <2>1, <2>3 DEF PartsLeft, ElementsLeft, ToGo
    <3> QED
      BY <3>1 DEF Advances
  <2>4. CASE pc' = pc /\ pos' = pos /\ walk' = doc.itemrefs[pos].idref
    <3>1. PartsLeft' = PartsLeft /\ ElementsLeft' = ElementsLeft
      BY <2>1, <2>4 DEF PartsLeft, ElementsLeft, ToGo
    <3>2. walk' \in Ids /\ walk' # None
      <4>1. pos \in 1 .. Len(doc.itemrefs)
        BY <1>1, <1>2, <2>1 DEF DocOK
      <4>2. doc.itemrefs[pos] \in Itemref
        BY <1>1, <4>1, ElementOfSeq DEF DocOK
      <4> QED
        BY <2>4, <4>2 DEF Itemref, Ids, None
    <3>3. ChainLeft' = ChainLeft
      BY <2>1 DEF ChainLeft, Lengths, Fallback, HasFallback
    <3>4. ChainLeft[walk'] \in 0 .. NumIds
      BY <1>1, <3>2, ChainShrinks
    <3>5. ItemsLeft' < ItemsLeft
      BY <1>2, <2>1, <3>2, <3>3, <3>4 DEF ItemsLeft
    <3> QED
      BY <3>1, <3>5 DEF Advances
  <2>5. \/ pc' = "false"
        \/ pc' = pc /\ pos' = pos + 1
        \/ pc' = pc /\ pos' = pos /\ walk' = doc.itemrefs[pos].idref
    BY <1>6 DEF SpineNode, Caught, Goto
  <2> QED
    BY <2>2, <2>3, <2>4, <2>5
<1>7. CASE ContentStep
  <2>1. pc = "spine" /\ walk # None /\ walk \in Ids /\ doc' = doc /\ manifest' = manifest
    BY <1>1, <1>7 DEF ContentStep, config, TypeOK
  <2>2. pos <= Len(doc.itemrefs)
    BY <1>1, <1>2, <2>1 DEF AtKnown, Known
  <2>3. CASE pc' = "false"
    BY <2>1, <2>3 DEF Advances, PartsLeft
  <2>4. CASE pc' = pc /\ pos' = pos + 1
    <3>1. PartsLeft' = PartsLeft /\ ElementsLeft' < ElementsLeft
      BY <1>2, <2>1, <2>2, <2>4 DEF PartsLeft, ElementsLeft, ToGo
    <3> QED
      BY <3>1 DEF Advances
  <2>5. CASE pc' = pc /\ pos' = pos /\ walk' # None /\ walk' = Fallback(walk)
    <3>1. PartsLeft' = PartsLeft /\ ElementsLeft' = ElementsLeft
      BY <2>1, <2>5 DEF PartsLeft, ElementsLeft, ToGo
    <3>2. ChainLeft' = ChainLeft
      BY <2>1 DEF ChainLeft, Lengths, Fallback, HasFallback
    <3>3. ItemsLeft' < ItemsLeft
      BY <1>1, <1>2, <2>1, <2>5, <3>2, ChainShrinks DEF ItemsLeft
    <3> QED
      BY <3>1, <3>3 DEF Advances
  <2>6. \/ pc' = "false"
        \/ pc' = pc /\ pos' = pos + 1
        \/ pc' = pc /\ pos' = pos /\ walk' # None /\ walk' = Fallback(walk)
    BY <1>7 DEF ContentStep, Caught, Goto
  <2> QED
    BY <2>3, <2>4, <2>5, <2>6
<1>8. ASSUME NEW t \in {"core", "foreign"}, NEW h \in Ids \cup {None}, NEW s \in BOOLEAN, Binding(t, h, s)
      PROVE  Advances
  <2>1. pc = "bindings" /\ pos <= MaxBindings
    BY <1>8 DEF Binding
  <2>2. \/ pc' \in {"threw", "crashed"}
        \/ pc' = pc /\ pos' = pos + 1
    BY <1>8 DEF Binding, Thrown, Goto
  <2>3. CASE pc' \in {"threw", "crashed"}
    BY <2>1, <2>3 DEF Advances, PartsLeft
  <2>4. CASE pc' = pc /\ pos' = pos + 1
    <3>1. PartsLeft' = PartsLeft /\ ElementsLeft' < ElementsLeft
      BY <1>2, <2>1, <2>4 DEF PartsLeft, ElementsLeft, ToGo
    <3> QED
      BY <3>1 DEF Advances
  <2> QED
    BY <2>2, <2>3, <2>4
<1> QED
  BY <1>3, <1>4, <1>5, <1>6, <1>7, <1>8, PartAdvances DEF Next

\* Whatever the document, Unpack() comes nearer to its end with every step
\* while no fallback chain is circular; together with fairness, which TLC
\* checks, this is why opening a package ends.
THEOREM OpeningAdvances == Spec => EveryStepAdvances
<1>1. ListInv /\ [Next]_vars => [(\A i \in Ids : ~Circular(i)) => Advances]_vars
  BY NextAdvances
<1>2. Spec => []ListInv
  BY Invariance
<1> QED
  BY <1>1, <1>2, PTL DEF Spec, EveryStepAdvances

=============================================================================
