--------------------------------- MODULE CFI ---------------------------------
(***************************************************************************)
(* Content fragment identifiers (ePub3/ePub/cfi.cpp): what is parsed from  *)
(* a string, what is printed of it, which ranges are accepted, and how a   *)
(* CFI is built from others.  The error handler is the default one, which  *)
(* refuses what is Major: a range out of order, not a wrong count of pieces*)
(* or a side bias in a range.                                              *)
(*                                                                         *)
(* A string is a sequence of pieces, the non-empty parts between commas    *)
(* (an empty one is dropped by RangedCFIComponents()); a piece is a        *)
(* sequence of component strings, the parts between slashes; a component   *)
(* string is a node index and a sequence of tokens, each a marker and what *)
(* follows it.  Numbers stand for offsets of every kind, and follow their  *)
(* markers: Component::Parse() does not end on a marker without a number.  *)
(* A character offset is an integer; the others are floats, here counted in*)
(* their smallest unit, of which six significant digits are printed.       *)
(***************************************************************************)
EXTENDS Naturals, Sequences, SequencesExt, Functions

CONSTANTS
    Strings,        \* the strings a client makes a CFI of
    Parts,          \* the strings it appends, or makes a range of
    MaxComponents,  \* bound on the components a CFI is given
    Printable       \* the floats of at most six significant digits

Unspecified == "unspecified"
NoText == "no text"    \* the empty one
Text == STRING \cup {NoText}

\* What a client can pass: any markers in any order
TokenSet ==
    [mark : {"["}, text : Text, bias : {Unspecified, "before", "after"}]
    \cup [mark : {":", "~"}, value : Nat]
    \cup [mark : {"@"}, point : Nat \X Nat]
    \cup [mark : {"!"}]
ComponentString == [node : Nat, tokens : Seq(TokenSet)]

ASSUME StringsAssumption ==
    /\ \A str \in Strings : str \in Seq(Seq(ComponentString))
    /\ \A str \in Parts : str \in Seq(Seq(ComponentString))
ASSUME PrintableAssumption == Printable \subseteq Nat /\ 0 \in Printable

VARIABLES
    cfi,       \* a CFI: _components, _rangeStart, _rangeEnd, and RangeTriplet
    compiled   \* history: the range has been through CompileCFI()

fragment == <<cfi, compiled>>

Empty == [components |-> <<>>, start |-> <<>>, end |-> <<>>, ranged |-> FALSE]
CFIInit == cfi = Empty /\ compiled = TRUE

-----------------------------------------------------------------------------
(***************************************************************************)
(* CFI::Component: its flags name the fields that are in use.              *)
(***************************************************************************)
Blank(node) == [node |-> node, flags |-> {}, qualifier |-> <<NoText, Unspecified>>,
                characterOffset |-> 0, temporalOffset |-> 0, spatialOffset |-> <<0, 0>>,
                textQualifier |-> NoText, sideBias |-> Unspecified]
Has(c, flag) == flag \in c.flags
HasSpatialTemporalOffset(c) == Has(c, "temporal") /\ Has(c, "spatial")  \* both, not either

\* [text;s=b]: a text qualifier after a character offset other than 0, and
\* else a qualifier, of which the side bias is a part.
Qualified(c, t) ==
    IF c.characterOffset # 0
    THEN [c EXCEPT !.flags = @ \cup {"text"}, !.textQualifier = t.text,
                   !.sideBias = IF t.bias = Unspecified THEN @ ELSE t.bias]
    ELSE [c EXCEPT !.flags = @ \cup {"qualifier"}, !.qualifier = <<t.text, t.bias>>]

\* A pass of the loop of Component::Parse().  Of an @x:y that is not allowed
\* the rest is read on, and its :y is a character offset.
Token(c, t, last) ==
    CASE t.mark = "[" -> Qualified(c, t)
      [] t.mark = "~" -> IF Has(c, "character") THEN c
                         ELSE [c EXCEPT !.flags = @ \cup {"temporal"}, !.temporalOffset = t.value]
      [] t.mark = "@" -> IF Has(c, "character") THEN [c EXCEPT !.characterOffset = t.point[2]]
                         ELSE [c EXCEPT !.flags = @ \cup {"spatial"}, !.spatialOffset = t.point]
      [] t.mark = ":" -> IF HasSpatialTemporalOffset(c) THEN c
                         ELSE [c EXCEPT !.flags = @ \cup {"character"}, !.characterOffset = t.value]
      [] t.mark = "!" -> IF ~last \/ HasSpatialTemporalOffset(c) \/ Has(c, "character") THEN c
                         ELSE [c EXCEPT !.flags = @ \cup {"indirector"}]

Parse(str) ==
    LET n == Len(str.tokens)
        after[i \in 0 .. n] ==
            IF i = 0 THEN Blank(str.node) ELSE Token(after[i - 1], str.tokens[i], i = n)
    IN after[n]

\* builder << x, of a float, with the stream's default precision: the nearest
\* number of six digits.  One of six digits is read back as it was.
Distance(m, n) == IF m <= n THEN n - m ELSE m - n
SixDigits(x) == CHOOSE p \in Printable : \A q \in Printable : Distance(p, x) <= Distance(q, x)
Rounded(c) == [c EXCEPT !.temporalOffset = SixDigits(@),
                        !.spatialOffset = <<SixDigits(@[1]), SixDigits(@[2])>>]

\* AppendComponents(): the side bias is not printed.
If(b, s) == IF b THEN s ELSE <<>>
Offset(mark, n) == [mark |-> mark, value |-> n]
OneOffset(c) ==
    IF Has(c, "spatial") THEN <<[mark |-> "@", point |-> c.spatialOffset]>>
    ELSE If(Has(c, "temporal"), <<Offset("~", c.temporalOffset)>>)
TimeAndPlace(c) ==
    If(Has(c, "temporal"), <<Offset("~", c.temporalOffset)>>)
        \o If(Has(c, "spatial"), <<[mark |-> "@", point |-> c.spatialOffset]>>)
Stringified(c) ==
    [node |-> c.node,
     tokens |-> If(Has(c, "qualifier"),
                   <<[mark |-> "[", text |-> c.qualifier[1], bias |-> c.qualifier[2]]>>)
                \o (IF Has(c, "character")
                    THEN <<Offset(":", c.characterOffset)>>
                         \o If(Has(c, "text"),
                               <<[mark |-> "[", text |-> c.textQualifier, bias |-> Unspecified]>>)
                    ELSE TimeAndPlace(Rounded(c)))
                \o If(Has(c, "indirector"), <<[mark |-> "!"]>>)]

ParseAll(strs) == [i \in DOMAIN strs |-> Parse(strs[i])]
StringifyAll(list) == [i \in DOMAIN list |-> Stringified(list[i])]

\* operator==: the fields in use; the side bias does not count.
Same(c, d) ==
    /\ c.flags = d.flags /\ c.node = d.node
    /\ Has(c, "qualifier") => c.qualifier = d.qualifier
    /\ Has(c, "character") => c.characterOffset = d.characterOffset
    /\ Has(c, "spatial") => c.spatialOffset = d.spatialOffset
    /\ Has(c, "temporal") => c.temporalOffset = d.temporalOffset
    /\ Has(c, "text") => c.textQualifier = d.textQualifier
SameList(s, t) == Len(s) = Len(t) /\ \A i \in DOMAIN s : Same(s[i], t[i])
Equal(a, b) == /\ a.ranged = b.ranged /\ SameList(a.components, b.components)
               /\ a.ranged => SameList(a.start, b.start) /\ SameList(a.end, b.end)

-----------------------------------------------------------------------------
(***************************************************************************)
(* CompileCFI()                                                            *)
(***************************************************************************)
OffsetsOf(c) == c.flags \cap {"character", "temporal", "spatial"}

\* if the two are equal aside from their offsets
Unchecked(s, e) == FALSE
OffsetsOutOfOrder(s, e) ==
    /\ Len(s) = Len(e)
    /\ \A i \in DOMAIN s : s[i].node = e[i].node
    /\ LET a == Last(s)
           b == Last(e)
       IN \/ Has(a, "character") /\ a.characterOffset > b.characterOffset
          \/ Has(a, "temporal") /\ a.temporalOffset > b.temporalOffset
          \/ Has(a, "spatial") /\ \E k \in 1 .. 2 : a.spatialOffset[k] > b.spatialOffset[k]

RangeRefused(s, e) ==
    \/ s = <<>> \/ e = <<>>
    \/ OffsetsOf(Last(s)) # OffsetsOf(Last(e))
    \/ \E i \in DOMAIN s \cap DOMAIN e : s[i].node > e[i].node
    \/ OffsetsOutOfOrder(s, e)

\* The comparison of the node indices goes on to the end of the longer list,
\* past the end of the shorter one: what is read there decides whether a
\* range whose lists differ in length, and that is not refused, is accepted.
LengthsDiffer(c) == c.ranged /\ Len(c.start) # Len(c.end)

\* The CFIs a string can become; none if it is refused.  Two pieces count
\* as one, and more than three as three.
Compile(str) ==
    LET s == ParseAll(str[2])
        e == ParseAll(str[3])
    IN CASE Len(str) = 0 -> {}
         [] Len(str) \in 1 .. 2 -> {[Empty EXCEPT !.components = ParseAll(str[1])]}
         [] Len(str) >= 3 ->
                IF RangeRefused(s, e) THEN {}
                ELSE {[components |-> ParseAll(str[1]), start |-> s, end |-> e, ranged |-> TRUE]}

\* Stringify(): a range is printed after the components.
Piece(list) == If(list # <<>>, <<StringifyAll(list)>>)
String(c) == Piece(c.components) \o If(c.ranged, Piece(c.start) \o Piece(c.end))

-----------------------------------------------------------------------------
(***************************************************************************)
(* Operations                                                              *)
(***************************************************************************)
Fits(c) == Len(c.components) <= MaxComponents

\* The range of the right-hand side, if it has one
WithRangeOf(c, o) ==
    IF o.ranged THEN [c EXCEPT !.start = o.start, !.end = o.end, !.ranged = TRUE] ELSE c

\* CFI(str); Assign(str) to a CFI leads to the same states.
AssignString(str) ==
    /\ cfi = Empty
    /\ cfi' \in Compile(str)
    /\ Fits(cfi')
    /\ compiled' = TRUE

\* Append(): a range cannot be appended to.
Appended(c, o) == WithRangeOf([c EXCEPT !.components = @ \o o.components], o)
Append_(str) ==
    /\ ~cfi.ranged
    /\ \E o \in Compile(str) : cfi' = Appended(cfi, o)
    /\ Fits(cfi')
    /\ compiled' = TRUE

\* CFI(base, fromIndex): Assign() to a new CFI
AssignFrom(k) ==
    /\ k < Len(cfi.components)
    /\ cfi' = WithRangeOf([Empty EXCEPT !.components = SubSeq(cfi.components, k + 1, Len(cfi.components))], cfi)
    /\ UNCHANGED compiled

\* CFI(base, start, end): the range is not checked.
MakeRange(str1, str2) ==
    /\ \E s \in Compile(str1), e \in Compile(str2) :
           cfi' = [components |-> cfi.components, start |-> s.components,
                   end |-> e.components, ranged |-> TRUE]
    /\ compiled' = FALSE

\* Clear(): the range stays.
Clear == cfi' = [cfi EXCEPT !.components = <<>>] /\ UNCHANGED compiled

CFINext ==
    \/ \E str \in Strings : AssignString(str)
    \/ \E str \in Parts : Append_(str)
    \/ \E k \in 0 .. MaxComponents : AssignFrom(k)
    \/ \E str1, str2 \in Parts : MakeRange(str1, str2)
    \/ Clear

CFISpec == CFIInit /\ [][CFINext]_fragment

-----------------------------------------------------------------------------
(***************************************************************************)
(* Properties                                                              *)
(***************************************************************************)
\* The components of which the printed form says all: Parse() also lets a
\* character offset follow a temporal or a spatial one, of which only the
\* first is printed, and reads a character offset of 0 after a text.
Expressible(c) ==
    /\ Has(c, "character") => ~Has(c, "temporal") /\ ~Has(c, "spatial")
    /\ Has(c, "text") => c.characterOffset # 0

\* A CFI that is printed by String() and parsed again, as one kept in a
\* bookmark is, is the same CFI, however it was put together, but for the
\* digits its temporal and spatial offsets lose; a range is still accepted,
\* although rounding may bring its two ends together.
RoundAll(list) == [i \in DOMAIN list |-> Rounded(list[i])]
Shortened(c) == [c EXCEPT !.components = RoundAll(@), !.start = RoundAll(@), !.end = RoundAll(@)]
PrintThenParse ==
    /\ cfi.components # <<>>
    /\ cfi.ranged => compiled /\ ~LengthsDiffer(cfi)
    /\ \A c \in Range(cfi.components) \cup Range(cfi.start) \cup Range(cfi.end) : Expressible(c)
    => \E o \in Compile(String(cfi)) : Equal(o, Shortened(cfi))

\* The place of the start of a range is not after that of its end, in the
\* order of the document, if CompileCFI() has accepted the range and the
\* lists do not differ in length.  The two may be the same place: the code
\* refuses a start offset that is greater than the end's, where its comment
\* (cfi.cpp:364) says that "the end offset must be > the start offset".
NotAfter(a, b) ==
    \/ Has(a, "character") /\ a.characterOffset <= b.characterOffset
    \/ Has(a, "temporal") /\ a.temporalOffset < b.temporalOffset
    \/ Has(a, "temporal") /\ a.temporalOffset = b.temporalOffset /\ ~Has(a, "spatial")
    \/ Has(a, "spatial") /\ \A k \in 1 .. 2 : a.spatialOffset[k] <= b.spatialOffset[k]
    \/ OffsetsOf(a) = {}
RangesAreOrdered ==
    cfi.ranged /\ compiled /\ ~LengthsDiffer(cfi) =>
        LET s == cfi.start
            e == cfi.end
            SameUpTo(n) == \A i \in 1 .. n : s[i].node = e[i].node
        IN /\ \A i \in DOMAIN s : SameUpTo(i - 1) => s[i].node <= e[i].node
           /\ SameUpTo(Len(s)) => NotAfter(Last(s), Last(e))

=============================================================================
