--------------------------- MODULE PositionsProofs ---------------------------
(***************************************************************************)
(* Proofs about CFI, for any strings, and about MediaOverlays, for any     *)
(* publications: a CFI survives being printed and parsed, an accepted      *)
(* range is in order, every time has a position in the clip it names, and  *)
(* a place kept as a percentage is where that percentage leads.            *)
(***************************************************************************)
EXTENDS Positions, SequenceTheorems, WellFoundedInduction, TLAPS

-----------------------------------------------------------------------------
(***************************************************************************)
(* Induction over the passes of a loop                                     *)
(***************************************************************************)
\* A set of numbers has a least one.
LEMMA LeastNat ==
    ASSUME NEW T, T \subseteq Nat, T # {}
    PROVE  \E x \in T : \A y \in T : x <= y
<1>1. PICK x \in T : \A y \in T : ~(<<y, x>> \in OpToRel(<, Nat))
  BY NatLessThanWellFounded, WFMin
<1>2. \A y \in T : <<y, x>> \in OpToRel(<, Nat) <=> y < x
  BY DEF OpToRel
<1>3. \A y \in T : ~(y < x)
  BY <1>1, <1>2, Zenon
<1> QED
  BY <1>3

\* What holds before a loop of n passes, and after a pass if it held before
\* the pass, holds after each pass: a first pass that breaks it is impossible.
LEMMA Passes ==
    ASSUME NEW n \in Nat, NEW G, 0 \in G, \A i \in 1 .. n : i - 1 \in G => i \in G
    PROVE  \A i \in 0 .. n : i \in G
<1> DEFINE T == {i \in 0 .. n : i \notin G}
<1> SUFFICES ASSUME T # {} PROVE FALSE
  OBVIOUS
<1>1. PICK x \in T : \A y \in T : x <= y
  <2>1. T \subseteq Nat
    OBVIOUS
  <2> HIDE DEF T
  <2> QED
    BY <2>1, LeastNat
<1>2. x \in 1 .. n /\ x \notin G
  BY <1>1
<1>3. x - 1 \notin T
  BY <1>1, <1>2
<1> QED
  BY <1>2, <1>3

\* A loop of n passes, of which pass i turns d into g[i][d], has a result
\* after each pass.
Steps(D, n) == [1 .. n -> [D -> D]]
Results(D, a, n, g) == {r \in [0 .. n -> D] : r[0] = a /\ \A i \in 1 .. n : r[i] = g[i][r[i - 1]]}

LEMMA LoopHasResults ==
    ASSUME NEW D, NEW a \in D, NEW n \in Nat, NEW g \in Steps(D, n)
    PROVE  \E r : r \in Results(D, a, n, g)
<1> USE DEF Steps
<1> DEFINE Good(m, r) == r[0] = a /\ \A i \in 1 .. m : r[i] = g[i][r[i - 1]]
           HasResult(m) == \E r \in [0 .. m -> D] : Good(m, r)
           G == {m \in 0 .. n : HasResult(m)}
<1>1. HasResult(0)
  <2>1. [i \in 0 .. 0 |-> a] \in [0 .. 0 -> D] /\ Good(0, [i \in 0 .. 0 |-> a])
    OBVIOUS
  <2> HIDE DEF Good
  <2> QED
    BY <2>1
<1>2. ASSUME NEW m \in 1 .. n, HasResult(m - 1) PROVE HasResult(m)
  <2>1. PICK r \in [0 .. m - 1 -> D] : Good(m - 1, r)
    BY <1>2
  <2> DEFINE s == [i \in 0 .. m |-> IF i = m THEN g[m][r[m - 1]] ELSE r[i]]
  <2>2. s \in [0 .. m -> D]
    OBVIOUS
  <2>3. \A i \in 0 .. m - 1 : s[i] = r[i]
    OBVIOUS
  <2>4. s[m] = g[m][s[m - 1]]
    OBVIOUS
  <2>5. Good(m, s)
    BY <2>1, <2>3, <2>4
  <2> HIDE DEF Good, s
  <2> QED
    BY <2>2, <2>5
<1> HIDE DEF HasResult
<1>3. 0 \in G /\ \A m \in 1 .. n : m - 1 \in G => m \in G
  BY <1>1, <1>2
<1>4. n \in G
  <2> HIDE DEF G
  <2>1. \A i \in 0 .. n : i \in G
    BY ONLY <1>3, Passes, n \in Nat
  <2> QED
    BY <2>1
<1> QED
  BY <1>4 DEF HasResult, Results

-----------------------------------------------------------------------------
(***************************************************************************)
(* Components                                                              *)
(***************************************************************************)
Bias == {Unspecified, "before", "after"}
Flag == {"qualifier", "character", "temporal", "spatial", "text", "indirector"}
Component ==
    [node : Nat, flags : SUBSET Flag, qualifier : Text \X Bias, characterOffset : Nat,
     temporalOffset : Nat, spatialOffset : Nat \X Nat, textQualifier : Text, sideBias : Bias]

\* What Parse() makes of a component, whatever the string: an offset and a
\* text belong to the character flag, and only a place without an offset of
\* its own leads on to another document.
Sound(c) ==
    /\ c \in Component
    /\ c.characterOffset # 0 \/ Has(c, "text") => Has(c, "character")
    /\ Has(c, "indirector") => ~Has(c, "character") /\ ~HasSpatialTemporalOffset(c)
    /\ Has(c, "character") => ~HasSpatialTemporalOffset(c)

\* An empty component
LEMMA BlankIsSound ==
    ASSUME NEW node \in Nat
    PROVE  Blank(node) \in Component /\ Sound(Blank(node)) /\ Blank(node).flags = {}
<1>1. Blank(node) \in Component
  BY DEF Blank, Component, Bias, Text
<1>2. Blank(node).flags = {} /\ Blank(node).characterOffset = 0
  BY DEF Blank
<1> QED
  BY <1>1, <1>2 DEF Sound, Has, HasSpatialTemporalOffset

\* The four forms of a token
LEMMA TokenForms ==
    ASSUME NEW t \in TokenSet
    PROVE  \/ t.mark = "[" /\ t.text \in Text /\ t.bias \in Bias
           \/ t.mark \in {":", "~"} /\ t.value \in Nat
           \/ t.mark = "@" /\ t.point \in Nat \X Nat
           \/ t.mark = "!"
  BY DEF TokenSet, Bias

\* A pass of the loop keeps the types, ...
LEMMA TokenTyped ==
    ASSUME NEW c \in Component, NEW t \in TokenSet, NEW last \in BOOLEAN
    PROVE  Token(c, t, last) \in Component
<1> USE DEF Token, Component
<1>1. CASE t.mark = "["
  BY <1>1, TokenForms DEF Qualified, Flag, Bias
<1>2. CASE t.mark = "~"
  BY <1>2, TokenForms DEF Flag
<1>3. CASE t.mark = "@"
  BY <1>3, TokenForms DEF Flag
<1>4. CASE t.mark = ":"
  BY <1>4, TokenForms DEF Flag
<1>5. CASE t.mark = "!"
  BY <1>5, TokenForms DEF Flag
<1> QED
  BY <1>1, <1>2, <1>3, <1>4, <1>5, TokenForms

\* ... and the soundness, as long as the indirector comes last.
LEMMA TokenSound ==
    ASSUME NEW c, Sound(c), ~Has(c, "indirector"), NEW t \in TokenSet, NEW last \in BOOLEAN
    PROVE  /\ Sound(Token(c, t, last))
           /\ ~last => ~Has(Token(c, t, last), "indirector")
<1> DEFINE d == Token(c, t, last)
<1> SUFFICES Sound(d) /\ (~last => ~Has(d, "indirector"))
  OBVIOUS
<1>1. c \in Component /\ d \in Component
  BY TokenTyped DEF Sound
<1> USE DEF Token, Sound, Has, HasSpatialTemporalOffset
<1>2. CASE t.mark = "["
  <2>1. d = Qualified(c, t)
    BY <1>2
  <2> HIDE DEF d
  <2>2. CASE c.characterOffset # 0
    <3>1. d.flags = c.flags \cup {"text"} /\ d.characterOffset = c.characterOffset
      BY ONLY <1>1, <2>1, <2>2 DEF Qualified, Component
    <3> QED
      BY <1>1, <2>2, <3>1
  <2>3. CASE c.characterOffset = 0
    <3>1. d.flags = c.flags \cup {"qualifier"} /\ d.characterOffset = c.characterOffset
      BY ONLY <1>1, <2>1, <2>3 DEF Qualified, Component
    <3> QED
      BY <1>1, <2>3, <3>1
  <2> QED
    BY <2>2, <2>3
<1>3. CASE t.mark = "~"
  <2>1. CASE Has(c, "character")
    BY <1>3, <2>1
  <2>2. CASE ~Has(c, "character")
    <3>1. d.flags = c.flags \cup {"temporal"} /\ d.characterOffset = c.characterOffset
      BY <1>1, <1>3, <2>2 DEF Component
    <3> QED
      BY <1>1, <2>2, <3>1
  <2> QED
    BY <2>1, <2>2
<1>4. CASE t.mark = "@"
  <2>1. CASE Has(c, "character")
    <3>1. d.flags = c.flags
      BY <1>1, <1>4, <2>1 DEF Component
    <3> QED
      BY <1>1, <2>1, <3>1
  <2>2. CASE ~Has(c, "character")
    <3>1. d.flags = c.flags \cup {"spatial"} /\ d.characterOffset = c.characterOffset
      BY <1>1, <1>4, <2>2 DEF Component
    <3> QED
      BY <1>1, <2>2, <3>1
  <2> QED
    BY <2>1, <2>2
<1>5. CASE t.mark = ":"
  <2>1. CASE HasSpatialTemporalOffset(c)
    BY <1>5, <2>1
  <2>2. CASE ~HasSpatialTemporalOffset(c)
    <3>1. d.flags = c.flags \cup {"character"}
      BY <1>1, <1>5, <2>2 DEF Component
    <3> QED
      BY <1>1, <2>2, <3>1
  <2> QED
    BY <2>1, <2>2
<1>6. CASE t.mark = "!"
  <2>1. CASE ~last \/ HasSpatialTemporalOffset(c) \/ Has(c, "character")
    BY <1>6, <2>1
  <2>2. CASE ~(~last \/ HasSpatialTemporalOffset(c) \/ Has(c, "character"))
    <3>1. d.flags = c.flags \cup {"indirector"} /\ d.characterOffset = c.characterOffset
      BY <1>1, <1>6, <2>2 DEF Component
    <3> QED
      BY <1>1, <2>2, <3>1
  <2> QED
    BY <2>1, <2>2
<1> QED
  BY <1>2, <1>3, <1>4, <1>5, <1>6, TokenForms

\* The loop of Component::Parse(): after[i] is the component after i tokens.
AfterTokens(str, after) ==
    /\ after \in [0 .. Len(str.tokens) -> Component]
    /\ after[0] = Blank(str.node)
    /\ \A i \in 1 .. Len(str.tokens) :
           after[i] = Token(after[i - 1], str.tokens[i], i = Len(str.tokens))

LEMMA ParseLoop ==
    ASSUME NEW str \in ComponentString
    PROVE  \E after : AfterTokens(str, after) /\ Parse(str) = after[Len(str.tokens)]
<1> DEFINE n == Len(str.tokens)
           a == Blank(str.node)
           Pass(i, c) == Token(c, str.tokens[i], i = n)
           Body(t) == [i \in 0 .. n |-> IF i = 0 THEN a ELSE Pass(i, t[i - 1])]
           g == [i \in 1 .. n |-> [c \in Component |-> Pass(i, c)]]
           t == CHOOSE t : t = Body(t)
<1>1. n \in Nat /\ a \in Component
  BY BlankIsSound DEF ComponentString
<1>2. \A i \in 1 .. n : \A c \in Component : Pass(i, c) \in Component
  <2>1. \A i \in 1 .. n : str.tokens[i] \in TokenSet
    BY DEF ComponentString
  <2> QED
    BY <2>1, TokenTyped
<1>3. Parse(str) = t[n]
  BY DEF Parse
<1>4. AfterTokens(str, t) <=> /\ t \in [0 .. n -> Component] /\ t[0] = a
                              /\ \A i \in 1 .. n : t[i] = Pass(i, t[i - 1])
  BY DEF AfterTokens
<1> HIDE DEF a, Pass, n
<1>5. \A i \in 1 .. n : \A c \in Component : g[i][c] = Pass(i, c)
  OBVIOUS
<1> HIDE DEF g
<1>6. \E r : r \in Results(Component, a, n, g)
  <2>1. g \in Steps(Component, n)
    BY <1>2 DEF Steps, g
  <2> QED
    BY ONLY <1>1, <2>1, LoopHasResults
<1>7. \E r : r = Body(r)
  <2>1. PICK r \in [0 .. n -> Component] : r[0] = a /\ \A i \in 1 .. n : r[i] = g[i][r[i - 1]]
    BY <1>6 DEF Results
  <2>2. \A i \in 1 .. n : r[i] = Pass(i, r[i - 1])
    BY <1>1, <1>5, <2>1
  <2> DEFINE b == Body(r)
  <2>3. /\ b[0] = a /\ \A i \in 1 .. n : b[i] = Pass(i, r[i - 1])
        /\ DOMAIN b = 0 .. n /\ b = [i \in DOMAIN b |-> b[i]]
    BY <1>1
  <2> HIDE DEF b
  <2>4. \A i \in 0 .. n : r[i] = b[i]
    BY <1>1, <2>1, <2>2, <2>3
  <2>5. r = b
    BY <2>1, <2>3, <2>4
  <2> QED
    BY <2>5 DEF b
<1>8. t = Body(t)
  BY <1>7
<1> HIDE DEF t
<1>9. t[0] = a /\ \A i \in 1 .. n : t[i] = Pass(i, t[i - 1])
  <2>1. Body(t)[0] = a /\ \A i \in 1 .. n : Body(t)[i] = Pass(i, t[i - 1])
    BY <1>1
  <2> HIDE DEF Body
  <2> QED
    BY <1>8, <2>1
<1>10. t \in [0 .. n -> Component]
  <2> DEFINE G == {i \in 0 .. n : t[i] \in Component}
  <2>1. 0 \in G /\ \A i \in 1 .. n : i - 1 \in G => i \in G
    BY <1>1, <1>2, <1>9
  <2>2. \A i \in 0 .. n : i \in G
    <3> HIDE DEF G
    <3> QED
      BY ONLY <1>1, <2>1, Passes
  <2>3. DOMAIN t = 0 .. n /\ t = [i \in DOMAIN t |-> t[i]]
    <3>1. DOMAIN Body(t) = 0 .. n /\ Body(t) = [i \in DOMAIN Body(t) |-> Body(t)[i]]
      OBVIOUS
    <3> HIDE DEF Body
    <3> QED
      BY <1>8, <3>1
  <2> QED
    BY <2>2, <2>3
<1> QED
  BY <1>3, <1>4, <1>9, <1>10 DEF n

\* Parse() makes a sound component of every string.
LEMMA ParseIsSound ==
    ASSUME NEW str \in ComponentString
    PROVE  Sound(Parse(str)) /\ Parse(str).node = str.node
<1> DEFINE n == Len(str.tokens)
<1>1. PICK after : AfterTokens(str, after) /\ Parse(str) = after[n]
  BY ParseLoop
<1>2. n \in Nat /\ \A i \in 1 .. n : str.tokens[i] \in TokenSet
  BY DEF ComponentString
<1> DEFINE G == {i \in 0 .. n : /\ Sound(after[i]) /\ after[i].node = str.node
                                /\ i < n => ~Has(after[i], "indirector")}
<1>3. 0 \in G
  <2>1. after[0] = Blank(str.node)
    BY <1>1 DEF AfterTokens
  <2>2. Sound(after[0]) /\ after[0].flags = {}
    BY <2>1, BlankIsSound DEF ComponentString
  <2>3. after[0].node = str.node
    BY <2>1 DEF Blank
  <2> QED
    BY <1>2, <2>2, <2>3 DEF Has
<1>4. ASSUME NEW i \in 1 .. n, i - 1 \in G PROVE i \in G
  <2> DEFINE c == after[i - 1]
             d == Token(c, str.tokens[i], i = n)
  <2>1. after[i] = d
    BY <1>1 DEF AfterTokens
  <2>2. Sound(c) /\ ~Has(c, "indirector") /\ c.node = str.node
    BY <1>2, <1>4
  <2>3. Sound(d) /\ (i # n => ~Has(d, "indirector"))
    BY <1>2, <2>2, TokenSound
  <2>4. d.node = c.node
    <3>1. c \in Component
      BY <2>2 DEF Sound
    <3>2. str.tokens[i] \in TokenSet
      BY <1>2
    <3> QED
      BY <3>1, <3>2, TokenForms DEF Token, Qualified, Component
  <2> QED
    BY <2>1, <2>2, <2>3, <2>4
<1>5. n \in G
  <2>1. \A i \in 0 .. n : i \in G
    <3> HIDE DEF G, n
    <3> QED
      BY <1>2, <1>3, <1>4, Passes
  <2> QED
    BY <1>2, <2>1
<1> QED
  BY <1>1, <1>5

-----------------------------------------------------------------------------
(***************************************************************************)
(* What AppendComponents() prints of a component, Parse() reads: a token   *)
(* for each flag, in an order in which none of them refuses the next.      *)
(***************************************************************************)
TokenFor(c, f) ==
    CASE f = "qualifier" -> [mark |-> "[", text |-> c.qualifier[1], bias |-> c.qualifier[2]]
      [] f = "character" -> Offset(":", c.characterOffset)
      [] f = "text" -> [mark |-> "[", text |-> c.textQualifier, bias |-> Unspecified]
      [] f = "temporal" -> Offset("~", c.temporalOffset)
      [] f = "spatial" -> [mark |-> "@", point |-> c.spatialOffset]
      [] f = "indirector" -> [mark |-> "!"]

\* d is what c is, as far as the flags F
Agrees(d, c, F) ==
    /\ d \in Component /\ d.node = c.node /\ d.flags = c.flags \cap F
    /\ "character" \notin d.flags => d.characterOffset = 0
    /\ "qualifier" \in d.flags => d.qualifier = c.qualifier
    /\ "character" \in d.flags => d.characterOffset = c.characterOffset
    /\ "spatial" \in d.flags => d.spatialOffset = c.spatialOffset
    /\ "temporal" \in d.flags => d.temporalOffset = c.temporalOffset
    /\ "text" \in d.flags => d.textQualifier = c.textQualifier

\* The flags whose tokens are printed before that of f
Earlier(f) ==
    CASE f = "qualifier" -> {}
      [] f = "character" -> {"qualifier"}
      [] f = "text" -> {"qualifier", "character"}
      [] f = "temporal" -> {"qualifier", "character", "text"}
      [] f = "spatial" -> {"qualifier", "character", "text", "temporal"}
      [] f = "indirector" -> {"qualifier", "character", "text", "temporal", "spatial"}

\* A flag that c does not have needs no token.
LEMMA AgreesWithout ==
    ASSUME NEW c \in Component, NEW d, NEW f \in Flag, ~Has(c, f), Agrees(d, c, Earlier(f))
    PROVE  Agrees(d, c, Earlier(f) \cup {f})
<1>1. c.flags \cap (Earlier(f) \cup {f}) = c.flags \cap Earlier(f)
  BY DEF Has
<1> QED
  BY <1>1 DEF Agrees

\* Taking over one more flag and its field
LEMMA AgreesMore ==
    ASSUME NEW c \in Component, NEW d, NEW e \in Component, NEW F, NEW f \in Flag, Has(c, f),
           Agrees(d, c, F), e.node = d.node, e.flags = d.flags \cup {f},
           e.qualifier = IF f = "qualifier" THEN c.qualifier ELSE d.qualifier,
           e.characterOffset = IF f = "character" THEN c.characterOffset ELSE d.characterOffset,
           e.spatialOffset = IF f = "spatial" THEN c.spatialOffset ELSE d.spatialOffset,
           e.temporalOffset = IF f = "temporal" THEN c.temporalOffset ELSE d.temporalOffset,
           e.textQualifier = IF f = "text" THEN c.textQualifier ELSE d.textQualifier
    PROVE  Agrees(e, c, F \cup {f})
<1>1. e.flags = c.flags \cap (F \cup {f})
  BY DEF Agrees, Has
<1>2. e.node = c.node
  BY DEF Agrees
<1>3. "character" \notin e.flags => e.characterOffset = 0
  BY DEF Agrees
<1>4. "character" \in e.flags => e.characterOffset = c.characterOffset
  BY DEF Agrees
<1>5. "qualifier" \in e.flags => e.qualifier = c.qualifier
  BY DEF Agrees
<1>6. "spatial" \in e.flags => e.spatialOffset = c.spatialOffset
  BY DEF Agrees
<1>7. "temporal" \in e.flags => e.temporalOffset = c.temporalOffset
  BY DEF Agrees
<1>8. "text" \in e.flags => e.textQualifier = c.textQualifier
  BY DEF Agrees
<1> QED
  BY <1>1, <1>2, <1>3, <1>4, <1>5, <1>6, <1>7, <1>8 DEF Agrees

\* The token of one that it has is read as it was printed.
LEMMA AgreesWith ==
    ASSUME NEW c, Sound(c), Expressible(c), NEW d, NEW f \in Flag, Has(c, f),
           Agrees(d, c, Earlier(f)), NEW last \in BOOLEAN, f = "indirector" => last
    PROVE  Agrees(Token(d, TokenFor(c, f), last), c, Earlier(f) \cup {f})
<1> DEFINE e == Token(d, TokenFor(c, f), last)
<1> DEFINE Taken(x) ==
               /\ x.node = d.node /\ x.flags = d.flags \cup {f}
               /\ x.qualifier = IF f = "qualifier" THEN c.qualifier ELSE d.qualifier
               /\ x.characterOffset = IF f = "character" THEN c.characterOffset ELSE d.characterOffset
               /\ x.spatialOffset = IF f = "spatial" THEN c.spatialOffset ELSE d.spatialOffset
               /\ x.temporalOffset = IF f = "temporal" THEN c.temporalOffset ELSE d.temporalOffset
               /\ x.textQualifier = IF f = "text" THEN c.textQualifier ELSE d.textQualifier
<1>1. c \in Component /\ d \in Component
  BY DEF Sound, Agrees
<1> SUFFICES Agrees(e, c, Earlier(f) \cup {f})
  OBVIOUS
<1> SUFFICES e \in Component /\ Taken(e)
  <2> HIDE DEF e
  <2> QED
    BY <1>1, AgreesMore
<1>2. CASE f = "qualifier"
  <2>1. TokenFor(c, f) = [mark |-> "[", text |-> c.qualifier[1], bias |-> c.qualifier[2]]
    BY <1>2 DEF TokenFor
  <2>2. d.flags = {} /\ d.characterOffset = 0 /\ d.node = c.node
    BY <1>2 DEF Agrees, Earlier
  <2>3. c.qualifier = <<c.qualifier[1], c.qualifier[2]>>
    BY <1>1 DEF Component
  <2> DEFINE t == TokenFor(c, f)
  <2>t. t.mark = "[" /\ t.text = c.qualifier[1] /\ t.bias = c.qualifier[2]
    BY <2>1
  <2> HIDE DEF t
  <2>e. e = Qualified(d, t)
    BY <2>t DEF Token, t
  <2> HIDE DEF e
  <2>4. e = [d EXCEPT !.flags = @ \cup {"qualifier"}, !.qualifier = c.qualifier]
    BY <2>2, <2>3, <2>t, <2>e DEF Qualified
  <2> HIDE DEF e
  <2> QED
    BY <1>1, <1>2, <2>4 DEF Component, Text, Flag
<1>3. CASE f = "character"
  <2>1. TokenFor(c, f) = [mark |-> ":", value |-> c.characterOffset]
    BY <1>3 DEF TokenFor, Offset
  <2>2. ~HasSpatialTemporalOffset(d)
    BY <1>3 DEF Agrees, Earlier, HasSpatialTemporalOffset, Has
  <2>3. e = [d EXCEPT !.flags = @ \cup {"character"}, !.characterOffset = c.characterOffset]
    BY <2>1, <2>2 DEF Token
  <2> HIDE DEF e
  <2> QED
    BY <1>1, <1>3, <2>3 DEF Component, Text, Flag
<1>4. CASE f = "text"
  <2>1. TokenFor(c, f) = [mark |-> "[", text |-> c.textQualifier, bias |-> Unspecified]
    BY <1>4 DEF TokenFor
  <2>2. Has(c, "character") /\ c.characterOffset # 0
    BY <1>4 DEF Expressible, Sound
  <2>3. "character" \in d.flags /\ d.characterOffset # 0
    BY <1>4, <2>2 DEF Agrees, Earlier, Has
  <2> DEFINE t == TokenFor(c, f)
  <2>t. t.mark = "[" /\ t.text = c.textQualifier /\ t.bias = Unspecified
    BY <2>1
  <2> HIDE DEF t
  <2>e. e = Qualified(d, t)
    BY <2>t DEF Token, t
  <2> HIDE DEF e
  <2>4. e = [d EXCEPT !.flags = @ \cup {"text"}, !.textQualifier = c.textQualifier]
    BY <1>1, <2>3, <2>t, <2>e DEF Qualified, Component
  <2> HIDE DEF e
  <2> QED
    BY <1>1, <1>4, <2>4 DEF Component, Text, Flag
<1>5. CASE f = "temporal"
  <2>1. TokenFor(c, f) = [mark |-> "~", value |-> c.temporalOffset]
    BY <1>5 DEF TokenFor, Offset
  <2>2. ~Has(d, "character")
    BY <1>5 DEF Agrees, Earlier, Has, Expressible
  <2>3. e = [d EXCEPT !.flags = @ \cup {"temporal"}, !.temporalOffset = c.temporalOffset]
    BY <2>1, <2>2 DEF Token
  <2> HIDE DEF e
  <2> QED
    BY <1>1, <1>5, <2>3 DEF Component, Text, Flag
<1>6. CASE f = "spatial"
  <2>1. TokenFor(c, f) = [mark |-> "@", point |-> c.spatialOffset]
    BY <1>6 DEF TokenFor
  <2>2. ~Has(d, "character")
    BY <1>6 DEF Agrees, Earlier, Has, Expressible
  <2>3. e = [d EXCEPT !.flags = @ \cup {"spatial"}, !.spatialOffset = c.spatialOffset]
    BY <2>1, <2>2 DEF Token
  <2> HIDE DEF e
  <2> QED
    BY <1>1, <1>6, <2>3 DEF Component, Text, Flag
<1>7. CASE f = "indirector"
  <2>1. TokenFor(c, f) = [mark |-> "!"]
    BY <1>7 DEF TokenFor
  <2>2. last /\ ~Has(d, "character") /\ ~HasSpatialTemporalOffset(d)
    BY <1>7 DEF Agrees, Earlier, Has, Sound, HasSpatialTemporalOffset
  <2>3. e = [d EXCEPT !.flags = @ \cup {"indirector"}]
    BY <2>1, <2>2 DEF Token
  <2> HIDE DEF e
  <2> QED
    BY <1>1, <1>7, <2>3 DEF Component, Text, Flag
<1> QED
  BY <1>2, <1>3, <1>4, <1>5, <1>6, <1>7 DEF Flag

\* The tokens are printed one behind the other.
Printed(c, s, f) == s \o If(Has(c, f), <<TokenFor(c, f)>>)

LEMMA PrintedMore ==
    ASSUME NEW T, NEW s \in Seq(T), NEW c, NEW f, Has(c, f) => TokenFor(c, f) \in T
    PROVE  /\ Printed(c, s, f) \in Seq(T)
           /\ Len(Printed(c, s, f)) = IF Has(c, f) THEN Len(s) + 1 ELSE Len(s)
           /\ \A i \in 1 .. Len(s) : Printed(c, s, f)[i] = s[i]
           /\ Has(c, f) => Printed(c, s, f)[Len(s) + 1] = TokenFor(c, f)
<1>1. CASE Has(c, f)
  <2>1. Printed(c, s, f) = s \o <<TokenFor(c, f)>> /\ <<TokenFor(c, f)>> \in Seq(T)
    BY <1>1 DEF Printed, If
  <2> HIDE DEF Printed
  <2> QED
    BY <1>1, <2>1
<1>2. CASE ~Has(c, f)
  <2>1. Printed(c, s, f) = s
    BY <1>2 DEF Printed, If
  <2> QED
    BY <1>2, <2>1
<1> QED
  BY <1>1, <1>2

LEMMA TokenForTyped ==
    ASSUME NEW c \in Component, NEW f \in Flag
    PROVE  TokenFor(c, f) \in TokenSet
<1>0. c.qualifier[1] \in Text /\ c.qualifier[2] \in Bias /\ c.textQualifier \in Text
  BY DEF Component
<1>1. CASE f = "qualifier"
  BY <1>0, <1>1 DEF TokenFor, TokenSet, Bias
<1>2. CASE f = "character"
  BY <1>2 DEF TokenFor, TokenSet, Component, Offset
<1>3. CASE f = "text"
  BY <1>0, <1>3 DEF TokenFor, TokenSet, Bias
<1>4. CASE f = "temporal"
  BY <1>4 DEF TokenFor, TokenSet, Component, Offset
<1>5. CASE f = "spatial"
  BY <1>5 DEF TokenFor, TokenSet, Component
<1>6. CASE f = "indirector"
  BY <1>6 DEF TokenFor, TokenSet
<1> QED
  BY <1>1, <1>2, <1>3, <1>4, <1>5, <1>6 DEF Flag

LEMMA PrintedGrows ==
    ASSUME NEW c \in Component, NEW s \in Seq(TokenSet), NEW f \in Flag
    PROVE  /\ Printed(c, s, f) \in Seq(TokenSet) /\ Len(s) <= Len(Printed(c, s, f))
           /\ \A i \in 1 .. Len(s) : Printed(c, s, f)[i] = s[i]
<1>1. TokenFor(c, f) \in TokenSet
  BY TokenForTyped
<1>2. Len(s) \in Nat
  OBVIOUS
<1> QED
  BY <1>1, <1>2, PrintedMore

\* Reading on over the token of a flag, if there is one
LEMMA ReadsOn ==
    ASSUME NEW c, Sound(c), Expressible(c), NEW str \in ComponentString,
           NEW after, AfterTokens(str, after), NEW f \in Flag,
           NEW s \in Seq(TokenSet), Agrees(after[Len(s)], c, Earlier(f)),
           NEW p, p = Printed(c, s, f), Len(p) <= Len(str.tokens),
           \A i \in 1 .. Len(p) : str.tokens[i] = p[i],
           f = "indirector" => Len(p) = Len(str.tokens)
    PROVE  Agrees(after[Len(p)], c, Earlier(f) \cup {f})
<1> DEFINE n == Len(str.tokens)
<1>0. c \in Component
  BY DEF Sound
<1>1. /\ p \in Seq(TokenSet)
      /\ Len(p) = IF Has(c, f) THEN Len(s) + 1 ELSE Len(s)
      /\ Has(c, f) => p[Len(s) + 1] = TokenFor(c, f)
  BY <1>0, PrintedMore, TokenForTyped
<1>n. Len(s) \in Nat /\ n \in Nat
  BY DEF ComponentString
<1>2. CASE ~Has(c, f)
  BY <1>0, <1>1, <1>2, AgreesWithout
<1>3. CASE Has(c, f)
  <2> DEFINE k == Len(s) + 1
             last == k = n
  <2>1. k \in 1 .. n /\ k - 1 = Len(s) /\ Len(p) = k
    BY <1>1, <1>3, <1>n
  <2>2. after[k] = Token(after[Len(s)], str.tokens[k], last)
    BY <2>1 DEF AfterTokens
  <2>3. str.tokens[k] = TokenFor(c, f)
    BY <1>1, <1>3, <2>1
  <2>4. f = "indirector" => last
    BY <2>1
  <2> HIDE DEF k, last
  <2>5. last \in BOOLEAN
    BY DEF last
  <2>6. Agrees(Token(after[Len(s)], TokenFor(c, f), last), c, Earlier(f) \cup {f})
    BY <1>3, <2>4, <2>5, AgreesWith
  <2> QED
    BY <2>1, <2>2, <2>3, <2>6
<1> QED
  BY <1>2, <1>3

\* A component that says all it has when printed, and whose offsets have no
\* more digits than are printed, is read as the same.
LEMMA ComponentSurvives ==
    ASSUME NEW c, Sound(c), Expressible(c), Rounded(c) = c
    PROVE  Stringified(c) \in ComponentString /\ Same(Parse(Stringified(c)), c)
<1> DEFINE s1 == Printed(c, <<>>, "qualifier")
           s2 == Printed(c, s1, "character")
           s3 == Printed(c, s2, "text")
           s4 == Printed(c, s3, "temporal")
           s5 == Printed(c, s4, "spatial")
           s6 == Printed(c, s5, "indirector")
           str == Stringified(c)
<1>0. c \in Component /\ c.node \in Nat /\ c.flags \subseteq Flag
  BY DEF Sound, Component
<1>e. <<>> \in Seq(TokenSet) /\ Len(<<>>) = 0
  OBVIOUS
<1>f. /\ "qualifier" \in Flag /\ "character" \in Flag /\ "text" \in Flag
      /\ "temporal" \in Flag /\ "spatial" \in Flag /\ "indirector" \in Flag
  BY DEF Flag
<1>t. \A f \in Flag : TokenFor(c, f) \in TokenSet
  BY <1>0, TokenForTyped
<1>1. s1 \in Seq(TokenSet)
  BY ONLY <1>0, <1>e, <1>f, PrintedGrows
<1> HIDE DEF s1
<1>2. s2 \in Seq(TokenSet) /\ Len(s1) <= Len(s2) /\ \A i \in 1 .. Len(s1) : s2[i] = s1[i]
  BY ONLY <1>0, <1>1, <1>f, PrintedGrows
<1> HIDE DEF s2
<1>3. s3 \in Seq(TokenSet) /\ Len(s2) <= Len(s3) /\ \A i \in 1 .. Len(s2) : s3[i] = s2[i]
  BY ONLY <1>0, <1>2, <1>f, PrintedGrows
<1> HIDE DEF s3
<1>4. s4 \in Seq(TokenSet) /\ Len(s3) <= Len(s4) /\ \A i \in 1 .. Len(s3) : s4[i] = s3[i]
  BY ONLY <1>0, <1>3, <1>f, PrintedGrows
<1> HIDE DEF s4
<1>5. s5 \in Seq(TokenSet) /\ Len(s4) <= Len(s5) /\ \A i \in 1 .. Len(s4) : s5[i] = s4[i]
  BY ONLY <1>0, <1>4, <1>f, PrintedGrows
<1> HIDE DEF s5
<1>6. s6 \in Seq(TokenSet) /\ Len(s5) <= Len(s6) /\ \A i \in 1 .. Len(s5) : s6[i] = s5[i]
  BY ONLY <1>0, <1>5, <1>f, PrintedGrows
<1> HIDE DEF s6
<1>7. str.tokens = s6 /\ str.node = c.node /\ str \in ComponentString
  <2> DEFINE O(f) == If(Has(c, f), <<TokenFor(c, f)>>)
  <2>1. str = [node |-> c.node,
               tokens |-> O("qualifier")
                          \o (IF Has(c, "character") THEN O("character") \o O("text")
                              ELSE O("temporal") \o O("spatial"))
                          \o O("indirector")]
    BY DEF Stringified, TimeAndPlace, TokenFor, If
  <2>2. /\ O("qualifier") \in Seq(TokenSet) /\ O("character") \in Seq(TokenSet)
        /\ O("text") \in Seq(TokenSet) /\ O("temporal") \in Seq(TokenSet)
        /\ O("spatial") \in Seq(TokenSet) /\ O("indirector") \in Seq(TokenSet)
    BY <1>f, <1>t DEF If
  <2>3. Has(c, "character") => O("temporal") = <<>> /\ O("spatial") = <<>>
    BY DEF Expressible, If
  <2>4. ~Has(c, "character") => O("character") = <<>> /\ O("text") = <<>>
    BY DEF Sound, If
  <2>5. s6 = (((((<<>> \o O("qualifier")) \o O("character")) \o O("text"))
                \o O("temporal")) \o O("spatial")) \o O("indirector")
    BY DEF s1, s2, s3, s4, s5, s6, Printed
  <2> HIDE DEF O, str
  <2>6. str.tokens = s6
    <3>1. CASE Has(c, "character")
      <4>1. str.tokens = O("qualifier") \o (O("character") \o O("text")) \o O("indirector")
        BY <2>1, <3>1
      <4>2. s6 = ((O("qualifier") \o O("character")) \o O("text")) \o O("indirector")
        <5> DEFINE u == (O("qualifier") \o O("character")) \o O("text")
        <5>1. <<>> \o O("qualifier") = O("qualifier")
          BY <2>2
        <5>2. u \in Seq(TokenSet)
          BY <2>2
        <5>3. s6 = ((u \o <<>>) \o <<>>) \o O("indirector")
          BY <2>3, <2>5, <3>1, <5>1
        <5> HIDE DEF u
        <5>4. u \o <<>> = u
          BY <5>2
        <5> QED
          BY <5>3, <5>4 DEF u
      <4>3. O("qualifier") \o (O("character") \o O("text")) = (O("qualifier") \o O("character")) \o O("text")
        <5> DEFINE q == O("qualifier")
                   v == O("character")
                   w == O("text")
        <5>1. q \in Seq(TokenSet) /\ v \in Seq(TokenSet) /\ w \in Seq(TokenSet)
          BY <2>2
        <5> HIDE DEF q, v, w
        <5>2. q \o (v \o w) = (q \o v) \o w
          BY ONLY <5>1, ConcatAssociative
        <5> QED
          BY <5>2 DEF q, v, w
      <4> QED
        BY ONLY <4>1, <4>2, <4>3, Zenon
    <3>2. CASE ~Has(c, "character")
      <4>1. str.tokens = O("qualifier") \o (O("temporal") \o O("spatial")) \o O("indirector")
        BY <2>1, <3>2
      <4>2. s6 = ((O("qualifier") \o O("temporal")) \o O("spatial")) \o O("indirector")
        <5>1. <<>> \o O("qualifier") = O("qualifier")
          BY <2>2
        <5>2. O("qualifier") \o <<>> = O("qualifier")
          BY <2>2
        <5> QED
          BY <2>4, <2>5, <3>2, <5>1, <5>2
      <4>3. O("qualifier") \o (O("temporal") \o O("spatial")) = (O("qualifier") \o O("temporal")) \o O("spatial")
        <5> DEFINE q == O("qualifier")
                   v == O("temporal")
                   w == O("spatial")
        <5>1. q \in Seq(TokenSet) /\ v \in Seq(TokenSet) /\ w \in Seq(TokenSet)
          BY <2>2
        <5> HIDE DEF q, v, w
        <5>2. q \o (v \o w) = (q \o v) \o w
          BY ONLY <5>1, ConcatAssociative
        <5> QED
          BY <5>2 DEF q, v, w
      <4> QED
        BY ONLY <4>1, <4>2, <4>3, Zenon
    <3> QED
      BY <3>1, <3>2
  <2>7. str = [node |-> str.node, tokens |-> str.tokens] /\ str.node = c.node
    BY <2>1
  <2>8. str.tokens \in Seq(TokenSet)
    BY <1>6, <2>6
  <2> HIDE DEF s6
  <2> QED
    BY <1>0, <2>6, <2>7, <2>8 DEF ComponentString
<1> HIDE DEF str
<1>8. PICK after : AfterTokens(str, after) /\ Parse(str) = after[Len(s6)]
  BY <1>7, ParseLoop
<1>9. /\ Len(s1) \in Nat /\ Len(s2) \in Nat /\ Len(s3) \in Nat
      /\ Len(s4) \in Nat /\ Len(s5) \in Nat /\ Len(s6) \in Nat
  BY <1>1, <1>2, <1>3, <1>4, <1>5, <1>6
<1>10. \A i \in 1 .. Len(s5) : s6[i] = s5[i]
  BY <1>6
<1>11. \A i \in 1 .. Len(s4) : s6[i] = s4[i]
  BY <1>5, <1>9, <1>10
<1>12. \A i \in 1 .. Len(s3) : s6[i] = s3[i]
  BY <1>4, <1>9, <1>11
<1>13. \A i \in 1 .. Len(s2) : s6[i] = s2[i]
  BY <1>3, <1>9, <1>12
<1>14. \A i \in 1 .. Len(s1) : s6[i] = s1[i]
  BY <1>2, <1>9, <1>13
<1>15. Agrees(after[0], c, {})
  <2>1. after[0] = Blank(c.node)
    BY <1>7, <1>8 DEF AfterTokens
  <2>2. after[0] \in Component /\ after[0].flags = {}
    BY <1>0, <2>1, BlankIsSound
  <2>3. after[0].node = c.node /\ after[0].characterOffset = 0
    BY <2>1 DEF Blank
  <2> QED
    BY <2>2, <2>3 DEF Agrees
<1>16. Agrees(after[Len(s1)], c, {"qualifier"})
  <2>1. "qualifier" \in Flag /\ Earlier("qualifier") = {} /\ Earlier("qualifier") \cup {"qualifier"} = {"qualifier"}
    BY DEF Flag, Earlier
  <2>2. Len(s1) <= Len(str.tokens) /\ \A i \in 1 .. Len(s1) : str.tokens[i] = s1[i]
    BY <1>2, <1>3, <1>4, <1>5, <1>6, <1>7, <1>9, <1>14
  <2>3. s1 = Printed(c, <<>>, "qualifier")
    BY DEF s1
  <2>4. Agrees(after[Len(<<>>)], c, Earlier("qualifier"))
    BY <1>15, <2>1, <1>e
  <2>5. Agrees(after[Len(s1)], c, Earlier("qualifier") \cup {"qualifier"})
    BY ONLY Sound(c), Expressible(c), <1>f, <1>e, <1>7, <1>8, <2>2, <2>3, <2>4, ReadsOn
  <2> QED
    BY <2>1, <2>5
<1>17. Agrees(after[Len(s2)], c, {"qualifier", "character"})
  <2>1. Earlier("character") = {"qualifier"} /\ Earlier("character") \cup {"character"} = {"qualifier", "character"}
    BY DEF Earlier
  <2>2. Len(s2) <= Len(str.tokens) /\ \A i \in 1 .. Len(s2) : str.tokens[i] = s2[i]
    BY <1>3, <1>4, <1>5, <1>6, <1>7, <1>8, <1>9, <1>13
  <2>3. s2 = Printed(c, s1, "character")
    BY DEF s2
  <2>4. Agrees(after[Len(s1)], c, Earlier("character"))
    BY <1>16, <2>1
  <2>5. Agrees(after[Len(s2)], c, Earlier("character") \cup {"character"})
    BY ONLY Sound(c), Expressible(c), <1>f, <1>1, <1>7, <1>8, <2>2, <2>3, <2>4, ReadsOn
  <2> QED
    BY <2>1, <2>5
<1>18. Agrees(after[Len(s3)], c, {"qualifier", "character", "text"})
  <2>1. /\ Earlier("text") = {"qualifier", "character"}
        /\ Earlier("text") \cup {"text"} = {"qualifier", "character", "text"}
    BY DEF Earlier
  <2>2. Len(s3) <= Len(str.tokens) /\ \A i \in 1 .. Len(s3) : str.tokens[i] = s3[i]
    BY <1>4, <1>5, <1>6, <1>7, <1>8, <1>9, <1>12
  <2>3. s3 = Printed(c, s2, "text")
    BY DEF s3
  <2>4. Agrees(after[Len(s2)], c, Earlier("text"))
    BY <1>17, <2>1
  <2>5. Agrees(after[Len(s3)], c, Earlier("text") \cup {"text"})
    BY ONLY Sound(c), Expressible(c), <1>f, <1>2, <1>7, <1>8, <2>2, <2>3, <2>4, ReadsOn
  <2> QED
    BY <2>1, <2>5
<1>19. Agrees(after[Len(s4)], c, {"qualifier", "character", "text", "temporal"})
  <2>1. /\ Earlier("temporal") = {"qualifier", "character", "text"}
        /\ Earlier("temporal") \cup {"temporal"} = {"qualifier", "character", "text", "temporal"}
    BY DEF Earlier
  <2>2. Len(s4) <= Len(str.tokens) /\ \A i \in 1 .. Len(s4) : str.tokens[i] = s4[i]
    BY <1>5, <1>6, <1>7, <1>8, <1>9, <1>11
  <2>3. s4 = Printed(c, s3, "temporal")
    BY DEF s4
  <2>4. Agrees(after[Len(s3)], c, Earlier("temporal"))
    BY <1>18, <2>1
  <2>5. Agrees(after[Len(s4)], c, Earlier("temporal") \cup {"temporal"})
    BY ONLY Sound(c), Expressible(c), <1>f, <1>3, <1>7, <1>8, <2>2, <2>3, <2>4, ReadsOn
  <2> QED
    BY <2>1, <2>5
<1>20. Agrees(after[Len(s5)], c, {"qualifier", "character", "text", "temporal", "spatial"})
  <2>1. /\ Earlier("spatial") = {"qualifier", "character", "text", "temporal"}
        /\ Earlier("spatial") \cup {"spatial"} = {"qualifier", "character", "text", "temporal", "spatial"}
    BY DEF Earlier
  <2>2. Len(s5) <= Len(str.tokens) /\ \A i \in 1 .. Len(s5) : str.tokens[i] = s5[i]
    BY <1>6, <1>7, <1>8, <1>9, <1>10
  <2>3. s5 = Printed(c, s4, "spatial")
    BY DEF s5
  <2>4. Agrees(after[Len(s4)], c, Earlier("spatial"))
    BY <1>19, <2>1
  <2>5. Agrees(after[Len(s5)], c, Earlier("spatial") \cup {"spatial"})
    BY ONLY Sound(c), Expressible(c), <1>f, <1>4, <1>7, <1>8, <2>2, <2>3, <2>4, ReadsOn
  <2> QED
    BY <2>1, <2>5
<1>21. Agrees(after[Len(s6)], c, {"qualifier", "character", "text", "temporal", "spatial", "indirector"})
  <2>1. /\ Earlier("indirector") = {"qualifier", "character", "text", "temporal", "spatial"}
        /\ Earlier("indirector") \cup {"indirector"} =
               {"qualifier", "character", "text", "temporal", "spatial", "indirector"}
    BY DEF Earlier
  <2>2. Len(s6) = Len(str.tokens) /\ Len(s6) <= Len(str.tokens) /\ \A i \in 1 .. Len(s6) : str.tokens[i] = s6[i]
    BY <1>7, <1>9
  <2>3. s6 = Printed(c, s5, "indirector")
    BY DEF s6
  <2>4. Agrees(after[Len(s5)], c, Earlier("indirector"))
    BY <1>20, <2>1
  <2>5. Agrees(after[Len(s6)], c, Earlier("indirector") \cup {"indirector"})
    BY ONLY Sound(c), Expressible(c), <1>f, <1>5, <1>7, <1>8, <2>2, <2>3, <2>4, ReadsOn
  <2> QED
    BY <2>1, <2>5
<1>22. Parse(str).flags = c.flags
  <2>1. c.flags \cap {"qualifier", "character", "text", "temporal", "spatial", "indirector"} = c.flags
    BY <1>0 DEF Flag
  <2> QED
    BY <1>8, <1>21, <2>1 DEF Agrees
<1>23. Same(Parse(str), c)
  BY <1>8, <1>21, <1>22 DEF Agrees, Same, Has
<1> QED
  BY <1>7, <1>23 DEF str

\* There is a nearest number of six digits.
LEMMA Nearest ==
    ASSUME NEW x \in Nat
    PROVE  /\ SixDigits(x) \in Printable /\ SixDigits(x) \in Nat
           /\ \A q \in Printable : Distance(SixDigits(x), x) <= Distance(q, x)
<1> DEFINE T == {Distance(q, x) : q \in Printable}
<1>1. T \subseteq Nat /\ T # {}
  BY PrintableAssumption DEF Distance
<1>2. \E d \in T : \A y \in T : d <= y
  <2> HIDE DEF T
  <2> QED
    BY <1>1, LeastNat
<1>3. \E p \in Printable : \A q \in Printable : Distance(p, x) <= Distance(q, x)
  BY <1>2
<1> QED
  BY <1>3, PrintableAssumption DEF SixDigits

\* One of six digits is its own, and rounding keeps numbers in order.
LEMMA NearestStays ==
    ASSUME NEW p \in Printable
    PROVE  SixDigits(p) = p
<1>1. p \in Nat /\ SixDigits(p) \in Nat /\ Distance(SixDigits(p), p) <= Distance(p, p)
  BY Nearest, PrintableAssumption
<1> QED
  BY <1>1 DEF Distance

LEMMA NearestInOrder ==
    ASSUME NEW x \in Nat, NEW y \in Nat, x <= y
    PROVE  SixDigits(x) <= SixDigits(y)
<1> DEFINE p == SixDigits(x)
           q == SixDigits(y)
<1>1. p \in Nat /\ q \in Nat /\ Distance(p, x) <= Distance(q, x) /\ Distance(q, y) <= Distance(p, y)
  BY Nearest
<1>2. x = y => p = q
  OBVIOUS
<1> HIDE DEF p, q
<1>3. p <= q
  BY <1>1, <1>2 DEF Distance
<1> QED
  BY <1>3 DEF p, q

\* Rounding changes two offsets, and nothing when it is done again.
LEMMA RoundedOffsets ==
    ASSUME NEW c \in Component
    PROVE  /\ Rounded(c) \in Component /\ Rounded(Rounded(c)) = Rounded(c)
           /\ Rounded(c).node = c.node /\ Rounded(c).flags = c.flags /\ Rounded(c).qualifier = c.qualifier
           /\ Rounded(c).characterOffset = c.characterOffset /\ Rounded(c).textQualifier = c.textQualifier
           /\ Rounded(c).temporalOffset = SixDigits(c.temporalOffset)
           /\ Rounded(c).spatialOffset = <<SixDigits(c.spatialOffset[1]), SixDigits(c.spatialOffset[2])>>
<1> DEFINE t == SixDigits(c.temporalOffset)
           x == SixDigits(c.spatialOffset[1])
           y == SixDigits(c.spatialOffset[2])
           r == [c EXCEPT !.temporalOffset = t, !.spatialOffset = <<x, y>>]
<1>1. c.temporalOffset \in Nat /\ c.spatialOffset[1] \in Nat /\ c.spatialOffset[2] \in Nat
  BY DEF Component
<1>2. t \in Printable /\ x \in Printable /\ y \in Printable /\ t \in Nat /\ x \in Nat /\ y \in Nat
  BY <1>1, Nearest
<1>3. Rounded(c) = r
  BY DEF Rounded
<1>4. SixDigits(t) = t /\ SixDigits(x) = x /\ SixDigits(y) = y
  BY <1>2, NearestStays
<1> HIDE DEF t, x, y
<1>5. /\ r \in Component /\ r.temporalOffset = t /\ r.spatialOffset = <<x, y>>
      /\ r.node = c.node /\ r.flags = c.flags /\ r.qualifier = c.qualifier
      /\ r.characterOffset = c.characterOffset /\ r.textQualifier = c.textQualifier
  BY <1>2 DEF Component
<1> HIDE DEF r
<1>6. [r EXCEPT !.temporalOffset = t, !.spatialOffset = <<x, y>>] = r
  BY <1>5 DEF Component
<1>7. Rounded(r) = r
  BY <1>4, <1>5, <1>6 DEF Rounded
<1> QED
  BY <1>3, <1>5, <1>7 DEF t, x, y

LEMMA RoundedIsSound ==
    ASSUME NEW c, Sound(c)
    PROVE  /\ Sound(Rounded(c)) /\ (Expressible(c) => Expressible(Rounded(c)))
           /\ Stringified(Rounded(c)) = Stringified(c)
<1>1. c \in Component
  BY DEF Sound
<1> DEFINE r == Rounded(c)
<1>2. /\ r \in Component /\ Rounded(r) = r /\ r.node = c.node /\ r.flags = c.flags /\ r.qualifier = c.qualifier
      /\ r.characterOffset = c.characterOffset /\ r.textQualifier = c.textQualifier
  BY <1>1, RoundedOffsets
<1>3. Stringified(r) = Stringified(c)
  <2>1. Rounded(r) = Rounded(c)
    BY <1>2
  <2> HIDE DEF r
  <2> QED
    BY <1>2, <2>1 DEF Stringified, Has
<1> HIDE DEF r
<1>4. Sound(r) /\ (Expressible(c) => Expressible(r))
  BY <1>2 DEF Sound, Expressible, Has, HasSpatialTemporalOffset
<1> QED
  BY <1>3, <1>4 DEF r

\* Printed and parsed, a component is the rounded one.
LEMMA RoundedSurvives ==
    ASSUME NEW c, Sound(c), Expressible(c)
    PROVE  Stringified(c) \in ComponentString /\ Same(Parse(Stringified(c)), Rounded(c))
<1>1. Sound(Rounded(c)) /\ Expressible(Rounded(c)) /\ Stringified(Rounded(c)) = Stringified(c)
  BY RoundedIsSound
<1>2. Rounded(Rounded(c)) = Rounded(c)
  BY RoundedOffsets DEF Sound
<1>3. /\ Stringified(Rounded(c)) \in ComponentString
      /\ Same(Parse(Stringified(Rounded(c))), Rounded(c))
  BY <1>1, <1>2, ComponentSurvives
<1> QED
  BY <1>1, <1>3

-----------------------------------------------------------------------------
(***************************************************************************)
(* Lists of components and CFIs                                            *)
(***************************************************************************)
SoundList(list) == list \in Seq(Component) /\ \A i \in DOMAIN list : Sound(list[i])
SoundCFI(c) ==
    /\ c \in [components : Seq(Component), start : Seq(Component), end : Seq(Component), ranged : BOOLEAN]
    /\ SoundList(c.components) /\ SoundList(c.start) /\ SoundList(c.end)

CFIInv ==
    /\ SoundCFI(cfi) /\ compiled \in BOOLEAN
    /\ cfi.ranged /\ compiled => ~RangeRefused(cfi.start, cfi.end)

LEMMA ParsedListIsSound ==
    ASSUME NEW strs \in Seq(ComponentString)
    PROVE  SoundList(ParseAll(strs)) /\ Len(ParseAll(strs)) = Len(strs)
<1>1. \A i \in 1 .. Len(strs) : Sound(Parse(strs[i])) /\ Parse(strs[i]) \in Component
  <2> SUFFICES ASSUME NEW i \in 1 .. Len(strs)
               PROVE  Sound(Parse(strs[i])) /\ Parse(strs[i]) \in Component
    OBVIOUS
  <2>1. strs[i] \in ComponentString
    BY ElementOfSeq
  <2> QED
    BY <2>1, ParseIsSound DEF Sound
<1>2. DOMAIN strs = 1 .. Len(strs) /\ Len(strs) \in Nat
  OBVIOUS
<1> DEFINE l == ParseAll(strs)
<1>3. l = [i \in 1 .. Len(strs) |-> Parse(strs[i])]
  BY <1>2 DEF ParseAll
<1>4. l \in Seq(Component) /\ Len(l) = Len(strs) /\ DOMAIN l = 1 .. Len(strs)
  BY <1>1, <1>2, <1>3
<1>5. \A i \in 1 .. Len(strs) : l[i] = Parse(strs[i])
  BY <1>3
<1> HIDE DEF l
<1>6. SoundList(l)
  BY <1>1, <1>4, <1>5 DEF SoundList
<1> QED
  BY <1>4, <1>6 DEF l

\* The rounded list
LEMMA RoundedList ==
    ASSUME NEW list, SoundList(list)
    PROVE  /\ SoundList(RoundAll(list)) /\ Len(RoundAll(list)) = Len(list)
           /\ \A i \in 1 .. Len(list) : RoundAll(list)[i] = Rounded(list[i])
<1>1. list \in Seq(Component) /\ DOMAIN list = 1 .. Len(list) /\ Len(list) \in Nat
  BY DEF SoundList
<1>2. \A i \in 1 .. Len(list) : Sound(Rounded(list[i])) /\ Rounded(list[i]) \in Component
  BY <1>1, RoundedIsSound DEF SoundList, Sound
<1> DEFINE r == RoundAll(list)
<1>3. r = [i \in 1 .. Len(list) |-> Rounded(list[i])]
  BY <1>1 DEF RoundAll
<1>4. \A i \in 1 .. Len(list) : r[i] = Rounded(list[i])
  BY <1>3
<1>5. r \in Seq(Component) /\ Len(r) = Len(list) /\ DOMAIN r = 1 .. Len(list)
  BY <1>1, <1>2, <1>3
<1> HIDE DEF r
<1>6. SoundList(r)
  BY <1>2, <1>4, <1>5 DEF SoundList
<1> QED
  BY <1>4, <1>5, <1>6 DEF r

\* A list whose components are all printed is parsed as the rounded list.
LEMMA ListSurvives ==
    ASSUME NEW list, SoundList(list), \A i \in DOMAIN list : Expressible(list[i])
    PROVE  /\ StringifyAll(list) \in Seq(ComponentString)
           /\ Len(StringifyAll(list)) = Len(list)
           /\ SameList(ParseAll(StringifyAll(list)), RoundAll(list))
<1>1. list \in Seq(Component) /\ DOMAIN list = 1 .. Len(list) /\ Len(list) \in Nat
  BY DEF SoundList
<1>2. \A i \in 1 .. Len(list) : /\ Stringified(list[i]) \in ComponentString
                                /\ Same(Parse(Stringified(list[i])), Rounded(list[i]))
  BY <1>1, RoundedSurvives DEF SoundList
<1> DEFINE strs == StringifyAll(list)
<1>3. strs = [i \in 1 .. Len(list) |-> Stringified(list[i])]
  BY <1>1 DEF StringifyAll
<1>4. \A i \in 1 .. Len(list) : strs[i] = Stringified(list[i])
  BY <1>3
<1>5. strs \in Seq(ComponentString) /\ Len(strs) = Len(list)
  BY <1>1, <1>2, <1>3
<1> HIDE DEF strs
<1> DEFINE l == ParseAll(strs)
<1>6. l = [i \in 1 .. Len(list) |-> Parse(strs[i])]
  BY <1>5 DEF ParseAll
<1>7. /\ Len(l) = Len(list) /\ DOMAIN l = 1 .. Len(list)
      /\ \A i \in 1 .. Len(list) : l[i] = Parse(strs[i])
  BY <1>1, <1>5, <1>6, ParsedListIsSound
<1> HIDE DEF l
<1> DEFINE r == RoundAll(list)
<1>r. Len(r) = Len(list) /\ \A i \in 1 .. Len(list) : r[i] = Rounded(list[i])
  BY RoundedList
<1> HIDE DEF r
<1>8. SameList(l, r)
  BY <1>2, <1>4, <1>7, <1>r DEF SameList
<1> QED
  BY <1>5, <1>8 DEF strs, l, r

\* A range of the same places is refused no more than the first.
LEMMA SameRangeAccepted ==
    ASSUME NEW s, NEW e, NEW s2, NEW e2, SoundList(s), SoundList(e), SoundList(s2), SoundList(e2),
           SameList(s2, s), SameList(e2, e), ~RangeRefused(s, e)
    PROVE  ~RangeRefused(s2, e2)
<1>1. /\ Len(s) \in Nat /\ Len(e) \in Nat /\ Len(s2) = Len(s) /\ Len(e2) = Len(e)
      /\ DOMAIN s = 1 .. Len(s) /\ DOMAIN s2 = 1 .. Len(s)
      /\ DOMAIN e = 1 .. Len(e) /\ DOMAIN e2 = 1 .. Len(e)
  BY DEF SoundList, SameList
<1>2. s # <<>> /\ e # <<>> /\ OffsetsOf(Last(s)) = OffsetsOf(Last(e))
  BY DEF RangeRefused
<1>3. Len(s) > 0 /\ Len(e) > 0 /\ s2 # <<>> /\ e2 # <<>>
  BY <1>1, <1>2 DEF SoundList
<1>4. /\ \A i \in 1 .. Len(s) : s2[i].node = s[i].node
      /\ \A i \in 1 .. Len(e) : e2[i].node = e[i].node
  BY <1>1 DEF SameList, Same
<1>5. Same(Last(s2), Last(s)) /\ Same(Last(e2), Last(e))
  BY <1>1, <1>3 DEF SameList, Last
<1>6. OffsetsOf(Last(s2)) = OffsetsOf(Last(e2))
  BY <1>2, <1>5 DEF OffsetsOf, Same
<1>7. ~\E i \in DOMAIN s2 \cap DOMAIN e2 : s2[i].node > e2[i].node
  BY <1>1, <1>4 DEF RangeRefused
<1>8. ~OffsetsOutOfOrder(s2, e2)
  <2> SUFFICES ASSUME OffsetsOutOfOrder(s2, e2) PROVE FALSE
    OBVIOUS
  <2>1. Len(s) = Len(e) /\ \A i \in DOMAIN s : s[i].node = e[i].node
    BY <1>1, <1>4 DEF OffsetsOutOfOrder
  <2> DEFINE a == Last(s)
             b == Last(e)
             a2 == Last(s2)
             b2 == Last(e2)
  <2>2. \/ Has(a2, "character") /\ a2.characterOffset > b2.characterOffset
        \/ Has(a2, "temporal") /\ a2.temporalOffset > b2.temporalOffset
        \/ Has(a2, "spatial") /\ \E k \in 1 .. 2 : a2.spatialOffset[k] > b2.spatialOffset[k]
    BY DEF OffsetsOutOfOrder
  <2>3. ~\/ Has(a, "character") /\ a.characterOffset > b.characterOffset
         \/ Has(a, "temporal") /\ a.temporalOffset > b.temporalOffset
         \/ Has(a, "spatial") /\ \E k \in 1 .. 2 : a.spatialOffset[k] > b.spatialOffset[k]
    BY <2>1 DEF RangeRefused, OffsetsOutOfOrder
  <2> HIDE DEF a, b, a2, b2
  <2>4. Same(a2, a) /\ Same(b2, b) /\ OffsetsOf(a) = OffsetsOf(b)
    BY <1>2, <1>5 DEF a, b, a2, b2
  <2>5. \A f \in {"character", "temporal", "spatial"} : Has(a2, f) => Has(a, f) /\ Has(b, f) /\ Has(b2, f)
    BY <2>4 DEF Same, OffsetsOf, Has
  <2> QED
    BY <2>2, <2>3, <2>4, <2>5 DEF Same
<1> QED
  BY <1>3, <1>6, <1>7, <1>8 DEF RangeRefused

\* Rounding puts no range out of order.
LEMMA RoundedRange ==
    ASSUME NEW s, NEW e, SoundList(s), SoundList(e), ~RangeRefused(s, e)
    PROVE  ~RangeRefused(RoundAll(s), RoundAll(e))
<1> DEFINE s2 == RoundAll(s)
           e2 == RoundAll(e)
<1>1. /\ s \in Seq(Component) /\ e \in Seq(Component) /\ Len(s) \in Nat /\ Len(e) \in Nat
      /\ DOMAIN s = 1 .. Len(s) /\ DOMAIN e = 1 .. Len(e)
  BY DEF SoundList
<1>2. /\ SoundList(s2) /\ SoundList(e2) /\ Len(s2) = Len(s) /\ Len(e2) = Len(e)
      /\ \A i \in 1 .. Len(s) : s2[i] = Rounded(s[i])
      /\ \A i \in 1 .. Len(e) : e2[i] = Rounded(e[i])
  BY RoundedList
<1> HIDE DEF s2, e2
<1>3. DOMAIN s2 = 1 .. Len(s) /\ DOMAIN e2 = 1 .. Len(e)
  BY <1>2 DEF SoundList
<1>4. s # <<>> /\ e # <<>> /\ OffsetsOf(Last(s)) = OffsetsOf(Last(e))
  BY DEF RangeRefused
<1>5. Len(s) > 0 /\ Len(e) > 0 /\ s2 # <<>> /\ e2 # <<>>
  BY <1>1, <1>2, <1>4
<1>6. /\ \A i \in 1 .. Len(s) : s2[i].node = s[i].node
      /\ \A i \in 1 .. Len(e) : e2[i].node = e[i].node
  BY <1>1, <1>2, RoundedOffsets
<1> DEFINE a == Last(s)
           b == Last(e)
<1>7. a \in Component /\ b \in Component /\ Last(s2) = Rounded(a) /\ Last(e2) = Rounded(b)
  BY <1>1, <1>2, <1>5 DEF Last
<1>8. OffsetsOf(Rounded(a)) = OffsetsOf(Rounded(b))
  BY <1>4, <1>7, RoundedOffsets DEF OffsetsOf
<1>9. ~\E i \in DOMAIN s2 \cap DOMAIN e2 : s2[i].node > e2[i].node
  BY <1>1, <1>3, <1>6 DEF RangeRefused
<1>10. ~OffsetsOutOfOrder(s2, e2)
  <2> SUFFICES ASSUME OffsetsOutOfOrder(s2, e2) PROVE FALSE
    OBVIOUS
  <2>1. Len(s) = Len(e) /\ \A i \in DOMAIN s : s[i].node = e[i].node
    BY <1>1, <1>2, <1>3, <1>6 DEF OffsetsOutOfOrder
  <2>2. ~\/ Has(a, "character") /\ a.characterOffset > b.characterOffset
         \/ Has(a, "temporal") /\ a.temporalOffset > b.temporalOffset
         \/ Has(a, "spatial") /\ \E k \in 1 .. 2 : a.spatialOffset[k] > b.spatialOffset[k]
    BY <2>1 DEF RangeRefused, OffsetsOutOfOrder
  <2> DEFINE a2 == Rounded(a)
             b2 == Rounded(b)
  <2>3. \/ Has(a2, "character") /\ a2.characterOffset > b2.characterOffset
        \/ Has(a2, "temporal") /\ a2.temporalOffset > b2.temporalOffset
        \/ Has(a2, "spatial") /\ \E k \in 1 .. 2 : a2.spatialOffset[k] > b2.spatialOffset[k]
    BY <1>7 DEF OffsetsOutOfOrder
  <2> HIDE DEF a, b
  <2>4. /\ a2.flags = a.flags /\ a2.characterOffset = a.characterOffset /\ b2.characterOffset = b.characterOffset
        /\ a2.temporalOffset = SixDigits(a.temporalOffset) /\ b2.temporalOffset = SixDigits(b.temporalOffset)
        /\ a2.spatialOffset[1] = SixDigits(a.spatialOffset[1]) /\ a2.spatialOffset[2] = SixDigits(a.spatialOffset[2])
        /\ b2.spatialOffset[1] = SixDigits(b.spatialOffset[1]) /\ b2.spatialOffset[2] = SixDigits(b.spatialOffset[2])
    BY <1>7, RoundedOffsets
  <2>5. /\ a.temporalOffset \in Nat /\ b.temporalOffset \in Nat
        /\ a.spatialOffset[1] \in Nat /\ a.spatialOffset[2] \in Nat
        /\ b.spatialOffset[1] \in Nat /\ b.spatialOffset[2] \in Nat
    BY <1>7 DEF Component
  <2> HIDE DEF a2, b2
  <2>6. CASE Has(a2, "character") /\ a2.characterOffset > b2.characterOffset
    BY <2>2, <2>4, <2>6 DEF Has
  <2>7. CASE Has(a2, "temporal") /\ a2.temporalOffset > b2.temporalOffset
    <3>1. a.temporalOffset <= b.temporalOffset
      BY <2>2, <2>4, <2>5, <2>7 DEF Has
    <3>2. a2.temporalOffset <= b2.temporalOffset /\ a2.temporalOffset \in Nat /\ b2.temporalOffset \in Nat
      BY <2>4, <2>5, <3>1, Nearest, NearestInOrder
    <3> QED
      BY <2>7, <3>2
  <2>8. CASE Has(a2, "spatial") /\ \E k \in 1 .. 2 : a2.spatialOffset[k] > b2.spatialOffset[k]
    <3>1. a.spatialOffset[1] <= b.spatialOffset[1] /\ a.spatialOffset[2] <= b.spatialOffset[2]
      BY <2>2, <2>4, <2>5, <2>8 DEF Has
    <3>2. /\ a2.spatialOffset[1] <= b2.spatialOffset[1]
          /\ a2.spatialOffset[1] \in Nat /\ b2.spatialOffset[1] \in Nat
      BY <2>4, <2>5, <3>1, Nearest, NearestInOrder
    <3>3. /\ a2.spatialOffset[2] <= b2.spatialOffset[2]
          /\ a2.spatialOffset[2] \in Nat /\ b2.spatialOffset[2] \in Nat
      BY <2>4, <2>5, <3>1, Nearest, NearestInOrder
    <3>4. a2.spatialOffset[1] > b2.spatialOffset[1] \/ a2.spatialOffset[2] > b2.spatialOffset[2]
      BY <2>8
    <3> QED
      BY <3>2, <3>3, <3>4
  <2> QED
    BY <2>3, <2>6, <2>7, <2>8
<1>11. ~RangeRefused(s2, e2)
  BY <1>5, <1>7, <1>8, <1>9, <1>10 DEF RangeRefused
<1> QED
  BY <1>11 DEF s2, e2

\* What CompileCFI() makes of a string
LEMMA CompiledIsSound ==
    ASSUME NEW str \in Seq(Seq(ComponentString)), NEW o \in Compile(str)
    PROVE  SoundCFI(o) /\ (o.ranged => ~RangeRefused(o.start, o.end))
<1>0. Len(str) \in Nat /\ \A i \in 1 .. Len(str) : SoundList(ParseAll(str[i]))
  BY ParsedListIsSound, ElementOfSeq
<1>1. SoundList(<<>>)
  BY DEF SoundList
<1> DEFINE base == ParseAll(str[1])
           s == ParseAll(str[2])
           e == ParseAll(str[3])
<1>2. CASE Len(str) = 0
  BY <1>2 DEF Compile
<1>3. CASE Len(str) \in 1 .. 2
  <2>1. o = [components |-> base, start |-> <<>>, end |-> <<>>, ranged |-> FALSE]
    BY <1>0, <1>3 DEF Compile, Empty
  <2>2. SoundList(base)
    BY <1>0, <1>3
  <2> HIDE DEF base
  <2>3. base \in Seq(Component) /\ <<>> \in Seq(Component)
    BY <2>2 DEF SoundList
  <2> QED
    BY <1>1, <2>1, <2>2, <2>3 DEF SoundCFI
<1>4. CASE Len(str) >= 3
  <2>1. /\ o = [components |-> base, start |-> s, end |-> e, ranged |-> TRUE]
        /\ ~RangeRefused(s, e)
    BY <1>0, <1>4 DEF Compile
  <2>2. SoundList(base) /\ SoundList(s) /\ SoundList(e)
    BY <1>0, <1>4
  <2> HIDE DEF base, s, e
  <2>3. base \in Seq(Component) /\ s \in Seq(Component) /\ e \in Seq(Component)
    BY <2>2 DEF SoundList
  <2> QED
    BY <2>1, <2>2, <2>3 DEF SoundCFI
<1>5. Len(str) = 0 \/ Len(str) \in 1 .. 2 \/ Len(str) >= 3
  <2>1. Len(str) \in Nat
    BY <1>0
  <2>2. \A n \in Nat : n = 0 \/ n \in 1 .. 2 \/ n >= 3
    OBVIOUS
  <2> QED
    BY <2>1, <2>2, Zenon
<1> QED
  BY ONLY <1>2, <1>3, <1>4, <1>5

\* Lists are cut and joined.
LEMMA ListsJoined ==
    ASSUME NEW l, NEW m, SoundList(l), SoundList(m)
    PROVE  SoundList(l \o m)
<1>1. l \in Seq(Component) /\ m \in Seq(Component)
  BY DEF SoundList
<1>2. \A i \in 1 .. Len(l) : Sound(l[i])
  BY <1>1 DEF SoundList
<1>3. \A i \in 1 .. Len(m) : Sound(m[i])
  BY <1>1 DEF SoundList
<1>4. l \o m \in Seq(Component) /\ DOMAIN (l \o m) = 1 .. Len(l) + Len(m)
  BY <1>1
<1>5. \A i \in 1 .. Len(l) + Len(m) : (l \o m)[i] = IF i <= Len(l) THEN l[i] ELSE m[i - Len(l)]
  BY <1>1
<1>6. Len(l) \in Nat /\ Len(m) \in Nat
  BY <1>1
<1>7. \A i \in 1 .. Len(l) + Len(m) : Sound((l \o m)[i])
  BY <1>2, <1>3, <1>5, <1>6
<1> QED
  BY <1>4, <1>7 DEF SoundList

LEMMA ListCut ==
    ASSUME NEW l, SoundList(l), NEW k \in Nat, k < Len(l)
    PROVE  SoundList(SubSeq(l, k + 1, Len(l)))
<1>1. l \in Seq(Component) /\ Len(l) \in Nat
  BY DEF SoundList
<1>2. \A i \in 1 .. Len(l) : Sound(l[i])
  BY <1>1 DEF SoundList
<1> DEFINE t == SubSeq(l, k + 1, Len(l))
<1>3. t \in Seq(Component) /\ DOMAIN t = 1 .. Len(l) - k /\ \A i \in 1 .. Len(l) - k : t[i] = l[k + i]
  BY <1>1
<1> HIDE DEF t
<1>4. \A i \in 1 .. Len(l) - k : k + i \in 1 .. Len(l)
  BY <1>1
<1>5. SoundList(t)
  BY <1>2, <1>3, <1>4 DEF SoundList
<1> QED
  BY <1>5 DEF t

LEMMA SoundPart ==
    ASSUME NEW c, SoundCFI(c)
    PROVE  /\ SoundList(c.components) /\ SoundList(c.start) /\ SoundList(c.end)
           /\ c.ranged \in BOOLEAN
           /\ c = [components |-> c.components, start |-> c.start, end |-> c.end, ranged |-> c.ranged]
  BY DEF SoundCFI

LEMMA SoundWhole ==
    ASSUME NEW l, NEW s, NEW e, SoundList(l), SoundList(s), SoundList(e), NEW r \in BOOLEAN
    PROVE  SoundCFI([components |-> l, start |-> s, end |-> e, ranged |-> r])
  BY DEF SoundCFI, SoundList

LEMMA NewComponents ==
    ASSUME NEW c, NEW l,
           c = [components |-> c.components, start |-> c.start, end |-> c.end, ranged |-> c.ranged]
    PROVE  [c EXCEPT !.components = l]
               = [components |-> l, start |-> c.start, end |-> c.end, ranged |-> c.ranged]
<1> DEFINE d == [components |-> c.components, start |-> c.start, end |-> c.end, ranged |-> c.ranged]
<1>1. DOMAIN c = {"components", "start", "end", "ranged"}
  <2>1. DOMAIN d = {"components", "start", "end", "ranged"}
    OBVIOUS
  <2>2. c = d
    OBVIOUS
  <2> QED
    BY ONLY <2>1, <2>2
<1> QED
  BY <1>1

LEMMA EmptyIsSound == SoundCFI(Empty) /\ ~Empty.ranged
<1>1. SoundList(<<>>)
  BY DEF SoundList
<1> QED
  BY <1>1, SoundWhole DEF Empty

LEMMA CFIInitInv == CFIInit => CFIInv
  BY EmptyIsSound DEF CFIInit, CFIInv

\* Every operation on a CFI
LEMMA CFINextInv == CFIInv /\ [CFINext]_fragment => CFIInv'
<1> SUFFICES ASSUME CFIInv, [CFINext]_fragment PROVE CFIInv'
  OBVIOUS
<1>0. /\ SoundCFI(cfi) /\ compiled \in BOOLEAN
      /\ cfi.ranged /\ compiled => ~RangeRefused(cfi.start, cfi.end)
  BY DEF CFIInv
<1>1. ASSUME NEW str \in Strings, AssignString(str) PROVE CFIInv'
  <2>1. str \in Seq(Seq(ComponentString)) /\ cfi' \in Compile(str) /\ compiled' = TRUE
    BY <1>1, StringsAssumption DEF AssignString
  <2> QED
    BY <2>1, CompiledIsSound DEF CFIInv
<1>2. ASSUME NEW str \in Parts, Append_(str) PROVE CFIInv'
  <2>1. str \in Seq(Seq(ComponentString)) /\ ~cfi.ranged /\ compiled' = TRUE
    BY <1>2, StringsAssumption DEF Append_
  <2>2. PICK o \in Compile(str) : cfi' = Appended(cfi, o)
    BY <1>2 DEF Append_
  <2>3. SoundCFI(o) /\ (o.ranged => ~RangeRefused(o.start, o.end))
    BY <2>1, CompiledIsSound
  <2> DEFINE l == cfi.components \o o.components
  <2>4. SoundList(l)
    BY <1>0, <2>3, SoundPart, ListsJoined
  <2> HIDE DEF l
  <2>5. [cfi EXCEPT !.components = @ \o o.components]
            = [components |-> l, start |-> cfi.start, end |-> cfi.end, ranged |-> cfi.ranged]
    <3>1. cfi = [components |-> cfi.components, start |-> cfi.start, end |-> cfi.end, ranged |-> cfi.ranged]
      BY <1>0, SoundPart
    <3>2. [cfi EXCEPT !.components = l]
              = [components |-> l, start |-> cfi.start, end |-> cfi.end, ranged |-> cfi.ranged]
      BY ONLY <3>1, NewComponents
    <3> QED
      BY <3>2 DEF l
  <2>6. CASE o.ranged
    <3>1. cfi' = [components |-> l, start |-> o.start, end |-> o.end, ranged |-> TRUE]
      BY <2>2, <2>5, <2>6 DEF Appended, WithRangeOf
    <3>2. SoundCFI(cfi')
      BY <2>3, <2>4, <3>1, SoundPart, SoundWhole
    <3> QED
      BY <2>1, <2>3, <2>6, <3>1, <3>2 DEF CFIInv
  <2>7. CASE ~o.ranged
    <3>1. cfi' = [components |-> l, start |-> cfi.start, end |-> cfi.end, ranged |-> cfi.ranged]
      BY <2>2, <2>5, <2>7 DEF Appended, WithRangeOf
    <3>2. SoundCFI(cfi') /\ ~cfi'.ranged
      BY <1>0, <2>1, <2>4, <3>1, SoundPart, SoundWhole
    <3> QED
      BY <2>1, <3>2 DEF CFIInv
  <2> QED
    BY <2>6, <2>7
<1>3. ASSUME NEW k \in 0 .. MaxComponents, AssignFrom(k) PROVE CFIInv'
  <2> DEFINE l == SubSeq(cfi.components, k + 1, Len(cfi.components))
  <2>1. SoundList(l)
    BY <1>0, <1>3, SoundPart, ListCut DEF AssignFrom
  <2>2. cfi' = WithRangeOf([Empty EXCEPT !.components = l], cfi) /\ compiled' = compiled
    BY <1>3 DEF AssignFrom
  <2> HIDE DEF l
  <2>3. [Empty EXCEPT !.components = l]
            = [components |-> l, start |-> <<>>, end |-> <<>>, ranged |-> FALSE]
    <3>1. /\ Empty = [components |-> Empty.components, start |-> Empty.start, end |-> Empty.end,
                      ranged |-> Empty.ranged]
          /\ Empty.start = <<>> /\ Empty.end = <<>> /\ Empty.ranged = FALSE
      BY DEF Empty
    <3> QED
      BY <3>1, NewComponents
  <2>4. CASE cfi.ranged
    <3>1. cfi' = [components |-> l, start |-> cfi.start, end |-> cfi.end, ranged |-> TRUE]
      BY <2>2, <2>3, <2>4 DEF WithRangeOf
    <3>2. SoundCFI(cfi')
      BY <1>0, <2>1, <3>1, SoundPart, SoundWhole
    <3> QED
      BY <1>0, <2>2, <2>4, <3>1, <3>2 DEF CFIInv
  <2>5. CASE ~cfi.ranged
    <3>1. cfi' = [components |-> l, start |-> <<>>, end |-> <<>>, ranged |-> FALSE]
      BY <2>2, <2>3, <2>5 DEF WithRangeOf
    <3>2. SoundList(<<>>)
      BY DEF SoundList
    <3>3. SoundCFI(cfi') /\ ~cfi'.ranged
      BY <2>1, <3>1, <3>2, SoundWhole
    <3> QED
      BY <1>0, <2>2, <3>3 DEF CFIInv
  <2> QED
    BY <2>4, <2>5
<1>4. ASSUME NEW str1 \in Parts, NEW str2 \in Parts, MakeRange(str1, str2) PROVE CFIInv'
  <2>1. PICK s \in Compile(str1), e \in Compile(str2) :
            cfi' = [components |-> cfi.components, start |-> s.components,
                    end |-> e.components, ranged |-> TRUE]
    BY <1>4 DEF MakeRange
  <2>2. SoundCFI(s) /\ SoundCFI(e)
    BY StringsAssumption, CompiledIsSound
  <2>3. SoundCFI(cfi')
    BY <1>0, <2>1, <2>2, SoundPart, SoundWhole
  <2>4. compiled' = FALSE
    BY <1>4 DEF MakeRange
  <2> QED
    BY <2>3, <2>4 DEF CFIInv
<1>5. ASSUME Clear PROVE CFIInv'
  <2>1. cfi' = [components |-> <<>>, start |-> cfi.start, end |-> cfi.end, ranged |-> cfi.ranged]
    BY <1>0, <1>5, SoundPart DEF Clear
  <2>2. SoundList(<<>>)
    BY DEF SoundList
  <2>3. SoundCFI(cfi')
    BY <1>0, <2>1, <2>2, SoundPart, SoundWhole
  <2>4. compiled' = compiled
    BY <1>5 DEF Clear
  <2> QED
    BY <1>0, <2>1, <2>3, <2>4 DEF CFIInv
<1>6. ASSUME UNCHANGED fragment PROVE CFIInv'
  BY <1>0, <1>6 DEF CFIInv, fragment
<1> QED
  BY <1>1, <1>2, <1>3, <1>4, <1>5, <1>6 DEF CFINext

THEOREM CFIInvariance == CFISpec => []CFIInv
  BY CFIInitInv, CFINextInv, PTL DEF CFISpec

\* The components of an accepted range are in order.
LEMMA AcceptedIsOrdered == CFIInv => RangesAreOrdered
<1> SUFFICES ASSUME CFIInv, cfi.ranged, compiled, ~LengthsDiffer(cfi)
             PROVE  LET s == cfi.start
                        e == cfi.end
                        SameUpTo(n) == \A i \in 1 .. n : s[i].node = e[i].node
                    IN /\ \A i \in DOMAIN s : SameUpTo(i - 1) => s[i].node <= e[i].node
                       /\ SameUpTo(Len(s)) => NotAfter(Last(s), Last(e))
  BY DEF RangesAreOrdered
<1> DEFINE s == cfi.start
           e == cfi.end
<1>1. SoundList(s) /\ SoundList(e) /\ ~RangeRefused(s, e) /\ Len(s) = Len(e)
  BY SoundPart DEF CFIInv, LengthsDiffer
<1> HIDE DEF s, e
<1>2. /\ Len(s) \in Nat /\ Len(e) \in Nat /\ DOMAIN s = 1 .. Len(s) /\ DOMAIN e = 1 .. Len(s)
      /\ \A i \in 1 .. Len(s) : s[i] \in Component /\ e[i] \in Component
  BY <1>1 DEF SoundList
<1>3. \A i \in 1 .. Len(s) : s[i].node \in Nat /\ e[i].node \in Nat
  BY <1>2 DEF Component
<1>4. \A i \in DOMAIN s : s[i].node <= e[i].node
  BY <1>1, <1>2, <1>3 DEF RangeRefused
<1>5. ASSUME \A i \in 1 .. Len(s) : s[i].node = e[i].node PROVE NotAfter(Last(s), Last(e))
  <2> DEFINE a == Last(s)
             b == Last(e)
  <2>1. s # <<>> /\ OffsetsOf(a) = OffsetsOf(b)
    BY <1>1 DEF RangeRefused
  <2>2. Len(s) \in 1 .. Len(s)
    BY <1>1, <1>2, <2>1 DEF SoundList
  <2>3. a \in Component /\ b \in Component
    BY <1>1, <1>2, <2>2 DEF Last
  <2>4. ~\/ Has(a, "character") /\ a.characterOffset > b.characterOffset
         \/ Has(a, "temporal") /\ a.temporalOffset > b.temporalOffset
         \/ Has(a, "spatial") /\ \E k \in 1 .. 2 : a.spatialOffset[k] > b.spatialOffset[k]
    BY <1>1, <1>2, <1>5 DEF RangeRefused, OffsetsOutOfOrder
  <2> HIDE DEF a, b
  <2>5. /\ a.characterOffset \in Nat /\ b.characterOffset \in Nat
        /\ a.temporalOffset \in Nat /\ b.temporalOffset \in Nat
        /\ \A k \in 1 .. 2 : a.spatialOffset[k] \in Nat /\ b.spatialOffset[k] \in Nat
        /\ a.flags \subseteq Flag
    BY <2>3 DEF Component
  <2>6. NotAfter(a, b)
    BY <2>4, <2>5 DEF NotAfter, OffsetsOf, Has
  <2> QED
    BY <2>6 DEF a, b
<1> QED
  BY <1>4, <1>5 DEF s, e

\* The place of the start of a range that CompileCFI() has accepted is not
\* after that of its end, for every string a client passes and every sequence
\* of operations.
THEOREM RangesInOrder == CFISpec => []RangesAreOrdered
  BY CFIInvariance, AcceptedIsOrdered, PTL

\* What a printed CFI is made of: one piece, or three
LEMMA PiecesPrinted ==
    ASSUME NEW c, SoundCFI(c), c.components # <<>>,
           c.ranged => c.start # <<>> /\ c.end # <<>>
    PROVE  String(c) = IF c.ranged
                       THEN <<StringifyAll(c.components), StringifyAll(c.start), StringifyAll(c.end)>>
                       ELSE <<StringifyAll(c.components)>>
<1> DEFINE k == StringifyAll(c.components)
           s == StringifyAll(c.start)
           e == StringifyAll(c.end)
<1>1. String(c) = <<k>> \o (IF c.ranged THEN <<s>> \o <<e>> ELSE <<>>)
  BY DEF String, Piece, If
<1> HIDE DEF k, s, e
<1>2. <<s>> \o <<e>> = <<s, e>> /\ <<k>> \o <<s, e>> = <<k, s, e>> /\ <<k>> \o <<>> = <<k>>
  <2> DEFINE T == {k, s, e}
  <2>1. /\ <<>> \in Seq(T) /\ <<k>> \in Seq(T) /\ <<s>> \in Seq(T) /\ <<e>> \in Seq(T)
        /\ <<s, e>> \in Seq(T) /\ <<k, s, e>> \in Seq(T)
    OBVIOUS
  <2> HIDE DEF T
  <2>2. <<s>> \o <<e>> = <<s, e>>
    <3> DEFINE a == <<s>> \o <<e>>
               b == <<s, e>>
    <3>1. a \in Seq(T) /\ b \in Seq(T) /\ Len(a) = 2 /\ Len(b) = 2
      BY <2>1
    <3>2. a[1] = s /\ a[2] = e /\ b[1] = s /\ b[2] = e
      BY <2>1
    <3> HIDE DEF a, b
    <3>3. \A i \in 1 .. Len(a) : a[i] = b[i]
      BY <3>1, <3>2
    <3>4. a = b
      BY <3>1, <3>3, SeqEqual
    <3> QED
      BY <3>4 DEF a, b
  <2>3. <<k>> \o <<s, e>> = <<k, s, e>>
    <3> DEFINE a == <<k>> \o <<s, e>>
               b == <<k, s, e>>
    <3>1. a \in Seq(T) /\ b \in Seq(T) /\ Len(a) = 3 /\ Len(b) = 3
      BY <2>1
    <3>2. a[1] = k /\ a[2] = s /\ a[3] = e /\ b[1] = k /\ b[2] = s /\ b[3] = e
      BY <2>1
    <3> HIDE DEF a, b
    <3>3. \A i \in 1 .. Len(a) : a[i] = b[i]
      BY <3>1, <3>2
    <3>4. a = b
      BY <3>1, <3>3, SeqEqual
    <3> QED
      BY <3>4 DEF a, b
  <2>4. <<k>> \o <<>> = <<k>>
    BY <2>1
  <2> QED
    BY <2>2, <2>3, <2>4
<1> QED
  BY <1>1, <1>2 DEF k, s, e

\* A sound CFI whose components are all printed is parsed as the same CFI, with
\* the digits that are printed.
LEMMA SoundSurvives == CFIInv => PrintThenParse
<1> SUFFICES ASSUME CFIInv, cfi.components # <<>>, cfi.ranged => compiled /\ ~LengthsDiffer(cfi),
                    \A c \in Range(cfi.components) \cup Range(cfi.start) \cup Range(cfi.end) : Expressible(c)
             PROVE  \E o \in Compile(String(cfi)) : Equal(o, Shortened(cfi))
  BY DEF PrintThenParse
<1> DEFINE k == cfi.components
           s == cfi.start
           e == cfi.end
           K == ParseAll(StringifyAll(k))
           S == ParseAll(StringifyAll(s))
           E == ParseAll(StringifyAll(e))
<1>1. SoundList(k) /\ SoundList(s) /\ SoundList(e) /\ cfi.ranged \in BOOLEAN
  BY SoundPart DEF CFIInv
<1>2. /\ \A i \in DOMAIN k : Expressible(k[i])
      /\ \A i \in DOMAIN s : Expressible(s[i])
      /\ \A i \in DOMAIN e : Expressible(e[i])
  BY DEF Range
<1>3. /\ SameList(K, RoundAll(k)) /\ StringifyAll(k) \in Seq(ComponentString)
      /\ SameList(S, RoundAll(s)) /\ StringifyAll(s) \in Seq(ComponentString)
      /\ SameList(E, RoundAll(e)) /\ StringifyAll(e) \in Seq(ComponentString)
  BY <1>1, <1>2, ListSurvives
<1> DEFINE sh == Shortened(cfi)
<1>s. /\ sh.components = RoundAll(k) /\ sh.start = RoundAll(s) /\ sh.end = RoundAll(e) /\ sh.ranged = cfi.ranged
  BY DEF Shortened, CFIInv, SoundCFI
<1> HIDE DEF sh
<1>4. CASE cfi.ranged
  <2> DEFINE o == [components |-> K, start |-> S, end |-> E, ranged |-> TRUE]
             str == <<StringifyAll(k), StringifyAll(s), StringifyAll(e)>>
  <2>1. ~RangeRefused(s, e)
    BY <1>4 DEF CFIInv
  <2>2. s # <<>> /\ e # <<>>
    BY <2>1 DEF RangeRefused
  <2>3. String(cfi) = str
    BY <1>4, <2>2, PiecesPrinted DEF CFIInv
  <2>4. SoundList(S) /\ SoundList(E)
    BY <1>3, ParsedListIsSound
  <2>5. ~RangeRefused(S, E)
    <3>1. ~RangeRefused(RoundAll(s), RoundAll(e)) /\ SoundList(RoundAll(s)) /\ SoundList(RoundAll(e))
      BY <1>1, <2>1, RoundedRange, RoundedList
    <3> QED
      BY <1>3, <2>4, <3>1, SameRangeAccepted
  <2>6. Len(str) = 3 /\ ParseAll(str[1]) = K /\ ParseAll(str[2]) = S /\ ParseAll(str[3]) = E
    OBVIOUS
  <2> HIDE DEF K, S, E, str
  <2>7. o \in Compile(str)
    BY <2>5, <2>6 DEF Compile
  <2>8. Equal(o, sh)
    BY <1>3, <1>4, <1>s DEF Equal
  <2> QED
    BY <2>3, <2>7, <2>8 DEF sh
<1>5. CASE ~cfi.ranged
  <2> DEFINE o == [components |-> K, start |-> <<>>, end |-> <<>>, ranged |-> FALSE]
             str == <<StringifyAll(k)>>
  <2>1. String(cfi) = str
    BY <1>5, PiecesPrinted DEF CFIInv
  <2>2. Len(str) = 1 /\ ParseAll(str[1]) = K
    OBVIOUS
  <2> HIDE DEF K, str
  <2>3. o \in Compile(str)
    <3>1. Compile(str) = {[Empty EXCEPT !.components = K]}
      BY <2>2 DEF Compile
    <3>2. /\ Empty = [components |-> Empty.components, start |-> Empty.start, end |-> Empty.end,
                      ranged |-> Empty.ranged]
          /\ Empty.start = <<>> /\ Empty.end = <<>> /\ Empty.ranged = FALSE
      BY DEF Empty
    <3>3. o = [Empty EXCEPT !.components = K]
      BY <3>2, NewComponents
    <3> QED
      BY <3>1, <3>3
  <2>4. Equal(o, sh)
    BY <1>1, <1>3, <1>5, <1>s DEF Equal
  <2> QED
    BY <2>1, <2>3, <2>4 DEF sh
<1> QED
  BY <1>1, <1>4, <1>5

\* A CFI that is printed and parsed again is the same CFI but for the digits
\* that are not printed, for every string a client passes, every sequence of
\* operations and every set of printable numbers.
THEOREM CFISurvives == CFISpec => []PrintThenParse
  BY CFIInvariance, SoundSurvives, PTL

-----------------------------------------------------------------------------
(***************************************************************************)
(* Sums, and the first document or container a time falls into             *)
(***************************************************************************)
\* The sums of a sequence of durations
LEMMA Sums ==
    ASSUME NEW s \in Seq(Nat)
    PROVE  /\ SumsOf(s) \in [0 .. Len(s) -> Nat] /\ SumsOf(s)[0] = 0
           /\ \A i \in 1 .. Len(s) : SumsOf(s)[i] = SumsOf(s)[i - 1] + s[i]
<1> DEFINE n == Len(s)
           Body(t) == [i \in 0 .. n |-> IF i = 0 THEN 0 ELSE t[i - 1] + s[i]]
           g == [i \in 1 .. n |-> [x \in Nat |-> x + s[i]]]
           t == CHOOSE t : t = Body(t)
<1>1. n \in Nat /\ \A i \in 1 .. n : s[i] \in Nat
  OBVIOUS
<1>2. SumsOf(s) = t
  BY DEF SumsOf
<1>3. \E r : r = Body(r)
  <2>1. g \in Steps(Nat, n)
    BY <1>1 DEF Steps
  <2>2. \A i \in 1 .. n : \A x \in Nat : g[i][x] = x + s[i]
    OBVIOUS
  <2> HIDE DEF g, n
  <2>3. PICK r \in [0 .. n -> Nat] : r[0] = 0 /\ \A i \in 1 .. n : r[i] = g[i][r[i - 1]]
    <3>1. 0 \in Nat
      OBVIOUS
    <3>2. \E r : r \in Results(Nat, 0, n, g)
      BY ONLY <1>1, <2>1, <3>1, LoopHasResults
    <3> QED
      BY <3>2 DEF Results
  <2>4. ASSUME NEW i \in 1 .. n PROVE r[i] = r[i - 1] + s[i]
    <3>1. i - 1 \in 0 .. n
      BY <1>1
    <3>2. r[i - 1] \in Nat
      BY <2>3, <3>1
    <3> QED
      BY <2>2, <2>3, <3>2
  <2>5. r = Body(r)
    BY <1>1, <2>3, <2>4
  <2> QED
    BY <2>5
<1>4. t = Body(t)
  BY <1>3
<1> HIDE DEF t
<1>5. DOMAIN t = 0 .. n /\ t[0] = 0 /\ (\A i \in 1 .. n : t[i] = t[i - 1] + s[i]) /\ t = [i \in DOMAIN t |-> t[i]]
  <2>1. /\ DOMAIN Body(t) = 0 .. n /\ Body(t)[0] = 0
        /\ \A i \in 1 .. n : Body(t)[i] = t[i - 1] + s[i]
        /\ Body(t) = [i \in DOMAIN Body(t) |-> Body(t)[i]]
    BY <1>1
  <2> HIDE DEF Body
  <2> QED
    BY <1>4, <2>1
<1>6. \A i \in 0 .. n : t[i] \in Nat
  <2> DEFINE G == {i \in 0 .. n : t[i] \in Nat}
  <2>1. 0 \in G
    BY <1>1, <1>5
  <2>2. ASSUME NEW i \in 1 .. n, i - 1 \in G PROVE i \in G
    <3>1. t[i - 1] \in Nat /\ s[i] \in Nat /\ t[i] = t[i - 1] + s[i]
      BY <1>1, <1>5, <2>2
    <3> QED
      BY <3>1
  <2> HIDE DEF G
  <2>3. \A i \in 0 .. n : i \in G
    BY ONLY <1>1, <2>1, <2>2, Passes
  <2> QED
    BY <2>3 DEF G
<1> QED
  BY <1>2, <1>5, <1>6

\* They only grow, ...
LEMMA SumsGrow ==
    ASSUME NEW s \in Seq(Nat), NEW j \in 0 .. Len(s)
    PROVE  SumsOf(s)[j] <= SumOf(s) /\ \A i \in 0 .. j : SumsOf(s)[i] <= SumsOf(s)[j]
<1> DEFINE S == SumsOf(s)
           n == Len(s)
           G == {k \in 0 .. n : \A i \in 0 .. k : S[i] <= S[k]}
<1>1. n \in Nat /\ \A i \in 1 .. n : s[i] \in Nat
  OBVIOUS
<1>2. S \in [0 .. n -> Nat] /\ \A i \in 1 .. n : S[i] = S[i - 1] + s[i]
  BY Sums
<1>3. j \in 0 .. n /\ SumOf(s) = S[n]
  BY DEF SumOf
<1> HIDE DEF S, n
<1>4. 0 \in G
  BY <1>1, <1>2
<1>5. ASSUME NEW k \in 1 .. n, k - 1 \in G PROVE k \in G
  <2>1. /\ k \in 0 .. n /\ k - 1 \in 0 .. n /\ S[k] \in Nat /\ S[k - 1] \in Nat /\ s[k] \in Nat
        /\ S[k] = S[k - 1] + s[k]
    BY <1>1, <1>2
  <2>2. S[k - 1] <= S[k]
    BY <2>1
  <2>3. ASSUME NEW i \in 0 .. k PROVE S[i] <= S[k]
    <3>1. CASE i = k
      BY <2>1, <3>1
    <3>2. CASE i # k
      <4>1. i \in 0 .. k - 1 /\ i \in 0 .. n
        BY <1>1, <3>2
      <4>2. S[i] \in Nat
        BY <1>2, <4>1
      <4>3. S[i] <= S[k - 1]
        BY <1>5, <4>1
      <4> QED
        BY <2>1, <2>2, <4>2, <4>3
    <3> QED
      BY <3>1, <3>2
  <2> QED
    BY <2>1, <2>3
<1> HIDE DEF G
<1>6. \A i \in 0 .. n : i \in G
  BY ONLY <1>1, <1>4, <1>5, Passes
<1>7. n \in G /\ j \in G
  BY <1>1, <1>3, <1>6
<1> QED
  BY <1>3, <1>7 DEF G, S

\* ... and are the smaller for smaller numbers.
LEMMA SmallerSums ==
    ASSUME NEW s \in Seq(Nat), NEW t \in Seq(Nat), Len(s) = Len(t),
           \A i \in 1 .. Len(s) : s[i] <= t[i]
    PROVE  SumOf(s) <= SumOf(t)
<1> DEFINE S == SumsOf(s)
           T == SumsOf(t)
           n == Len(s)
           G == {k \in 0 .. n : S[k] <= T[k]}
<1>1. n \in Nat /\ \A i \in 1 .. n : s[i] \in Nat /\ t[i] \in Nat /\ s[i] <= t[i]
  OBVIOUS
<1>2. S \in [0 .. n -> Nat] /\ S[0] = 0 /\ \A i \in 1 .. n : S[i] = S[i - 1] + s[i]
  BY Sums
<1>3. T \in [0 .. n -> Nat] /\ T[0] = 0 /\ \A i \in 1 .. n : T[i] = T[i - 1] + t[i]
  BY Sums
<1>4. SumOf(s) = S[n] /\ SumOf(t) = T[n]
  BY DEF SumOf
<1> HIDE DEF S, T, n
<1>5. 0 \in G
  BY <1>1, <1>2, <1>3
<1>6. ASSUME NEW k \in 1 .. n, k - 1 \in G PROVE k \in G
  <2>1. /\ k \in 0 .. n /\ k - 1 \in 0 .. n
        /\ S[k - 1] \in Nat /\ s[k] \in Nat /\ S[k] = S[k - 1] + s[k]
        /\ T[k - 1] \in Nat /\ t[k] \in Nat /\ T[k] = T[k - 1] + t[k]
    BY <1>1, <1>2, <1>3
  <2>2. S[k - 1] <= T[k - 1] /\ s[k] <= t[k]
    BY <1>1, <1>6
  <2>3. S[k] <= T[k]
    <3>1. \A a, b, c, d \in Nat : a <= b /\ c <= d => a + c <= b + d
      OBVIOUS
    <3>2. S[k - 1] + s[k] <= T[k - 1] + t[k]
      BY ONLY <2>1, <2>2, <3>1, Zenon
    <3> QED
      BY ONLY <2>1, <3>2, Zenon
  <2> QED
    BY <2>1, <2>3
<1> HIDE DEF G
<1>7. \A i \in 0 .. n : i \in G
  BY ONLY <1>1, <1>5, <1>6, Passes
<1>8. n \in G
  BY <1>1, <1>7
<1> QED
  BY <1>4, <1>8 DEF G

\* The sum of some numbers is one.
LEMMA SumIsNat ==
    ASSUME NEW s \in Seq(Nat)
    PROVE  SumOf(s) \in Nat /\ (s = <<>> => SumOf(s) = 0)
<1>1. Len(s) \in 0 .. Len(s) /\ (s = <<>> => Len(s) = 0)
  OBVIOUS
<1> QED
  BY <1>1, Sums DEF SumOf

\* A time that has been reached is subtracted without wrapping around.
LEMMA NoWrap ==
    ASSUME NEW t \in Times, NEW b \in Nat
    PROVE  Minus(t, b) \in Times /\ (b <= t => Minus(t, b) = t - b)
<1>1. Word \in Nat /\ Word > 0
  BY WordAssumption
<1>2. t - b \in Int
  BY DEF Times
<1>3. ASSUME b <= t PROVE t - b \in 0 .. Word - 1
  BY <1>1, <1>3 DEF Times
<1> DEFINE x == t - b
<1>4. x % Word \in 0 .. Word - 1 /\ (x \in 0 .. Word - 1 => x % Word = x)
  <2> HIDE DEF x
  <2>1. \A w \in Nat : w > 0 => x % w \in 0 .. w - 1 /\ (x \in 0 .. w - 1 => x % w = x)
    BY <1>2 DEF x
  <2> QED
    BY <1>1, <2>1
<1> QED
  BY <1>3, <1>4 DEF Minus, Times

\* Of what lies one after the other on a time line, and answers if it lasts
\* and the time is not after its end, the first that answers contains it.
Answered(s, t, A) ==
    /\ DOMAIN A = 1 .. Len(s)
    /\ \A i \in 1 .. Len(s) :
           LET begin == SumsOf(s)[i - 1]
           IN /\ s[i] = 0 => A[i] = NoParallel
              /\ begin <= t /\ t - begin > s[i] => A[i] = NoParallel
              /\ begin <= t /\ s[i] > 0 /\ t - begin <= s[i] => A[i] # NoParallel

LEMMA FirstAnswers ==
    ASSUME NEW s \in Seq(Nat), NEW t \in Nat, NEW A, Answered(s, t, A), SumOf(s) > 0, t <= SumOf(s)
    PROVE  LET i == FirstFound(A)
           IN /\ i \in 1 .. Len(s) /\ A[i] # NoParallel
              /\ s[i] > 0 /\ SumsOf(s)[i - 1] <= t /\ t - SumsOf(s)[i - 1] <= s[i]
              /\ t = 0 \/ SumsOf(s)[i - 1] < t
<1> DEFINE S == SumsOf(s)
           n == Len(s)
           T == {i \in 0 .. n : S[i] > 0 /\ t <= S[i]}
           found == {i \in DOMAIN A : A[i] # NoParallel}
<1>1. n \in Nat /\ \A i \in 1 .. n : s[i] \in Nat
  OBVIOUS
<1>2. S \in [0 .. n -> Nat] /\ S[0] = 0 /\ \A i \in 1 .. n : S[i] = S[i - 1] + s[i]
  BY Sums
<1>3. /\ DOMAIN A = 1 .. n
      /\ \A i \in 1 .. n : /\ s[i] = 0 => A[i] = NoParallel
                           /\ S[i - 1] <= t /\ t - S[i - 1] > s[i] => A[i] = NoParallel
                           /\ S[i - 1] <= t /\ s[i] > 0 /\ t - S[i - 1] <= s[i] => A[i] # NoParallel
  BY DEF Answered
<1>4. S[n] > 0 /\ t <= S[n]
  BY DEF SumOf
<1>5. FirstFound(A) = IF found = {} THEN 0 ELSE Min(found)
  BY DEF FirstFound
<1> HIDE DEF S, n
<1>6. PICK i \in T : \A y \in T : i <= y
  <2>1. T \subseteq Nat /\ n \in T
    BY <1>1, <1>4
  <2> HIDE DEF T
  <2> QED
    BY <2>1, LeastNat
<1>7. i \in 1 .. n /\ S[i] > 0 /\ t <= S[i]
  BY <1>2, <1>6
<1>8. \A j \in 0 .. i - 1 : S[j] = 0 \/ t > S[j]
  <2> SUFFICES ASSUME NEW j \in 0 .. i - 1 PROVE S[j] = 0 \/ t > S[j]
    OBVIOUS
  <2>1. j \in 0 .. n /\ j \in Nat /\ i \in Nat /\ j < i
    BY <1>1, <1>7
  <2>2. S[j] \in Nat
    BY <1>2, <2>1
  <2>3. j \notin T
    BY <1>6, <2>1
  <2> QED
    BY <2>1, <2>2, <2>3
<1>9. s[i] > 0 /\ S[i - 1] <= t /\ t - S[i - 1] <= s[i] /\ (t = 0 \/ S[i - 1] < t)
  <2>1. i - 1 \in 0 .. n /\ S[i - 1] \in Nat /\ S[i] = S[i - 1] + s[i] /\ (S[i - 1] = 0 \/ t > S[i - 1])
    BY <1>1, <1>2, <1>7, <1>8
  <2>2. s[i] \in Nat
    BY <1>1, <1>7
  <2> QED
    BY <1>7, <2>1, <2>2
<1>10. A[i] # NoParallel /\ i \in found
  BY <1>3, <1>7, <1>9
<1>11. \A j \in 1 .. i - 1 : A[j] = NoParallel
  <2> SUFFICES ASSUME NEW j \in 1 .. i - 1 PROVE A[j] = NoParallel
    OBVIOUS
  <2>1. /\ j \in 1 .. n /\ s[j] \in Nat /\ S[j - 1] \in Nat /\ S[j] = S[j - 1] + s[j]
        /\ S[j] = 0 \/ t > S[j]
    BY <1>1, <1>2, <1>7, <1>8
  <2>2. s[j] = 0 \/ (S[j - 1] <= t /\ t - S[j - 1] > s[j])
    BY <2>1
  <2> QED
    BY <1>3, <2>1, <2>2
<1>12. \A y \in found : i <= y
  BY <1>3, <1>7, <1>11
<1>13. FirstFound(A) = i
  <2>1. Min(found) \in found /\ \A y \in found : Min(found) <= y
    BY <1>10, <1>12 DEF Min
  <2>2. \A y \in found : y \in Nat
    BY <1>1, <1>3
  <2> HIDE DEF found
  <2> DEFINE m == Min(found)
  <2> HIDE DEF m
  <2>3. m = i
    <3>1. m \in Nat /\ i \in Nat /\ m <= i /\ i <= m
      BY <1>10, <1>12, <2>1, <2>2 DEF m
    <3> QED
      BY ONLY <3>1
  <2> QED
    BY <1>5, <1>10, <2>3 DEF m
<1> QED
  BY <1>7, <1>9, <1>10, <1>13 DEF n, S

\* No other contains it, unless the time is the end of the one before.
LEMMA OnlyAnswer ==
    ASSUME NEW s \in Seq(Nat), NEW t \in Nat, NEW A, Answered(s, t, A), NEW i \in 1 .. Len(s),
           SumsOf(s)[i - 1] < t, t <= SumsOf(s)[i - 1] + s[i]
    PROVE  FirstFound(A) = i /\ t <= SumOf(s)
<1> DEFINE S == SumsOf(s)
           n == Len(s)
           f == FirstFound(A)
<1>1. n \in Nat /\ i \in 1 .. n /\ i - 1 \in 0 .. n /\ i \in 0 .. n
  OBVIOUS
<1>2. S \in [0 .. n -> Nat] /\ \A k \in 1 .. n : S[k] = S[k - 1] + s[k]
  BY Sums
<1>3. \A k \in 0 .. n : S[k] <= SumOf(s) /\ \A m \in 0 .. k : S[m] <= S[k]
  BY SumsGrow
<1>4. SumOf(s) \in Nat
  BY SumIsNat
<1>5. S[i - 1] \in Nat /\ S[i] \in Nat /\ S[i - 1] < t /\ t <= S[i] /\ S[i] <= SumOf(s)
  BY <1>1, <1>2, <1>3
<1> HIDE DEF S, n
<1>6. t <= SumOf(s) /\ SumOf(s) > 0 /\ t # 0
  BY <1>4, <1>5
<1>7. f \in 1 .. n /\ S[f - 1] < t /\ t - S[f - 1] <= s[f]
  BY <1>6, FirstAnswers DEF S, n
<1> HIDE DEF f
<1>8. f - 1 \in 0 .. n /\ f \in 0 .. n /\ S[f - 1] \in Nat /\ S[f] \in Nat /\ S[f] = S[f - 1] + s[f] /\ s[f] \in Nat
  <2>1. f - 1 \in 0 .. n /\ f \in 0 .. n
    BY <1>1, <1>7
  <2>2. s[f] \in Nat
    BY <1>7 DEF n
  <2> QED
    BY <1>2, <1>7, <2>1, <2>2
<1>9. t <= S[f]
  BY <1>7, <1>8
<1>10. ~(f < i)
  <2> SUFFICES ASSUME f < i PROVE FALSE
    OBVIOUS
  <2>1. f \in 0 .. i - 1
    BY <1>1, <1>8
  <2>2. S[f] <= S[i - 1]
    BY <1>1, <1>3, <2>1
  <2> QED
    BY <1>5, <1>8, <1>9, <2>2
<1>11. ~(i < f)
  <2> SUFFICES ASSUME i < f PROVE FALSE
    OBVIOUS
  <2>1. i \in 0 .. f - 1
    BY <1>1, <1>8
  <2>2. S[i] <= S[f - 1]
    BY <1>3, <1>8, <2>1
  <2> QED
    BY <1>5, <1>7, <1>8, <2>2
<1> QED
  BY <1>1, <1>6, <1>8, <1>10, <1>11 DEF f

LEMMA NoneAnswers ==
    ASSUME NEW s \in Seq(Nat), NEW t \in Nat, NEW A, Answered(s, t, A), SumOf(s) = 0 \/ t > SumOf(s)
    PROVE  FirstFound(A) = 0
<1> DEFINE S == SumsOf(s)
           n == Len(s)
<1>1. n \in Nat /\ \A i \in 1 .. n : s[i] \in Nat
  OBVIOUS
<1>2. S \in [0 .. n -> Nat] /\ S[0] = 0 /\ \A i \in 1 .. n : S[i] = S[i - 1] + s[i]
  BY Sums
<1>3. /\ DOMAIN A = 1 .. n
      /\ \A i \in 1 .. n : /\ s[i] = 0 => A[i] = NoParallel
                           /\ S[i - 1] <= t /\ t - S[i - 1] > s[i] => A[i] = NoParallel
  BY DEF Answered
<1>4. \A i \in 0 .. n : S[i] <= SumOf(s)
  BY SumsGrow
<1>5. SumOf(s) \in Nat
  BY SumIsNat
<1> HIDE DEF S, n
<1>6. \A i \in 1 .. n : A[i] = NoParallel
  <2> SUFFICES ASSUME NEW i \in 1 .. n PROVE A[i] = NoParallel
    OBVIOUS
  <2>1. i - 1 \in 0 .. n /\ i \in 0 .. n
    BY <1>1
  <2>2. s[i] \in Nat /\ S[i - 1] \in Nat /\ S[i] = S[i - 1] + s[i] /\ S[i] \in Nat /\ S[i] <= SumOf(s)
    BY <1>1, <1>2, <1>4, <2>1
  <2>3. s[i] = 0 \/ (S[i - 1] <= t /\ t - S[i - 1] > s[i])
    <3>1. \A a, d, m \in Nat : a + d <= m /\ (m = 0 \/ t > m) => d = 0 \/ (a <= t /\ t - a > d)
      OBVIOUS
    <3>2. S[i - 1] + s[i] <= SumOf(s)
      BY ONLY <2>2, Zenon
    <3> QED
      BY <1>5, <2>2, <3>1, <3>2, Zenon
  <2> QED
    BY <1>3, <2>3
<1> QED
  BY <1>3, <1>6 DEF FirstFound

-----------------------------------------------------------------------------
(***************************************************************************)
(* Induction over the trees of a document                                  *)
(***************************************************************************)
Level(S) == Seq(Par \cup [kind : {"seq"}, kids : S])

LEMMA Levels ==
    /\ Trees[0] = Seq(Par)
    /\ \A d \in 1 .. MaxDepth : Trees[d] = Level(Trees[d - 1])
<1> DEFINE Body(n, f) == [d \in 0 .. n |-> IF d = 0 THEN Seq(Par) ELSE Level(f[d - 1])]
           HasTrees(n) == \E f : f = Body(n, f)
           G == {n \in 0 .. MaxDepth : HasTrees(n)}
<1>1. MaxDepth \in Nat
  BY WordAssumption
<1>2. HasTrees(0)
  <2> DEFINE f == [d \in 0 .. 0 |-> Seq(Par)]
  <2>1. f = Body(0, f)
    OBVIOUS
  <2> HIDE DEF f, Body
  <2> QED
    BY <2>1
<1>3. ASSUME NEW n \in 1 .. MaxDepth, HasTrees(n - 1) PROVE HasTrees(n)
  <2>1. PICK f : f = Body(n - 1, f)
    BY <1>3
  <2>2. DOMAIN f = 0 .. n - 1 /\ f[0] = Seq(Par) /\ \A d \in 1 .. n - 1 : f[d] = Level(f[d - 1])
    <3>1. /\ DOMAIN Body(n - 1, f) = 0 .. n - 1 /\ Body(n - 1, f)[0] = Seq(Par)
          /\ \A d \in 1 .. n - 1 : Body(n - 1, f)[d] = Level(f[d - 1])
      BY <1>1
    <3> HIDE DEF Body
    <3> QED
      BY <2>1, <3>1
  <2> DEFINE h == [d \in 0 .. n |-> IF d = n THEN Level(f[n - 1]) ELSE f[d]]
             b == Body(n, h)
  <2>3. /\ h[n] = Level(f[n - 1]) /\ \A d \in 0 .. n - 1 : h[d] = f[d]
        /\ DOMAIN h = 0 .. n /\ h = [d \in DOMAIN h |-> h[d]]
    BY <1>1
  <2>4. /\ b[0] = Seq(Par) /\ \A d \in 1 .. n : b[d] = Level(h[d - 1])
        /\ DOMAIN b = 0 .. n /\ b = [d \in DOMAIN b |-> b[d]]
    BY <1>1
  <2> HIDE DEF h, b
  <2>5. \A d \in 0 .. n : h[d] = b[d]
    <3> SUFFICES ASSUME NEW d \in 0 .. n PROVE h[d] = b[d]
      OBVIOUS
    <3>1. CASE d = 0
      BY <2>2, <2>3, <2>4, <3>1
    <3>2. CASE d = n
      BY <2>3, <2>4, <3>2
    <3>3. CASE d \in 1 .. n - 1
      BY <2>2, <2>3, <2>4, <3>3
    <3> QED
      BY <3>1, <3>2, <3>3
  <2>6. h = b
    BY <2>3, <2>4, <2>5
  <2> QED
    BY <2>6 DEF b
<1> HIDE DEF HasTrees
<1>4. 0 \in G /\ \A n \in 1 .. MaxDepth : n - 1 \in G => n \in G
  BY <1>1, <1>2, <1>3
<1> HIDE DEF G
<1>5. \A i \in 0 .. MaxDepth : i \in G
  BY ONLY <1>1, <1>4, Passes
<1>6. HasTrees(MaxDepth)
  BY <1>1, <1>5 DEF G
<1> DEFINE t == CHOOSE f : f = Body(MaxDepth, f)
<1>7. Trees = t
  BY DEF Trees, Level
<1>8. t = Body(MaxDepth, t)
  BY <1>6 DEF HasTrees
<1> HIDE DEF t
<1>9. Body(MaxDepth, t)[0] = Seq(Par) /\ \A d \in 1 .. MaxDepth : Body(MaxDepth, t)[d] = Level(t[d - 1])
  BY <1>1
<1> HIDE DEF Body
<1> QED
  BY <1>7, <1>8, <1>9

\* A document that is nested less deep than allowed is a document.
LEMMA LevelGrows ==
    ASSUME NEW S, NEW T, S \subseteq T
    PROVE  Level(S) \subseteq Level(T) /\ Seq(Par) \subseteq Level(T)
<1> DEFINE A == Par \cup [kind : {"seq"}, kids : S]
           B == Par \cup [kind : {"seq"}, kids : T]
<1>1. A \subseteq B /\ Par \subseteq B
  OBVIOUS
<1>2. Level(S) = Seq(A) /\ Level(T) = Seq(B)
  BY DEF Level
<1> HIDE DEF A, B
<1>3. Seq(A) \subseteq Seq(B) /\ Seq(Par) \subseteq Seq(B)
  BY <1>1
<1> QED
  BY <1>2, <1>3

LEMMA TreesGrow == \A d \in 0 .. MaxDepth : Trees[d] \subseteq Bodies
<1> DEFINE G == {d \in 0 .. MaxDepth : \A e \in 0 .. d : Trees[e] \subseteq Trees[d]}
<1>1. MaxDepth \in Nat
  BY WordAssumption
<1>2. \A d \in 1 .. MaxDepth : Trees[d] = Level(Trees[d - 1])
  BY Levels
<1>3. \A d \in 1 .. MaxDepth : Trees[d - 1] \subseteq Trees[d]
  <2> DEFINE H == {d \in 0 .. MaxDepth : d > 0 => Trees[d - 1] \subseteq Trees[d]}
  <2>1. 0 \in H
    BY <1>1
  <2>2. ASSUME NEW d \in 1 .. MaxDepth, d - 1 \in H PROVE d \in H
    <3>1. CASE d = 1
      <4>1. Trees[0] = Seq(Par) /\ Trees[1] = Level(Trees[0])
        BY <1>1, <3>1, Levels
      <4>2. Trees[0] \subseteq Trees[1]
        BY <4>1, LevelGrows
      <4> QED
        BY <3>1, <4>2
    <3>2. CASE d # 1
      <4>1. d - 1 \in 1 .. MaxDepth /\ d - 1 > 0 /\ d - 1 - 1 = d - 2
        BY <1>1, <3>2
      <4>2. Trees[d - 2] \subseteq Trees[d - 1]
        BY <2>2, <4>1
      <4>3. Trees[d] = Level(Trees[d - 1]) /\ Trees[d - 1] = Level(Trees[d - 2])
        BY <1>2, <4>1
      <4>4. Level(Trees[d - 2]) \subseteq Level(Trees[d - 1])
        BY ONLY <4>2, LevelGrows
      <4>5. Trees[d - 1] \subseteq Trees[d]
        BY ONLY <4>3, <4>4, Zenon
      <4> QED
        BY <4>5
    <3> QED
      BY <3>1, <3>2
  <2> HIDE DEF H
  <2>3. \A d \in 0 .. MaxDepth : d \in H
    BY ONLY <1>1, <2>1, <2>2, Passes
  <2> QED
    BY <2>3 DEF H
<1>4. 0 \in G
  BY <1>1
<1>5. ASSUME NEW d \in 1 .. MaxDepth, d - 1 \in G PROVE d \in G
  <2>1. Trees[d - 1] \subseteq Trees[d]
    BY <1>3
  <2>2. ASSUME NEW e \in 0 .. d PROVE Trees[e] \subseteq Trees[d]
    <3>1. e = d \/ e \in 0 .. d - 1
      OBVIOUS
    <3>2. ASSUME e \in 0 .. d - 1 PROVE Trees[e] \subseteq Trees[d - 1]
      BY <1>5, <3>2
    <3> QED
      BY <2>1, <3>1, <3>2
  <2> QED
    BY <2>2
<1> HIDE DEF G
<1>6. \A d \in 0 .. MaxDepth : d \in G
  BY ONLY <1>1, <1>4, <1>5, Passes
<1> QED
  BY <1>1, <1>6 DEF G, Bodies

\* How deep a document is nested
Rank(b) == CHOOSE d \in 0 .. MaxDepth :
               b \in Trees[d] /\ \A e \in 0 .. MaxDepth : b \in Trees[e] => d <= e

LEMMA RankIsLeast ==
    ASSUME NEW b \in Bodies
    PROVE  /\ Rank(b) \in 0 .. MaxDepth /\ b \in Trees[Rank(b)]
           /\ \A e \in 0 .. MaxDepth : b \in Trees[e] => Rank(b) <= e
<1> DEFINE T == {d \in 0 .. MaxDepth : b \in Trees[d]}
<1>1. MaxDepth \in T /\ T \subseteq Nat
  BY WordAssumption DEF Bodies
<1>2. PICK x \in T : \A y \in T : x <= y
  <2> HIDE DEF T
  <2> QED
    BY <1>1, LeastNat
<1> QED
  BY <1>2 DEF Rank

\* The children of a document are parallels, or sequences nested less deep.
LEMMA Children ==
    ASSUME NEW b \in Bodies, NEW i \in DOMAIN b
    PROVE  \/ b[i] \in Par /\ b[i].kind = "par"
           \/ b[i].kind = "seq" /\ b[i].kids \in Bodies /\ Rank(b[i].kids) < Rank(b)
<1> DEFINE d == Rank(b)
<1>1. d \in 0 .. MaxDepth /\ b \in Trees[d] /\ MaxDepth \in Nat
  BY RankIsLeast, WordAssumption
<1>2. \A c \in Par : c.kind = "par"
  BY DEF Par
<1>3. CASE d = 0
  <2>1. b \in Seq(Par)
    BY <1>1, <1>3, Levels
  <2>2. b[i] \in Par
    BY <2>1
  <2> QED
    BY <1>2, <2>2
<1>4. CASE d # 0
  <2>1. d \in 1 .. MaxDepth /\ d - 1 \in 0 .. MaxDepth
    BY <1>1, <1>4
  <2> DEFINE S == [kind : {"seq"}, kids : Trees[d - 1]]
  <2>2. b \in Seq(Par \cup S)
    BY <1>1, <2>1, Levels DEF Level
  <2>3. b[i] \in Par \cup S
    <3> HIDE DEF S
    <3> QED
      BY <2>2
  <2>4. CASE b[i] \in Par
    BY <1>2, <2>4
  <2>5. CASE b[i] \in S
    <3> DEFINE c == b[i].kids
    <3>1. b[i].kind = "seq" /\ c \in Trees[d - 1]
      BY <2>5
    <3>2. c \in Bodies
      BY <2>1, <3>1, TreesGrow
    <3>3. Rank(c) \in 0 .. MaxDepth /\ Rank(c) <= d - 1
      BY <2>1, <3>1, <3>2, RankIsLeast
    <3> HIDE DEF d
    <3>4. Rank(c) < d
      BY <1>1, <3>3
    <3> QED
      BY <3>1, <3>2, <3>4 DEF d
  <2> QED
    BY <2>3, <2>4, <2>5
<1> QED
  BY <1>3, <1>4

LEMMA BodyIsSeq ==
    ASSUME NEW b \in Bodies
    PROVE  Len(b) \in Nat /\ DOMAIN b = 1 .. Len(b)
<1>1. Rank(b) \in 0 .. MaxDepth /\ b \in Trees[Rank(b)] /\ MaxDepth \in Nat
  BY RankIsLeast, WordAssumption
<1>2. CASE Rank(b) = 0
  BY <1>1, <1>2, Levels
<1>3. CASE Rank(b) # 0
  <2>1. Rank(b) \in 1 .. MaxDepth
    BY <1>1, <1>3
  <2>2. b \in Level(Trees[Rank(b) - 1])
    BY <1>1, <2>1, Levels
  <2> QED
    BY <2>2 DEF Level
<1> QED
  BY <1>2, <1>3

\* What holds of a document if it holds of all that is nested in it holds of
\* every document: the least deep one it does not hold of is impossible.
LEMMA TreeInduction ==
    ASSUME NEW G,
           \A b \in Bodies : (\A i \in DOMAIN b : b[i].kind = "seq" => b[i].kids \in G) => b \in G
    PROVE  \A b \in Bodies : b \in G
<1> DEFINE B == {b \in Bodies : b \notin G}
           T == {Rank(b) : b \in B}
<1> SUFFICES ASSUME B # {} PROVE FALSE
  OBVIOUS
<1>1. \A b \in Bodies : Rank(b) \in Nat
  BY RankIsLeast, WordAssumption
<1>2. PICK b \in B : \A c \in B : Rank(b) <= Rank(c)
  <2>1. T \subseteq Nat /\ T # {}
    BY <1>1
  <2>2. PICK x \in T : \A y \in T : x <= y
    <3> HIDE DEF T
    <3> QED
      BY ONLY <2>1, LeastNat
  <2> QED
    BY <2>2
<1>3. \A i \in DOMAIN b : b[i].kind = "seq" => b[i].kids \in G
  <2> SUFFICES ASSUME NEW i \in DOMAIN b, b[i].kind = "seq", b[i].kids \notin G PROVE FALSE
    OBVIOUS
  <2>1. b[i].kids \in Bodies /\ Rank(b[i].kids) < Rank(b)
    BY Children
  <2>2. Rank(b) <= Rank(b[i].kids)
    BY <1>2, <2>1
  <2>3. Rank(b) \in Nat /\ Rank(b[i].kids) \in Nat
    BY <1>1, <2>1
  <2> QED
    BY <2>1, <2>2, <2>3
<1> QED
  BY <1>3

\* A walk over the trees that looks at what is nested only through its own
\* results has results.
Steady(S, step) ==
    \A f, h \in [Bodies -> S] : \A b \in Bodies :
        (\A i \in DOMAIN b : b[i].kind = "seq" => f[b[i].kids] = h[b[i].kids]) => step[f][b] = step[h][b]

LEMMA WalkHasResults ==
    ASSUME NEW S, NEW x \in S, NEW step \in [[Bodies -> S] -> [Bodies -> S]], Steady(S, step)
    PROVE  \E f \in [Bodies -> S] : f = step[f]
<1> DEFINE D == [Bodies -> S]
           n == MaxDepth + 2
           g == [i \in 1 .. n |-> step]
           a == [b \in Bodies |-> x]
<1>0. a \in D /\ step \in [D -> D]
  OBVIOUS
<1>a. \A f, h \in D : \A b \in Bodies :
        (\A i \in DOMAIN b : b[i].kind = "seq" => f[b[i].kids] = h[b[i].kids]) => step[f][b] = step[h][b]
  BY DEF Steady
<1>b. \A f, h \in D : (\A b \in Bodies : f[b] = h[b]) => f = h
  OBVIOUS
<1> HIDE DEF D, a
<1>1. n \in Nat /\ g \in Steps(D, n) /\ MaxDepth \in Nat /\ \A i \in 1 .. n : g[i] = step
  BY <1>0, WordAssumption DEF Steps
<1> HIDE DEF g
<1>2. PICK r \in [0 .. n -> D] : \A i \in 1 .. n : r[i] = step[r[i - 1]]
  <2> HIDE DEF n
  <2>1. \E r : r \in Results(D, a, n, g)
    BY ONLY <1>0, <1>1, LoopHasResults
  <2> QED
    BY <1>1, <2>1 DEF Results
<1>3. \A b \in Bodies : Rank(b) \in 0 .. MaxDepth
  BY RankIsLeast
<1> DEFINE m == MaxDepth + 1
           G == {i \in 0 .. m : \A b \in Bodies : Rank(b) < i => r[i + 1][b] = r[i][b]}
<1>4. 0 \in G
  BY <1>1, <1>3
<1>5. ASSUME NEW i \in 1 .. m, i - 1 \in G PROVE i \in G
  <2>1. i \in 1 .. n /\ i - 1 \in 0 .. n /\ i + 1 \in 1 .. n /\ i \in 0 .. m /\ i + 1 - 1 = i /\ i - 1 + 1 = i
    BY <1>1
  <2>2. r[i] = step[r[i - 1]] /\ r[i + 1] = step[r[i]] /\ r[i] \in D /\ r[i - 1] \in D
    BY <1>2, <2>1
  <2>3. \A b \in Bodies : Rank(b) < i - 1 => r[i][b] = r[i - 1][b]
    BY <1>5, <2>1
  <2>4. ASSUME NEW b \in Bodies, Rank(b) < i PROVE r[i + 1][b] = r[i][b]
    <3>1. ASSUME NEW k \in DOMAIN b, b[k].kind = "seq" PROVE r[i][b[k].kids] = r[i - 1][b[k].kids]
      <4>1. b[k].kids \in Bodies /\ Rank(b[k].kids) < Rank(b)
        BY <3>1, Children
      <4>2. Rank(b[k].kids) < i - 1
        BY <1>3, <2>4, <4>1
      <4> QED
        BY <2>3, <4>1, <4>2
    <3>2. step[r[i]][b] = step[r[i - 1]][b]
      BY <1>a, <2>2, <3>1
    <3> QED
      BY <2>2, <3>2
  <2> QED
    BY <2>1, <2>4
<1>6. m \in G
  <2>1. m \in Nat
    BY <1>1
  <2> HIDE DEF G, m
  <2>2. \A i \in 0 .. m : i \in G
    BY ONLY <1>4, <1>5, <2>1, Passes
  <2> QED
    BY <2>1, <2>2
<1>7. m \in 0 .. n /\ m + 1 \in 1 .. n /\ m + 1 - 1 = m
  BY <1>1
<1>8. \A b \in Bodies : r[m + 1][b] = r[m][b]
  BY <1>1, <1>3, <1>6
<1>9. r[m + 1] = step[r[m]] /\ r[m] \in D /\ r[m + 1] \in D
  BY <1>2, <1>7
<1>10. r[m] = step[r[m]]
  BY <1>b, <1>8, <1>9
<1> QED
  BY <1>9, <1>10 DEF D

-----------------------------------------------------------------------------
(***************************************************************************)
(* The walks over the trees                                                *)
(***************************************************************************)
\* A duration that is added up from those of the parallels
SumBody(w, f) ==
    [b \in Bodies |-> SumOf([i \in DOMAIN b |-> IF b[i].kind = "seq" THEN f[b[i].kids] ELSE w[b[i]]])]

LEMMA SumWalk ==
    ASSUME NEW w \in [Par -> Nat]
    PROVE  /\ \E f : f = SumBody(w, f)
           /\ \A f : f = SumBody(w, f) => \A b \in Bodies : f[b] \in Nat
<1> DEFINE Kids(f, b) == [i \in DOMAIN b |-> IF b[i].kind = "seq" THEN f[b[i].kids] ELSE w[b[i]]]
<1>1. ASSUME NEW f, NEW b \in Bodies, \A i \in DOMAIN b : b[i].kind = "seq" => f[b[i].kids] \in Nat
      PROVE  SumOf(Kids(f, b)) \in Nat
  <2>1. \A i \in DOMAIN b : Kids(f, b)[i] \in Nat
    BY <1>1, Children
  <2>2. DOMAIN Kids(f, b) = 1 .. Len(b) /\ Len(b) \in Nat /\ DOMAIN b = 1 .. Len(b)
    BY BodyIsSeq
  <2>3. Kids(f, b) = [i \in DOMAIN Kids(f, b) |-> Kids(f, b)[i]]
    OBVIOUS
  <2> DEFINE k == Kids(f, b)
  <2> HIDE DEF Kids
  <2>4. k \in Seq(Nat)
    BY <2>1, <2>2, <2>3
  <2> QED
    BY <2>4, SumIsNat
<1>2. \A f : SumBody(w, f) = [b \in Bodies |-> SumOf(Kids(f, b))]
  BY DEF SumBody
<1>3. ASSUME NEW f \in [Bodies -> Nat], NEW b \in Bodies, NEW i \in DOMAIN b, b[i].kind = "seq"
      PROVE  f[b[i].kids] \in Nat
  BY <1>3, Children
<1>4. \E f : f = SumBody(w, f)
  <2> DEFINE D == [Bodies -> Nat]
             step == [f \in D |-> SumBody(w, f)]
  <2>1. step \in [D -> D]
    <3> SUFFICES ASSUME NEW f \in D PROVE SumBody(w, f) \in D
      OBVIOUS
    <3> HIDE DEF Kids
    <3> QED
      BY <1>1, <1>2, <1>3
  <2>2. Steady(Nat, step)
    <3> SUFFICES ASSUME NEW f \in D, NEW h \in D, NEW b \in Bodies,
                        \A i \in DOMAIN b : b[i].kind = "seq" => f[b[i].kids] = h[b[i].kids]
                 PROVE  step[f][b] = step[h][b]
      BY DEF Steady
    <3>1. Kids(f, b) = Kids(h, b)
      OBVIOUS
    <3>2. step[f][b] = SumOf(Kids(f, b)) /\ step[h][b] = SumOf(Kids(h, b))
      BY <1>2
    <3> HIDE DEF step, Kids
    <3> QED
      BY <3>1, <3>2
  <2>3. \E f \in D : f = step[f]
    <3> HIDE DEF step
    <3>1. 0 \in Nat
      OBVIOUS
    <3> QED
      BY ONLY <2>1, <2>2, <3>1, WalkHasResults
  <2> QED
    BY <2>3
<1>5. ASSUME NEW f, f = SumBody(w, f) PROVE \A b \in Bodies : f[b] \in Nat
  <2> DEFINE G == {b \in Bodies : f[b] \in Nat}
  <2>1. \A b \in Bodies : f[b] = SumOf(Kids(f, b))
    <3> HIDE DEF Kids
    <3>1. \A b \in Bodies : SumBody(w, f)[b] = SumOf(Kids(f, b))
      BY <1>2
    <3> QED
      BY <1>5, <3>1
  <2>2. ASSUME NEW b \in Bodies, \A i \in DOMAIN b : b[i].kind = "seq" => b[i].kids \in G PROVE b \in G
    <3>1. \A i \in DOMAIN b : b[i].kind = "seq" => f[b[i].kids] \in Nat
      BY <2>2
    <3> HIDE DEF Kids
    <3> QED
      BY <1>1, <2>1, <3>1
  <2> HIDE DEF G
  <2>3. \A b \in Bodies : b \in G
    BY ONLY <2>2, TreeInduction
  <2> QED
    BY <2>3 DEF G
<1> QED
  BY <1>4, <1>5

\* A part of a sequence of media has a last one.
LEMMA LastIsOne ==
    ASSUME NEW n \in Nat, NEW T, T \subseteq 1 .. n, T # {}
    PROVE  Max(T) \in T
<1> DEFINE D == {n - x : x \in T}
<1>0. \A x \in T : x \in 1 .. n /\ n - x \in Nat /\ n - x \in D
  OBVIOUS
<1>1. D \subseteq Nat /\ D # {}
  BY <1>0
<1>2. PICK d \in D : \A e \in D : d <= e
  <2> HIDE DEF D
  <2> QED
    BY <1>1, LeastNat
<1>3. PICK x \in T : d = n - x
  BY <1>2
<1>4. ASSUME NEW y \in T PROVE x >= y
  <2>1. n - x <= n - y /\ x \in 1 .. n /\ y \in 1 .. n
    BY <1>0, <1>2, <1>3
  <2> QED
    BY <2>1
<1> QED
  BY <1>4 DEF Max

\* A sum of which at most one number is not 0
LEMMA OneOfSum ==
    ASSUME NEW s \in Seq(Nat), NEW j \in 1 .. Len(s), \A i \in 1 .. Len(s) : i # j => s[i] = 0
    PROVE  SumOf(s) = s[j]
<1> DEFINE S == SumsOf(s)
           n == Len(s)
           G == {k \in 0 .. n : S[k] = IF k < j THEN 0 ELSE s[j]}
<1>1. n \in Nat /\ j \in 1 .. n /\ s[j] \in Nat /\ \A i \in 1 .. n : i # j => s[i] = 0
  OBVIOUS
<1>2. S[0] = 0 /\ \A i \in 1 .. n : S[i] = S[i - 1] + s[i]
  BY Sums
<1>3. SumOf(s) = S[n]
  BY DEF SumOf
<1> HIDE DEF S, n
<1>4. 0 \in G
  BY <1>1, <1>2
<1>5. ASSUME NEW k \in 1 .. n, k - 1 \in G PROVE k \in G
  <2>1. S[k] = S[k - 1] + s[k] /\ S[k - 1] = (IF k - 1 < j THEN 0 ELSE s[j]) /\ (k # j => s[k] = 0)
    BY <1>1, <1>2, <1>5
  <2> QED
    BY <1>1, <2>1
<1> HIDE DEF G
<1>6. \A i \in 0 .. n : i \in G
  BY ONLY <1>1, <1>4, <1>5, Passes
<1>7. n \in G
  BY <1>1, <1>6
<1> QED
  BY <1>1, <1>3, <1>7 DEF G

\* What a clip lasts for the tree and for parseSMIL(): the same, if a signed
\* number can hold its ends
LEMMA ClipTimes ==
    ASSUME NEW c, c.begin \in Times, c.end \in Times
    PROVE  /\ ClipDurationMilliseconds(c) \in Nat /\ ClipAdded(c) \in Nat
           /\ 2 * c.begin < Word /\ 2 * c.end < Word => ClipAdded(c) = ClipDurationMilliseconds(c)
<1> DEFINE x == c.begin
           y == c.end
           e == IF y <= x THEN 0 ELSE y
           d == Minus(e, x)
<1>1. Word \in Nat /\ Word > 0 /\ x \in 0 .. Word - 1 /\ y \in 0 .. Word - 1 /\ e \in Times
  BY WordAssumption DEF Times
<1>2. ClipDurationMilliseconds(c) = IF y <= x THEN 0 ELSE y - x
  BY DEF ClipDurationMilliseconds
<1>3. ClipAdded(c) = IF Int32(d) <= 0 THEN 0 ELSE Int32(d)
  BY DEF ClipAdded
<1>4. d \in 0 .. Word - 1 /\ (x <= e => d = e - x) /\ (e < x => d = Word + e - x)
  <2> HIDE DEF x, e
  <2>1. x \in Nat
    BY <1>1
  <2>2. d \in Times /\ (x <= e => d = e - x)
    BY <1>1, <2>1, NoWrap
  <2>3. ASSUME e < x PROVE d = Word + e - x
    <3> DEFINE z == e - x
    <3>1. z \in Int /\ z < 0 /\ Word + z >= 0
      BY <1>1, <2>3 DEF Times
    <3> HIDE DEF z
    <3>2. \A w \in Nat : w > 0 /\ w + z >= 0 => z % w = w + z
      BY <3>1
    <3>3. d = Word + z
      BY <1>1, <3>1, <3>2 DEF Minus, z
    <3> QED
      BY <1>1, <3>3 DEF z, Times
  <2> QED
    BY <1>1, <2>2, <2>3 DEF Times
<1> HIDE DEF x, y, d
<1> QED
  BY <1>1, <1>2, <1>3, <1>4 DEF Int32, x, y

\* What a parallel is made of
LEMMA ParallelMedia ==
    ASSUME NEW c \in Par
    PROVE  /\ DOMAIN c.media = 1 .. Len(c.media) /\ Len(c.media) \in Nat
           /\ \A i \in 1 .. Len(c.media) :
                  /\ c.media[i].kind = "text" => c.media[i].own \in BOOLEAN
                  /\ c.media[i].kind = "audio" => c.media[i].begin \in Times /\ c.media[i].end \in Times
           /\ \A kind : AllOf(c, kind) # {} => /\ Max(AllOf(c, kind)) \in 1 .. Len(c.media)
                                               /\ c.media[Max(AllOf(c, kind))].kind = kind
<1>1. c.media \in Seq(Media)
  BY DEF Par
<1>2. DOMAIN c.media = 1 .. Len(c.media) /\ Len(c.media) \in Nat /\ \A i \in 1 .. Len(c.media) : c.media[i] \in Media
  BY <1>1
<1>3. ASSUME NEW kind, AllOf(c, kind) # {}
      PROVE  Max(AllOf(c, kind)) \in 1 .. Len(c.media) /\ c.media[Max(AllOf(c, kind))].kind = kind
  <2>1. AllOf(c, kind) \subseteq 1 .. Len(c.media)
    BY <1>2 DEF AllOf
  <2>2. Max(AllOf(c, kind)) \in AllOf(c, kind)
    BY <1>2, <1>3, <2>1, LastIsOne
  <2> QED
    BY <2>1, <2>2 DEF AllOf
<1>4. ASSUME NEW i \in 1 .. Len(c.media)
      PROVE  /\ c.media[i].kind = "text" => c.media[i].own \in BOOLEAN
             /\ c.media[i].kind = "audio" => c.media[i].begin \in Times /\ c.media[i].end \in Times
  BY <1>2 DEF Media
<1> QED
  BY <1>2, <1>3, <1>4

\* What a parallel lasts for DurationMilliseconds() and for parseSMIL()
ClipsAdded(c) == [i \in DOMAIN c.media |-> IF c.media[i].kind = "audio" /\ ~Excluded(c, i)
                                           THEN ClipAdded(c.media[i]) ELSE 0]
LEMMA ParallelTimes ==
    ASSUME NEW c \in Par
    PROVE  /\ CountedTime(c) \in Nat /\ ParTime(c) \in Nat
           /\ ClipsAdded(c) \in Seq(Nat) /\ Len(ClipsAdded(c)) = Len(c.media) /\ ParTime(c) = SumOf(ClipsAdded(c))
<1>1. CountedTime(c) \in Nat
  <2>1. CASE Counts(c)
    <3>1. AllOf(c, "audio") # {}
      BY <2>1 DEF Counts
    <3>2. LastOf(c, "audio").begin \in Times /\ LastOf(c, "audio").end \in Times
      BY <3>1, ParallelMedia DEF LastOf
    <3> QED
      BY <2>1, <3>2, ClipTimes DEF CountedTime
  <2> QED
    BY <2>1 DEF CountedTime
<1>2. ClipsAdded(c) \in Seq(Nat) /\ Len(ClipsAdded(c)) = Len(c.media)
  <2> DEFINE a(i) == IF c.media[i].kind = "audio" /\ ~Excluded(c, i) THEN ClipAdded(c.media[i]) ELSE 0
  <2>1. \A i \in 1 .. Len(c.media) : a(i) \in Nat
    BY ParallelMedia, ClipTimes
  <2>2. ClipsAdded(c) = [i \in 1 .. Len(c.media) |-> a(i)] /\ Len(c.media) \in Nat
    BY ParallelMedia DEF ClipsAdded
  <2> HIDE DEF a
  <2> QED
    BY <2>1, <2>2
<1>3. ParTime(c) = SumOf(ClipsAdded(c))
  BY DEF ParTime, ClipsAdded
<1> QED
  BY <1>1, <1>2, <1>3, SumIsNat

\* They are the same for a parallel as EPUB 3 has them.
LEMMA RegularTime ==
    ASSUME NEW c \in Par, Regular(c)
    PROVE  ParTime(c) = CountedTime(c)
<1> DEFINE s == ClipsAdded(c)
           m == c.media
           audio == AllOf(c, "audio")
           text == AllOf(c, "text")
           j == Max(audio)
           t == Max(text)
<1>1. s \in Seq(Nat) /\ Len(s) = Len(m) /\ ParTime(c) = SumOf(s) /\ DOMAIN m = 1 .. Len(m) /\ Len(m) \in Nat
  BY ParallelTimes, ParallelMedia
<1>2. \A i \in 1 .. Len(m) : s[i] = IF m[i].kind = "audio" /\ ~Excluded(c, i) THEN ClipAdded(m[i]) ELSE 0
  BY <1>1 DEF ClipsAdded
<1>3. \A i, k \in 1 .. Len(m) : m[i].kind = m[k].kind => i = k
  BY <1>1 DEF Regular
<1>4. CASE audio = {}
  <2>1. CountedTime(c) = 0
    BY <1>4 DEF CountedTime, Counts
  <2>2. \A i \in 1 .. Len(m) : s[i] = 0
    BY <1>1, <1>2, <1>4 DEF AllOf
  <2> HIDE DEF s, m
  <2>3. SumOf(s) = 0
    <3>1. CASE Len(m) = 0
      <4>1. s = <<>>
        BY <1>1, <3>1
      <4> QED
        BY <1>1, <4>1, SumIsNat
    <3>2. CASE Len(m) # 0
      <4>1. 1 \in 1 .. Len(s)
        BY <1>1, <3>2
      <4>2. \A i \in 1 .. Len(s) : s[i] = 0
        BY <1>1, <2>2
      <4>3. SumOf(s) = s[1]
        BY <1>1, <4>1, <4>2, OneOfSum
      <4> QED
        BY <4>1, <4>2, <4>3
    <3> QED
      BY <3>1, <3>2
  <2> QED
    BY <1>1, <2>1, <2>3
<1>5. CASE audio # {}
  <2>1. j \in 1 .. Len(m) /\ m[j].kind = "audio" /\ m[j].begin \in Times /\ m[j].end \in Times
    BY <1>5, ParallelMedia
  <2>2. SumOf(s) = s[j]
    <3>1. \A i \in 1 .. Len(s) : i # j => s[i] = 0
      BY <1>1, <1>2, <1>3, <2>1
    <3> HIDE DEF s, j, m
    <3> QED
      BY <1>1, <2>1, <3>1, OneOfSum
  <2>3. ClipAdded(m[j]) = ClipDurationMilliseconds(m[j])
    <3>1. 2 * m[j].begin < Word /\ 2 * m[j].end < Word
      BY <1>1, <2>1 DEF Regular, AllOf
    <3> QED
      BY <2>1, <3>1, ClipTimes
  <2>4. Counts(c) <=> ~Excluded(c, j)
    <3>1. CASE text = {}
      <4>1. Counts(c)
        BY <1>5, <3>1 DEF Counts
      <4>2. ~Excluded(c, j)
        <5>1. \A i \in 1 .. j - 1 : i \in DOMAIN m
          BY <1>1, <2>1
        <5>2. \A i \in DOMAIN m : m[i].kind # "text"
          BY <3>1 DEF AllOf
        <5> QED
          BY <5>1, <5>2 DEF Excluded
      <4> QED
        BY <4>1, <4>2
    <3>2. CASE text # {}
      <4>1. t \in 1 .. Len(m) /\ m[t].kind = "text" /\ m[t].own \in BOOLEAN
        BY <3>2, ParallelMedia
      <4>2. Counts(c) <=> m[t].own
        BY <1>5, <3>2 DEF Counts, LastOf
      <4>3. ASSUME m[t].own PROVE ~Excluded(c, j)
        <5>1. \A i \in 1 .. j - 1 : i \in 1 .. Len(m)
          BY <1>1, <2>1
        <5>2. \A i \in 1 .. Len(m) : m[i].kind = "text" => m[i].own
          BY <1>3, <4>1, <4>3
        <5> QED
          BY <5>1, <5>2 DEF Excluded
      <4>4. ASSUME ~m[t].own PROVE Excluded(c, j)
        <5>1. t \in text /\ j \in audio
          BY <1>1, <2>1, <4>1 DEF AllOf
        <5>2. t < j
          BY <4>4, <5>1 DEF Regular
        <5>3. t \in 1 .. j - 1
          BY <1>1, <2>1, <4>1, <5>2
        <5> QED
          BY <4>1, <4>4, <5>3 DEF Excluded
      <4> QED
        BY <4>2, <4>3, <4>4
    <3> QED
      BY <3>1, <3>2
  <2>5. CountedTime(c) = IF Excluded(c, j) THEN 0 ELSE ClipDurationMilliseconds(m[j])
    BY <2>4 DEF CountedTime, LastOf
  <2> QED
    BY <1>1, <1>2, <2>1, <2>2, <2>3, <2>5
<1> QED
  BY <1>4, <1>5

\* DurationMilliseconds() and the times of the children it adds up
KidTimes(b) == [i \in DOMAIN b |-> IF b[i].kind = "seq" THEN DurationMilliseconds[b[i].kids]
                                   ELSE CountedTime(b[i])]

LEMMA DurationWalk ==
    ASSUME NEW b \in Bodies
    PROVE  /\ DurationMilliseconds[b] = SumOf(KidTimes(b))
           /\ DurationMilliseconds[b] \in Nat
           /\ KidTimes(b) \in Seq(Nat) /\ Len(KidTimes(b)) = Len(b)
<1> DEFINE w == [c \in Par |-> CountedTime(c)]
           Body(f) == [k \in Bodies |-> SumOf([i \in DOMAIN k |-> IF k[i].kind = "seq" THEN f[k[i].kids]
                                                                  ELSE CountedTime(k[i])])]
           t == CHOOSE f : f = Body(f)
<1>1. w \in [Par -> Nat]
  BY ParallelTimes
<1>2. \A f : Body(f) = SumBody(w, f)
  <2> TAKE f
  <2> DEFINE A(k) == [i \in DOMAIN k |-> IF k[i].kind = "seq" THEN f[k[i].kids] ELSE CountedTime(k[i])]
             B(k) == [i \in DOMAIN k |-> IF k[i].kind = "seq" THEN f[k[i].kids] ELSE w[k[i]]]
  <2>1. ASSUME NEW k \in Bodies PROVE A(k) = B(k)
    <3>1. \A i \in DOMAIN k : k[i].kind = "seq" \/ w[k[i]] = CountedTime(k[i])
      BY Children
    <3> HIDE DEF w
    <3> QED
      BY <3>1
  <2>2. Body(f) = [k \in Bodies |-> SumOf(A(k))] /\ SumBody(w, f) = [k \in Bodies |-> SumOf(B(k))]
    BY DEF SumBody
  <2> HIDE DEF A, B, Body
  <2> QED
    BY <2>1, <2>2
<1>3. DurationMilliseconds = t
  BY DEF DurationMilliseconds
<1>4. t = Body(t)
  <2>1. PICK f : f = SumBody(w, f)
    BY <1>1, SumWalk
  <2>2. f = Body(f)
    BY <1>2, <2>1
  <2> QED
    BY <2>2
<1>5. t = SumBody(w, t)
  BY <1>2, <1>4
<1>6. \A k \in Bodies : DurationMilliseconds[k] \in Nat
  <2> HIDE DEF w, t
  <2> QED
    BY <1>1, <1>3, <1>5, SumWalk
<1>7. DurationMilliseconds[b] = SumOf(KidTimes(b))
  <2> HIDE DEF t
  <2>1. t[b] = Body(t)[b]
    BY <1>4
  <2> QED
    BY <1>3, <2>1 DEF KidTimes
<1>8. KidTimes(b) \in Seq(Nat) /\ Len(KidTimes(b)) = Len(b)
  <2>1. DOMAIN b = 1 .. Len(b) /\ Len(b) \in Nat
    BY BodyIsSeq
  <2>2. \A i \in DOMAIN b : KidTimes(b)[i] \in Nat
    BY <1>6, Children, ParallelTimes DEF KidTimes
  <2>3. DOMAIN KidTimes(b) = DOMAIN b /\ KidTimes(b) = [i \in DOMAIN KidTimes(b) |-> KidTimes(b)[i]]
    BY DEF KidTimes
  <2> QED
    BY <2>1, <2>2, <2>3
<1> QED
  BY <1>6, <1>7, <1>8

\* What parseSMIL() adds up
ParsedTimes(b) == [i \in DOMAIN b |-> IF b[i].kind = "seq" THEN ParsedDuration[b[i].kids] ELSE ParTime(b[i])]

LEMMA ParsedWalk ==
    ASSUME NEW b \in Bodies
    PROVE  ParsedDuration[b] = SumOf(ParsedTimes(b)) /\ ParsedDuration[b] \in Nat
<1> DEFINE w == [c \in Par |-> ParTime(c)]
           Body(f) == [k \in Bodies |-> SumOf([i \in DOMAIN k |-> IF k[i].kind = "seq" THEN f[k[i].kids]
                                                                  ELSE ParTime(k[i])])]
           t == CHOOSE f : f = Body(f)
<1>1. w \in [Par -> Nat]
  BY ParallelTimes
<1>2. \A f : Body(f) = SumBody(w, f)
  <2> TAKE f
  <2> DEFINE A(k) == [i \in DOMAIN k |-> IF k[i].kind = "seq" THEN f[k[i].kids] ELSE ParTime(k[i])]
             B(k) == [i \in DOMAIN k |-> IF k[i].kind = "seq" THEN f[k[i].kids] ELSE w[k[i]]]
  <2>1. ASSUME NEW k \in Bodies PROVE A(k) = B(k)
    <3>1. \A i \in DOMAIN k : k[i].kind = "seq" \/ w[k[i]] = ParTime(k[i])
      BY Children
    <3> HIDE DEF w
    <3> QED
      BY <3>1
  <2>2. Body(f) = [k \in Bodies |-> SumOf(A(k))] /\ SumBody(w, f) = [k \in Bodies |-> SumOf(B(k))]
    BY DEF SumBody
  <2> HIDE DEF A, B, Body
  <2> QED
    BY <2>1, <2>2
<1>3. ParsedDuration = t
  BY DEF ParsedDuration
<1>4. t = Body(t)
  <2>1. PICK f : f = SumBody(w, f)
    BY <1>1, SumWalk
  <2>2. f = Body(f)
    BY <1>2, <2>1
  <2> QED
    BY <2>2
<1> HIDE DEF t
<1>5. t[b] = Body(t)[b]
  BY <1>4
<1>6. t[b] \in Nat
  <2>1. t = SumBody(w, t)
    BY <1>2, <1>4
  <2> HIDE DEF w
  <2> QED
    BY <1>1, <2>1, SumWalk
<1> QED
  BY <1>3, <1>5, <1>6 DEF ParsedTimes

\* Whether every parallel is as EPUB 3 has them
LEMMA AllRegularWalk ==
    ASSUME NEW b \in Bodies
    PROVE  AllRegular[b] <=> \A i \in DOMAIN b : IF b[i].kind = "seq" THEN AllRegular[b[i].kids]
                                                 ELSE Regular(b[i])
<1> DEFINE All(f, k) == \A i \in DOMAIN k : IF k[i].kind = "seq" THEN f[k[i].kids] ELSE Regular(k[i])
           Body(f) == [k \in Bodies |-> All(f, k)]
           t == CHOOSE f : f = Body(f)
           D == [Bodies -> BOOLEAN]
           step == [f \in D |-> Body(f)]
<1>1. AllRegular = t
  BY DEF AllRegular
<1>2. step \in [D -> D]
  <2>1. \A f \in D : \A k \in Bodies : All(f, k) \in BOOLEAN
    OBVIOUS
  <2> HIDE DEF All
  <2> QED
    BY <2>1
<1>3. Steady(BOOLEAN, step)
  <2> SUFFICES ASSUME NEW f \in D, NEW h \in D, NEW k \in Bodies,
                      \A i \in DOMAIN k : k[i].kind = "seq" => f[k[i].kids] = h[k[i].kids]
               PROVE  step[f][k] = step[h][k]
    BY DEF Steady
  <2>1. All(f, k) <=> All(h, k)
    OBVIOUS
  <2>2. step[f][k] = All(f, k) /\ step[h][k] = All(h, k)
    <3> HIDE DEF All
    <3> QED
      OBVIOUS
  <2>3. All(f, k) \in BOOLEAN /\ All(h, k) \in BOOLEAN
    OBVIOUS
  <2> HIDE DEF All, step
  <2> QED
    BY <2>1, <2>2, <2>3
<1>4. \E f \in D : f = step[f]
  <2> HIDE DEF step
  <2>1. TRUE \in BOOLEAN
    OBVIOUS
  <2> QED
    BY ONLY <1>2, <1>3, <2>1, WalkHasResults
<1>5. t = Body(t)
  <2>1. PICK f \in D : f = Body(f)
    <3> HIDE DEF All
    <3> QED
      BY <1>4
  <2> HIDE DEF Body
  <2> QED
    BY <2>1
<1> HIDE DEF t
<1>6. t[b] = All(t, b)
  <2> HIDE DEF All
  <2>1. Body(t)[b] = All(t, b)
    OBVIOUS
  <2> HIDE DEF Body
  <2> QED
    BY <1>5, <2>1
<1> QED
  BY <1>1, <1>6

\* The durations that are added up while a document is parsed and when it has
\* been are the same, if its parallels are as EPUB 3 has them.
LEMMA SameDuration ==
    ASSUME NEW b \in Bodies, AllRegular[b]
    PROVE  ParsedDuration[b] = DurationMilliseconds[b]
<1> DEFINE G == {k \in Bodies : AllRegular[k] => ParsedDuration[k] = DurationMilliseconds[k]}
<1>1. ASSUME NEW k \in Bodies, \A i \in DOMAIN k : k[i].kind = "seq" => k[i].kids \in G
      PROVE  k \in G
  <2> SUFFICES ASSUME AllRegular[k] PROVE ParsedDuration[k] = DurationMilliseconds[k]
    OBVIOUS
  <2>1. ASSUME NEW i \in DOMAIN k, k[i].kind = "seq"
        PROVE  ParsedDuration[k[i].kids] = DurationMilliseconds[k[i].kids]
    BY <1>1, <2>1, AllRegularWalk
  <2>2. ASSUME NEW i \in DOMAIN k, k[i].kind # "seq"
        PROVE  ParTime(k[i]) = CountedTime(k[i])
    <3>1. Regular(k[i])
      BY <2>2, AllRegularWalk
    <3>2. k[i] \in Par
      BY <2>2, Children
    <3> QED
      BY <3>1, <3>2, RegularTime
  <2>3. ParsedTimes(k) = KidTimes(k)
    BY <2>1, <2>2 DEF ParsedTimes, KidTimes
  <2> QED
    BY <2>3, ParsedWalk, DurationWalk
<1> HIDE DEF G
<1>2. \A k \in Bodies : k \in G
  BY ONLY <1>1, TreeInduction
<1> QED
  BY <1>2 DEF G

-----------------------------------------------------------------------------
(***************************************************************************)
(* The walks that lead to a parallel                                       *)
(***************************************************************************)
\* What is in a part is in the whole.
LEMMA Flattened ==
    ASSUME NEW X, NEW ss \in Seq(Seq(X))
    PROVE  /\ FlattenSeq(ss) \in Seq(X)
           /\ \A i \in DOMAIN ss : \A k \in DOMAIN ss[i] :
                  \E m \in DOMAIN FlattenSeq(ss) : FlattenSeq(ss)[m] = ss[i][k]
           /\ \A m \in DOMAIN FlattenSeq(ss) :
                  \E i \in DOMAIN ss : \E k \in DOMAIN ss[i] : FlattenSeq(ss)[m] = ss[i][k]
<1> DEFINE n == Len(ss)
           Body(t) == [i \in 1 .. n |-> IF i = 1 THEN ss[i] ELSE t[i - 1] \o ss[i]]
           t == CHOOSE t : t = Body(t)
           g == [i \in 1 .. n |-> [x \in Seq(X) |-> x \o ss[i]]]
<1>1. n \in Nat /\ DOMAIN ss = 1 .. n /\ \A i \in 1 .. n : ss[i] \in Seq(X)
  OBVIOUS
<1>2. CASE n = 0
  <2>1. ss = <<>>
    BY <1>2
  <2>2. FlattenSeq(ss) = <<>>
    BY <1>2, <2>1 DEF FlattenSeq
  <2> QED
    BY <1>1, <1>2, <2>2
<1>3. CASE n # 0
  <2>1. FlattenSeq(ss) = t[n]
    BY <1>3 DEF FlattenSeq
  <2>2. \A i \in 1 .. n : \A x \in Seq(X) : g[i][x] = x \o ss[i] /\ x \o ss[i] \in Seq(X)
    BY <1>1
  <2>3. g \in Steps(Seq(X), n)
    BY <2>2 DEF Steps
  <2>4. <<>> \in Seq(X)
    OBVIOUS
  <2> HIDE DEF g, n
  <2>5. PICK r \in [0 .. n -> Seq(X)] : r[0] = <<>> /\ \A i \in 1 .. n : r[i] = g[i][r[i - 1]]
    <3>1. \E r : r \in Results(Seq(X), <<>>, n, g)
      BY ONLY <1>1, <2>3, <2>4, LoopHasResults
    <3> QED
      BY <3>1 DEF Results
  <2>6. ASSUME NEW i \in 1 .. n PROVE r[i - 1] \in Seq(X) /\ r[i] = r[i - 1] \o ss[i]
    <3>1. i - 1 \in 0 .. n
      BY <1>1
    <3> QED
      BY <2>2, <2>5, <3>1
  <2>7. r[1] = ss[1]
    <3>1. 1 \in 1 .. n
      BY <1>1, <1>3
    <3>2. r[1] = <<>> \o ss[1] /\ ss[1] \in Seq(X)
      <4>1. 1 - 1 = 0 /\ ss[1] \in Seq(X)
        BY <1>1, <3>1
      <4>2. r[1] = r[1 - 1] \o ss[1]
        BY <2>6, <3>1
      <4> QED
        BY <2>5, <4>1, <4>2
    <3> QED
      BY <3>2
  <2> DEFINE q == [i \in 1 .. n |-> r[i]]
             b == Body(q)
  <2>8. q = b
    <3>1. \A i \in 1 .. n : q[i] = r[i]
      OBVIOUS
    <3>2. \A i \in 1 .. n : b[i] = IF i = 1 THEN ss[i] ELSE q[i - 1] \o ss[i]
      OBVIOUS
    <3>3. \A i \in 1 .. n : i # 1 => i - 1 \in 1 .. n
      BY <1>1
    <3>4. DOMAIN b = 1 .. n /\ b = [i \in DOMAIN b |-> b[i]] /\ DOMAIN q = 1 .. n /\ q = [i \in DOMAIN q |-> q[i]]
      OBVIOUS
    <3> HIDE DEF q, b
    <3>5. ASSUME NEW i \in 1 .. n PROVE q[i] = b[i]
      <4>1. CASE i = 1
        BY <2>7, <3>1, <3>2, <4>1
      <4>2. CASE i # 1
        <5>1. b[i] = q[i - 1] \o ss[i] /\ q[i - 1] = r[i - 1] /\ q[i] = r[i]
          BY <3>1, <3>2, <3>3, <4>2
        <5>2. r[i] = r[i - 1] \o ss[i]
          BY <2>6
        <5> QED
          BY <5>1, <5>2
      <4> QED
        BY <4>1, <4>2
    <3> QED
      BY <3>4, <3>5
  <2>9. t = Body(t)
    BY <2>8
  <2> HIDE DEF t
  <2>10. \A i \in 1 .. n : t[i] = IF i = 1 THEN ss[i] ELSE t[i - 1] \o ss[i]
    <3>1. \A i \in 1 .. n : Body(t)[i] = IF i = 1 THEN ss[i] ELSE t[i - 1] \o ss[i]
      OBVIOUS
    <3> HIDE DEF Body
    <3> QED
      BY <2>9, <3>1
  <2> DEFINE Holds(j) == /\ t[j] \in Seq(X)
                         /\ \A i \in 1 .. j : \A k \in DOMAIN ss[i] : \E m \in DOMAIN t[j] : t[j][m] = ss[i][k]
                         /\ \A m \in DOMAIN t[j] : \E i \in 1 .. j : \E k \in DOMAIN ss[i] : t[j][m] = ss[i][k]
             G == {j \in 0 .. n : j > 0 => Holds(j)}
  <2>11. 0 \in G
    BY <1>1
  <2>12. ASSUME NEW j \in 1 .. n, j - 1 \in G PROVE j \in G
    <3>1. CASE j = 1
      <4>1. t[j] = ss[1] /\ 1 \in 1 .. n
        BY <2>10, <3>1
      <4>2. Holds(1)
        BY <1>1, <3>1, <4>1
      <4> HIDE DEF Holds
      <4> QED
        BY <3>1, <4>2
    <3>2. CASE j # 1
      <4>1. t[j] = t[j - 1] \o ss[j] /\ j - 1 \in 1 .. n
        <5>1. j - 1 \in 1 .. n
          BY <1>1, <3>2
        <5>2. t[j] = t[j - 1] \o ss[j]
          BY <2>10, <3>2
        <5> QED
          BY <5>1, <5>2
      <4>2. Holds(j - 1)
        BY <2>12, <3>2
      <4> DEFINE u == t[j - 1]
                 v == ss[j]
                 x == t[j]
      <4>3. u \in Seq(X) /\ v \in Seq(X) /\ x = u \o v
        BY <1>1, <4>1, <4>2
      <4> HIDE DEF u, v, x
      <4>4. x \in Seq(X) /\ Len(u) \in Nat /\ Len(v) \in Nat /\ Len(x) = Len(u) + Len(v)
        BY <4>3
      <4>5. \A m \in 1 .. Len(u) + Len(v) : x[m] = IF m <= Len(u) THEN u[m] ELSE v[m - Len(u)]
        BY <4>3
      <4>6. DOMAIN u = 1 .. Len(u) /\ DOMAIN v = 1 .. Len(v) /\ DOMAIN x = 1 .. Len(u) + Len(v)
        BY <4>3, <4>4
      <4>7. \A m \in DOMAIN u : m \in DOMAIN x /\ x[m] = u[m]
        BY <4>4, <4>5, <4>6
      <4>8. \A k \in DOMAIN v : Len(u) + k \in DOMAIN x /\ x[Len(u) + k] = v[k]
        <5> SUFFICES ASSUME NEW k \in 1 .. Len(v) PROVE Len(u) + k \in DOMAIN x /\ x[Len(u) + k] = v[k]
          BY <4>6
        <5>1. /\ Len(u) + k \in 1 .. Len(u) + Len(v) /\ ~(Len(u) + k <= Len(u)) /\ Len(u) + k - Len(u) = k
          BY <4>4
        <5> QED
          BY <4>5, <4>6, <5>1
      <4>9. ASSUME NEW i \in 1 .. j, NEW k \in DOMAIN ss[i] PROVE \E m \in DOMAIN x : x[m] = ss[i][k]
        <5>1. CASE i = j
          BY <4>8, <5>1 DEF v
        <5>2. CASE i # j
          <6>1. i \in 1 .. j - 1
            BY <5>2
          <6>2. PICK m \in DOMAIN u : u[m] = ss[i][k]
            BY <4>2, <6>1 DEF u
          <6> QED
            BY <4>7, <6>2
        <5> QED
          BY <5>1, <5>2
      <4>10. ASSUME NEW m \in DOMAIN x PROVE \E i \in 1 .. j : \E k \in DOMAIN ss[i] : x[m] = ss[i][k]
        <5>1. CASE m <= Len(u)
          <6>1. m \in DOMAIN u /\ x[m] = u[m]
            BY <4>4, <4>6, <4>7, <5>1
          <6>2. PICK i \in 1 .. j - 1 : \E k \in DOMAIN ss[i] : u[m] = ss[i][k]
            BY <4>2, <6>1 DEF u
          <6>3. i \in 1 .. j
            BY <1>1
          <6> QED
            BY <6>1, <6>2, <6>3
        <5>2. CASE ~(m <= Len(u))
          <6>1. m - Len(u) \in DOMAIN v /\ x[m] = v[m - Len(u)]
            BY <4>4, <4>5, <4>6, <5>2
          <6>2. j \in 1 .. j
            BY <1>1
          <6> QED
            BY <6>1, <6>2 DEF v
        <5> QED
          BY <5>1, <5>2
      <4>11. Holds(j)
        BY <4>4, <4>9, <4>10 DEF x
      <4> HIDE DEF Holds
      <4> QED
        BY <4>11
    <3> QED
      BY <3>1, <3>2
  <2> HIDE DEF G
  <2>13. \A j \in 0 .. n : j \in G
    BY ONLY <1>1, <2>11, <2>12, Passes
  <2>14. Holds(n)
    <3> HIDE DEF Holds
    <3> QED
      BY <1>1, <1>3, <2>13 DEF G
  <2> DEFINE f == FlattenSeq(ss)
  <2>15. /\ f \in Seq(X)
         /\ \A i \in 1 .. n : \A k \in DOMAIN ss[i] : \E m \in DOMAIN f : f[m] = ss[i][k]
         /\ \A m \in DOMAIN f : \E i \in 1 .. n : \E k \in DOMAIN ss[i] : f[m] = ss[i][k]
    <3> HIDE DEF f
    <3>1. f = t[n]
      BY <2>1 DEF f
    <3> QED
      BY <2>14, <3>1, Zenon
  <2> HIDE DEF f
  <2>16. DOMAIN ss = 1 .. n
    BY <1>1
  <2> QED
    BY <2>15, <2>16, Zenon DEF f
<1> QED
  BY <1>2, <1>3

LEMMA SilentIsPar == Silent \in Par
<1>1. [kind |-> "text", own |-> TRUE] \in Media
  BY DEF Media
<1> QED
  BY <1>1 DEF Silent, Par

\* The times before the children are those of DurationMilliseconds().
LEMMA TimesBefore ==
    ASSUME NEW b \in Bodies, NEW i \in DOMAIN b
    PROVE  TimeBefore(b, i) = SumsOf(KidTimes(b))[i - 1] /\ TimeBefore(b, i) \in Nat
<1>1. TimeBefore(b, i) = SumsOf(KidTimes(b))[i - 1]
  BY DEF TimeBefore, KidTimes
<1>2. i - 1 \in 0 .. Len(KidTimes(b))
  <2>1. Len(KidTimes(b)) = Len(b) /\ DOMAIN b = 1 .. Len(b) /\ Len(b) \in Nat
    BY BodyIsSeq, DurationWalk
  <2> QED
    BY <2>1
<1>3. SumsOf(KidTimes(b)) \in [0 .. Len(KidTimes(b)) -> Nat]
  BY DurationWalk, Sums
<1> HIDE DEF SumsOf, KidTimes
<1> QED
  BY <1>1, <1>2, <1>3

\* Sequence::ParallelAt()
Answers(f, b, time) ==
    [i \in DOMAIN b |->
        IF b[i].kind = "seq" THEN Below(i, f[b[i].kids][Minus(time, TimeBefore(b, i))])
        ELSE IF Within(Minus(time, TimeBefore(b, i)), CountedTime(b[i])) THEN <<i>> ELSE NoParallel]
FirstOf(answers) == IF FirstFound(answers) = 0 THEN NoParallel ELSE answers[FirstFound(answers)]

LEMMA FirstIsOne ==
    ASSUME NEW X, NoParallel \in X, NEW n \in Nat, NEW A \in [1 .. n -> X]
    PROVE  FirstOf(A) \in X
<1> DEFINE found == {i \in DOMAIN A : A[i] # NoParallel}
<1>1. CASE found = {}
  BY <1>1 DEF FirstOf, FirstFound
<1>2. CASE found # {}
  <2>1. \E x \in found : \A y \in found : x <= y
    <3>1. found \subseteq Nat
      OBVIOUS
    <3> HIDE DEF found
    <3> QED
      BY <1>2, <3>1, LeastNat
  <2>2. Min(found) \in found
    <3> HIDE DEF found
    <3> QED
      BY <2>1 DEF Min
  <2>3. FirstFound(A) = Min(found)
    BY <1>2 DEF FirstFound
  <2>4. FirstFound(A) \in 1 .. n
    BY <2>2, <2>3
  <2>5. A[FirstFound(A)] \in X
    BY <2>4
  <2> QED
    BY <2>5 DEF FirstOf
<1> QED
  BY <1>1, <1>2

LEMMA ParallelWalk ==
    ASSUME NEW b \in Bodies, NEW time \in Times
    PROVE  ParallelInTree[b][time] = FirstOf(Answers(ParallelInTree, b, time))
<1> DEFINE Val(f, k) == [u \in Times |-> FirstOf(Answers(f, k, u))]
           Body(f) == [k \in Bodies |-> Val(f, k)]
           t == CHOOSE f : f = Body(f)
           P == [Times -> Seq(Nat)]
           D == [Bodies -> P]
           step == [f \in D |-> Body(f)]
<1>1. ParallelInTree = t
  BY DEF ParallelInTree, FirstOf, Answers
<1>2. ASSUME NEW k \in Bodies, NEW i \in DOMAIN k, NEW u \in Times
      PROVE  Minus(u, TimeBefore(k, i)) \in Times
  BY TimesBefore, NoWrap
<1>3. ASSUME NEW f \in D, NEW k \in Bodies PROVE Val(f, k) \in P
  <2> SUFFICES ASSUME NEW u \in Times PROVE FirstOf(Answers(f, k, u)) \in Seq(Nat)
    OBVIOUS
  <2> DEFINE A == Answers(f, k, u)
  <2>1. DOMAIN k = 1 .. Len(k) /\ Len(k) \in Nat
    BY BodyIsSeq
  <2>2. ASSUME NEW i \in DOMAIN k PROVE A[i] \in Seq(Nat)
    <3>0. i \in Nat /\ <<i>> \in Seq(Nat) /\ NoParallel \in Seq(Nat)
      BY <2>1 DEF NoParallel
    <3>1. CASE k[i].kind = "seq"
      <4> DEFINE q == f[k[i].kids][Minus(u, TimeBefore(k, i))]
      <4>1. f[k[i].kids] \in P
        BY <3>1, Children
      <4>2. q \in Seq(Nat)
        BY <1>2, <4>1
      <4>3. A[i] = Below(i, q)
        BY <3>1 DEF Answers
      <4> HIDE DEF q, A
      <4> QED
        BY <3>0, <4>2, <4>3 DEF Below
    <3>2. CASE k[i].kind # "seq"
      <4>1. A[i] = <<i>> \/ A[i] = NoParallel
        BY <3>2 DEF Answers
      <4> QED
        BY <3>0, <4>1
    <3> QED
      BY <3>1, <3>2
  <2>3. A \in [1 .. Len(k) -> Seq(Nat)]
    BY <2>1, <2>2 DEF Answers
  <2>4. NoParallel \in Seq(Nat)
    BY DEF NoParallel
  <2> HIDE DEF A
  <2>5. FirstOf(A) \in Seq(Nat)
    BY ONLY <2>1, <2>3, <2>4, FirstIsOne
  <2> QED
    BY <2>5 DEF A
<1>4. step \in [D -> D]
  <2> HIDE DEF Val, P
  <2> QED
    BY <1>3
<1>5. Steady(P, step)
  <2> SUFFICES ASSUME NEW f \in D, NEW h \in D, NEW k \in Bodies,
                      \A i \in DOMAIN k : k[i].kind = "seq" => f[k[i].kids] = h[k[i].kids]
               PROVE  step[f][k] = step[h][k]
    BY DEF Steady
  <2>1. \A u \in Times : Answers(f, k, u) = Answers(h, k, u)
    BY DEF Answers
  <2>2. Val(f, k) = Val(h, k)
    BY <2>1
  <2> HIDE DEF Val, P
  <2> QED
    BY <2>2
<1>6. \E f \in D : f = step[f]
  <2>1. [u \in Times |-> <<>>] \in P
    OBVIOUS
  <2> HIDE DEF step, P
  <2> QED
    BY ONLY <1>4, <1>5, <2>1, WalkHasResults
<1>7. t = Body(t)
  <2>1. PICK f \in D : f = Body(f)
    <3> HIDE DEF Val
    <3> QED
      BY <1>6
  <2> HIDE DEF Body
  <2> QED
    BY <2>1
<1> HIDE DEF t
<1>8. t[b] = Val(t, b)
  <2> HIDE DEF Val
  <2>1. Body(t)[b] = Val(t, b)
    OBVIOUS
  <2> HIDE DEF Body
  <2> QED
    BY <1>7, <2>1
<1> QED
  BY <1>1, <1>8

\* The parallel at the end of a path
LEMMA NodeWalk ==
    ASSUME NEW b \in Bodies, NEW path \in Seq(Nat), Leads(b, path)
    PROVE  Node[b][path] = IF b[path[1]].kind = "seq" THEN Node[b[path[1]].kids][Tail(path)]
                           ELSE b[path[1]]
<1> DEFINE At(f, k, p) == IF ~Leads(k, p) THEN Silent
                          ELSE IF k[p[1]].kind = "seq" THEN f[k[p[1]].kids][Tail(p)]
                          ELSE k[p[1]]
           Val(f, k) == [p \in Seq(Nat) |-> At(f, k, p)]
           Body(f) == [k \in Bodies |-> Val(f, k)]
           t == CHOOSE f : f = Body(f)
           P == [Seq(Nat) -> Par]
           D == [Bodies -> P]
           step == [f \in D |-> Body(f)]
<1>1. Node = t
  BY DEF Node
<1>2. ASSUME NEW f \in D, NEW k \in Bodies PROVE Val(f, k) \in P
  <2> SUFFICES ASSUME NEW p \in Seq(Nat) PROVE At(f, k, p) \in Par
    OBVIOUS
  <2>1. CASE ~Leads(k, p)
    BY <2>1, SilentIsPar
  <2>2. CASE Leads(k, p) /\ k[p[1]].kind = "seq"
    <3>1. k[p[1]].kids \in Bodies /\ p # <<>>
      BY <2>2, Children DEF Leads
    <3>2. Tail(p) \in Seq(Nat)
      BY <3>1
    <3>3. f[k[p[1]].kids] \in P
      BY <3>1
    <3>4. f[k[p[1]].kids][Tail(p)] \in Par
      BY <3>2, <3>3
    <3> QED
      BY <2>2, <3>4
  <2>3. CASE Leads(k, p) /\ k[p[1]].kind # "seq"
    BY <2>3, Children DEF Leads
  <2> QED
    BY <2>1, <2>2, <2>3
<1>4. step \in [D -> D]
  <2> HIDE DEF Val, P
  <2> QED
    BY <1>2
<1>5. Steady(P, step)
  <2> SUFFICES ASSUME NEW f \in D, NEW h \in D, NEW k \in Bodies,
                      \A i \in DOMAIN k : k[i].kind = "seq" => f[k[i].kids] = h[k[i].kids]
               PROVE  step[f][k] = step[h][k]
    BY DEF Steady
  <2>1. \A p \in Seq(Nat) : At(f, k, p) = At(h, k, p)
    BY DEF Leads
  <2>2. Val(f, k) = Val(h, k)
    <3> HIDE DEF At
    <3> QED
      BY <2>1
  <2> HIDE DEF Val, P
  <2> QED
    BY <2>2
<1>6. \E f \in D : f = step[f]
  <2>1. [p \in Seq(Nat) |-> Silent] \in P
    BY SilentIsPar
  <2> HIDE DEF step, P
  <2> QED
    BY ONLY <1>4, <1>5, <2>1, WalkHasResults
<1>7. t = Body(t)
  <2>1. PICK f \in D : f = Body(f)
    <3> HIDE DEF Val
    <3> QED
      BY <1>6
  <2> HIDE DEF Body
  <2> QED
    BY <2>1
<1> HIDE DEF t
<1>8. t[b] = Val(t, b)
  <2> HIDE DEF Val
  <2>1. Body(t)[b] = Val(t, b)
    OBVIOUS
  <2> HIDE DEF Body
  <2> QED
    BY <1>7, <2>1
<1>9. t[b][path] = At(t, b, path)
  <2> HIDE DEF At
  <2> QED
    BY <1>8
<1> QED
  BY <1>1, <1>9

\* SMILData::ClipOffset()
LEMMA OffsetWalk ==
    ASSUME NEW b \in Bodies, NEW path \in Seq(Nat), Leads(b, path)
    PROVE  ClipOffset[b][path] = TimeBefore(b, path[1])
               + (IF b[path[1]].kind = "seq" THEN ClipOffset[b[path[1]].kids][Tail(path)] ELSE 0)
<1> DEFINE At(f, k, p) == IF ~Leads(k, p) THEN 0
                          ELSE TimeBefore(k, p[1])
                               + (IF k[p[1]].kind = "seq" THEN f[k[p[1]].kids][Tail(p)] ELSE 0)
           Val(f, k) == [p \in Seq(Nat) |-> At(f, k, p)]
           Body(f) == [k \in Bodies |-> Val(f, k)]
           t == CHOOSE f : f = Body(f)
           P == [Seq(Nat) -> Nat]
           D == [Bodies -> P]
           step == [f \in D |-> Body(f)]
<1>1. ClipOffset = t
  BY DEF ClipOffset
<1>2. ASSUME NEW f \in D, NEW k \in Bodies PROVE Val(f, k) \in P
  <2> SUFFICES ASSUME NEW p \in Seq(Nat) PROVE At(f, k, p) \in Nat
    OBVIOUS
  <2>1. CASE ~Leads(k, p)
    BY <2>1
  <2>2. CASE Leads(k, p) /\ k[p[1]].kind = "seq"
    <3>1. k[p[1]].kids \in Bodies /\ p # <<>> /\ TimeBefore(k, p[1]) \in Nat
      BY <2>2, Children, TimesBefore DEF Leads
    <3>2. Tail(p) \in Seq(Nat)
      BY <3>1
    <3>3. f[k[p[1]].kids] \in P
      BY <3>1
    <3>4. f[k[p[1]].kids][Tail(p)] \in Nat
      BY <3>2, <3>3
    <3>5. At(f, k, p) = TimeBefore(k, p[1]) + f[k[p[1]].kids][Tail(p)]
      BY <2>2
    <3>6. \A x, y \in Nat : x + y \in Nat
      OBVIOUS
    <3> HIDE DEF At
    <3> QED
      BY <3>1, <3>4, <3>5, <3>6, Zenon
  <2>3. CASE Leads(k, p) /\ k[p[1]].kind # "seq"
    BY <2>3, TimesBefore DEF Leads
  <2> QED
    BY <2>1, <2>2, <2>3
<1>4. step \in [D -> D]
  <2> HIDE DEF Val, P
  <2> QED
    BY <1>2
<1>5. Steady(P, step)
  <2> SUFFICES ASSUME NEW f \in D, NEW h \in D, NEW k \in Bodies,
                      \A i \in DOMAIN k : k[i].kind = "seq" => f[k[i].kids] = h[k[i].kids]
               PROVE  step[f][k] = step[h][k]
    BY DEF Steady
  <2>1. \A p \in Seq(Nat) : At(f, k, p) = At(h, k, p)
    BY DEF Leads
  <2>2. Val(f, k) = Val(h, k)
    <3> HIDE DEF At
    <3> QED
      BY <2>1
  <2> HIDE DEF Val, P
  <2> QED
    BY <2>2
<1>6. \E f \in D : f = step[f]
  <2>1. [p \in Seq(Nat) |-> 0] \in P
    OBVIOUS
  <2> HIDE DEF step, P
  <2> QED
    BY ONLY <1>4, <1>5, <2>1, WalkHasResults
<1>7. t = Body(t)
  <2>1. PICK f \in D : f = Body(f)
    <3> HIDE DEF Val
    <3> QED
      BY <1>6
  <2> HIDE DEF Body
  <2> QED
    BY <2>1
<1> HIDE DEF t
<1>8. t[b] = Val(t, b)
  <2> HIDE DEF Val
  <2>1. Body(t)[b] = Val(t, b)
    OBVIOUS
  <2> HIDE DEF Body
  <2> QED
    BY <1>7, <2>1
<1>9. t[b][path] = At(t, b, path)
  <2> HIDE DEF At
  <2> QED
    BY <1>8
<1> QED
  BY <1>1, <1>9

\* The parallels of a tree: those of each child, in the order of the document
Inside(f, b, i) == IF b[i].kind = "seq"
                   THEN [k \in DOMAIN f[b[i].kids] |-> <<i>> \o f[b[i].kids][k]]
                   ELSE << <<i>> >>
PartsOf(f, b) == [i \in DOMAIN b |-> Inside(f, b, i)]

LEMMA PartsTyped ==
    ASSUME NEW f, NEW b \in Bodies,
           \A i \in DOMAIN b : b[i].kind = "seq" => f[b[i].kids] \in Seq(Seq(Nat))
    PROVE  PartsOf(f, b) \in Seq(Seq(Seq(Nat))) /\ FlattenSeq(PartsOf(f, b)) \in Seq(Seq(Nat))
<1>1. DOMAIN b = 1 .. Len(b) /\ Len(b) \in Nat
  BY BodyIsSeq
<1>2. ASSUME NEW i \in DOMAIN b PROVE Inside(f, b, i) \in Seq(Seq(Nat))
  <2>0. i \in Nat /\ <<i>> \in Seq(Nat)
    BY <1>1
  <2>1. CASE b[i].kind = "seq"
    <3> DEFINE q == f[b[i].kids]
    <3>1. q \in Seq(Seq(Nat))
      BY <2>1
    <3>2. Inside(f, b, i) = [k \in DOMAIN q |-> <<i>> \o q[k]]
      BY <2>1 DEF Inside
    <3> HIDE DEF q
    <3>3. DOMAIN q = 1 .. Len(q) /\ Len(q) \in Nat
      BY <3>1
    <3>4. \A k \in DOMAIN q : <<i>> \o q[k] \in Seq(Nat)
      <4> SUFFICES ASSUME NEW k \in DOMAIN q PROVE <<i>> \o q[k] \in Seq(Nat)
        OBVIOUS
      <4>1. q[k] \in Seq(Nat)
        BY <3>1, <3>3
      <4> QED
        BY <2>0, <4>1
    <3> DEFINE c(k) == <<i>> \o q[k]
    <3>5. Inside(f, b, i) = [k \in 1 .. Len(q) |-> c(k)] /\ \A k \in 1 .. Len(q) : c(k) \in Seq(Nat)
      BY <3>2, <3>3, <3>4
    <3> HIDE DEF c
    <3> QED
      BY <3>3, <3>5
  <2>2. CASE b[i].kind # "seq"
    <3>1. Inside(f, b, i) = << <<i>> >>
      BY <2>2 DEF Inside
    <3> QED
      BY <2>0, <3>1
  <2> QED
    BY <2>1, <2>2
<1>3. PartsOf(f, b) \in Seq(Seq(Seq(Nat)))
  <2> DEFINE S == Seq(Seq(Nat))
  <2>1. \A i \in 1 .. Len(b) : Inside(f, b, i) \in S
    BY <1>1, <1>2
  <2> HIDE DEF S
  <2>2. PartsOf(f, b) \in Seq(S)
    BY <1>1, <2>1 DEF PartsOf
  <2> QED
    BY <2>2 DEF S
<1> QED
  BY <1>3, Flattened

LEMMA ParallelsWalk ==
    ASSUME NEW b \in Bodies
    PROVE  Parallels[b] = FlattenSeq(PartsOf(Parallels, b))
<1> DEFINE Val(f, k) == FlattenSeq(PartsOf(f, k))
           Body(f) == [k \in Bodies |-> Val(f, k)]
           t == CHOOSE f : f = Body(f)
           P == Seq(Seq(Nat))
           D == [Bodies -> P]
           step == [f \in D |-> Body(f)]
<1>1. Parallels = t
  BY DEF Parallels, PartsOf, Inside
<1>2. ASSUME NEW f \in D, NEW k \in Bodies PROVE Val(f, k) \in P
  <2>1. \A i \in DOMAIN k : k[i].kind = "seq" => f[k[i].kids] \in Seq(Seq(Nat))
    BY Children
  <2> QED
    BY ONLY <2>1, k \in Bodies, PartsTyped
<1>4. step \in [D -> D]
  <2> HIDE DEF Val, P
  <2> QED
    BY <1>2
<1>5. Steady(P, step)
  <2> SUFFICES ASSUME NEW f \in D, NEW h \in D, NEW k \in Bodies,
                      \A i \in DOMAIN k : k[i].kind = "seq" => f[k[i].kids] = h[k[i].kids]
               PROVE  step[f][k] = step[h][k]
    BY DEF Steady
  <2>1. \A i \in DOMAIN k : Inside(f, k, i) = Inside(h, k, i)
    BY DEF Inside
  <2>2. PartsOf(f, k) = PartsOf(h, k)
    BY <2>1 DEF PartsOf
  <2>3. Val(f, k) = Val(h, k)
    BY <2>2
  <2> HIDE DEF Val, P
  <2> QED
    BY <2>3
<1>6. \E f \in D : f = step[f]
  <2>1. <<>> \in P
    OBVIOUS
  <2> HIDE DEF step, P
  <2> QED
    BY ONLY <1>4, <1>5, <2>1, WalkHasResults
<1>7. t = Body(t)
  <2>1. PICK f \in D : f = Body(f)
    <3> HIDE DEF Val
    <3> QED
      BY <1>6
  <2> HIDE DEF Body
  <2> QED
    BY <2>1
<1> HIDE DEF t
<1>8. t[b] = Val(t, b)
  <2> HIDE DEF Val
  <2>1. Body(t)[b] = Val(t, b)
    OBVIOUS
  <2> HIDE DEF Body
  <2> QED
    BY <1>7, <2>1
<1> QED
  BY <1>1, <1>8

\* What a walk leads to, in a document or a sequence of it: for every time up
\* to its end a parallel whose clip contains that time, and else none
IsFound(b, time, p) ==
    /\ p \in Seq(Nat) /\ p # <<>> /\ Node[b][p] \in Par /\ ClipOffset[b][p] \in Nat
    /\ ClipOffset[b][p] <= time
    /\ time - ClipOffset[b][p] <= CountedTime(Node[b][p])
    /\ time = 0 \/ ClipOffset[b][p] < time
    /\ \E k \in DOMAIN Parallels[b] : Parallels[b][k] = p
Lands(b, time) ==
    /\ DurationMilliseconds[b] = 0 \/ time > DurationMilliseconds[b] => ParallelInTree[b][time] = NoParallel
    /\ DurationMilliseconds[b] > 0 /\ time <= DurationMilliseconds[b] => IsFound(b, time, ParallelInTree[b][time])
Explored == {b \in Bodies : Parallels[b] \in Seq(Seq(Nat)) /\ \A time \in Times : Lands(b, time)}

\* The parallels of all children are among those of the whole.
LEMMA ParallelsOfKids ==
    ASSUME NEW b \in Bodies, \A i \in DOMAIN b : b[i].kind = "seq" => Parallels[b[i].kids] \in Seq(Seq(Nat))
    PROVE  /\ Parallels[b] \in Seq(Seq(Nat))
           /\ \A i \in DOMAIN b : b[i].kind # "seq" => \E k \in DOMAIN Parallels[b] : Parallels[b][k] = <<i>>
           /\ \A i \in DOMAIN b : b[i].kind = "seq" =>
                  \A j \in DOMAIN Parallels[b[i].kids] :
                      \E k \in DOMAIN Parallels[b] : Parallels[b][k] = <<i>> \o Parallels[b[i].kids][j]
           /\ \A k \in DOMAIN Parallels[b] : \E i \in DOMAIN b :
                  \/ b[i].kind # "seq" /\ Parallels[b][k] = <<i>>
                  \/ b[i].kind = "seq" /\ \E j \in DOMAIN Parallels[b[i].kids] :
                                              Parallels[b][k] = <<i>> \o Parallels[b[i].kids][j]
<1> DEFINE ss == PartsOf(Parallels, b)
           X == Seq(Nat)
<1>1. ss \in Seq(Seq(X)) /\ FlattenSeq(ss) \in Seq(X)
  BY PartsTyped
<1>2. Parallels[b] = FlattenSeq(ss)
  BY ParallelsWalk
<1>3. DOMAIN ss = DOMAIN b /\ \A i \in DOMAIN b : ss[i] = Inside(Parallels, b, i)
  BY DEF PartsOf
<1> HIDE DEF ss
<1>4. \A i \in DOMAIN ss : \A k \in DOMAIN ss[i] :
          \E m \in DOMAIN FlattenSeq(ss) : FlattenSeq(ss)[m] = ss[i][k]
  <2> HIDE DEF X
  <2> QED
    BY ONLY <1>1, Flattened
<1>5. ASSUME NEW i \in DOMAIN b, b[i].kind # "seq"
      PROVE  \E k \in DOMAIN Parallels[b] : Parallels[b][k] = <<i>>
  <2>1. ss[i] = << <<i>> >>
    BY <1>3, <1>5 DEF Inside
  <2>2. 1 \in DOMAIN ss[i] /\ ss[i][1] = <<i>>
    BY <2>1
  <2>3. PICK m \in DOMAIN FlattenSeq(ss) : FlattenSeq(ss)[m] = ss[i][1]
    BY <1>3, <1>4, <2>2
  <2>4. FlattenSeq(ss)[m] = <<i>>
    BY <2>2, <2>3
  <2> QED
    BY <1>2, <2>4, Zenon
<1>6. ASSUME NEW i \in DOMAIN b, b[i].kind = "seq", NEW j \in DOMAIN Parallels[b[i].kids]
      PROVE  \E k \in DOMAIN Parallels[b] : Parallels[b][k] = <<i>> \o Parallels[b[i].kids][j]
  <2>1. ss[i] = [k \in DOMAIN Parallels[b[i].kids] |-> <<i>> \o Parallels[b[i].kids][k]]
    BY <1>3, <1>6 DEF Inside
  <2>2. j \in DOMAIN ss[i] /\ ss[i][j] = <<i>> \o Parallels[b[i].kids][j]
    BY <2>1
  <2>3. PICK m \in DOMAIN FlattenSeq(ss) : FlattenSeq(ss)[m] = ss[i][j]
    BY <1>3, <1>4, <2>2
  <2>4. FlattenSeq(ss)[m] = <<i>> \o Parallels[b[i].kids][j]
    BY <2>2, <2>3
  <2> QED
    BY <1>2, <2>4, Zenon
<1>7. ASSUME NEW k \in DOMAIN Parallels[b]
      PROVE  \E i \in DOMAIN b :
                 \/ b[i].kind # "seq" /\ Parallels[b][k] = <<i>>
                 \/ b[i].kind = "seq" /\ \E j \in DOMAIN Parallels[b[i].kids] :
                                             Parallels[b][k] = <<i>> \o Parallels[b[i].kids][j]
  <2>1. \A m \in DOMAIN FlattenSeq(ss) : \E i \in DOMAIN ss : \E j \in DOMAIN ss[i] : FlattenSeq(ss)[m] = ss[i][j]
    <3> HIDE DEF X
    <3> QED
      BY ONLY <1>1, Flattened
  <2>2. PICK i \in DOMAIN ss : \E j \in DOMAIN ss[i] : Parallels[b][k] = ss[i][j]
    BY <1>2, <2>1
  <2>3. PICK j \in DOMAIN ss[i] : Parallels[b][k] = ss[i][j]
    BY <2>2
  <2>4. i \in DOMAIN b /\ ss[i] = Inside(Parallels, b, i)
    BY <1>3
  <2>5. CASE b[i].kind # "seq"
    <3>1. ss[i] = << <<i>> >>
      BY <2>4, <2>5 DEF Inside
    <3>2. ss[i][j] = <<i>>
      BY <3>1
    <3> QED
      BY <2>3, <2>4, <2>5, <3>2
  <2>6. CASE b[i].kind = "seq"
    <3>1. ss[i] = [m \in DOMAIN Parallels[b[i].kids] |-> <<i>> \o Parallels[b[i].kids][m]]
      BY <2>4, <2>6 DEF Inside
    <3>2. j \in DOMAIN Parallels[b[i].kids] /\ ss[i][j] = <<i>> \o Parallels[b[i].kids][j]
      BY <3>1
    <3> QED
      BY <2>3, <2>4, <2>6, <3>2
  <2> QED
    BY <2>5, <2>6
<1> QED
  BY <1>1, <1>2, <1>5, <1>6, <1>7

\* A sequence answers as its children do.
LEMMA KidsAnswer ==
    ASSUME NEW b \in Bodies, NEW time \in Times,
           \A i \in DOMAIN b : b[i].kind = "seq" => b[i].kids \in Explored
    PROVE  Answered(KidTimes(b), time, Answers(ParallelInTree, b, time))
<1> DEFINE s == KidTimes(b)
           A == Answers(ParallelInTree, b, time)
<1>1. DOMAIN b = 1 .. Len(b) /\ Len(b) \in Nat /\ Len(s) = Len(b) /\ s \in Seq(Nat)
  BY BodyIsSeq, DurationWalk
<1>2. DOMAIN A = 1 .. Len(s)
  BY <1>1 DEF Answers
<1>3. ASSUME NEW i \in 1 .. Len(s)
      PROVE  LET begin == SumsOf(s)[i - 1]
             IN /\ s[i] = 0 => A[i] = NoParallel
                /\ begin <= time /\ time - begin > s[i] => A[i] = NoParallel
                /\ begin <= time /\ s[i] > 0 /\ time - begin <= s[i] => A[i] # NoParallel
  <2> DEFINE begin == SumsOf(s)[i - 1]
             u == Minus(time, begin)
  <2>1. i \in DOMAIN b /\ i \in Nat
    BY <1>1
  <2>2. TimeBefore(b, i) = begin /\ begin \in Nat
    BY <2>1, TimesBefore
  <2>3. u \in Times /\ (begin <= time => u = time - begin)
    BY <2>2, NoWrap
  <2>4. time \in Nat /\ u \in Nat
    BY <2>3, WordAssumption DEF Times
  <2>5. CASE b[i].kind = "seq"
    <3> DEFINE c == b[i].kids
               q == ParallelInTree[c][u]
    <3>1. s[i] = DurationMilliseconds[c]
      BY <2>1, <2>5 DEF KidTimes
    <3>2. A[i] = Below(i, q)
      BY <2>1, <2>2, <2>5 DEF Answers
    <3>3. Lands(c, u) /\ c \in Bodies
      BY <2>1, <2>3, <2>5 DEF Explored
    <3>4. s[i] \in Nat
      BY <3>1, <3>3, DurationWalk
    <3>5. s[i] = 0 \/ u > s[i] => q = NoParallel
      BY <3>1, <3>3 DEF Lands
    <3>6. s[i] > 0 /\ u <= s[i] => q # NoParallel /\ q \in Seq(Nat)
      BY <3>1, <3>3 DEF Lands, IsFound, NoParallel
    <3> HIDE DEF s, A, c, q, begin, u
    <3>7. q = NoParallel => A[i] = NoParallel
      BY <3>2 DEF Below
    <3>8. q # NoParallel /\ q \in Seq(Nat) => A[i] # NoParallel
      <4> SUFFICES ASSUME q # NoParallel, q \in Seq(Nat) PROVE A[i] # NoParallel
        OBVIOUS
      <4>1. A[i] = <<i>> \o q
        BY <3>2 DEF Below
      <4>2. Len(<<i>> \o q) = 1 + Len(q) /\ Len(q) \in Nat
        BY <2>1
      <4> QED
        BY <4>1, <4>2 DEF NoParallel
    <3>9. s[i] = 0 => A[i] = NoParallel
      BY <3>5, <3>7
    <3>10. begin <= time /\ time - begin > s[i] => A[i] = NoParallel
      BY <2>3, <3>5, <3>7
    <3>11. begin <= time /\ s[i] > 0 /\ time - begin <= s[i] => A[i] # NoParallel
      BY <2>3, <3>6, <3>8
    <3> QED
      BY <3>9, <3>10, <3>11 DEF begin
  <2>6. CASE b[i].kind # "seq"
    <3>1. b[i] \in Par
      BY <2>1, <2>6, Children
    <3>2. s[i] = CountedTime(b[i]) /\ s[i] \in Nat
      BY <2>1, <2>6, <3>1, ParallelTimes DEF KidTimes
    <3>3. A[i] = IF Within(u, s[i]) THEN <<i>> ELSE NoParallel
      BY <2>1, <2>2, <2>6, <3>2 DEF Answers
    <3>4. <<i>> # NoParallel
      BY DEF NoParallel
    <3> HIDE DEF s, A, begin, u
    <3>5. s[i] = 0 => A[i] = NoParallel
      BY <3>2, <3>3 DEF Within
    <3>6. begin <= time /\ time - begin > s[i] => A[i] = NoParallel
      BY <2>3, <2>4, <3>2, <3>3 DEF Within
    <3>7. begin <= time /\ s[i] > 0 /\ time - begin <= s[i] => A[i] # NoParallel
      BY <2>3, <2>4, <3>2, <3>3, <3>4 DEF Within
    <3> QED
      BY <3>5, <3>6, <3>7 DEF begin
  <2> QED
    BY <2>5, <2>6
<1> QED
  BY <1>2, <1>3 DEF Answered

\* A path with a step before it
LEMMA StepAdded ==
    ASSUME NEW i \in Nat, NEW q \in Seq(Nat), NEW p, p = <<i>> \o q
    PROVE  p \in Seq(Nat) /\ p # <<>> /\ p[1] = i /\ Tail(p) = q
<1>1. p \in Seq(Nat) /\ Len(p) = 1 + Len(q) /\ Len(q) \in Nat /\ p[1] = i
  OBVIOUS
<1>2. \A k \in 1 .. Len(q) : p[k + 1] = q[k]
  OBVIOUS
<1>3. p # <<>>
  BY <1>1
<1>4. Tail(p) \in Seq(Nat) /\ Len(Tail(p)) = Len(q) /\ \A k \in 1 .. Len(q) : Tail(p)[k] = p[k + 1]
  BY <1>1, <1>3
<1>5. Tail(p) = q
  BY <1>2, <1>4, SeqEqual
<1> QED
  BY <1>1, <1>3, <1>5

\* The path a sequence answers with leads to a clip that contains the time.
LEMMA KidFound ==
    ASSUME NEW b \in Bodies, NEW time \in Times,
           \A i \in DOMAIN b : b[i].kind = "seq" => b[i].kids \in Explored,
           DurationMilliseconds[b] > 0, time <= DurationMilliseconds[b]
    PROVE  IsFound(b, time, ParallelInTree[b][time])
<1> DEFINE s == KidTimes(b)
           A == Answers(ParallelInTree, b, time)
           i == FirstFound(A)
           begin == SumsOf(s)[i - 1]
           p == ParallelInTree[b][time]
<1> SUFFICES IsFound(b, time, p)
  OBVIOUS
<1>0. time \in Nat
  BY WordAssumption DEF Times
<1>1. /\ s \in Seq(Nat) /\ Len(s) = Len(b) /\ DurationMilliseconds[b] = SumOf(s)
      /\ DOMAIN b = 1 .. Len(b) /\ Len(b) \in Nat
  BY DurationWalk, BodyIsSeq
<1>2. Answered(s, time, A)
  BY KidsAnswer
<1>3. /\ i \in 1 .. Len(s) /\ A[i] # NoParallel /\ s[i] > 0
      /\ begin <= time /\ time - begin <= s[i] /\ (time = 0 \/ begin < time)
  <2>1. SumOf(s) > 0 /\ time <= SumOf(s)
    BY <1>1
  <2> HIDE DEF s, A
  <2> QED
    BY <1>0, <1>1, <1>2, <2>1, FirstAnswers
<1>4. p = A[i] /\ i \in DOMAIN b /\ i \in Nat
  BY <1>1, <1>3, ParallelWalk DEF FirstOf
<1>5. TimeBefore(b, i) = begin /\ begin \in Nat
  <2> HIDE DEF i, A
  <2> QED
    BY <1>4, TimesBefore
<1>6. A[i] = IF b[i].kind = "seq" THEN Below(i, ParallelInTree[b[i].kids][Minus(time, begin)])
             ELSE IF Within(Minus(time, begin), CountedTime(b[i])) THEN <<i>> ELSE NoParallel
  <2> HIDE DEF i
  <2> QED
    BY <1>4, <1>5 DEF Answers
<1>7. s[i] = IF b[i].kind = "seq" THEN DurationMilliseconds[b[i].kids] ELSE CountedTime(b[i])
  <2> HIDE DEF i
  <2> QED
    BY <1>4 DEF KidTimes
<1>8. Minus(time, begin) = time - begin /\ time - begin \in Times
  <2> HIDE DEF begin
  <2> QED
    BY <1>3, <1>5, NoWrap
<1>9. /\ \A j \in DOMAIN b : b[j].kind # "seq" => \E k \in DOMAIN Parallels[b] : Parallels[b][k] = <<j>>
      /\ \A j \in DOMAIN b : b[j].kind = "seq" =>
             \A m \in DOMAIN Parallels[b[j].kids] :
                 \E k \in DOMAIN Parallels[b] : Parallels[b][k] = <<j>> \o Parallels[b[j].kids][m]
  BY ParallelsOfKids DEF Explored
<1> HIDE DEF s, A, i, begin, p
<1>10. CASE b[i].kind = "seq"
  <2> DEFINE c == b[i].kids
             u == time - begin
             q == ParallelInTree[c][u]
  <2>1. c \in Explored /\ c \in Bodies
    BY <1>4, <1>10 DEF Explored
  <2>2. u \in Times /\ s[i] = DurationMilliseconds[c] /\ Lands(c, u)
    BY <1>7, <1>8, <1>10, <2>1 DEF Explored
  <2>3. IsFound(c, u, q)
    BY <1>3, <2>2 DEF Lands
  <2>4. p = Below(i, q)
    BY <1>4, <1>6, <1>8, <1>10
  <2> HIDE DEF q, u
  <2>5. q \in Seq(Nat) /\ q # <<>>
    BY <2>3 DEF IsFound
  <2>6. p = <<i>> \o q
    BY <2>4, <2>5 DEF Below, NoParallel
  <2>7. p \in Seq(Nat) /\ p # <<>> /\ p[1] = i /\ Tail(p) = q
    BY <1>4, <2>5, <2>6, StepAdded
  <2>8. Leads(b, p)
    BY <1>4, <2>7 DEF Leads
  <2>9. Node[b][p] = Node[c][q]
    BY <1>10, <2>7, <2>8, NodeWalk
  <2>10. ClipOffset[b][p] = begin + ClipOffset[c][q]
    BY <1>5, <1>10, <2>7, <2>8, OffsetWalk
  <2>11. /\ Node[c][q] \in Par /\ ClipOffset[c][q] \in Nat
         /\ ClipOffset[c][q] <= u /\ u - ClipOffset[c][q] <= CountedTime(Node[c][q])
         /\ u = 0 \/ ClipOffset[c][q] < u
    BY <2>3 DEF IsFound
  <2>12. \E k \in DOMAIN Parallels[b] : Parallels[b][k] = p
    <3>1. PICK m \in DOMAIN Parallels[c] : Parallels[c][m] = q
      BY <2>3 DEF IsFound
    <3>2. PICK k \in DOMAIN Parallels[b] : Parallels[b][k] = <<i>> \o Parallels[c][m]
      BY <1>4, <1>9, <1>10
    <3>3. Parallels[b][k] = p
      BY <2>6, <3>1, <3>2
    <3> QED
      BY <3>3
  <2>13. CountedTime(Node[c][q]) \in Nat
    BY <2>11, ParallelTimes
  <2> DEFINE o == ClipOffset[b][p]
             e == CountedTime(Node[c][q])
             x == ClipOffset[c][q]
  <2>14. o = begin + x /\ x \in Nat /\ x <= u /\ u - x <= e /\ (u = 0 \/ x < u) /\ e \in Nat
    BY <2>10, <2>11, <2>13
  <2> HIDE DEF o, e, x
  <2>15. u = time - begin
    BY DEF u
  <2>16. o \in Nat /\ o <= time /\ time - o <= e /\ (time = 0 \/ o < time)
    BY <1>0, <1>3, <1>5, <2>14, <2>15
  <2>17. /\ Node[b][p] \in Par /\ ClipOffset[b][p] \in Nat /\ ClipOffset[b][p] <= time
         /\ time - ClipOffset[b][p] <= CountedTime(Node[b][p])
         /\ time = 0 \/ ClipOffset[b][p] < time
    BY <2>9, <2>11, <2>16 DEF o, e
  <2> QED
    BY <2>7, <2>12, <2>17, Zenon DEF IsFound
<1>11. CASE b[i].kind # "seq"
  <2>1. b[i] \in Par
    BY <1>4, <1>11, Children
  <2>2. p = <<i>>
    BY <1>3, <1>4, <1>6, <1>11
  <2>3. p \in Seq(Nat) /\ p # <<>> /\ p[1] = i
    BY <1>4, <2>2
  <2>4. Leads(b, p)
    BY <1>4, <2>3 DEF Leads
  <2>5. Node[b][p] = b[i]
    BY <1>11, <2>3, <2>4, NodeWalk
  <2>6. ClipOffset[b][p] = begin
    <3>1. ClipOffset[b][p] = begin + 0
      BY <1>5, <1>11, <2>3, <2>4, OffsetWalk
    <3> QED
      BY <1>5, <3>1
  <2>7. s[i] = CountedTime(b[i])
    BY <1>7, <1>11
  <2>8. \E k \in DOMAIN Parallels[b] : Parallels[b][k] = p
    BY <1>4, <1>9, <1>11, <2>2
  <2>9. /\ Node[b][p] \in Par /\ ClipOffset[b][p] \in Nat /\ ClipOffset[b][p] <= time
        /\ time - ClipOffset[b][p] <= CountedTime(Node[b][p])
        /\ time = 0 \/ ClipOffset[b][p] < time
    BY <1>3, <1>5, <2>1, <2>5, <2>6, <2>7
  <2> QED
    BY <2>3, <2>8, <2>9, Zenon DEF IsFound
<1> QED
  BY <1>10, <1>11

\* So it is in every document.
LEMMA AllExplored == \A b \in Bodies : b \in Explored
<1>1. ASSUME NEW b \in Bodies, \A i \in DOMAIN b : b[i].kind = "seq" => b[i].kids \in Explored
      PROVE  b \in Explored
  <2>1. Parallels[b] \in Seq(Seq(Nat))
    BY <1>1, ParallelsOfKids DEF Explored
  <2>2. ASSUME NEW time \in Times PROVE Lands(b, time)
    <3> DEFINE s == KidTimes(b)
               A == Answers(ParallelInTree, b, time)
    <3>0. time \in Nat
      BY WordAssumption DEF Times
    <3>1. s \in Seq(Nat) /\ DurationMilliseconds[b] = SumOf(s)
      BY DurationWalk
    <3>2. ASSUME DurationMilliseconds[b] = 0 \/ time > DurationMilliseconds[b]
          PROVE  ParallelInTree[b][time] = NoParallel
      <4>1. Answered(s, time, A)
        BY <1>1, KidsAnswer
      <4>2. SumOf(s) = 0 \/ time > SumOf(s)
        BY <3>1, <3>2
      <4>3. FirstFound(A) = 0
        <5> HIDE DEF s, A
        <5> QED
          BY <3>0, <3>1, <4>1, <4>2, NoneAnswers
      <4> QED
        BY <4>3, ParallelWalk DEF FirstOf
    <3>3. ASSUME DurationMilliseconds[b] > 0, time <= DurationMilliseconds[b]
          PROVE  IsFound(b, time, ParallelInTree[b][time])
      BY <1>1, <3>3, KidFound
    <3> QED
      BY <3>2, <3>3 DEF Lands
  <2> QED
    BY <2>1, <2>2 DEF Explored
<1> HIDE DEF Explored
<1> QED
  BY <1>1, TreeInduction

\* A time after the beginning of a child, and not after its end, is asked
\* of that child.
LEMMA KidIsAsked ==
    ASSUME NEW b \in Bodies, NEW i \in DOMAIN b, NEW u \in 1 .. KidTimes(b)[i]
    PROVE  /\ TimeBefore(b, i) \in Nat /\ TimeBefore(b, i) + u <= DurationMilliseconds[b]
           /\ TimeBefore(b, i) + u \in Times =>
                  ParallelInTree[b][TimeBefore(b, i) + u] =
                      IF b[i].kind = "seq" THEN Below(i, ParallelInTree[b[i].kids][u]) ELSE <<i>>
<1> DEFINE s == KidTimes(b)
           begin == TimeBefore(b, i)
           time == begin + u
           A == Answers(ParallelInTree, b, time)
<1>1. /\ s \in Seq(Nat) /\ DurationMilliseconds[b] = SumOf(s) /\ Len(s) = Len(b) /\ DOMAIN b = 1 .. Len(s)
      /\ i \in 1 .. Len(s) /\ Len(s) \in Nat
  BY DurationWalk, BodyIsSeq
<1>2. begin = SumsOf(s)[i - 1] /\ begin \in Nat
  BY TimesBefore
<1>3. s[i] \in Nat /\ u \in Nat /\ 0 < u /\ u <= s[i]
  <2>1. s[i] \in Nat
    BY <1>1
  <2> HIDE DEF s
  <2>2. u \in 1 .. s[i]
    BY DEF s
  <2> QED
    BY <2>1, <2>2
<1>4. time \in Nat /\ begin < time /\ time <= begin + s[i] /\ time - begin = u /\ begin <= time
  <2> HIDE DEF begin, s
  <2> QED
    BY <1>2, <1>3
<1>5. time <= SumOf(s)
  <2> HIDE DEF s, begin, time
  <2>1. i \in 0 .. Len(s)
    BY <1>1
  <2>2. SumsOf(s)[i] = begin + s[i] /\ SumsOf(s)[i] <= SumOf(s) /\ SumOf(s) \in Nat
    BY <1>1, <1>2, <2>1, Sums, SumsGrow, SumIsNat
  <2> QED
    BY <1>2, <1>3, <1>4, <2>2
<1>6. ASSUME time \in Times
      PROVE  ParallelInTree[b][time] = IF b[i].kind = "seq" THEN Below(i, ParallelInTree[b[i].kids][u]) ELSE <<i>>
  <2>1. Answered(s, time, A)
    BY <1>6, AllExplored, Children, KidsAnswer
  <2>2. FirstFound(A) = i
    <3> HIDE DEF s, A, begin, time
    <3> QED
      BY <1>1, <1>2, <1>4, <2>1, OnlyAnswer
  <2>3. ParallelInTree[b][time] = A[i]
    <3>1. i # 0
      BY <1>1
    <3> QED
      BY <1>6, <2>2, <3>1, ParallelWalk DEF FirstOf
  <2>4. Minus(time, begin) = u
    <3> HIDE DEF time, begin
    <3> QED
      BY <1>2, <1>4, <1>6, NoWrap
  <2>5. A[i] = IF b[i].kind = "seq" THEN Below(i, ParallelInTree[b[i].kids][u])
               ELSE IF Within(u, CountedTime(b[i])) THEN <<i>> ELSE NoParallel
    BY <2>4 DEF Answers
  <2>6. b[i].kind # "seq" => Within(u, CountedTime(b[i]))
    <3>1. b[i].kind # "seq" => s[i] = CountedTime(b[i])
      BY DEF KidTimes
    <3> HIDE DEF s
    <3> QED
      BY <1>3, <3>1 DEF Within
  <2> QED
    BY <2>3, <2>5, <2>6
<1> HIDE DEF s
<1> QED
  BY <1>1, <1>2, <1>5, <1>6

\* So the time of a place in a parallel, wherever it is in the tree, leads to
\* that parallel.
Returns(b, p) ==
    /\ p \in Seq(Nat) /\ p # <<>> /\ ClipOffset[b][p] \in Nat /\ Node[b][p] \in Par
    /\ \A ms \in 1 .. CountedTime(Node[b][p]) :
           /\ ClipOffset[b][p] + ms <= DurationMilliseconds[b]
           /\ ClipOffset[b][p] + ms \in Times => ParallelInTree[b][ClipOffset[b][p] + ms] = p
Returning == {b \in Bodies : \A k \in DOMAIN Parallels[b] : Returns(b, Parallels[b][k])}

LEMMA AllReturn == \A b \in Bodies : b \in Returning
<1>1. ASSUME NEW b \in Bodies, \A i \in DOMAIN b : b[i].kind = "seq" => b[i].kids \in Returning,
             NEW n \in DOMAIN Parallels[b]
      PROVE  Returns(b, Parallels[b][n])
  <2> DEFINE p == Parallels[b][n]
  <2>1. PICK i \in DOMAIN b :
            \/ b[i].kind # "seq" /\ p = <<i>>
            \/ b[i].kind = "seq" /\ \E j \in DOMAIN Parallels[b[i].kids] : p = <<i>> \o Parallels[b[i].kids][j]
    BY AllExplored, Children, ParallelsOfKids DEF Explored
  <2> HIDE DEF p
  <2>2. i \in Nat
    BY BodyIsSeq
  <2>3. TimeBefore(b, i) \in Nat
    BY TimesBefore
  <2>4. CASE b[i].kind # "seq" /\ p = <<i>>
    <3>1. p \in Seq(Nat) /\ p # <<>> /\ p[1] = i
      BY <2>2, <2>4
    <3>2. Leads(b, p)
      BY <3>1 DEF Leads
    <3>3. Node[b][p] = b[i] /\ b[i] \in Par /\ KidTimes(b)[i] = CountedTime(b[i])
      BY <2>4, <3>1, <3>2, NodeWalk, Children DEF KidTimes
    <3>4. ClipOffset[b][p] = TimeBefore(b, i)
      <4>1. ClipOffset[b][p] = TimeBefore(b, i) + 0
        BY <2>4, <3>1, <3>2, OffsetWalk
      <4> QED
        BY <2>3, <4>1
    <3>5. ASSUME NEW ms \in 1 .. CountedTime(Node[b][p])
          PROVE  /\ ClipOffset[b][p] + ms <= DurationMilliseconds[b]
                 /\ ClipOffset[b][p] + ms \in Times => ParallelInTree[b][ClipOffset[b][p] + ms] = p
      <4>1. ms \in 1 .. KidTimes(b)[i]
        BY <3>3
      <4> QED
        BY <2>4, <3>4, <4>1, KidIsAsked
    <3>6. ClipOffset[b][p] \in Nat /\ Node[b][p] \in Par
      BY <2>3, <3>3, <3>4
    <3>7. Returns(b, p)
      BY <3>1, <3>5, <3>6, Zenon DEF Returns
    <3> QED
      BY <3>7 DEF p
  <2>5. CASE b[i].kind = "seq" /\ \E j \in DOMAIN Parallels[b[i].kids] : p = <<i>> \o Parallels[b[i].kids][j]
    <3> DEFINE c == b[i].kids
    <3>1. PICK j \in DOMAIN Parallels[c] : p = <<i>> \o Parallels[c][j]
      BY <2>5
    <3> DEFINE q == Parallels[c][j]
    <3>2. c \in Bodies /\ Returns(c, q) /\ KidTimes(b)[i] = DurationMilliseconds[c] /\ DurationMilliseconds[c] \in Nat
      BY <1>1, <2>5, DurationWalk DEF Returning, KidTimes
    <3>3. q \in Seq(Nat) /\ q # <<>> /\ ClipOffset[c][q] \in Nat /\ Node[c][q] \in Par /\ p = <<i>> \o q
      BY <3>1, <3>2 DEF Returns
    <3> HIDE DEF c, q
    <3>4. p \in Seq(Nat) /\ p # <<>> /\ p[1] = i /\ Tail(p) = q
      BY <2>2, <3>3, StepAdded
    <3>5. Leads(b, p)
      BY <3>4 DEF Leads
    <3>6. Node[b][p] = Node[c][q]
      BY <2>5, <3>4, <3>5, NodeWalk DEF c
    <3>7. ClipOffset[b][p] = TimeBefore(b, i) + ClipOffset[c][q]
      BY <2>5, <3>4, <3>5, OffsetWalk DEF c
    <3>8. ASSUME NEW ms \in 1 .. CountedTime(Node[b][p])
          PROVE  /\ ClipOffset[b][p] + ms <= DurationMilliseconds[b]
                 /\ ClipOffset[b][p] + ms \in Times => ParallelInTree[b][ClipOffset[b][p] + ms] = p
      <4> DEFINE o == ClipOffset[c][q]
                 begin == TimeBefore(b, i)
                 u == o + ms
      <4>1. ms \in 1 .. CountedTime(Node[c][q]) /\ ms \in Nat /\ ms > 0
        <5>1. CountedTime(Node[c][q]) \in Nat
          BY <3>3, ParallelTimes
        <5> QED
          BY <3>6, <5>1
      <4>2. u <= DurationMilliseconds[c] /\ (u \in Times => ParallelInTree[c][u] = q)
        BY <3>2, <4>1 DEF Returns
      <4>3. u \in 1 .. KidTimes(b)[i] /\ u \in Nat /\ ClipOffset[b][p] + ms = begin + u
        <5> HIDE DEF begin
        <5>1. begin \in Nat /\ ClipOffset[b][p] = begin + o
          BY <2>3, <3>7 DEF begin
        <5> QED
          BY <3>2, <3>3, <4>1, <4>2, <5>1
      <4> HIDE DEF u, begin
      <4>4. begin \in Nat /\ begin + u <= DurationMilliseconds[b]
        BY <4>3, KidIsAsked DEF begin
      <4>5. ASSUME begin + u \in Times PROVE ParallelInTree[b][begin + u] = p
        <5>1. u \in Times
          BY <4>3, <4>4, <4>5, WordAssumption DEF Times
        <5>2. ParallelInTree[b][begin + u] = Below(i, ParallelInTree[c][u])
          BY <2>5, <4>3, <4>5, KidIsAsked DEF begin, c
        <5>3. Below(i, q) = p
          BY <3>3 DEF Below, NoParallel
        <5> QED
          BY <4>2, <5>1, <5>2, <5>3
      <4> QED
        BY <4>3, <4>4, <4>5
    <3>9. ClipOffset[b][p] \in Nat /\ Node[b][p] \in Par
      BY <2>3, <3>3, <3>6, <3>7
    <3>10. Returns(b, p)
      BY <3>4, <3>8, <3>9, Zenon DEF Returns
    <3> QED
      BY <3>10 DEF p
  <2> QED
    BY <2>1, <2>4, <2>5 DEF p
<1>2. ASSUME NEW b \in Bodies, \A i \in DOMAIN b : b[i].kind = "seq" => b[i].kids \in Returning
      PROVE  b \in Returning
  BY <1>1, <1>2 DEF Returning
<1> HIDE DEF Returning
<1> QED
  BY <1>2, TreeInduction

-----------------------------------------------------------------------------
(***************************************************************************)
(* The time line of a publication                                          *)
(***************************************************************************)
LEMMA EmptyBodies ==
    /\ <<>> \in Bodies /\ <<Silent>> \in Bodies /\ NoOverlay \notin Bodies
    /\ DurationMilliseconds[<<>>] = 0 /\ DurationMilliseconds[<<Silent>>] = 0
<1>0. MaxDepth \in Nat
  BY WordAssumption
<1>1. <<>> \in Bodies /\ <<Silent>> \in Bodies
  <2>1. Trees[0] \subseteq Bodies /\ Trees[0] = Seq(Par)
    BY <1>0, Levels, TreesGrow
  <2>2. <<>> \in Seq(Par) /\ <<Silent>> \in Seq(Par)
    BY SilentIsPar
  <2> QED
    BY <2>1, <2>2
<1>2. NoOverlay \notin Bodies
  <2> SUFFICES ASSUME NoOverlay \in Bodies PROVE FALSE
    OBVIOUS
  <2>1. 1 \in DOMAIN NoOverlay /\ NoOverlay[1].kind = "none"
    BY DEF NoOverlay
  <2>2. NoOverlay[1].kind \in {"par", "seq"}
    BY <2>1, Children
  <2> QED
    BY <2>1, <2>2
<1>3. DurationMilliseconds[<<>>] = 0
  <2>1. KidTimes(<<>>) = <<>>
    BY DEF KidTimes
  <2> QED
    BY <1>1, <2>1, DurationWalk, SumIsNat
<1>4. DurationMilliseconds[<<Silent>>] = 0
  <2> DEFINE b == <<Silent>>
             s == KidTimes(b)
  <2>1. b[1].kind = "par" /\ CountedTime(b[1]) = 0 /\ Len(b) = 1 /\ 1 \in DOMAIN b
    BY DEF Silent, CountedTime, Counts, AllOf
  <2>2. s[1] = 0
    BY <2>1 DEF KidTimes
  <2>3. s \in Seq(Nat) /\ Len(s) = 1 /\ DurationMilliseconds[b] = SumOf(s)
    BY <1>1, <2>1, DurationWalk
  <2> HIDE DEF s, b
  <2>4. SumsOf(s)[0] = 0 /\ \A i \in 1 .. 1 : SumsOf(s)[i] = SumsOf(s)[i - 1] + s[i]
    BY <2>3, Sums
  <2>5. SumsOf(s)[1] = 0
    BY <2>2, <2>4
  <2>6. DurationMilliseconds[b] = 0
    BY <2>3, <2>5 DEF SumOf
  <2> QED
    BY <2>6 DEF b
<1> QED
  BY <1>1, <1>2, <1>3, <1>4

LEMMA DocumentTimes ==
    ASSUME NEW docs \in Seq(Bodies \cup {NoOverlay})
    PROVE  /\ DurationsOf(docs) \in Seq(Nat) /\ Len(DurationsOf(docs)) = Len(docs)
           /\ \A i \in 1 .. Len(docs) : docs[i] # NoOverlay => DurationsOf(docs)[i] = DurationMilliseconds[docs[i]]
<1> DEFINE c(i) == IF docs[i] = NoOverlay THEN 0 ELSE DurationMilliseconds[docs[i]]
<1>1. DOMAIN docs = 1 .. Len(docs) /\ Len(docs) \in Nat /\ \A i \in 1 .. Len(docs) : docs[i] \in Bodies \cup {NoOverlay}
  OBVIOUS
<1>2. \A i \in 1 .. Len(docs) : c(i) \in Nat
  BY <1>1, DurationWalk
<1>3. DurationsOf(docs) = [i \in 1 .. Len(docs) |-> c(i)]
  BY <1>1 DEF DurationsOf
<1>4. \A i \in 1 .. Len(docs) : DurationsOf(docs)[i] = c(i)
  BY <1>3
<1>5. DurationsOf(docs) \in Seq(Nat) /\ Len(DurationsOf(docs)) = Len(docs)
  <2> HIDE DEF c
  <2> QED
    BY <1>1, <1>2, <1>3
<1> QED
  BY <1>4, <1>5

\* A document lasts no longer than all of them.
LEMMA DocumentFits ==
    ASSUME NEW docs \in Seq(Bodies), NEW i \in 1 .. Len(docs)
    PROVE  DurationMilliseconds[docs[i]] <= SumOf(DurationsOf(docs))
<1> DEFINE s == DurationsOf(docs)
<1>1. docs \in Seq(Bodies \cup {NoOverlay}) /\ docs[i] \in Bodies /\ docs[i] # NoOverlay
  BY EmptyBodies
<1>2. s \in Seq(Nat) /\ Len(s) = Len(docs) /\ s[i] = DurationMilliseconds[docs[i]]
  BY <1>1, DocumentTimes
<1> HIDE DEF s
<1>3. /\ i - 1 \in 0 .. Len(s) /\ i \in 0 .. Len(s)
      /\ SumsOf(s) \in [0 .. Len(s) -> Nat] /\ SumsOf(s)[i] = SumsOf(s)[i - 1] + s[i]
  <2>1. i \in 1 .. Len(s) /\ i - 1 \in 0 .. Len(s) /\ i \in 0 .. Len(s)
    BY <1>2
  <2> QED
    BY <1>2, <2>1, Sums
<1>4. SumsOf(s)[i] <= SumOf(s) /\ SumOf(s) \in Nat
  BY <1>2, <1>3, SumsGrow, SumIsNat
<1>5. i \in 1 .. Len(s)
  BY <1>2
<1> DEFINE a == SumsOf(s)[i - 1]
           b == SumsOf(s)[i]
<1>6. a \in Nat /\ b = a + s[i] /\ s[i] \in Nat
  BY <1>2, <1>3, <1>5
<1> HIDE DEF a
<1>7. s[i] <= SumOf(s)
  BY <1>4, <1>6
<1> QED
  BY <1>2, <1>7 DEF s

\* A position that is one: the document and the parallel whose clip contains
\* the time, and the time in that clip
BeginOf(docs, i) == SumsOf(DurationsOf(docs))[i - 1]
Placed(docs, at, time) ==
    /\ at.smil \in DOMAIN docs
    /\ IsFound(docs[at.smil], time - BeginOf(docs, at.smil), at.par)
    /\ at.ms = time - (BeginOf(docs, at.smil) + ClipOffset[docs[at.smil]][at.par])
    /\ BeginOf(docs, at.smil) \in Nat
    /\ time = 0 \/ BeginOf(docs, at.smil) < time

OverlaysInv ==
    /\ pc \in {"start", "parse", "ready", "threw"}
    /\ book \in Seq(Bodies \cup {NoOverlay}) /\ SumOf(DurationsOf(book)) < Word
    /\ datas \in Seq(Bodies)
    /\ datas = <<>> \/ Len(datas) = Len(book)
    /\ \A i \in 1 .. Len(datas) : datas[i] \in {<<>>, <<Silent>>, book[i]}
    /\ pc = "parse" /\ datas = <<>> => \A i \in 1 .. Len(book) : book[i] = NoOverlay
    /\ next \in Nat \ {0} /\ parsed \in Seq(Nat \X Nat)
    /\ \A k \in 1 .. Len(parsed) :
           /\ parsed[k][1] \in 1 .. Len(datas) /\ parsed[k][1] < next
           /\ parsed[k][2] = ParsedDuration[datas[parsed[k][1]]] % Word
    /\ pc = "start" => parsed = <<>> /\ book = <<>> /\ datas = <<>>

\* The documents answer as the sequences do.
LEMMA DocumentsAnswer ==
    ASSUME NEW docs \in Seq(Bodies), NEW time \in Times, NEW A,
           A = [i \in DOMAIN docs |-> ParallelInTree[docs[i]][Minus(time, BeginOf(docs, i))]]
    PROVE  Answered(DurationsOf(docs), time, A)
<1> DEFINE s == DurationsOf(docs)
<1>1. /\ s \in Seq(Nat) /\ Len(s) = Len(docs) /\ Len(s) \in Nat /\ DOMAIN docs = 1 .. Len(s)
      /\ \A i \in 1 .. Len(s) : docs[i] \in Bodies /\ s[i] = DurationMilliseconds[docs[i]]
  <2>1. docs \in Seq(Bodies \cup {NoOverlay})
    OBVIOUS
  <2>2. \A i \in 1 .. Len(docs) : docs[i] \in Bodies /\ docs[i] # NoOverlay
    BY EmptyBodies
  <2> QED
    BY <2>1, <2>2, DocumentTimes
<1>2. DOMAIN A = 1 .. Len(s)
  BY <1>1
<1>3. ASSUME NEW i \in 1 .. Len(s)
      PROVE  LET begin == SumsOf(s)[i - 1]
             IN /\ s[i] = 0 => A[i] = NoParallel
                /\ begin <= time /\ time - begin > s[i] => A[i] = NoParallel
                /\ begin <= time /\ s[i] > 0 /\ time - begin <= s[i] => A[i] # NoParallel
  <2> DEFINE begin == SumsOf(s)[i - 1]
             u == Minus(time, begin)
             b == docs[i]
             q == ParallelInTree[b][u]
  <2>1. i - 1 \in 0 .. Len(s)
    BY <1>1
  <2>2. BeginOf(docs, i) = begin /\ begin \in Nat
    BY <1>1, <2>1, Sums DEF BeginOf
  <2>3. u \in Times /\ (begin <= time => u = time - begin)
    BY <2>2, NoWrap
  <2>4. A[i] = q
    BY <1>1, <2>2
  <2>5. Lands(b, u) /\ b \in Bodies /\ s[i] = DurationMilliseconds[b] /\ s[i] \in Nat
    BY <1>1, <2>3, AllExplored, DurationWalk DEF Explored
  <2>6. s[i] = 0 \/ u > s[i] => q = NoParallel
    BY <2>5 DEF Lands
  <2>7. s[i] > 0 /\ u <= s[i] => q # NoParallel
    BY <2>5 DEF Lands, IsFound, NoParallel
  <2> HIDE DEF s, b, q, begin, u
  <2>8. s[i] = 0 => A[i] = NoParallel
    BY <2>4, <2>6
  <2>9. begin <= time /\ time - begin > s[i] => A[i] = NoParallel
    BY <2>3, <2>4, <2>6
  <2>10. begin <= time /\ s[i] > 0 /\ time - begin <= s[i] => A[i] # NoParallel
    BY <2>3, <2>4, <2>7
  <2> QED
    BY <2>8, <2>9, <2>10 DEF begin
<1> QED
  BY <1>2, <1>3 DEF Answered

\* PercentToPosition() finds a place for every time, if there is any audio.
LEMMA SeekPlaces ==
    ASSUME datas \in Seq(Bodies), SumOf(DurationsOf(datas)) < Word,
           NEW time \in 0 .. SumOf(DurationsOf(datas))
    PROVE  /\ SumOf(DurationsOf(datas)) > 0 => /\ PositionAt(time) # Nowhere
                                               /\ Placed(datas, PositionAt(time), time)
           /\ SumOf(DurationsOf(datas)) = 0 => PositionAt(time) = Nowhere
<1> DEFINE s == DurationsOf(datas)
           A == [i \in DOMAIN datas |-> ParallelInTree[datas[i]][Minus(time, BeginOf(datas, i))]]
           at == PositionAt(time)
           i == FirstFound(A)
<1>1. /\ s \in Seq(Nat) /\ Len(s) = Len(datas) /\ Len(s) \in Nat /\ DOMAIN datas = 1 .. Len(s)
      /\ \A k \in 1 .. Len(s) : datas[k] \in Bodies /\ s[k] = DurationMilliseconds[datas[k]]
  <2>1. datas \in Seq(Bodies \cup {NoOverlay})
    OBVIOUS
  <2>2. \A k \in 1 .. Len(datas) : datas[k] \in Bodies /\ datas[k] # NoOverlay
    BY EmptyBodies
  <2> QED
    BY <2>1, <2>2, DocumentTimes
<1>2. SumOf(s) \in Nat /\ time \in Nat /\ time <= SumOf(s) /\ time \in Times
  <2>1. SumOf(s) \in Nat /\ SumOf(s) < Word
    BY <1>1, SumIsNat
  <2> HIDE DEF s
  <2>2. time \in 0 .. SumOf(s)
    BY DEF s
  <2> QED
    BY <2>1, <2>2, WordAssumption DEF Times
<1>3. Answered(s, time, A)
  BY <1>2, DocumentsAnswer
<1>4. ParallelAt(time) = [smil |-> i, par |-> IF i = 0 THEN NoParallel ELSE A[i]]
  BY DEF ParallelAt, SumTo, BeginOf
<1>5. at = IF i = 0 THEN Nowhere
           ELSE [smil |-> i, par |-> A[i],
                 ms |-> Minus(time, BeginOf(datas, i) + ClipOffset[datas[i]][A[i]])]
  <2>1. time \in 0 .. Total
    BY <1>1 DEF Total, SumTo, SumOf
  <2> HIDE DEF i, A
  <2>2. ParallelAt(time).smil = i /\ ParallelAt(time).par = IF i = 0 THEN NoParallel ELSE A[i]
    BY <1>4
  <2> QED
    BY <2>1, <2>2 DEF PositionAt, SumTo, BeginOf
<1>6. ASSUME SumOf(s) = 0 PROVE at = Nowhere
  <2>1. i = 0
    <3> HIDE DEF A, s
    <3> QED
      BY <1>1, <1>2, <1>3, <1>6, NoneAnswers
  <2> QED
    BY <1>5, <2>1
<1>7. ASSUME SumOf(s) > 0 PROVE at # Nowhere /\ Placed(datas, at, time)
  <2> DEFINE begin == SumsOf(s)[i - 1]
             b == datas[i]
             p == A[i]
  <2>1. /\ i \in 1 .. Len(s) /\ A[i] # NoParallel /\ s[i] > 0
        /\ begin <= time /\ time - begin <= s[i] /\ (time = 0 \/ begin < time)
    <3> HIDE DEF A, s
    <3> QED
      BY <1>1, <1>2, <1>3, <1>7, FirstAnswers
  <2> HIDE DEF i
  <2>2. begin \in Nat /\ BeginOf(datas, i) = begin
    <3>1. i - 1 \in 0 .. Len(s)
      BY <1>1, <2>1
    <3> QED
      BY <1>1, <3>1, Sums DEF BeginOf
  <2>3. p = ParallelInTree[b][Minus(time, begin)]
    BY <1>1, <2>1, <2>2
  <2>4. b \in Bodies /\ s[i] = DurationMilliseconds[b] /\ i \in DOMAIN datas
    BY <1>1, <2>1
  <2> HIDE DEF begin, b, p, s, A
  <2>5. Minus(time, begin) = time - begin /\ time - begin \in Times
    BY <1>2, <2>1, <2>2, NoWrap
  <2>6. IsFound(b, time - begin, p)
    <3>1. Lands(b, time - begin)
      BY <2>4, <2>5, AllExplored DEF Explored
    <3> QED
      BY <2>1, <2>3, <2>4, <2>5, <3>1 DEF Lands
  <2> DEFINE o == ClipOffset[b][p]
  <2>7. o \in Nat /\ o <= time - begin
    BY <2>6 DEF IsFound
  <2> HIDE DEF o
  <2>8. begin + o \in Nat /\ begin + o <= time
    BY <1>2, <2>2, <2>7
  <2>9. Minus(time, begin + o) = time - (begin + o)
    BY <1>2, <2>8, NoWrap
  <2>10. at = [smil |-> i, par |-> p, ms |-> time - (begin + o)]
    <3>1. i # 0
      BY <1>1, <2>1
    <3>2. at = [smil |-> i, par |-> p, ms |-> Minus(time, begin + o)]
      BY <1>5, <2>2, <3>1 DEF b, p, o
    <3> QED
      BY <2>9, <3>2
  <2> HIDE DEF at
  <2>11. at.smil = i /\ at.par = p /\ at.ms = time - (begin + o)
    BY <2>10
  <2>12. at # Nowhere
    <3>1. Nowhere.smil = 0
      BY DEF Nowhere
    <3> QED
      BY <1>1, <2>1, <2>11, <3>1
  <2>13. Placed(datas, at, time)
    BY <2>1, <2>2, <2>4, <2>6, <2>11 DEF Placed, b, o
  <2> QED
    BY <2>12, <2>13
<1> QED
  BY <1>6, <1>7

\* No document lasts longer than its item of the spine is said to.
LEMMA TotalFits ==
    ASSUME OverlaysInv
    PROVE  Total = SumOf(DurationsOf(datas)) /\ Total \in Nat /\ Total < Word
<1> DEFINE s == DurationsOf(datas)
           t == DurationsOf(book)
<1>1. /\ book \in Seq(Bodies \cup {NoOverlay}) /\ SumOf(t) < Word /\ datas \in Seq(Bodies)
      /\ datas = <<>> \/ Len(datas) = Len(book)
      /\ \A i \in 1 .. Len(datas) : datas[i] \in {<<>>, <<Silent>>, book[i]}
  BY DEF OverlaysInv
<1>2. /\ s \in Seq(Nat) /\ Len(s) = Len(datas)
      /\ \A i \in 1 .. Len(datas) : datas[i] \in Bodies /\ s[i] = DurationMilliseconds[datas[i]]
  <2>1. datas \in Seq(Bodies \cup {NoOverlay})
    BY <1>1
  <2>2. \A i \in 1 .. Len(datas) : datas[i] \in Bodies /\ datas[i] # NoOverlay
    BY <1>1, EmptyBodies
  <2> QED
    BY <2>1, <2>2, DocumentTimes
<1>3. /\ t \in Seq(Nat) /\ Len(t) = Len(book) /\ Len(book) \in Nat
      /\ \A i \in 1 .. Len(book) : t[i] \in Nat /\ (book[i] # NoOverlay => t[i] = DurationMilliseconds[book[i]])
  <2>1. t \in Seq(Nat) /\ Len(t) = Len(book)
    BY <1>1, DocumentTimes
  <2>2. \A i \in 1 .. Len(book) : book[i] # NoOverlay => t[i] = DurationMilliseconds[book[i]]
    BY <1>1, DocumentTimes
  <2> HIDE DEF t
  <2> QED
    BY <2>1, <2>2
<1>4. Total = SumOf(s)
  BY <1>2 DEF Total, SumTo, SumOf
<1>5. SumOf(s) \in Nat /\ SumOf(t) \in Nat
  BY <1>2, <1>3, SumIsNat
<1>6. CASE datas = <<>>
  <2>1. s = <<>>
    BY <1>6 DEF DurationsOf
  <2>2. SumOf(s) = 0
    BY <1>2, <2>1, SumIsNat
  <2> HIDE DEF s
  <2> QED
    BY <1>4, <2>2, WordAssumption DEF s
<1>7. CASE Len(datas) = Len(book)
  <2>1. ASSUME NEW i \in 1 .. Len(s) PROVE s[i] <= t[i]
    <3>1. i \in 1 .. Len(datas) /\ i \in 1 .. Len(book)
      BY <1>2, <1>7
    <3>2. s[i] = DurationMilliseconds[datas[i]] /\ datas[i] \in {<<>>, <<Silent>>, book[i]} /\ datas[i] \in Bodies
      BY <1>1, <1>2, <3>1
    <3>3. t[i] \in Nat /\ (book[i] # NoOverlay => t[i] = DurationMilliseconds[book[i]])
      BY <1>3, <3>1
    <3> HIDE DEF s, t
    <3>4. CASE datas[i] = <<>> \/ datas[i] = <<Silent>>
      BY <3>2, <3>3, <3>4, EmptyBodies
    <3>5. CASE datas[i] = book[i]
      <4>1. book[i] # NoOverlay
        BY <3>2, <3>5, EmptyBodies
      <4>2. s[i] = t[i]
        BY <3>2, <3>3, <3>5, <4>1
      <4> QED
        BY <3>3, <4>2
    <3> QED
      BY <3>2, <3>4, <3>5
  <2>2. Len(s) = Len(t)
    BY <1>2, <1>3, <1>7
  <2> HIDE DEF s, t
  <2>3. SumOf(s) <= SumOf(t)
    BY <1>2, <1>3, <2>1, <2>2, SmallerSums
  <2> QED
    BY <1>1, <1>4, <1>5, <2>3, WordAssumption DEF s
<1> QED
  BY <1>1, <1>6, <1>7

LEMMA OverlaysInitInv == OverlaysInit => OverlaysInv
<1> SUFFICES ASSUME OverlaysInit PROVE OverlaysInv
  OBVIOUS
<1>1. SumOf(DurationsOf(<<>>)) < Word
  <2>1. DurationsOf(<<>>) = <<>> /\ <<>> \in Seq(Nat)
    BY DEF DurationsOf
  <2>2. SumOf(<<>>) = 0
    BY <2>1, SumIsNat
  <2> QED
    BY <2>1, <2>2, WordAssumption
<1> QED
  BY <1>1 DEF OverlaysInit, OverlaysInv

\* Parsing a document replaces the empty body of its spine item.
LEMMA ParsedInv ==
    ASSUME OverlaysInv, ParseSMIL
    PROVE  OverlaysInv'
<1>1. /\ pc = "parse" /\ next <= Len(book) /\ book[next] # NoOverlay
      /\ datas' = [datas EXCEPT ![next] = book[next]]
      /\ parsed' = Append(parsed, <<next, ParsedDuration[book[next]] % Word>>)
      /\ next' = next + 1 /\ pc' = pc /\ book' = book
  BY DEF ParseSMIL
<1>2. /\ book \in Seq(Bodies \cup {NoOverlay}) /\ SumOf(DurationsOf(book)) < Word
      /\ datas \in Seq(Bodies)
      /\ datas = <<>> \/ Len(datas) = Len(book)
      /\ \A i \in 1 .. Len(datas) : datas[i] \in {<<>>, <<Silent>>, book[i]}
      /\ datas = <<>> => \A i \in 1 .. Len(book) : book[i] = NoOverlay
      /\ next \in Nat \ {0} /\ parsed \in Seq(Nat \X Nat)
  BY <1>1 DEF OverlaysInv
<1>3. \A k \in 1 .. Len(parsed) :
          /\ parsed[k][1] \in 1 .. Len(datas) /\ parsed[k][1] < next
          /\ parsed[k][2] = ParsedDuration[datas[parsed[k][1]]] % Word
  BY DEF OverlaysInv
<1>4. next \in 1 .. Len(book) /\ Len(book) \in Nat
  BY <1>1, <1>2
<1>5. book[next] \in Bodies
  BY <1>1, <1>2, <1>4
<1>6. Len(datas) = Len(book) /\ next \in 1 .. Len(datas)
  BY <1>1, <1>2, <1>4
<1> DEFINE c == book[next]
           v == ParsedDuration[c] % Word
<1>7. v \in Nat
  <2>1. ParsedDuration[c] \in Nat
    BY <1>5, ParsedWalk
  <2> HIDE DEF c
  <2>2. \A x \in Nat, w \in Nat : w > 0 => x % w \in Nat
    OBVIOUS
  <2> QED
    BY <2>1, <2>2, WordAssumption
<1>8. /\ datas' \in Seq(Bodies) /\ Len(datas') = Len(datas)
      /\ \A i \in 1 .. Len(datas) : datas'[i] = IF i = next THEN c ELSE datas[i]
  <2> HIDE DEF c
  <2>1. c \in Bodies /\ datas' = [datas EXCEPT ![next] = c]
    BY <1>1, <1>5 DEF c
  <2> QED
    <3> DEFINE d == [datas EXCEPT ![next] = c]
    <3>1. /\ d \in Seq(Bodies) /\ Len(d) = Len(datas)
          /\ \A i \in 1 .. Len(datas) : d[i] = IF i = next THEN c ELSE datas[i]
      BY <1>2, <1>6, <2>1, ExceptSeq
    <3> QED
      BY <2>1, <3>1
<1>9. /\ parsed' \in Seq(Nat \X Nat) /\ Len(parsed') = Len(parsed) + 1 /\ Len(parsed) \in Nat
      /\ \A k \in 1 .. Len(parsed) : parsed'[k] = parsed[k]
      /\ parsed'[Len(parsed) + 1] = <<next, v>>
  <2> DEFINE x == <<next, v>>
             X == Nat \X Nat
  <2>1. x \in X /\ parsed' = Append(parsed, x) /\ parsed \in Seq(X)
    BY <1>1, <1>2, <1>7
  <2> HIDE DEF x, X
  <2>2. /\ parsed' \in Seq(X) /\ Len(parsed') = Len(parsed) + 1 /\ Len(parsed) \in Nat
        /\ \A k \in 1 .. Len(parsed) : parsed'[k] = parsed[k]
        /\ parsed'[Len(parsed) + 1] = x
    BY <2>1
  <2> QED
    BY <2>2 DEF x, X
<1> HIDE DEF v
<1>10. ASSUME NEW k \in 1 .. Len(parsed')
       PROVE  /\ parsed'[k][1] \in 1 .. Len(datas') /\ parsed'[k][1] < next'
              /\ parsed'[k][2] = ParsedDuration[datas'[parsed'[k][1]]] % Word
  <2>1. CASE k = Len(parsed) + 1
    <3>1. parsed'[k][1] = next /\ parsed'[k][2] = v
      BY <1>9, <2>1
    <3>2. datas'[next] = c
      BY <1>6, <1>8
    <3> QED
      BY <1>1, <1>2, <1>6, <1>8, <3>1, <3>2 DEF v
  <2>2. CASE k # Len(parsed) + 1
    <3>1. k \in 1 .. Len(parsed)
      BY <1>9, <2>2
    <3> DEFINE i == parsed[k][1]
    <3>2. parsed'[k] = parsed[k] /\ i \in 1 .. Len(datas) /\ i < next /\ parsed[k][2] = ParsedDuration[datas[i]] % Word
      BY <1>3, <1>9, <3>1
    <3>3. datas'[i] = datas[i]
      <4>1. i # next
        BY <1>2, <3>2
      <4> HIDE DEF i
      <4> QED
        BY <1>8, <3>2, <4>1
    <3>4. i < next + 1
      BY <1>2, <3>2
    <3> QED
      BY <1>1, <1>8, <3>2, <3>3, <3>4
  <2> QED
    BY <2>1, <2>2
<1>11. \A i \in 1 .. Len(datas') : datas'[i] \in {<<>>, <<Silent>>, book[i]}
  BY <1>2, <1>8
<1>12. datas' # <<>>
  BY <1>6, <1>8
<1>13. next' \in Nat \ {0}
  BY <1>1, <1>2
<1> HIDE DEF c
<1> QED
  BY <1>1, <1>2, <1>6, <1>8, <1>9, <1>10, <1>11, <1>12, <1>13 DEF OverlaysInv

\* The bodies parseMetadata() makes
LEMMA MetadataInv ==
    ASSUME OverlaysInv, NEW b \in Books, ParseMetadata(b)
    PROVE  OverlaysInv'
<1>1. /\ pc = "start" /\ book' = b /\ pc' = "parse" /\ next' = next /\ parsed' = parsed
      /\ datas' = IF \A i \in DOMAIN b : b[i] = NoOverlay THEN <<>>
                  ELSE [i \in DOMAIN b |-> IF b[i] = NoOverlay THEN <<Silent>> ELSE <<>>]
  BY DEF ParseMetadata
<1>2. parsed = <<>> /\ next \in Nat \ {0}
  BY <1>1 DEF OverlaysInv
<1>3. b \in Seq(Bodies \cup {NoOverlay}) /\ SumOf(DurationsOf(b)) < Word
  BY BooksAssumption
<1>4. DOMAIN b = 1 .. Len(b) /\ Len(b) \in Nat
  BY <1>3
<1>5. parsed' \in Seq(Nat \X Nat) /\ Len(parsed') = 0
  BY <1>1, <1>2
<1>6. CASE \A i \in DOMAIN b : b[i] = NoOverlay
  <2>1. datas' = <<>>
    BY <1>1, <1>6
  <2> QED
    BY <1>1, <1>2, <1>3, <1>4, <1>5, <1>6, <2>1 DEF OverlaysInv
<1>7. CASE ~\A i \in DOMAIN b : b[i] = NoOverlay
  <2> DEFINE c(i) == IF b[i] = NoOverlay THEN <<Silent>> ELSE <<>>
  <2>1. datas' = [i \in 1 .. Len(b) |-> c(i)]
    BY <1>1, <1>4, <1>7
  <2>2. \A i \in 1 .. Len(b) : c(i) \in Bodies /\ c(i) \in {<<>>, <<Silent>>}
    BY EmptyBodies
  <2> HIDE DEF c
  <2>3. datas' \in Seq(Bodies) /\ Len(datas') = Len(b) /\ \A i \in 1 .. Len(b) : datas'[i] = c(i)
    BY <1>4, <2>1, <2>2
  <2>4. \A i \in 1 .. Len(datas') : datas'[i] \in {<<>>, <<Silent>>, book'[i]}
    BY <2>2, <2>3
  <2>5. datas' # <<>>
    <3>1. Len(b) # 0
      BY <1>4, <1>7
    <3> QED
      BY <2>3, <3>1
  <2> QED
    BY <1>1, <1>2, <1>3, <1>5, <2>3, <2>4, <2>5 DEF OverlaysInv
<1> QED
  BY <1>6, <1>7

LEMMA OverlaysNextInv == OverlaysInv /\ [OverlaysNext]_overlays => OverlaysInv'
<1> SUFFICES ASSUME OverlaysInv, [OverlaysNext]_overlays PROVE OverlaysInv'
  OBVIOUS
<1>1. ASSUME NEW b \in Books, ParseMetadata(b) PROVE OverlaysInv'
  BY <1>1, MetadataInv
<1>2. ASSUME Skip PROVE OverlaysInv'
  <2>1. /\ pc = "parse" /\ next' = next + 1 /\ pc' = pc /\ book' = book /\ datas' = datas
        /\ parsed' = parsed
    BY <1>2 DEF Skip
  <2>2. next \in Nat \ {0} /\ parsed \in Seq(Nat \X Nat)
    BY <2>1 DEF OverlaysInv
  <2>3. next' \in Nat \ {0}
    BY <2>1, <2>2
  <2>4. ASSUME NEW k \in 1 .. Len(parsed)
        PROVE  /\ parsed[k][1] \in 1 .. Len(datas) /\ parsed[k][1] < next'
               /\ parsed[k][2] = ParsedDuration[datas[parsed[k][1]]] % Word
    <3>1. /\ parsed[k][1] \in 1 .. Len(datas) /\ parsed[k][1] < next
          /\ parsed[k][2] = ParsedDuration[datas[parsed[k][1]]] % Word
      BY DEF OverlaysInv
    <3>2. parsed[k][1] \in Nat
      BY <3>1
    <3>3. parsed[k][1] < next + 1
      BY <2>2, <3>1, <3>2
    <3> QED
      BY <2>1, <3>1, <3>3
  <2> QED
    BY <2>1, <2>2, <2>3, <2>4 DEF OverlaysInv
<1>3. ASSUME ParseSMIL PROVE OverlaysInv'
  BY <1>3, ParsedInv
<1>4. ASSUME NEW how \in {"ready", "threw"}, pc' = how, pc = "parse",
             UNCHANGED <<book, datas, next, parsed>>
      PROVE  OverlaysInv'
  BY <1>4 DEF OverlaysInv
<1>5. ASSUME ParseEnds PROVE OverlaysInv'
  BY <1>4, <1>5 DEF ParseEnds
<1>6. ASSUME NEW how \in {"ready", "threw"}, ParseStops(how) PROVE OverlaysInv'
  BY <1>4, <1>6 DEF ParseStops
<1>7. ASSUME UNCHANGED overlays PROVE OverlaysInv'
  <2>1. pc' = pc /\ book' = book /\ datas' = datas /\ next' = next /\ parsed' = parsed
    BY <1>7 DEF overlays
  <2> QED
    BY <2>1 DEF OverlaysInv
<1> QED
  BY <1>1, <1>2, <1>3, <1>5, <1>6, <1>7 DEF OverlaysNext

THEOREM OverlaysInvariance == OverlaysSpec => []OverlaysInv
  BY OverlaysInitInv, OverlaysNextInv, PTL DEF OverlaysSpec

LEMMA SeeksLand == OverlaysInv => SeekLandsInClip
<1> SUFFICES ASSUME OverlaysInv, Total > 0, NEW time \in 0 .. Total
             PROVE  LET at == PositionAt(time)
                        clip == CountedTime(Node[datas[at.smil]][at.par])
                    IN at # Nowhere /\ at.ms <= clip /\ (at.ms > 0 \/ time = 0)
  BY DEF SeekLandsInClip
<1> DEFINE at == PositionAt(time)
           b == datas[at.smil]
           begin == BeginOf(datas, at.smil)
           o == ClipOffset[b][at.par]
           clip == CountedTime(Node[b][at.par])
<1>1. Total = SumOf(DurationsOf(datas)) /\ Total \in Nat /\ Total < Word /\ datas \in Seq(Bodies)
  BY TotalFits DEF OverlaysInv
<1>2. at # Nowhere /\ Placed(datas, at, time)
  BY <1>1, SeekPlaces
<1> HIDE DEF at
<1>3. /\ IsFound(b, time - begin, at.par) /\ at.ms = time - (begin + o) /\ begin \in Nat
      /\ time = 0 \/ begin < time
  BY <1>2 DEF Placed
<1>4. /\ o \in Nat /\ o <= time - begin /\ (time - begin) - o <= clip
      /\ time - begin = 0 \/ o < time - begin
  BY <1>3 DEF IsFound
<1>5. Node[b][at.par] \in Par
  BY <1>3 DEF IsFound
<1>6. clip \in Nat
  BY <1>5, ParallelTimes
<1>7. time \in Nat
  BY <1>1
<1> HIDE DEF b, begin, o, clip
<1>8. at.ms <= clip /\ (at.ms > 0 \/ time = 0)
  BY <1>3, <1>4, <1>6, <1>7
<1> QED
  BY <1>2, <1>8 DEF at, b, clip

\* PercentToPosition() leads to the place whose time it is given.
LEMMA PlacesReturn == OverlaysInv => PlaceComesBack
<1> SUFFICES ASSUME OverlaysInv, NEW smil \in DOMAIN datas, NEW k \in DOMAIN Parallels[datas[smil]],
                    NEW ms \in 1 .. CountedTime(Node[datas[smil]][Parallels[datas[smil]][k]])
             PROVE  PositionAt(PositionToTime(smil, k - 1, ms)) =
                        [smil |-> smil, par |-> Parallels[datas[smil]][k], ms |-> ms]
  BY DEF PlaceComesBack
<1> DEFINE b == datas[smil]
           par == Parallels[b][k]
           s == DurationsOf(datas)
           begin == BeginOf(datas, smil)
           o == ClipOffset[b][par]
           u == o + ms
           time == begin + o + ms
           A == [i \in DOMAIN datas |-> ParallelInTree[datas[i]][Minus(time, BeginOf(datas, i))]]
<1>1. Total = SumOf(s) /\ Total \in Nat /\ Total < Word /\ datas \in Seq(Bodies) /\ Word \in Nat
  BY TotalFits, WordAssumption DEF OverlaysInv
<1>2. b \in Bodies /\ b # NoOverlay /\ DOMAIN datas = 1 .. Len(datas) /\ Len(datas) \in Nat
  BY <1>1, EmptyBodies
<1>3. s \in Seq(Nat) /\ Len(s) = Len(datas) /\ s[smil] = DurationMilliseconds[b]
  <2>1. datas \in Seq(Bodies \cup {NoOverlay})
    BY <1>1
  <2> QED
    BY <1>2, <2>1, DocumentTimes
<1>4. smil \in 1 .. Len(s) /\ smil - 1 \in 0 .. Len(s) /\ smil \in 0 .. Len(s) /\ smil # 0
  BY <1>2, <1>3
<1>5. /\ begin = SumsOf(s)[smil - 1] /\ begin \in Nat
      /\ SumsOf(s)[smil] = begin + s[smil] /\ SumsOf(s)[smil] <= SumOf(s) /\ s[smil] \in Nat
  <2> HIDE DEF s
  <2>1. /\ SumsOf(s)[smil - 1] \in Nat /\ SumsOf(s)[smil] = SumsOf(s)[smil - 1] + s[smil]
        /\ SumsOf(s)[smil] <= SumOf(s) /\ s[smil] \in Nat
    BY <1>3, <1>4, Sums, SumsGrow
  <2> QED
    BY <2>1 DEF BeginOf, s
<1>6. Returns(b, par)
  BY <1>2, AllReturn DEF Returning
<1>7. par # NoParallel /\ o \in Nat /\ Node[b][par] \in Par
  BY <1>6 DEF Returns, NoParallel
<1>8. ms \in 1 .. CountedTime(Node[b][par]) /\ ms \in Nat /\ ms > 0
  <2>1. CountedTime(Node[b][par]) \in Nat
    BY <1>7, ParallelTimes
  <2> QED
    BY <2>1
<1>9. u <= s[smil] /\ (u \in Times => ParallelInTree[b][u] = par)
  BY <1>3, <1>6, <1>8 DEF Returns
<1> HIDE DEF begin, o, s
<1>10. /\ time \in Nat /\ time <= Total /\ time \in Times /\ u \in Times
       /\ begin < time /\ time <= begin + s[smil] /\ time - begin = u /\ begin <= time
       /\ time - (begin + o) = ms /\ begin + o \in Nat /\ begin + o <= time
  <2> DEFINE d == s[smil]
  <2>1. /\ begin \in Nat /\ o \in Nat /\ ms \in Nat /\ ms > 0 /\ d \in Nat
        /\ o + ms <= d /\ begin + d <= Total
    BY <1>1, <1>5, <1>7, <1>8, <1>9
  <2> HIDE DEF d
  <2>2. /\ time \in Nat /\ u \in Nat /\ u <= d /\ time = begin + u
        /\ time - (begin + o) = ms /\ begin + o \in Nat /\ begin + o <= time /\ u > 0
    BY ONLY <2>1
  <2> HIDE DEF time, u
  <2>3. begin < time /\ time <= begin + d /\ time - begin = u /\ begin <= time
    BY ONLY <2>1, <2>2
  <2>4. time <= Total /\ u <= time
    BY ONLY <1>1, <2>1, <2>2
  <2>5. time \in Times /\ u \in Times
    BY ONLY <1>1, <2>2, <2>4 DEF Times
  <2> QED
    BY <2>2, <2>3, <2>4, <2>5 DEF d
<1>11. PositionToTime(smil, k - 1, ms) = time
  <2>1. NthParallel(b, k - 1) = par
    <3>1. k \in Nat
      <4>1. Parallels[b] \in Seq(Seq(Nat))
        BY <1>2, AllExplored DEF Explored
      <4> QED
        BY <4>1
    <3>2. (k - 1) - FirstCount + 1 = k
      BY <3>1 DEF FirstCount
    <3> QED
      BY <3>2 DEF NthParallel
  <2>2. PositionToTime(smil, k - 1, ms) = time % Word
    BY <1>7, <2>1 DEF PositionToTime, SumTo, BeginOf, begin, o
  <2> HIDE DEF time
  <2>3. \A x \in Nat, w \in Nat : x \in 0 .. w - 1 => x % w = x
    OBVIOUS
  <2>4. time % Word = time
    BY <1>1, <1>10, <2>3 DEF Times
  <2> QED
    BY <2>2, <2>4
<1> HIDE DEF time, u
<1>12. Answered(s, time, A)
  BY <1>1, <1>10, DocumentsAnswer DEF s
<1>13. FirstFound(A) = smil
  <2> HIDE DEF A
  <2> QED
    BY <1>3, <1>4, <1>5, <1>10, <1>12, OnlyAnswer
<1>14. A[smil] = par
  <2>1. Minus(time, begin) = u
    BY <1>5, <1>10, NoWrap
  <2>2. A[smil] = ParallelInTree[b][Minus(time, begin)]
    BY DEF begin
  <2> QED
    BY <1>9, <1>10, <2>1, <2>2
<1>15. ParallelAt(time).smil = smil /\ ParallelAt(time).par = par
  <2>1. ParallelAt(time) = [smil |-> FirstFound(A), par |-> IF FirstFound(A) = 0 THEN NoParallel ELSE A[FirstFound(A)]]
    BY DEF ParallelAt, SumTo, BeginOf
  <2> HIDE DEF A
  <2> QED
    BY <1>4, <1>13, <1>14, <2>1
<1>16. Minus(time, begin + o) = ms
  BY <1>10, NoWrap
<1>17. PositionAt(time) = [smil |-> smil, par |-> par, ms |-> ms]
  <2>1. time \in 0 .. Total
    BY <1>1, <1>10
  <2>2. PositionAt(time) = [smil |-> smil, par |-> par, ms |-> Minus(time, begin + o)]
    BY <1>4, <1>15, <2>1 DEF PositionAt, SumTo, BeginOf, begin, o
  <2> QED
    BY <1>16, <2>2
<1> QED
  BY <1>11, <1>17

LEMMA DurationsMatch == OverlaysInv => DurationsAgree
<1> SUFFICES ASSUME OverlaysInv, NEW k \in DOMAIN parsed, AllRegular[datas[parsed[k][1]]]
             PROVE  parsed[k][2] = DurationMilliseconds[datas[parsed[k][1]]]
  BY DEF DurationsAgree
<1>1. k \in 1 .. Len(parsed)
  BY DEF OverlaysInv
<1> DEFINE b == datas[parsed[k][1]]
           i == parsed[k][1]
<1>2. i \in 1 .. Len(datas) /\ parsed[k][2] = ParsedDuration[b] % Word /\ datas \in Seq(Bodies)
  BY <1>1 DEF OverlaysInv
<1>3. b \in Bodies /\ b # NoOverlay
  BY <1>2, EmptyBodies
<1>4. ParsedDuration[b] = DurationMilliseconds[b] /\ DurationMilliseconds[b] \in Nat
  BY <1>3, SameDuration, DurationWalk
<1>5. DurationMilliseconds[b] <= SumOf(DurationsOf(datas))
  BY <1>2, DocumentFits
<1>6. DurationMilliseconds[b] \in 0 .. Word - 1
  BY <1>4, <1>5, TotalFits, WordAssumption
<1> HIDE DEF b
<1>7. \A x \in Nat, w \in Nat : x \in 0 .. w - 1 => x % w = x
  OBVIOUS
<1>8. parsed[k][2] = DurationMilliseconds[b]
  BY <1>2, <1>4, <1>6, <1>7, WordAssumption
<1> QED
  BY <1>8 DEF b

\* Every time of a publication has a position in the clip it names, however
\* its documents are nested and wherever their parsing has stopped.
THEOREM EverySeekLands == OverlaysSpec => []SeekLandsInClip
  BY OverlaysInvariance, SeeksLand, PTL

\* A place that is kept as a percentage is where that percentage leads,
\* however the documents are nested and wherever their parsing has stopped.
THEOREM EveryPlaceReturns == OverlaysSpec => []PlaceComesBack
  BY OverlaysInvariance, PlacesReturn, PTL

\* The duration added up while a document is parsed is that of its tree.
THEOREM DurationsAlwaysAgree == OverlaysSpec => []DurationsAgree
  BY OverlaysInvariance, DurationsMatch, PTL

\* The two side by side are each of the two.
THEOREM SideBySide == Spec => CFISpec /\ OverlaysSpec
<1>1. Init => CFIInit /\ OverlaysInit
  BY DEF Init
<1>2. [Next]_<<fragment, overlays>> => [CFINext]_fragment /\ [OverlaysNext]_overlays
  BY DEF Next
<1> QED
  BY <1>1, <1>2, PTL DEF Spec, CFISpec, OverlaysSpec
=============================================================================
