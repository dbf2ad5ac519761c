-------------------------- MODULE FilterChainProofs --------------------------
(***************************************************************************)
(* Proofs about FilterChain, for any number of filters, of any priorities  *)
(* and kinds, and for a resource of any size: reading only moves bytes,    *)
(* every byte has been through all the filters that apply in the order of  *)
(* their priorities, and a byte range is a slice of the filtered resource. *)
(***************************************************************************)
EXTENDS FilterChain, FiniteSetTheorems, SequenceTheorems, WellFoundedInduction, TLAPS

-----------------------------------------------------------------------------
(***************************************************************************)
(* Induction over the passes of a loop                                     *)
(***************************************************************************)
\* A set of numbers has a least one.
LEMMA LeastNat ==
    ASSUME NEW T, T \subseteq Nat, T # {}
    PROVE  \E x \in T : \A y \in T : x <= y
<1>1. PICK x \in T : \A y \in T : ~(<<y, x>> \in OpToRel(<, Nat))
  BY NatLessThanWellFounded, WFMin
<1>2. \A y \in T : <<y, x>> \in OpToRel(<, Nat) <=> y < x
  BY DEF OpToRel
<1>3. \A y \in T : ~(y < x)
  BY <1>1, <1>2, Zenon
<1> QED
  BY <1>3

\* What holds before a loop of n passes, and after a pass if it held before
\* the pass, holds after each pass: a first pass that breaks it is impossible.
LEMMA Passes ==
    ASSUME NEW n \in Nat, NEW G, 0 \in G, \A i \in 1 .. n : i - 1 \in G => i \in G
    PROVE  \A i \in 0 .. n : i \in G
<1> DEFINE T == {i \in 0 .. n : i \notin G}
<1> SUFFICES ASSUME T # {} PROVE FALSE
  OBVIOUS
<1>1. PICK x \in T : \A y \in T : x <= y
  <2>1. T \subseteq Nat
    OBVIOUS
  <2> HIDE DEF T
  <2> QED
    BY <2>1, LeastNat
<1>2. x \in 1 .. n /\ x \notin G
  BY <1>1
<1>3. x - 1 \notin T
  BY <1>1, <1>2
<1> QED
  BY <1>2, <1>3

\* A loop of n passes, of which pass i turns d into g[i][d], has a result
\* after each pass.
Steps(D, n) == [1 .. n -> [D -> D]]
Results(D, a, n, g) == {r \in [0 .. n -> D] : r[0] = a /\ \A i \in 1 .. n : r[i] = g[i][r[i - 1]]}

LEMMA LoopHasResults ==
    ASSUME NEW D, NEW a \in D, NEW n \in Nat, NEW g \in Steps(D, n)
    PROVE  \E r : r \in Results(D, a, n, g)
<1> USE DEF Steps
<1> DEFINE Good(m, r) == r[0] = a /\ \A i \in 1 .. m : r[i] = g[i][r[i - 1]]
           Has(m) == \E r \in [0 .. m -> D] : Good(m, r)
           G == {m \in 0 .. n : Has(m)}
<1>1. Has(0)
  <2>1. [i \in 0 .. 0 |-> a] \in [0 .. 0 -> D] /\ Good(0, [i \in 0 .. 0 |-> a])
    OBVIOUS
  <2> HIDE DEF Good
  <2> QED
    BY <2>1
<1>2. ASSUME NEW m \in 1 .. n, Has(m - 1) PROVE Has(m)
  <2>1. PICK r \in [0 .. m - 1 -> D] : Good(m - 1, r)
    BY <1>2
  <2> DEFINE s == [i \in 0 .. m |-> IF i = m THEN g[m][r[m - 1]] ELSE r[i]]
  <2>2. s \in [0 .. m -> D]
    OBVIOUS
  <2>3. \A i \in 0 .. m - 1 : s[i] = r[i]
    OBVIOUS
  <2>4. s[m] = g[m][s[m - 1]]
    OBVIOUS
  <2>5. Good(m, s)
    BY <2>1, <2>3, <2>4
  <2> HIDE DEF Good, s
  <2> QED
    BY <2>2, <2>5
<1> HIDE DEF Has
<1>3. 0 \in G /\ \A m \in 1 .. n : m - 1 \in G => m \in G
  BY <1>1, <1>2
<1>4. n \in G
  <2> HIDE DEF G
  <2>1. \A i \in 0 .. n : i \in G
    BY ONLY <1>3, Passes, n \in Nat
  <2> QED
    BY <2>1
<1> QED
  BY <1>4 DEF Has, Results

-----------------------------------------------------------------------------
(***************************************************************************)
(* The filters that apply                                                  *)
(***************************************************************************)
\* The loop of GetFilterChainByteStream(): what it has after each pass
LEMMA ApplyingLoop ==
    ASSUME NEW c \in Seq(Filters)
    PROVE  \E t : /\ t[0] = <<>>
                  /\ \A i \in 1 .. Len(c) :
                         t[i] = IF c[i] \in sniffs THEN Append(t[i - 1], c[i]) ELSE t[i - 1]
                  /\ Applying(c) = t[Len(c)]
<1> DEFINE D == Seq(Filters)
           n == Len(c)
           a == <<>>
           Pass(i, d) == IF c[i] \in sniffs THEN Append(d, c[i]) ELSE d
           g == [i \in 1 .. n |-> [d \in D |-> Pass(i, d)]]
           Body(t) == [i \in 0 .. n |-> IF i = 0 THEN a ELSE Pass(i, t[i - 1])]
           t == CHOOSE t : t = Body(t)
<1>1. n \in Nat /\ a \in D /\ \A i \in 1 .. n : \A d \in D : Pass(i, d) \in D
  OBVIOUS
<1>2. Applying(c) = t[n]
  BY DEF Applying
<1> HIDE DEF n, D, a, Pass
<1>3. \A i \in 1 .. n : \A d \in D : g[i][d] = Pass(i, d)
  OBVIOUS
<1> HIDE DEF g
<1>4. \E r : r \in Results(D, a, n, g)
  <2>1. g \in Steps(D, n)
    BY <1>1 DEF Steps, g
  <2> QED
    BY ONLY <1>1, <2>1, LoopHasResults
<1>5. \E r : r = Body(r)
  <2>1. PICK r \in [0 .. n -> D] : r[0] = a /\ \A i \in 1 .. n : r[i] = g[i][r[i - 1]]
    BY <1>4 DEF Results
  <2>2. \A i \in 1 .. n : r[i] = Pass(i, r[i - 1])
    BY <1>1, <1>3, <2>1
  <2> DEFINE b == Body(r)
  <2>3. /\ b[0] = a /\ \A i \in 1 .. n : b[i] = Pass(i, r[i - 1])
        /\ DOMAIN b = 0 .. n /\ b = [i \in DOMAIN b |-> b[i]]
    BY <1>1
  <2> HIDE DEF b
  <2>4. \A i \in 0 .. n : i = 0 \/ i \in 1 .. n
    BY <1>1
  <2>5. \A i \in 0 .. n : r[i] = b[i]
    BY <2>1, <2>2, <2>3, <2>4
  <2>6. r = b
    BY <2>1, <2>3, <2>5
  <2> QED
    BY <2>6 DEF b
<1>6. t = Body(t)
  BY <1>5
<1> HIDE DEF t
<1>7. t[0] = a /\ \A i \in 1 .. n : t[i] = Pass(i, t[i - 1])
  <2>1. Body(t)[0] = a /\ \A i \in 1 .. n : Body(t)[i] = Pass(i, t[i - 1])
    BY <1>1
  <2> HIDE DEF Body
  <2> QED
    BY <1>6, <2>1
<1> QED
  BY <1>2, <1>7 DEF n, a, Pass

\* In the order of the priorities, which are then all different
Sorted(s) == \A i, j \in 1 .. Len(s) : i < j => priority[s[i]] > priority[s[j]]

\* The filters that apply are those of the chain that sniff the item, in the
\* order of the chain.
LEMMA ApplyingProps ==
    ASSUME NEW c \in Seq(Filters), Sorted(c)
    PROVE  /\ Applying(c) \in Seq(Filters) /\ Sorted(Applying(c))
           /\ \A k \in 1 .. Len(Applying(c)) : \E j \in 1 .. Len(c) :
                  Applying(c)[k] = c[j] /\ c[j] \in sniffs
           /\ \A j \in 1 .. Len(c) : c[j] \in sniffs => \E k \in 1 .. Len(Applying(c)) : Applying(c)[k] = c[j]
<1>1. PICK t : /\ t[0] = <<>>
               /\ \A i \in 1 .. Len(c) :
                      t[i] = IF c[i] \in sniffs THEN Append(t[i - 1], c[i]) ELSE t[i - 1]
               /\ Applying(c) = t[Len(c)]
  BY ApplyingLoop
<1> DEFINE Selects(s, i) ==
               /\ s \in Seq(Filters) /\ Sorted(s)
               /\ \A k \in 1 .. Len(s) : \E j \in 1 .. i : s[k] = c[j] /\ c[j] \in sniffs
               /\ \A j \in 1 .. i : c[j] \in sniffs => \E k \in 1 .. Len(s) : s[k] = c[j]
           G == {i \in 0 .. Len(c) : Selects(t[i], i)}
<1>2. Selects(t[0], 0)
  BY <1>1 DEF Sorted
<1>3. ASSUME NEW i \in 1 .. Len(c), Selects(t[i - 1], i - 1) PROVE Selects(t[i], i)
  <2> DEFINE s == t[i - 1]
  <2>1. CASE c[i] \notin sniffs
    <3>1. t[i] = s
      BY <1>1, <2>1
    <3> HIDE DEF s
    <3>2. Selects(s, i)
      BY <1>3, <2>1 DEF s
    <3> QED
      BY <3>1, <3>2
  <2>2. CASE c[i] \in sniffs
    <3>1. t[i] = Append(s, c[i])
      BY <1>1, <2>2
    <3>2. Selects(s, i - 1)
      BY <1>3
    <3> HIDE DEF s
    <3>3. /\ Append(s, c[i]) \in Seq(Filters) /\ Len(Append(s, c[i])) = Len(s) + 1
          /\ Append(s, c[i])[Len(s) + 1] = c[i]
          /\ \A k \in 1 .. Len(s) : Append(s, c[i])[k] = s[k]
      BY <3>2
    <3> DEFINE u == Append(s, c[i])
    <3> HIDE DEF u
    <3>4. /\ u \in Seq(Filters) /\ Len(u) = Len(s) + 1 /\ u[Len(s) + 1] = c[i]
          /\ \A k \in 1 .. Len(s) : u[k] = s[k]
          /\ Len(s) \in Nat /\ Len(c) \in Nat
      BY <3>2, <3>3 DEF u
    <3>5. \A k \in 1 .. Len(u) : \E j \in 1 .. i : u[k] = c[j] /\ c[j] \in sniffs
      BY <2>2, <3>2, <3>4
    <3>6. \A j \in 1 .. i : c[j] \in sniffs => \E k \in 1 .. Len(u) : u[k] = c[j]
      <4> SUFFICES ASSUME NEW j \in 1 .. i, c[j] \in sniffs PROVE \E k \in 1 .. Len(u) : u[k] = c[j]
        OBVIOUS
      <4>1. CASE j = i
        BY <3>4, <4>1
      <4>2. CASE j < i
        <5>1. PICK k \in 1 .. Len(s) : s[k] = c[j]
          BY <3>2, <4>2
        <5> QED
          BY <3>4, <5>1
      <4> QED
        BY <4>1, <4>2
    <3>7. Sorted(u)
      <4> SUFFICES ASSUME NEW k \in 1 .. Len(u), NEW l \in 1 .. Len(u), k < l
                   PROVE  priority[u[k]] > priority[u[l]]
        BY DEF Sorted
      <4>0. k \in 1 .. Len(s) /\ u[k] = s[k]
        BY <3>4
      <4>1. CASE l <= Len(s)
        <5>1. Sorted(s) /\ l \in 1 .. Len(s)
          BY <3>2, <3>4, <4>1
        <5>2. u[l] = s[l]
          BY <3>4, <5>1
        <5> QED
          BY <4>0, <5>1, <5>2 DEF Sorted
      <4>2. CASE l = Len(s) + 1
        <5>1. PICK j \in 1 .. i - 1 : s[k] = c[j]
          BY <3>2, <4>0
        <5> QED
          BY <3>4, <4>0, <4>2, <5>1 DEF Sorted
      <4> QED
        BY <3>4, <4>1, <4>2
    <3>8. Selects(u, i)
      BY <3>4, <3>5, <3>6, <3>7
    <3> QED
      BY <3>1, <3>8 DEF u
  <2> QED
    BY <2>1, <2>2
<1> HIDE DEF Selects
<1>4. 0 \in G /\ (\A i \in 1 .. Len(c) : i - 1 \in G => i \in G) /\ Len(c) \in Nat
  BY <1>2, <1>3
<1>5. Len(c) \in G
  <2> HIDE DEF G
  <2>1. \A i \in 0 .. Len(c) : i \in G
    BY ONLY <1>4, Passes
  <2> QED
    BY <1>4, <2>1
<1>6. Selects(Applying(c), Len(c))
  BY <1>1, <1>5
<1> QED
  BY <1>6 DEF Selects

-----------------------------------------------------------------------------
(***************************************************************************)
(* What the filters do to the bytes                                        *)
(***************************************************************************)
Bytes == [at : 1 .. Size, by : Seq(Filters)]

\* The variables that do not change
Configured ==
    /\ kind \in [Filters -> Kinds] /\ priority \in [Filters -> Priorities]
    /\ readable \in 0 .. Size

\* A filter marks each byte and moves none.
LEMMA MarkProps ==
    ASSUME NEW f \in Filters, NEW data \in Seq(Bytes)
    PROVE  /\ Mark(f, data) \in Seq(Bytes) /\ Len(Mark(f, data)) = Len(data)
           /\ \A i \in 1 .. Len(data) : /\ Mark(f, data)[i] = [at |-> data[i].at, by |-> Append(data[i].by, f)]
                                        /\ Mark(f, data)[i].by = Append(data[i].by, f)
<1>1. Len(data) \in Nat /\ \A i \in 1 .. Len(data) : data[i] \in Bytes
  OBVIOUS
<1>2. \A i \in 1 .. Len(data) : /\ [data[i] EXCEPT !.by = Append(@, f)] = [at |-> data[i].at, by |-> Append(data[i].by, f)]
                                /\ [data[i] EXCEPT !.by = Append(@, f)] \in Bytes
  <2> SUFFICES ASSUME NEW b \in Bytes
               PROVE  /\ [b EXCEPT !.by = Append(@, f)] = [at |-> b.at, by |-> Append(b.by, f)]
                      /\ [b EXCEPT !.by = Append(@, f)] \in Bytes
    BY <1>1
  <2>1. b.at \in 1 .. Size /\ b.by \in Seq(Filters)
    BY DEF Bytes
  <2>2. Append(b.by, f) \in Seq(Filters)
    BY <2>1
  <2>3. [b EXCEPT !.by = Append(@, f)] = [at |-> b.at, by |-> Append(b.by, f)]
    <3>1. b = [at |-> b.at, by |-> b.by]
      BY DEF Bytes
    <3> DEFINE x == Append(b.by, f)
    <3> HIDE DEF x
    <3>2. [b EXCEPT !.by = x] = [at |-> b.at, by |-> x]
      BY <3>1
    <3> QED
      BY <3>2 DEF x
  <2> QED
    BY <2>1, <2>2, <2>3 DEF Bytes
<1>3. \A i \in 1 .. Len(data) : Mark(f, data)[i] = [at |-> data[i].at, by |-> Append(data[i].by, f)]
  BY <1>2 DEF Mark
<1>4. Mark(f, data) \in [1 .. Len(data) -> Bytes]
  BY <1>2 DEF Mark
<1>5. Mark(f, data) \in Seq(Bytes) /\ Len(Mark(f, data)) = Len(data)
  BY <1>1, <1>4
<1> QED
  BY <1>3, <1>5

LEMMA RawProps == Raw \in Seq(Bytes) /\ Len(Raw) = Size /\ Raw # <<>> /\ \A i \in 1 .. Size : Raw[i].by = <<>>
<1>1. Raw \in [1 .. Size -> Bytes] /\ Size \in Nat \ {0}
  BY FilterAssumption DEF Raw, Bytes
<1>2. Raw \in Seq(Bytes) /\ Len(Raw) = Size
  BY <1>1
<1> QED
  BY <1>1, <1>2 DEF Raw

LEMMA DrawnProps ==
    ASSUME Configured
    PROVE  DrawnInput \in Seq(Bytes) /\ Alike(DrawnInput)
<1>1. CASE readable = Size
  BY <1>1, RawProps DEF DrawnInput, Alike
<1>2. CASE readable # Size
  <2>1. readable \in Nat /\ Chunk \in Nat \ {0} /\ readable <= Size
    BY FilterAssumption DEF Configured
  <2>2. (readable \div Chunk) * Chunk \in 0 .. Size
    <3> DEFINE q == readable \div Chunk
    <3>1. q \in Nat /\ q * Chunk <= readable
      BY <2>1
    <3>2. q * Chunk \in Nat
      BY <2>1, <3>1
    <3> QED
      BY <2>1, <3>1, <3>2, FilterAssumption
  <2>3. DrawnInput = SubSeq(Raw, 1, (readable \div Chunk) * Chunk)
    BY <1>2 DEF DrawnInput
  <2> DEFINE k == (readable \div Chunk) * Chunk
             d == SubSeq(Raw, 1, k)
  <2> HIDE DEF k
  <2>4. k \in 0 .. Len(Raw) /\ Size \in Nat
    BY <2>2, RawProps, FilterAssumption DEF k
  <2>5. d \in Seq(Bytes) /\ Len(d) = k /\ \A i \in 1 .. k : d[i] = Raw[i]
    BY <2>4, RawProps
  <2> HIDE DEF d
  <2>6. \A i \in 1 .. Len(d) : d[i].by = <<>>
    BY <2>4, <2>5, RawProps
  <2>7. Alike(d)
    BY <2>6 DEF Alike
  <2> QED
    BY <2>3, <2>5, <2>7 DEF d, k
<1> QED
  BY <1>1, <1>2

\* What one filter makes of some data
LEMMA FilterDataProps ==
    ASSUME Configured, NEW f \in Filters, NEW data \in Seq(Bytes), data # <<>>
    PROVE  /\ FilterData(f, data) \in Seq(Bytes)
           /\ kind[f] = "range" => FilterData(f, data) = FilterRange(f)
           /\ kind[f] \notin {"empty", "range"} =>
                  /\ Len(FilterData(f, data)) >= IF kind[f] = "shrink" THEN Len(data) - 1 ELSE Len(data)
                  /\ \A i \in 1 .. Len(FilterData(f, data)) : \E k \in 1 .. Len(data) :
                         FilterData(f, data)[i].by = Append(data[k].by, f)
<1> DEFINE m == Mark(f, data)
<1>1. /\ m \in Seq(Bytes) /\ Len(m) = Len(data) /\ Len(data) \in Nat \ {0}
      /\ \A i \in 1 .. Len(data) : m[i].by = Append(data[i].by, f)
  <2>1. Len(data) \in Nat \ {0}
    OBVIOUS
  <2> QED
    BY <2>1, MarkProps
<1>2. kind[f] \in {"inplace", "shrink", "grow", "empty", "range"}
  BY FilterAssumption DEF Configured
<1> HIDE DEF m
<1>3. CASE kind[f] = "inplace"
  <2>1. FilterData(f, data) = m
    BY <1>3 DEF FilterData, FilterInPlace, m
  <2> QED
    BY <1>1, <1>3, <2>1
<1>4. CASE kind[f] = "shrink"
  <2>1. FilterData(f, data) = SubSeq(m, 1, Len(m) - 1)
    BY <1>4 DEF FilterData, FilterShrink, Front, m
  <2> DEFINE s == SubSeq(m, 1, Len(m) - 1)
  <2>2. s \in Seq(Bytes) /\ Len(s) = Len(data) - 1 /\ \A i \in 1 .. Len(s) : s[i] = m[i]
    BY <1>1
  <2> HIDE DEF s
  <2>3. \A i \in 1 .. Len(s) : \E k \in 1 .. Len(data) : s[i].by = Append(data[k].by, f)
    <3> SUFFICES ASSUME NEW i \in 1 .. Len(s) PROVE i \in 1 .. Len(data) /\ s[i].by = Append(data[i].by, f)
      OBVIOUS
    <3>1. i \in 1 .. Len(data)
      BY <1>1, <2>2
    <3> QED
      BY <1>1, <2>2, <3>1
  <2>4. FilterData(f, data) = s
    BY <2>1 DEF s
  <2> QED
    BY <1>1, <1>4, <2>2, <2>3, <2>4
<1>5. CASE kind[f] = "grow"
  <2>1. FilterData(f, data) = Append(m, m[Len(m)])
    BY <1>5 DEF FilterData, FilterGrow, Last, m
  <2> DEFINE s == Append(m, m[Len(m)])
  <2>2. /\ s \in Seq(Bytes) /\ Len(s) = Len(data) + 1
        /\ \A i \in 1 .. Len(s) : s[i] = IF i = Len(s) THEN m[Len(m)] ELSE m[i]
    BY <1>1
  <2>3. \A i \in 1 .. Len(s) : \E k \in 1 .. Len(data) : s[i].by = Append(data[k].by, f)
    <3> HIDE DEF s
    <3>1. ASSUME NEW i \in 1 .. Len(s) PROVE \E k \in 1 .. Len(data) : s[i].by = Append(data[k].by, f)
      <4>1. CASE i = Len(s)
        <5>1. s[i] = m[Len(m)] /\ Len(m) = Len(data) /\ Len(data) \in 1 .. Len(data)
          BY <1>1, <2>2, <4>1
        <5>2. s[i].by = Append(data[Len(data)].by, f)
          BY <1>1, <5>1
        <5> QED
          BY <5>1, <5>2
      <4>2. CASE i # Len(s)
        <5>1. s[i] = m[i] /\ i \in 1 .. Len(data)
          BY <1>1, <2>2, <4>2
        <5>2. s[i].by = Append(data[i].by, f)
          BY <1>1, <5>1
        <5> QED
          BY <5>1, <5>2
      <4> QED
        BY <4>1, <4>2
    <3> QED
      BY <3>1
  <2> HIDE DEF s
  <2> QED
    BY <1>1, <1>5, <2>1, <2>2, <2>3 DEF s
<1>6. CASE kind[f] = "empty"
  BY <1>6 DEF FilterData
<1>7. CASE kind[f] = "range"
  <2>1. FilterData(f, data) = FilterRange(f)
    BY <1>7 DEF FilterData
  <2>2. FilterRange(f) \in Seq(Bytes)
    BY RawProps, MarkProps DEF FilterRange
  <2> QED
    BY <1>7, <2>1, <2>2
<1> QED
  BY <1>2, <1>3, <1>4, <1>5, <1>6, <1>7

\* The loop of FilterBytes(): the result after each filter
LEMMA FilterBytesLoop ==
    ASSUME Configured, NEW fs \in Seq(Filters), NEW data \in Seq(Bytes)
    PROVE  \E t : /\ t[0] = data
                  /\ \A i \in 1 .. Len(fs) :
                         t[i] = IF t[i - 1] = <<>> THEN <<>> ELSE FilterData(fs[i], t[i - 1])
                  /\ FilterBytes(fs, data) = t[Len(fs)]
                  /\ \A i \in 0 .. Len(fs) : t[i] \in Seq(Bytes)
<1> DEFINE D == Seq(Bytes)
           n == Len(fs)
           a == data
           Pass(i, d) == IF d = <<>> THEN <<>> ELSE FilterData(fs[i], d)
           g == [i \in 1 .. n |-> [d \in D |-> Pass(i, d)]]
           Body(t) == [i \in 0 .. n |-> IF i = 0 THEN a ELSE Pass(i, t[i - 1])]
           t == CHOOSE t : t = Body(t)
<1>1. n \in Nat /\ a \in D /\ \A i \in 1 .. n : \A d \in D : Pass(i, d) \in D
  BY FilterDataProps
<1>2. FilterBytes(fs, data) = t[n]
  BY DEF FilterBytes
<1> HIDE DEF n, D, a, Pass
<1>3. \A i \in 1 .. n : \A d \in D : g[i][d] = Pass(i, d)
  OBVIOUS
<1> HIDE DEF g
<1>4. \E r : r \in Results(D, a, n, g)
  <2>1. g \in Steps(D, n)
    BY <1>1 DEF Steps, g
  <2> QED
    BY ONLY <1>1, <2>1, LoopHasResults
<1>5. \E r : r = Body(r)
  <2>1. PICK r \in [0 .. n -> D] : r[0] = a /\ \A i \in 1 .. n : r[i] = g[i][r[i - 1]]
    BY <1>4 DEF Results
  <2>2. \A i \in 1 .. n : r[i] = Pass(i, r[i - 1])
    BY <1>1, <1>3, <2>1
  <2> DEFINE b == Body(r)
  <2>3. /\ b[0] = a /\ \A i \in 1 .. n : b[i] = Pass(i, r[i - 1])
        /\ DOMAIN b = 0 .. n /\ b = [i \in DOMAIN b |-> b[i]]
    BY <1>1
  <2> HIDE DEF b
  <2>4. \A i \in 0 .. n : i = 0 \/ i \in 1 .. n
    BY <1>1
  <2>5. \A i \in 0 .. n : r[i] = b[i]
    BY <2>1, <2>2, <2>3, <2>4
  <2>6. r = b
    BY <2>1, <2>3, <2>5
  <2> QED
    BY <2>6 DEF b
<1>6. t = Body(t)
  BY <1>5
<1> HIDE DEF t
<1>7. t[0] = a /\ \A i \in 1 .. n : t[i] = Pass(i, t[i - 1])
  <2>1. Body(t)[0] = a /\ \A i \in 1 .. n : Body(t)[i] = Pass(i, t[i - 1])
    BY <1>1
  <2> HIDE DEF Body
  <2> QED
    BY <1>6, <2>1
<1>8. \A i \in 0 .. n : t[i] \in D
  <2> DEFINE G == {i \in 0 .. n : t[i] \in D}
  <2>1. 0 \in G /\ \A i \in 1 .. n : i - 1 \in G => i \in G
    BY <1>1, <1>7
  <2>2. \A i \in 0 .. n : i \in G
    <3> HIDE DEF G
    <3> QED
      BY ONLY <1>1, <2>1, Passes
  <2> QED
    BY <2>2
<1> QED
  BY <1>2, <1>7, <1>8 DEF n, a, D, Pass

\* Nothing is done without filters, and the only filter does its own reading
\* if it is one for ranges.
LEMMA FilterBytesOfOne ==
    ASSUME Configured, NEW fs \in Seq(Filters), NEW data \in Seq(Bytes)
    PROVE  /\ FilterBytes(fs, data) \in Seq(Bytes)
           /\ Len(fs) = 0 => FilterBytes(fs, data) = data
           /\ Len(fs) = 1 /\ kind[fs[1]] = "range" /\ data # <<>> => FilterBytes(fs, data) = FilterRange(fs[1])
<1>1. PICK t : /\ t[0] = data
               /\ \A i \in 1 .. Len(fs) :
                      t[i] = IF t[i - 1] = <<>> THEN <<>> ELSE FilterData(fs[i], t[i - 1])
               /\ FilterBytes(fs, data) = t[Len(fs)]
               /\ \A i \in 0 .. Len(fs) : t[i] \in Seq(Bytes)
  BY FilterBytesLoop
<1>2. Len(fs) \in Nat
  OBVIOUS
<1>3. ASSUME Len(fs) = 1, kind[fs[1]] = "range", data # <<>> PROVE FilterBytes(fs, data) = FilterRange(fs[1])
  <2>1. t[1] = FilterData(fs[1], data) /\ fs[1] \in Filters
    <3>1. t[1] = IF t[1 - 1] = <<>> THEN <<>> ELSE FilterData(fs[1], t[1 - 1])
      BY <1>1, <1>3
    <3>2. t[1 - 1] = data
      BY <1>1
    <3>3. fs[1] \in Filters
      <4>1. 1 \in 1 .. Len(fs)
        BY <1>3
      <4> QED
        BY <4>1, ElementOfSeq
    <3> QED
      BY ONLY <1>3, <3>1, <3>2, <3>3
  <2> QED
    BY <1>1, <1>3, <2>1, FilterDataProps
<1> QED
  BY <1>1, <1>2, <1>3

\* A filter treats all bytes alike, and one that reads by itself starts with
\* raw ones.
LEMMA FilterDataAlike ==
    ASSUME Configured, NEW f \in Filters, NEW data \in Seq(Bytes), data # <<>>, Alike(data)
    PROVE  Alike(FilterData(f, data))
<1> DEFINE d == FilterData(f, data)
<1>1. kind[f] \in {"inplace", "shrink", "grow", "empty", "range"}
  BY FilterAssumption DEF Configured
<1>2. CASE kind[f] \notin {"empty", "range"}
  <2>1. \A i \in 1 .. Len(d) : \E k \in 1 .. Len(data) : d[i].by = Append(data[k].by, f)
    BY <1>2, FilterDataProps
  <2> HIDE DEF d
  <2>2. Alike(d)
    BY <2>1 DEF Alike
  <2> QED
    BY <2>2 DEF d
<1>3. CASE kind[f] = "empty"
  <2>1. d = <<>>
    BY <1>3 DEF FilterData
  <2> QED
    BY <2>1 DEF Alike
<1>4. CASE kind[f] = "range"
  <2>1. d = FilterRange(f)
    BY <1>4, FilterDataProps
  <2>2. Len(Mark(f, Raw)) = Size /\ \A i \in 1 .. Size : Mark(f, Raw)[i].by = Append(<<>>, f)
    BY RawProps, MarkProps
  <2>3. Alike(Mark(f, Raw)) /\ Alike(<<>>)
    BY <2>2 DEF Alike
  <2> QED
    BY <2>1, <2>3 DEF FilterRange
<1> QED
  BY <1>1, <1>2, <1>3, <1>4

\* So that the bytes of the result are alike, whatever the filters are.
LEMMA FilterBytesAlike ==
    ASSUME Configured, NEW fs \in Seq(Filters), NEW data \in Seq(Bytes), Alike(data)
    PROVE  Alike(FilterBytes(fs, data))
<1>1. PICK t : /\ t[0] = data
               /\ \A i \in 1 .. Len(fs) :
                      t[i] = IF t[i - 1] = <<>> THEN <<>> ELSE FilterData(fs[i], t[i - 1])
               /\ FilterBytes(fs, data) = t[Len(fs)]
               /\ \A i \in 0 .. Len(fs) : t[i] \in Seq(Bytes)
  BY FilterBytesLoop
<1> DEFINE G == {i \in 0 .. Len(fs) : Alike(t[i])}
<1>2. Len(fs) \in Nat /\ 0 \in G
  BY <1>1
<1>3. ASSUME NEW i \in 1 .. Len(fs), i - 1 \in G PROVE i \in G
  <2> DEFINE d == t[i - 1]
  <2>1. d \in Seq(Bytes) /\ Alike(d) /\ i \in 0 .. Len(fs)
    BY <1>1, <1>2, <1>3
  <2>2. t[i] = IF d = <<>> THEN <<>> ELSE FilterData(fs[i], d)
    BY <1>1
  <2>3. fs[i] \in Filters
    BY ElementOfSeq
  <2> HIDE DEF d
  <2>4. d # <<>> => Alike(FilterData(fs[i], d))
    BY <2>1, <2>3, FilterDataAlike
  <2>5. Alike(<<>>)
    BY DEF Alike
  <2>6. Alike(t[i])
    BY <2>2, <2>4, <2>5
  <2> QED
    BY <2>1, <2>6
<1>4. Len(fs) \in G
  <2> HIDE DEF G
  <2>1. \A i \in 0 .. Len(fs) : i \in G
    BY ONLY <1>2, <1>3, Passes
  <2> QED
    BY <1>2, <2>1
<1> QED
  BY <1>1, <1>4

\* If the filters are all different, none returns no data and only the first
\* may do its own reading, then each takes at most one byte, and every byte
\* that is left has been through all of them in turn.
LEMMA FilterBytesMarks ==
    ASSUME Configured, readable = Size,
           NEW fs \in Seq(Filters),
           \A i, j \in 1 .. Len(fs) : i < j => fs[i] # fs[j],
           \A i \in 1 .. Len(fs) : /\ kind[fs[i]] # "empty"
                                   /\ kind[fs[i]] = "range" => i = 1,
           Cardinality({f \in Filters : kind[f] = "shrink"}) < Size
    PROVE  /\ FilterBytes(fs, Raw) # <<>>
           /\ \A k \in 1 .. Len(FilterBytes(fs, Raw)) :
                  LET by == FilterBytes(fs, Raw)[k].by
                  IN  Len(by) = Len(fs) /\ \A j \in 1 .. Len(fs) : by[j] = fs[j]
<1>1. PICK t : /\ t[0] = Raw
               /\ \A i \in 1 .. Len(fs) :
                      t[i] = IF t[i - 1] = <<>> THEN <<>> ELSE FilterData(fs[i], t[i - 1])
               /\ FilterBytes(fs, Raw) = t[Len(fs)]
               /\ \A i \in 0 .. Len(fs) : t[i] \in Seq(Bytes)
  BY FilterBytesLoop, RawProps
<1> DEFINE n == Len(fs)
           Shrinkers == {f \in Filters : kind[f] = "shrink"}
           Shrunk(i) == {f \in Shrinkers : \E j \in 1 .. i : f = fs[j]}
           Marked(d, i) == \A k \in 1 .. Len(d) : /\ d[k].by \in Seq(Filters) /\ Len(d[k].by) = i
                                                  /\ \A j \in 1 .. i : d[k].by[j] = fs[j]
           Long(d, i) == Len(d) + Cardinality(Shrunk(i)) >= Size
           G == {i \in 0 .. n : Long(t[i], i) /\ Marked(t[i], i)}
<1>2. /\ n \in Nat /\ Size \in Nat \ {0} /\ IsFiniteSet(Shrinkers)
      /\ \A i \in 1 .. n : fs[i] \in Filters
  BY FilterAssumption, FS_Subset
<1>3. \A i \in 0 .. n : /\ IsFiniteSet(Shrunk(i)) /\ Cardinality(Shrunk(i)) \in Nat
                        /\ Cardinality(Shrunk(i)) <= Cardinality(Shrinkers)
                        /\ Cardinality(Shrunk(i)) < Size
  <2> SUFFICES ASSUME NEW i \in 0 .. n
               PROVE  /\ IsFiniteSet(Shrunk(i)) /\ Cardinality(Shrunk(i)) \in Nat
                      /\ Cardinality(Shrunk(i)) <= Cardinality(Shrinkers)
                      /\ Cardinality(Shrunk(i)) < Size
    OBVIOUS
  <2>1. Shrunk(i) \subseteq Shrinkers
    OBVIOUS
  <2>2. Cardinality(Shrinkers) < Size
    OBVIOUS
  <2> HIDE DEF Shrunk, Shrinkers
  <2>3. /\ IsFiniteSet(Shrunk(i)) /\ Cardinality(Shrunk(i)) <= Cardinality(Shrinkers)
        /\ Cardinality(Shrunk(i)) \in Nat /\ Cardinality(Shrinkers) \in Nat
    BY <1>2, <2>1, FS_Subset, FS_CardinalityType
  <2> QED
    BY <1>2, <2>2, <2>3
<1> HIDE DEF Shrunk
<1>4. 0 \in G
  <2>1. Len(Raw) = Size /\ \A k \in 1 .. Size : Raw[k].by = <<>>
    BY RawProps
  <2>2. Long(Raw, 0)
    <3>1. Cardinality(Shrunk(0)) \in Nat
      BY <1>2, <1>3
    <3> QED
      BY <1>2, <2>1, <3>1
  <2>3. Marked(Raw, 0)
    <3>1. <<>> \in Seq(Filters) /\ Len(<<>>) = 0 /\ 1 .. 0 = {}
      OBVIOUS
    <3> QED
      BY <2>1, <3>1
  <2> HIDE DEF Long, Marked
  <2> QED
    BY <1>1, <1>2, <2>2, <2>3
<1>5. ASSUME NEW i \in 1 .. n, i - 1 \in G PROVE i \in G
  <2> DEFINE d == t[i - 1]
             f == fs[i]
  <2>1. Long(d, i - 1) /\ Marked(d, i - 1) /\ d \in Seq(Bytes)
    BY <1>1, <1>2, <1>5
  <2>2. d # <<>>
    <3>1. Cardinality(Shrunk(i - 1)) < Size /\ Cardinality(Shrunk(i - 1)) \in Nat
      BY <1>2, <1>3
    <3> QED
      BY <1>2, <2>1, <3>1
  <2>3. t[i] = FilterData(f, d) /\ f \in Filters
    BY <1>1, <1>2, <2>2
  <2>4. /\ Cardinality(Shrunk(i - 1)) \in Nat
        /\ Cardinality(Shrunk(i)) = IF kind[f] = "shrink" THEN Cardinality(Shrunk(i - 1)) + 1
                                    ELSE Cardinality(Shrunk(i - 1))
    <3>1. CASE kind[f] = "shrink"
      <4>1. f \notin Shrunk(i - 1)
        BY <1>2 DEF Shrunk
      <4>2. Shrunk(i) = Shrunk(i - 1) \cup {f}
        BY <1>2, <3>1 DEF Shrunk
      <4>3. IsFiniteSet(Shrunk(i - 1)) /\ Cardinality(Shrunk(i - 1)) \in Nat
        BY <1>2, <1>3
      <4> HIDE DEF f
      <4> QED
        BY <3>1, <4>1, <4>2, <4>3, FS_AddElement
    <3>2. CASE kind[f] # "shrink"
      <4>1. Shrunk(i) = Shrunk(i - 1)
        BY <1>2, <3>2 DEF Shrunk
      <4>2. Cardinality(Shrunk(i - 1)) \in Nat
        BY <1>2, <1>3
      <4> HIDE DEF f
      <4> QED
        BY <3>2, <4>1, <4>2
    <3> QED
      BY <3>1, <3>2
  <2> HIDE DEF d, f
  <2>5. CASE kind[f] # "range"
    <3> DEFINE e == FilterData(f, d)
    <3>1. /\ e \in Seq(Bytes)
          /\ Len(e) >= IF kind[f] = "shrink" THEN Len(d) - 1 ELSE Len(d)
          /\ \A k \in 1 .. Len(e) : \E l \in 1 .. Len(d) : e[k].by = Append(d[l].by, f)
      <4>1. kind[f] # "empty"
        BY <1>2 DEF f
      <4> QED
        BY <2>1, <2>2, <2>3, <2>5, <4>1, FilterDataProps
    <3> HIDE DEF e
    <3>2. Long(e, i)
      BY <1>2, <2>1, <2>4, <3>1
    <3>3. Marked(e, i)
      <4> SUFFICES ASSUME NEW k \in 1 .. Len(e)
                   PROVE  /\ e[k].by \in Seq(Filters) /\ Len(e[k].by) = i
                          /\ \A j \in 1 .. i : e[k].by[j] = fs[j]
        OBVIOUS
      <4>1. PICK l \in 1 .. Len(d) : e[k].by = Append(d[l].by, f)
        BY <3>1
      <4>2. d[l].by \in Seq(Filters) /\ Len(d[l].by) = i - 1 /\ \A j \in 1 .. i - 1 : d[l].by[j] = fs[j]
        BY <2>1
      <4> DEFINE by == d[l].by
      <4> HIDE DEF by
      <4>3. /\ Append(by, f) \in Seq(Filters) /\ Len(Append(by, f)) = i
            /\ \A j \in 1 .. i : Append(by, f)[j] = IF j = i THEN f ELSE by[j]
        BY <1>2, <2>3, <4>2 DEF by
      <4> QED
        BY <1>2, <4>1, <4>2, <4>3 DEF by, f
    <3> HIDE DEF Long, Marked
    <3> QED
      BY <1>2, <2>3, <3>2, <3>3 DEF e
  <2>6. CASE kind[f] = "range"
    <3>1. i = 1
      BY <1>2, <2>6 DEF f
    <3>2. FilterData(f, d) = Mark(f, Raw)
      BY <2>1, <2>2, <2>3, <2>6, FilterDataProps DEF FilterRange
    <3> DEFINE e == Mark(f, Raw)
    <3>3. /\ e \in Seq(Bytes) /\ Len(e) = Size
          /\ \A k \in 1 .. Size : e[k].by = Append(<<>>, f)
      BY <2>3, RawProps, MarkProps
    <3> HIDE DEF e
    <3>4. Long(e, i)
      <4>1. Cardinality(Shrunk(i)) \in Nat
        BY <2>4
      <4> QED
        BY <1>2, <3>3, <4>1
    <3>5. Append(<<>>, f) \in Seq(Filters) /\ Len(Append(<<>>, f)) = 1 /\ Append(<<>>, f)[1] = f
      BY <2>3
    <3>6. Marked(e, i)
      <4> DEFINE by == Append(<<>>, f)
      <4>1. by \in Seq(Filters) /\ Len(by) = 1 /\ \A j \in 1 .. 1 : by[j] = fs[j]
        BY <3>1, <3>5 DEF f
      <4>2. \A k \in 1 .. Len(e) : e[k].by = by
        BY <3>3
      <4> HIDE DEF by
      <4> QED
        BY <3>1, <4>1, <4>2
    <3> HIDE DEF Long, Marked
    <3> QED
      BY <1>2, <2>3, <3>2, <3>4, <3>6 DEF e
  <2> QED
    BY <2>5, <2>6
<1>6. n \in G
  <2>1. \A i \in 0 .. n : i \in G
    <3> HIDE DEF G, n
    <3> QED
      BY ONLY <1>2, <1>4, <1>5, Passes
  <2> HIDE DEF G
  <2> QED
    BY <1>2, <2>1
<1>7. Long(t[n], n) /\ Marked(t[n], n) /\ t[n] \in Seq(Bytes)
  <2> HIDE DEF Long, Marked
  <2> QED
    BY <1>1, <1>2, <1>6
<1>8. t[n] # <<>>
  <2>1. Cardinality(Shrunk(n)) < Size /\ Cardinality(Shrunk(n)) \in Nat
    BY <1>2, <1>3
  <2> QED
    BY <1>2, <1>7, <2>1
<1> QED
  BY <1>1, <1>7, <1>8

-----------------------------------------------------------------------------
(***************************************************************************)
(* The inductive invariant                                                 *)
(***************************************************************************)
\* A list of filters is the one that applies.
Applies(fs) ==
    /\ Sorted(fs)
    /\ {fs[i] : i \in 1 .. Len(fs)} = registered \cap sniffs

\* Healthy, of the filters of any stream
HealthyFor(fs) ==
    /\ readable = Size
    /\ \A i \in 1 .. Len(fs) : kind[fs[i]] # "empty" /\ (kind[fs[i]] = "range" => i = 1)
    /\ Cardinality({f \in Filters : kind[f] = "shrink"}) < Size

\* Data is what the filters make of the resource.
Fits(fs, data) ==
    /\ Alike(data)
    /\ readable = Size /\ Len(fs) = 0 => data = Raw
    /\ readable = Size /\ Len(fs) = 1 /\ kind[fs[1]] = "range" => data = Mark(fs[1], Raw)
    /\ HealthyFor(fs) => \A i \in 1 .. Len(data) : Complete(data[i].by)

\* The chain is the registered filters by priority, and does not change; a
\* filter that is not registered gave way to another.
Chained ==
    /\ registered \subseteq Filters
    /\ \A f \in asked : \E g \in registered : priority[g] = priority[f]
    /\ chain \in Seq(Filters)
    /\ chain # <<>> => /\ asked = Filters
                       /\ Sorted(chain)
                       /\ {chain[i] : i \in 1 .. Len(chain)} = registered

\* What has been read and what is still in the cache, together, fit, once the
\* input is drawn.
WholeStreams == [open : {TRUE}, filters : Seq(Filters), filled : BOOLEAN, left : Seq(Bytes), cache : Seq(Bytes)]
Streamed ==
    \/ whole = NoStream /\ out = <<>>
    \/ /\ whole \in WholeStreams /\ chain # <<>>
       /\ Applies(whole.filters)
       /\ out \in Seq(Bytes)
       /\ whole.left # <<>> => whole.left = DrawnInput /\ out = <<>> /\ whole.cache = <<>> /\ ~whole.filled
       /\ whole.left = <<>> => Fits(whole.filters, Content)

\* A stream by ranges has no filter or one for ranges, and its last answer is
\* a part of the resource.
RangeStreams == [open : {TRUE}, filters : Seq(Filters)]
RangeBytes == IF range.filters = <<>> THEN Raw ELSE Mark(range.filters[1], Raw)
Ranged ==
    \/ range = NoStream /\ answer = NoAnswer
    \/ /\ range \in RangeStreams
       /\ range.filters = <<>> \/ (Len(range.filters) = 1 /\ kind[range.filters[1]] = "range")
       /\ \/ answer = NoAnswer
          \/ /\ answer.loc \in Nat /\ answer.data \in Seq(Bytes)
             /\ answer.loc + Len(answer.data) <= Size
             /\ \A i \in 1 .. Len(answer.data) : answer.data[i] = RangeBytes[answer.loc + i]

IInv == Configured /\ Chained /\ Streamed /\ Ranged

\* Before the first filter is registered
LEMMA InitIInv == Init => IInv
  BY DEF Init, IInv, Configured, Chained, Streamed, Ranged

-----------------------------------------------------------------------------
\* CacheBytes() fills the cache with what fits.
LEMMA CachedFits ==
    ASSUME Configured, NEW fs \in Seq(Filters), Applies(fs)
    PROVE  LET filtered == FilterBytes(fs, DrawnInput)
               data == IF filtered = <<>> THEN DrawnInput ELSE filtered
           IN  data \in Seq(Bytes) /\ Fits(fs, data)
<1> DEFINE filtered == FilterBytes(fs, DrawnInput)
           data == IF filtered = <<>> THEN DrawnInput ELSE filtered
<1> SUFFICES data \in Seq(Bytes) /\ Fits(fs, data)
  OBVIOUS
<1>1. /\ DrawnInput \in Seq(Bytes) /\ filtered \in Seq(Bytes)
      /\ Len(fs) = 0 => filtered = DrawnInput
      /\ Len(fs) = 1 /\ kind[fs[1]] = "range" /\ DrawnInput # <<>> => filtered = FilterRange(fs[1])
  BY DrawnProps, FilterBytesOfOne
<1>2. readable = Size => DrawnInput = Raw /\ Raw # <<>>
  BY RawProps DEF DrawnInput
<1>3. readable = Size /\ Len(fs) = 0 => data = Raw
  BY <1>1, <1>2
<1>4. ASSUME readable = Size, Len(fs) = 1, kind[fs[1]] = "range" PROVE data = Mark(fs[1], Raw)
  <2>1. filtered = Mark(fs[1], Raw)
    BY <1>1, <1>2, <1>4 DEF FilterRange
  <2>2. fs[1] \in Filters
    <3>1. 1 \in 1 .. Len(fs)
      BY <1>4
    <3> QED
      BY <3>1, ElementOfSeq
  <2>3. Len(Mark(fs[1], Raw)) = Size /\ Size \in Nat \ {0}
    BY <2>2, MarkProps, RawProps, FilterAssumption
  <2>4. filtered # <<>>
    BY <2>1, <2>3
  <2> QED
    BY <2>1, <2>4
<1>5. ASSUME HealthyFor(fs) PROVE \A i \in 1 .. Len(data) : Complete(data[i].by)
  <2>1. \A i, j \in 1 .. Len(fs) : i < j => fs[i] # fs[j]
    <3> SUFFICES ASSUME NEW i \in 1 .. Len(fs), NEW j \in 1 .. Len(fs), i < j, fs[i] = fs[j] PROVE FALSE
      OBVIOUS
    <3>1. priority[fs[i]] > priority[fs[i]]
      BY DEF Applies, Sorted
    <3>2. fs[i] \in Filters
      BY ElementOfSeq
    <3>3. priority[fs[i]] \in Nat
      BY <3>2, FilterAssumption DEF Configured
    <3> QED
      BY <3>1, <3>3
  <2>2. filtered = FilterBytes(fs, Raw)
    BY <1>2, <1>5 DEF HealthyFor
  <2> HIDE DEF filtered
  <2>3. /\ filtered # <<>>
        /\ \A k \in 1 .. Len(filtered) : /\ Len(filtered[k].by) = Len(fs)
                                         /\ \A j \in 1 .. Len(fs) : filtered[k].by[j] = fs[j]
    BY <1>5, <2>1, <2>2, FilterBytesMarks DEF HealthyFor
  <2>4. data = filtered
    BY <2>3
  <2> SUFFICES ASSUME NEW k \in 1 .. Len(filtered) PROVE Complete(filtered[k].by)
    BY <2>4
  <2> DEFINE by == filtered[k].by
  <2>5. Len(by) = Len(fs) /\ \A j \in 1 .. Len(fs) : by[j] = fs[j]
    BY <2>3
  <2> HIDE DEF by
  <2>6. Complete(by)
    BY <2>5 DEF Complete, Applies, Sorted
  <2> QED
    BY <2>6 DEF by
<1>6. Alike(filtered) /\ Alike(DrawnInput)
  BY DrawnProps, FilterBytesAlike
<1> HIDE DEF filtered
<1>7. data \in Seq(Bytes) /\ Alike(data)
  BY <1>1, <1>6
<1> HIDE DEF data
<1> QED
  BY <1>3, <1>4, <1>5, <1>7 DEF Fits

\* What is preserved when the variables it is about do not change
LEMMA SameChained ==
    ASSUME Configured, Chained, UNCHANGED <<config, registered, asked, chain>>
    PROVE  Configured' /\ Chained'
  BY DEF Configured, Chained, Sorted, config

LEMMA SameFits ==
    ASSUME UNCHANGED <<config, registered>>, whole'.filters = whole.filters, Content' = Content
    PROVE  /\ Applies(whole.filters) => Applies(whole.filters)'
           /\ Fits(whole.filters, Content) => Fits(whole.filters, Content)'
<1>1. kind' = kind /\ readable' = readable /\ priority' = priority /\ sniffs' = sniffs /\ registered' = registered
  BY DEF config
<1>2. Applies(whole.filters) => Applies(whole.filters)'
  BY <1>1 DEF Applies, Sorted
<1>3. HealthyFor(whole.filters)' => HealthyFor(whole.filters)
  BY <1>1 DEF HealthyFor
<1> DEFINE c == Content
<1>4. (\A i \in 1 .. Len(c) : Complete(c[i].by)) => (\A i \in 1 .. Len(c) : Complete(c[i].by))'
  <2> HIDE DEF c
  <2> QED
    BY <1>1 DEF Complete, c
<1>5. Alike(Content) => Alike(Content)'
  BY DEF Alike
<1>6. Fits(whole.filters, Content) => Fits(whole.filters, Content)'
  BY <1>1, <1>3, <1>4, <1>5 DEF Fits
<1> QED
  BY <1>2, <1>6

LEMMA SameStreamed ==
    ASSUME Streamed, UNCHANGED <<config, registered, whole, out>>, chain # <<>> => chain' = chain
    PROVE  Streamed'
<1>1. CASE whole = NoStream /\ out = <<>>
  BY <1>1 DEF Streamed, NoStream
<1>2. CASE ~(whole = NoStream /\ out = <<>>)
  <2>1. whole'.filters = whole.filters /\ Content' = Content
    BY DEF Content
  <2>2. DrawnInput' = DrawnInput
    BY DEF DrawnInput, Raw, config
  <2> QED
    BY <1>2, <2>1, <2>2, SameFits DEF Streamed, WholeStreams, Bytes
<1> QED
  BY <1>1, <1>2

LEMMA SameRanged ==
    ASSUME Ranged, UNCHANGED <<config, range, answer>>
    PROVE  Ranged'
<1>1. RangeBytes' = RangeBytes
  BY DEF RangeBytes
<1>2. kind' = kind
  BY DEF config
<1> QED
  BY <1>1, <1>2 DEF Ranged

-----------------------------------------------------------------------------
\* A filter is registered.
LEMMA RegisterIInv ==
    ASSUME IInv, NEW f \in Filters, RegisterFilter(f)
    PROVE  IInv'
<1>1. /\ UNCHANGED <<config, chain, whole, out, range, answer>> /\ chain = <<>> /\ ~whole.open
      /\ registered \subseteq registered' /\ registered' \subseteq registered \cup {f}
      /\ asked' = asked \cup {f} /\ \E g \in registered' : priority[g] = priority[f]
  BY DEF RegisterFilter, Emplaced
<1>2. Configured' /\ Chained'
  BY <1>1 DEF IInv, Configured, Chained, config
<1>3. Streamed'
  BY <1>1 DEF IInv, Streamed, NoStream
<1>4. Ranged'
  BY <1>1, SameRanged DEF IInv
<1> QED
  BY <1>2, <1>3, <1>4 DEF IInv

\* The chain is built.
LEMMA BuildIInv ==
    ASSUME IInv, BuildChain
    PROVE  IInv'
<1>1. UNCHANGED <<config, registered, asked, whole, out, range, answer>> /\ chain = <<>> /\ asked = Filters
  BY DEF BuildChain
<1>2. PICK c \in [1 .. Cardinality(registered) -> registered] :
          /\ \A f \in registered : \E i \in DOMAIN c : c[i] = f
          /\ \A i, j \in DOMAIN c : i < j => HighToLow(c[i], c[j])
          /\ chain' = c
  BY DEF BuildChain
<1>3. registered \subseteq Filters /\ Cardinality(registered) \in Nat
  BY FilterAssumption, FS_Subset, FS_CardinalityType DEF IInv, Chained
<1>4. c \in Seq(Filters) /\ DOMAIN c = 1 .. Len(c)
  BY <1>2, <1>3
<1>5. Sorted(c) /\ {c[i] : i \in 1 .. Len(c)} = registered
  BY <1>2, <1>4 DEF Sorted, HighToLow
<1>6. Configured' /\ Chained'
  <2>1. (\A f \in asked : \E g \in registered : priority[g] = priority[f])'
    BY <1>1 DEF IInv, Chained, config
  <2>2. (registered \subseteq Filters)' /\ chain' \in Seq(Filters)
    BY <1>1, <1>2, <1>3, <1>4
  <2>3. Configured'
    BY <1>1 DEF IInv, Configured, config
  <2>4. asked' = Filters /\ Sorted(chain') /\ {chain'[i] : i \in 1 .. Len(chain')} = registered'
    BY <1>1, <1>2, <1>5
  <2>5. Sorted(chain)'
    BY <1>1, <2>4 DEF Sorted, config
  <2> QED
    BY <2>1, <2>2, <2>3, <2>4, <2>5 DEF Chained
<1>7. Streamed' /\ Ranged'
  BY <1>1, SameStreamed, SameRanged DEF IInv
<1> QED
  BY <1>6, <1>7 DEF IInv

\* A stream is opened on the whole resource.
LEMMA OpenWholeIInv ==
    ASSUME IInv, OpenWhole
    PROVE  IInv'
<1>1. UNCHANGED <<config, registered, asked, chain, out, range, answer>> /\ chain # <<>> /\ ~whole.open
  BY DEF OpenWhole
<1>2. Configured' /\ Chained' /\ Ranged'
  BY <1>1, SameChained, SameRanged DEF IInv
<1> DEFINE fs == Applying(chain)
<1>3. whole' = [open |-> TRUE, filters |-> fs, filled |-> FALSE, left |-> DrawnInput, cache |-> <<>>]
  BY DEF OpenWhole
<1>4. /\ chain \in Seq(Filters) /\ Sorted(chain)
      /\ {chain[i] : i \in 1 .. Len(chain)} = registered
  BY <1>1 DEF IInv, Chained
<1>5. /\ fs \in Seq(Filters) /\ Sorted(fs)
      /\ \A k \in 1 .. Len(fs) : \E j \in 1 .. Len(chain) : fs[k] = chain[j] /\ chain[j] \in sniffs
      /\ \A j \in 1 .. Len(chain) : chain[j] \in sniffs => \E k \in 1 .. Len(fs) : fs[k] = chain[j]
  BY <1>4, ApplyingProps
<1> HIDE DEF fs
<1>6. {fs[k] : k \in 1 .. Len(fs)} = registered \cap sniffs
  <2>1. ASSUME NEW k \in 1 .. Len(fs) PROVE fs[k] \in registered \cap sniffs
    BY <1>4, <1>5
  <2>2. ASSUME NEW f \in registered \cap sniffs PROVE \E k \in 1 .. Len(fs) : fs[k] = f
    <3>1. PICK j \in 1 .. Len(chain) : chain[j] = f
      BY <1>4
    <3> QED
      BY <1>5, <3>1
  <2> QED
    BY <2>1, <2>2
<1>7. out = <<>>
  BY <1>1 DEF IInv, Streamed, WholeStreams
<1>8. whole' \in WholeStreams' /\ Applies(whole.filters)'
  <2>1. whole'.filters = fs /\ fs \in Seq(Filters)
    BY <1>3, <1>5
  <2>2. whole' \in WholeStreams'
    BY <1>3, <2>1, DrawnProps DEF WholeStreams, Bytes, IInv
  <2>3. Applies(whole.filters)'
    BY <1>1, <1>5, <1>6, <2>1 DEF Applies, Sorted, config
  <2> QED
    BY <2>2, <2>3
<1>9. DrawnInput' = DrawnInput
  BY <1>1 DEF DrawnInput, Raw, config
<1>10. ASSUME DrawnInput = <<>> PROVE Fits(whole.filters, Content)'
  <2>1. readable # Size /\ readable' = readable
    BY <1>1, <1>10, RawProps DEF DrawnInput, config
  <2>2. Content' = <<>>
    BY <1>1, <1>3, <1>7 DEF Content
  <2>3. Alike(Content)'
    BY <2>2 DEF Alike
  <2> QED
    BY <2>1, <2>3 DEF Fits, HealthyFor
<1>11. Streamed'
  BY <1>1, <1>3, <1>7, <1>8, <1>9, <1>10 DEF Streamed, Bytes
<1> QED
  BY <1>2, <1>11 DEF IInv

\* The stream with its cache filled: what has been read stays in front.
LEMMA CachedProps ==
    ASSUME IInv, whole.open
    PROVE  /\ Cached \in WholeStreams /\ Cached.filters = whole.filters /\ Cached.left = <<>>
           /\ out \in Seq(Bytes) /\ chain # <<>> /\ Applies(whole.filters)
           /\ Fits(whole.filters, out \o Cached.cache)
           /\ whole.left = <<>> => Cached = whole
<1>1. /\ whole \in WholeStreams /\ chain # <<>> /\ Applies(whole.filters) /\ out \in Seq(Bytes)
      /\ whole.left # <<>> => whole.left = DrawnInput /\ out = <<>> /\ whole.cache = <<>> /\ ~whole.filled
      /\ whole.left = <<>> => Fits(whole.filters, Content)
  BY DEF IInv, Streamed, NoStream
<1>2. CASE whole.left = <<>>
  <2>1. Cached = whole
    BY <1>2 DEF Cached, CacheBytes
  <2> QED
    BY <1>1, <1>2, <2>1 DEF Content
<1>3. CASE whole.left # <<>>
  <2> DEFINE fs == whole.filters
             filtered == FilterBytes(fs, DrawnInput)
             data == IF filtered = <<>> THEN DrawnInput ELSE filtered
  <2>1. Cached = [whole EXCEPT !.cache = data, !.filled = (filtered # <<>>), !.left = <<>>]
    BY <1>1, <1>3 DEF Cached, CacheBytes, Filled, WholeStreams
  <2>2. fs \in Seq(Filters) /\ Applies(fs) /\ Configured
    BY <1>1 DEF WholeStreams, IInv
  <2>3. data \in Seq(Bytes) /\ Fits(fs, data)
    <3> HIDE DEF fs
    <3> QED
      BY <2>2, CachedFits
  <2> HIDE DEF data, filtered
  <2>4. /\ Cached \in WholeStreams /\ Cached.filters = whole.filters /\ Cached.left = <<>>
        /\ Cached.cache = data
    BY <1>1, <2>1, <2>3 DEF WholeStreams
  <2>5. out \o Cached.cache = data
    BY <1>1, <1>3, <2>3, <2>4
  <2> QED
    BY <1>1, <1>3, <2>3, <2>4, <2>5
<1> QED
  BY <1>2, <1>3

\* Reading moves the first n bytes.
LEMMA ReadMoves ==
    ASSUME NEW s \in Seq(Bytes), NEW c \in Seq(Bytes), NEW n \in 0 .. Len(c)
    PROVE  /\ s \o SubSeq(c, 1, n) \in Seq(Bytes) /\ Removed(c, n) \in Seq(Bytes)
           /\ (s \o SubSeq(c, 1, n)) \o Removed(c, n) = s \o c
<1> DEFINE a == SubSeq(c, 1, n)
           b == SubSeq(c, n + 1, Len(c))
<1>1. Len(c) \in Nat /\ a \in Seq(Bytes) /\ b \in Seq(Bytes)
  OBVIOUS
<1>2. a \o b = c
  <2>1. a \o b = SubSeq(c, 1, Len(c))
    <3> DEFINE m == 1  l == Len(c)
    <3>1. m \in 1 .. Len(c) + 1 /\ n \in m - 1 .. Len(c) /\ l \in n .. Len(c)
      BY <1>1
    <3> HIDE DEF m, l
    <3>2. SubSeq(c, m, n) \o SubSeq(c, n + 1, l) = SubSeq(c, m, l)
      BY <3>1, ConcatAdjacentSubSeq
    <3> QED
      BY <3>2 DEF m, l
  <2>2. SubSeq(c, 1, Len(c)) = c
    BY SubSeqFull
  <2> QED
    BY <2>1, <2>2
<1>3. (s \o a) \o b = s \o (a \o b)
  <2> HIDE DEF a, b
  <2> QED
    BY <1>1, ConcatAssociative
<1>4. s \o a \in Seq(Bytes)
  <2> HIDE DEF a
  <2> QED
    BY <1>1
<1> QED
  BY <1>1, <1>2, <1>3, <1>4 DEF Removed

\* A step that fills the cache or reads from it
LEMMA ReadStep ==
    ASSUME IInv, whole.open, BytesAvailable \/ \E len \in 1 .. 2 : ReadBytes(len)
    PROVE  /\ IInv'
           /\ Content' = out \o Cached.cache
<1>1. /\ Cached \in WholeStreams /\ Cached.filters = whole.filters /\ Cached.left = <<>>
      /\ out \in Seq(Bytes) /\ chain # <<>> /\ Applies(whole.filters)
      /\ Fits(whole.filters, out \o Cached.cache)
  BY CachedProps
<1>2. UNCHANGED <<config, registered, asked, chain, range, answer>>
  BY DEF BytesAvailable, ReadBytes
<1>3. /\ whole' \in WholeStreams /\ whole'.filters = whole.filters /\ whole'.left = <<>>
      /\ out' \in Seq(Bytes) /\ out' \o whole'.cache = out \o Cached.cache
  <2>1. CASE BytesAvailable
    BY <1>1, <2>1 DEF BytesAvailable
  <2>2. ASSUME NEW len \in 1 .. 2, ReadBytes(len)
        PROVE  /\ whole' \in WholeStreams /\ whole'.filters = whole.filters /\ whole'.left = <<>>
               /\ out' \in Seq(Bytes) /\ out' \o whole'.cache = out \o Cached.cache
    <3> DEFINE c == Cached.cache
               n == Least(len, Len(c))
    <3>1. out' = out \o SubSeq(c, 1, n) /\ whole' = [Cached EXCEPT !.cache = Removed(c, n)]
      BY <2>2 DEF ReadBytes
    <3>2. c \in Seq(Bytes)
      BY <1>1 DEF WholeStreams
    <3>3. n \in 0 .. Len(c)
      <4> HIDE DEF c
      <4> QED
        BY <3>2 DEF Least
    <3> HIDE DEF c, n
    <3>4. /\ out \o SubSeq(c, 1, n) \in Seq(Bytes) /\ Removed(c, n) \in Seq(Bytes)
          /\ (out \o SubSeq(c, 1, n)) \o Removed(c, n) = out \o c
      BY <1>1, <3>2, <3>3, ReadMoves
    <3> DEFINE d == Removed(c, n)
    <3> HIDE DEF d
    <3>5. whole' = [Cached EXCEPT !.cache = d] /\ d \in Seq(Bytes)
      BY <3>1, <3>4 DEF d
    <3>6. whole' \in WholeStreams /\ whole'.filters = whole.filters /\ whole'.left = <<>> /\ whole'.cache = d
      BY <1>1, <3>5 DEF WholeStreams
    <3> QED
      BY <3>1, <3>4, <3>6 DEF c, d
  <2> QED
    BY <2>1, <2>2
<1>4. Content' = out \o Cached.cache
  BY <1>3 DEF Content
<1>5. Applies(whole.filters)' /\ Fits(whole.filters, Content)'
  <2> DEFINE c == out \o Cached.cache
  <2>1. kind' = kind /\ readable' = readable /\ priority' = priority /\ sniffs' = sniffs /\ registered' = registered
    BY <1>2 DEF config
  <2>2. Applies(whole.filters)'
    BY <1>1, <1>3, <2>1 DEF Applies, Sorted
  <2>3. HealthyFor(whole.filters)' => HealthyFor(whole.filters)
    BY <1>3, <2>1 DEF HealthyFor
  <2>4. Content' = c /\ Fits(whole.filters, c)
    BY <1>1, <1>4
  <2> HIDE DEF c
  <2>5. /\ (\A i \in 1 .. Len(c) : Complete(c[i].by)) => (\A i \in 1 .. Len(Content) : Complete(Content[i].by))'
        /\ Alike(c) => Alike(Content)'
    BY <2>1, <2>4 DEF Complete, Alike
  <2> QED
    BY <1>3, <2>1, <2>2, <2>3, <2>4, <2>5 DEF Fits
<1>6. Streamed'
  BY <1>1, <1>2, <1>3, <1>5 DEF Streamed, WholeStreams, Bytes
<1>7. Configured' /\ Chained' /\ Ranged'
  BY <1>2, SameChained, SameRanged DEF IInv
<1> QED
  BY <1>4, <1>6, <1>7 DEF IInv

-----------------------------------------------------------------------------
\* A slice of the resource, filtered, is a slice of the filtered resource.
LEMMA RangeDataProps ==
    ASSUME IInv, range.open, NEW loc \in 0 .. Size, NEW n \in 0 .. Size
    PROVE  /\ RangeData(loc, n) \in Seq(Bytes) /\ loc + Len(RangeData(loc, n)) <= Size
           /\ \A i \in 1 .. Len(RangeData(loc, n)) : RangeData(loc, n)[i] = RangeBytes[loc + i]
<1>1. /\ range \in RangeStreams
      /\ range.filters = <<>> \/ (Len(range.filters) = 1 /\ kind[range.filters[1]] = "range")
  BY DEF IInv, Ranged, NoStream
<1>2. Size \in Nat /\ Raw \in Seq(Bytes) /\ Len(Raw) = Size
  BY FilterAssumption, RawProps
<1> DEFINE s == Slice(loc, n)
<1>3. /\ s \in Seq(Bytes) /\ Len(s) \in Nat /\ loc + Len(s) <= Size
      /\ \A i \in 1 .. Len(s) : s[i] = Raw[loc + i]
  <2> DEFINE k == Least(loc + n, Size)
  <2>1. k \in loc .. Size
    BY <1>2 DEF Least
  <2>2. s = SubSeq(Raw, loc + 1, k)
    BY DEF Slice
  <2> HIDE DEF k, s
  <2>3. /\ SubSeq(Raw, loc + 1, k) \in Seq(Bytes) /\ Len(SubSeq(Raw, loc + 1, k)) = k - loc
        /\ \A i \in 1 .. k - loc : SubSeq(Raw, loc + 1, k)[i] = Raw[loc + i]
    BY <1>2, <2>1
  <2> QED
    BY <1>2, <2>1, <2>2, <2>3
<1> HIDE DEF s
<1>4. CASE range.filters = <<>>
  <2>1. RangeData(loc, n) = s /\ RangeBytes = Raw
    BY <1>4 DEF RangeData, RangeBytes, s
  <2> QED
    BY <1>3, <2>1
<1>5. CASE range.filters # <<>>
  <2> DEFINE f == range.filters[1]
  <2>1. RangeData(loc, n) = Mark(f, s) /\ RangeBytes = Mark(f, Raw)
    BY <1>5 DEF RangeData, RangeBytes, s
  <2>2. f \in Filters
    <3>1. range.filters \in Seq(Filters) /\ 1 \in 1 .. Len(range.filters)
      BY <1>1, <1>5 DEF RangeStreams
    <3> QED
      BY <3>1, ElementOfSeq
  <2> HIDE DEF f
  <2>3. /\ Mark(f, s) \in Seq(Bytes) /\ Len(Mark(f, s)) = Len(s)
        /\ \A i \in 1 .. Len(s) : Mark(f, s)[i] = [at |-> s[i].at, by |-> Append(s[i].by, f)]
    BY <1>3, <2>2, MarkProps
  <2>4. \A i \in 1 .. Size : Mark(f, Raw)[i] = [at |-> Raw[i].at, by |-> Append(Raw[i].by, f)]
    BY <1>2, <2>2, MarkProps
  <2>5. \A i \in 1 .. Len(s) : loc + i \in 1 .. Size
    BY <1>2, <1>3
  <2>6. \A i \in 1 .. Len(s) : Mark(f, s)[i] = Mark(f, Raw)[loc + i]
    BY <1>3, <2>3, <2>4, <2>5
  <2> QED
    BY <1>3, <2>1, <2>3, <2>6
<1> QED
  BY <1>4, <1>5

\* A range is read, or all of it.
LEMMA RangeIInv ==
    ASSUME IInv, range.open,
           \/ \E loc \in 0 .. Size, n \in 0 .. Size, len \in 1 .. Size : ReadRange(loc, n, len)
           \/ \E len \in 1 .. Size : ReadFull(len)
    PROVE  IInv'
<1>1. UNCHANGED <<config, registered, asked, chain, whole, out, range>>
  BY DEF ReadRange, ReadFull
<1>2. /\ range \in RangeStreams /\ Size \in Nat
      /\ range.filters = <<>> \/ (Len(range.filters) = 1 /\ kind[range.filters[1]] = "range")
  BY FilterAssumption DEF IInv, Ranged, NoStream
<1> DEFINE Good(a) == \/ a = NoAnswer
                      \/ /\ a.loc \in Nat /\ a.data \in Seq(Bytes)
                         /\ a.loc + Len(a.data) <= Size
                         /\ \A i \in 1 .. Len(a.data) : a.data[i] = RangeBytes[a.loc + i]
<1>3. ASSUME NEW loc \in 0 .. Size, NEW n \in 0 .. Size, NEW len \in 1 .. Size, ReadRange(loc, n, len)
      PROVE  Good(answer')
  <2> DEFINE d == RangeData(loc, n)
  <2>1. /\ d \in Seq(Bytes) /\ loc + Len(d) <= Size
        /\ \A i \in 1 .. Len(d) : d[i] = RangeBytes[loc + i]
    BY RangeDataProps
  <2>2. answer' = NoAnswer \/ answer' = [count |-> Len(d), data |-> d, loc |-> loc, n |-> n]
    BY <1>3 DEF ReadRange
  <2> HIDE DEF d
  <2>3. answer' = NoAnswer \/ (answer'.data = d /\ answer'.loc = loc)
    BY <2>2
  <2> QED
    BY <1>2, <2>1, <2>3
<1>4. ASSUME NEW len \in 1 .. Size, ReadFull(len)
      PROVE  Good(answer')
  <2> DEFINE d == RangeData(0, Size)
             e == SubSeq(d, 1, Least(len, Len(d)))
  <2>1. /\ d \in Seq(Bytes) /\ 0 + Len(d) <= Size
        /\ \A i \in 1 .. Len(d) : d[i] = RangeBytes[0 + i]
    <3>1. 0 \in 0 .. Size /\ Size \in 0 .. Size
      BY <1>2
    <3> QED
      BY <3>1, RangeDataProps
  <2>2. answer' = NoAnswer \/ answer' = [count |-> Len(d), data |-> e, loc |-> 0, n |-> Size]
    BY <1>4 DEF ReadFull
  <2> HIDE DEF d
  <2>3. Len(d) \in Nat /\ Least(len, Len(d)) \in 0 .. Len(d)
    BY <2>1 DEF Least
  <2>4. e \in Seq(Bytes) /\ Len(e) <= Len(d) /\ \A i \in 1 .. Len(e) : i \in 1 .. Len(d) /\ e[i] = d[i]
    BY <2>1, <2>3
  <2> HIDE DEF e
  <2>5. Len(e) \in Nat /\ 0 + Len(e) <= Size
    BY <1>2, <2>1, <2>3, <2>4
  <2>6. \A i \in 1 .. Len(e) : e[i] = RangeBytes[0 + i]
    BY <2>1, <2>4
  <2> QED
    BY <2>2, <2>4, <2>5, <2>6
<1>5. Good(answer')
  BY <1>3, <1>4
<1>6. Ranged'
  <2>1. RangeBytes' = RangeBytes /\ kind' = kind
    BY <1>1 DEF RangeBytes, config
  <2> QED
    BY <1>1, <1>2, <1>5, <2>1 DEF Ranged, RangeStreams, Bytes
<1>7. Configured' /\ Chained' /\ Streamed'
  BY <1>1, SameChained, SameStreamed DEF IInv
<1> QED
  BY <1>6, <1>7 DEF IInv

\* A stream by ranges is opened.
LEMMA OpenRangeIInv ==
    ASSUME IInv, OpenRange
    PROVE  IInv'
<1>1. UNCHANGED <<config, registered, asked, chain, whole, out, answer>> /\ ~range.open /\ chain # <<>>
  BY DEF OpenRange
<1> DEFINE fs == RangeFilters
<1>2. range' = [open |-> TRUE, filters |-> fs]
  BY DEF OpenRange
<1>3. Applying(chain) \in Seq(Filters)
  BY <1>1, ApplyingProps DEF IInv, Chained
<1>4. fs \in Seq(Filters) /\ (fs = <<>> \/ (Len(fs) = 1 /\ kind[fs[1]] = "range"))
  BY <1>3 DEF RangeFilters
<1> HIDE DEF fs
<1>5. answer' = NoAnswer
  BY <1>1 DEF IInv, Ranged, RangeStreams
<1>6. Ranged'
  <2>1. range'.filters = fs /\ range' \in RangeStreams' /\ kind' = kind
    BY <1>1, <1>2, <1>4 DEF RangeStreams, config
  <2> QED
    BY <1>4, <1>5, <2>1 DEF Ranged
<1>7. Configured' /\ Chained' /\ Streamed'
  BY <1>1, SameChained, SameStreamed DEF IInv
<1> QED
  BY <1>6, <1>7 DEF IInv

LEMMA NextIInv == IInv /\ [Next]_vars => IInv'
<1> SUFFICES ASSUME IInv, [Next]_vars PROVE IInv'
  OBVIOUS
<1>1. CASE UNCHANGED vars
  BY <1>1, SameChained, SameStreamed, SameRanged DEF vars, IInv
<1>2. CASE \E f \in Filters : RegisterFilter(f)
  BY <1>2, RegisterIInv
<1>3. CASE BuildChain \/ OpenWhole \/ OpenRange
  BY <1>3, BuildIInv, OpenWholeIInv, OpenRangeIInv
<1>4. CASE BytesAvailable \/ \E len \in 1 .. 2 : ReadBytes(len)
  <2>1. whole.open
    BY <1>4 DEF BytesAvailable, ReadBytes
  <2> QED
    BY <1>4, <2>1, ReadStep
<1>5. CASE \/ \E loc \in 0 .. Size, n \in 0 .. Size, len \in 1 .. Size : ReadRange(loc, n, len)
           \/ \E len \in 1 .. Size : ReadFull(len)
  <2>1. range.open
    BY <1>5 DEF ReadRange, ReadFull
  <2> QED
    BY <1>5, <2>1, RangeIInv
<1> QED
  BY <1>1, <1>2, <1>3, <1>4, <1>5 DEF Next

-----------------------------------------------------------------------------
\* The inductive invariant holds in every reachable state.
THEOREM Invariance == Spec => []IInv
  BY InitIInv, NextIInv, PTL DEF Spec

\* The bytes a reader gets have all been through the same filters, for any
\* filters and whatever fails; if nothing does, through every registered filter
\* that applies, each once and in the order of the priorities.
THEOREM AllFiltersApply == Spec => []EveryByteFiltered
<1>1. ASSUME IInv PROVE EveryByteFiltered
  <2> SUFFICES ASSUME whole.open
               PROVE  /\ Alike(Content)
                      /\ Healthy => \A i \in 1 .. Len(Content) : Complete(Content[i].by)
                      /\ \A f \in Filters \ registered : \E g \in registered : priority[g] = priority[f]
    BY DEF EveryByteFiltered
  <2>1. /\ whole.left # <<>> => out = <<>> /\ whole.cache = <<>>
        /\ whole.left = <<>> => Fits(whole.filters, Content)
        /\ chain # <<>>
    BY <1>1 DEF IInv, Streamed, NoStream
  <2>2. Healthy => HealthyFor(whole.filters)
    BY DEF Healthy, HealthyFor
  <2>3. CASE whole.left # <<>>
    <3>1. Content = <<>>
      BY <2>1, <2>3 DEF Content
    <3> QED
      BY <1>1, <2>1, <3>1 DEF Alike, IInv, Chained
  <2>4. CASE whole.left = <<>>
    BY <1>1, <2>1, <2>2, <2>4 DEF Fits, IInv, Chained
  <2> QED
    BY <2>3, <2>4
<1> QED
  BY <1>1, Invariance, PTL

\* Nothing is served before the input is drawn.
LEMMA ServedIsDrawn ==
    ASSUME IInv, whole.open, Content # <<>>
    PROVE  whole.left = <<>> /\ Fits(whole.filters, Content)
<1>1. /\ whole.left # <<>> => out = <<>> /\ whole.cache = <<>>
      /\ whole.left = <<>> => Fits(whole.filters, Content)
  BY DEF IInv, Streamed, NoStream
<1>2. whole.left = <<>>
  BY <1>1 DEF Content
<1> QED
  BY <1>1, <1>2

\* What a range read returned is, byte for byte, what a reader of the whole
\* resource gets at those places.
THEOREM RangesAreSlices == Spec => []RangeAgreesWithWhole
<1>1. ASSUME IInv PROVE RangeAgreesWithWhole
  <2> SUFFICES ASSUME whole.open, range.open, answer.count > 0, Content # <<>>, Healthy,
                      range.filters = whole.filters, NEW i \in 1 .. Len(answer.data)
               PROVE  answer.data[i] = Content[answer.loc + i]
    BY DEF RangeAgreesWithWhole
  <2>1. Fits(whole.filters, Content) /\ readable = Size
    BY <1>1, ServedIsDrawn DEF Healthy
  <2>2. /\ range.filters = <<>> \/ (Len(range.filters) = 1 /\ kind[range.filters[1]] = "range")
        /\ answer.data[i] = RangeBytes[answer.loc + i]
    BY <1>1 DEF IInv, Ranged, NoStream, NoAnswer
  <2>3. RangeBytes = Content
    BY <2>1, <2>2 DEF Fits, RangeBytes
  <2> QED
    BY <2>2, <2>3
<1> QED
  BY <1>1, Invariance, PTL

\* Reading loses, repeats and exchanges no byte, and a cache that is filled
\* again when it has been read to the end, as raw bytes are, adds none: the
\* input it is filled from has nothing left.
THEOREM ReadingOnlyMoves == Spec => ContentIsFixed
<1>1. ASSUME IInv, [Next]_vars, whole.open, Content # <<>> PROVE Content' = Content
  <2>1. CASE UNCHANGED <<whole, out>>
    BY <2>1 DEF Content
  <2>2. CASE BytesAvailable \/ \E len \in 1 .. 2 : ReadBytes(len)
    <3>1. Content' = out \o Cached.cache /\ Cached = whole
      BY <1>1, <2>2, ReadStep, CachedProps, ServedIsDrawn
    <3> QED
      BY <3>1 DEF Content
  <2>3. ~OpenWhole
    BY <1>1 DEF OpenWhole
  <2> QED
    BY <1>1, <2>1, <2>2, <2>3 DEF Next, vars, RegisterFilter, BuildChain, OpenRange, ReadRange, ReadFull
<1>2. IInv /\ [Next]_vars => [whole.open /\ Content # <<>> => Content' = Content]_vars
  BY <1>1
<1> QED
  BY <1>2, Invariance, PTL DEF Spec, ContentIsFixed
=============================================================================
