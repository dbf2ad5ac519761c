----------------------------- MODULE FilterChain -----------------------------
(***************************************************************************)
(* Content filters (ePub3/ePub/filter_manager_impl.cpp, filter_chain.cpp,  *)
(* filter_chain_byte_stream.cpp, filter_chain_byte_stream_range.cpp):      *)
(* filters are registered by priority, a package builds its chain, and a   *)
(* manifest item is read through the filters that apply to it, either as a *)
(* whole or by byte ranges.                                                *)
(*                                                                         *)
(* A byte is the place it has in the resource and the filters it has been  *)
(* through.  What a filter does is one of the kinds of FilterData():       *)
(*   inplace  edits the data it is given (FontObfuscator)                  *)
(*   shrink   returns fewer bytes in the same buffer (SwitchPreprocessor)  *)
(*   grow     returns more bytes in a new buffer (ObjectPreprocessor)      *)
(*   empty    returns no data (SwitchPreprocessor without a match)         *)
(*   range    has a RangeFilterContext and reads the raw stream by itself  *)
(*            (PassThroughFilter)                                          *)
(* The asynchronous chain (SUPPORT_ASYNC) is not compiled.                 *)
(***************************************************************************)
EXTENDS Naturals, FiniteSets, Sequences, SequencesExt

CONSTANTS
    Filters,     \* the filters that get registered
    Priorities,  \* the priorities they may have
    Kinds,       \* the kinds they may be of
    Size,        \* the length of the resource
    Chunk        \* _TMP_BUF_LEN

ASSUME FilterAssumption ==
    /\ IsFiniteSet(Filters)
    /\ Priorities \subseteq Nat
    /\ Kinds \subseteq {"inplace", "shrink", "grow", "empty", "range"}
    /\ Size \in Nat \ {0} /\ Chunk \in Nat \ {0}

VARIABLES
    kind, priority,  \* of each filter
    sniffs,          \* the filters whose TypeSniffer() accepts the item
    readable,        \* how many bytes zip_fread delivers before it fails
    registered,      \* m_registeredFilters
    asked,           \* history: the filters RegisterFilter() was called with
    chain,           \* FilterChain::_filters
    whole,           \* the FilterChainByteStream: its m_filters, _cache, ...
    out,             \* history: the bytes its reader was given
    range,           \* the FilterChainByteStreamRange: its m_filter
    answer           \* what the last range read was asked for and gave

config == <<kind, priority, sniffs, readable>>
vars == <<config, registered, asked, chain, whole, out, range, answer>>

Raw == [i \in 1 .. Size |-> [at |-> i, by |-> <<>>]]
NoStream == [open |-> FALSE]
NoAnswer == [count |-> 0, data |-> <<>>]
Least(a, b) == IF a < b THEN a ELSE b

-----------------------------------------------------------------------------
(***************************************************************************)
(* FilterManagerImpl                                                       *)
(***************************************************************************)
Init ==
    /\ kind \in [Filters -> Kinds]
    /\ priority \in [Filters -> Priorities]
    /\ sniffs \in SUBSET Filters
    /\ readable \in 0 .. Size
    /\ registered = {}
    /\ asked = {}
    /\ chain = <<>>
    /\ whole = NoStream
    /\ out = <<>>
    /\ range = NoStream
    /\ answer = NoAnswer

\* std::set::emplace: a record of the same priority is equivalent
Emplaced(f) == IF \E g \in registered : priority[g] = priority[f]
               THEN registered ELSE registered \cup {f}

RegisterFilter(f) ==
    /\ chain = <<>> /\ ~whole.open /\ ~range.open
    /\ f \notin asked
    /\ asked' = asked \cup {f}
    /\ registered' = Emplaced(f)
    /\ UNCHANGED <<config, chain, whole, out, range, answer>>

LowToHigh(f, g) == priority[f] < priority[g]
HighToLow(f, g) == priority[f] > priority[g]

\* BuildFilterChainForPackage, once all filters are registered.  A filter
\* whose factory opts out is one that does not sniff the item.
BuildChain ==
    /\ asked = Filters
    /\ chain = <<>>
    /\ \E c \in [1 .. Cardinality(registered) -> registered] :
           /\ \A f \in registered : \E i \in DOMAIN c : c[i] = f
           /\ \A i, j \in DOMAIN c : i < j => HighToLow(c[i], c[j])
           /\ chain' = c
    /\ UNCHANGED <<config, registered, asked, whole, out, range, answer>>

-----------------------------------------------------------------------------
(***************************************************************************)
(* FilterChainByteStream                                                   *)
(***************************************************************************)
Applying(c) ==
    LET thisChain[i \in 0 .. Len(c)] ==
            IF i = 0 THEN <<>>
            ELSE IF c[i] \in sniffs THEN Append(thisChain[i - 1], c[i]) ELSE thisChain[i - 1]
    IN  thisChain[Len(c)]

\* What the loop of CacheBytes gets from a new input: chunk by chunk, until the
\* end or a read that fails, which closes the input.
DrawnInput == IF readable = Size THEN Raw ELSE SubSeq(Raw, 1, (readable \div Chunk) * Chunk)

\* GetFilterChainByteStream; left is what _input still yields.
OpenWhole ==
    /\ chain # <<>>
    /\ ~whole.open
    /\ whole' = [open |-> TRUE, filters |-> Applying(chain), filled |-> FALSE,
                 left |-> DrawnInput, cache |-> <<>>]
    /\ UNCHANGED <<config, registered, asked, chain, out, range, answer>>

Mark(f, data) == [i \in 1 .. Len(data) |-> [data[i] EXCEPT !.by = Append(@, f)]]

\* FontObfuscator: works on the buffer it is given.
FilterInPlace(f, data) == Mark(f, data)

\* SwitchPreprocessor: what is left of the text, in the same buffer.
FilterShrink(f, data) == Front(Mark(f, data))

\* ObjectPreprocessor: the replacement text, in a new buffer.
FilterGrow(f, data) == Append(Mark(f, data), Last(Mark(f, data)))

\* PassThroughFilter: is given no data and reads the whole of the raw stream,
\* unless a failed read has closed that.
FilterRange(f) == IF readable = Size THEN Mark(f, Raw) ELSE <<>>

FilterData(f, data) ==
    CASE kind[f] = "inplace" -> FilterInPlace(f, data)
      [] kind[f] = "shrink"  -> FilterShrink(f, data)
      [] kind[f] = "grow"    -> FilterGrow(f, data)
      [] kind[f] = "empty"   -> <<>>
      [] kind[f] = "range"   -> FilterRange(f)

\* FilterBytes: gives up at the first filter that returns no data.
FilterBytes(filters, data) ==
    LET result[i \in 0 .. Len(filters)] ==
            IF i = 0 THEN data
            ELSE IF result[i - 1] = <<>> THEN <<>> ELSE FilterData(filters[i], result[i - 1])
    IN  result[Len(filters)]

\* CacheBytes, with _cache empty: draws what is left of the input, after which
\* the input is at its end or closed, and returns if that is nothing; the
\* result of the filters replaces the raw bytes, if there is one.
Filled(w, filtered) ==
    [w EXCEPT !.cache = IF filtered = <<>> THEN w.left ELSE filtered,
              !.filled = (filtered # <<>>)]
CacheBytesRewound(w) == IF w.left = <<>> THEN w ELSE Filled(w, FilterBytes(w.filters, w.left))
CacheBytes(w) ==
    IF w.left = <<>> THEN w
    ELSE [Filled(w, FilterBytes(w.filters, w.left)) EXCEPT !.left = <<>>]

\* if (_cache.GetBufferSize() == 0 && !_cacheHasBeenFilledUp) CacheBytes();
\* after raw bytes have been read to the end the cache is filled once more.
Cached == IF whole.cache = <<>> /\ ~whole.filled THEN CacheBytes(whole) ELSE whole

\* BytesAvailable(): the size of the cache, once it is filled
BytesAvailable ==
    /\ whole.open
    /\ whole' = Cached
    /\ UNCHANGED <<config, registered, asked, chain, out, range, answer>>

\* ReadBytesFromCache
Removed(cache, n) == SubSeq(cache, n + 1, Len(cache))
ReadBytes(len) ==
    /\ whole.open
    /\ LET n == Least(len, Len(Cached.cache))
       IN  /\ out' = out \o SubSeq(Cached.cache, 1, n)
           /\ whole' = [Cached EXCEPT !.cache = Removed(@, n)]
    /\ UNCHANGED <<config, registered, asked, chain, range, answer>>

-----------------------------------------------------------------------------
(***************************************************************************)
(* FilterChainByteStreamRange, on an input stream of its own that does not *)
(* fail.                                                                   *)
(***************************************************************************)
\* GetFilterChainByteStreamRange: the filter if it is the only one and can do
\* ranges, no filter, or (more than one) no stream
RangeFilters == IF Len(Applying(chain)) = 1 /\ kind[Applying(chain)[1]] = "range"
                THEN Applying(chain) ELSE <<>>
OpenRange ==
    /\ chain # <<>>
    /\ ~range.open
    /\ Len(Applying(chain)) <= 1
    /\ range' = [open |-> TRUE, filters |-> RangeFilters]
    /\ UNCHANGED <<config, registered, asked, chain, whole, out, answer>>

\* Seek and ReadBytes of n bytes at a place
SliceAfter(loc, n) == SubSeq(Raw, loc + 2, Least(loc + n + 1, Size))
Slice(loc, n) == SubSeq(Raw, loc + 1, Least(loc + n, Size))

\* ReadBytes(bytes, len, byteRange): a range of n bytes at loc.  The count
\* returned is the filter's, the bytes copied are at most len.
Refused(n, len) == n = 0 \/ n > len
RangeData(loc, n) == IF range.filters = <<>> THEN Slice(loc, n) ELSE Mark(range.filters[1], Slice(loc, n))

ReadRange(loc, n, len) ==
    /\ range.open
    /\ answer' = IF Refused(n, len)
                 THEN NoAnswer
                 ELSE [count |-> Len(RangeData(loc, n)), data |-> RangeData(loc, n),
                       loc |-> loc, n |-> n]
    /\ UNCHANGED <<config, registered, asked, chain, whole, out, range>>

\* ReadBytes(bytes, len): the full range.  Without a filter nothing is read
\* unless the buffer takes the whole resource.
ReadFull(len) ==
    /\ range.open
    /\ answer' = IF range.filters = <<>> /\ Size > len
                 THEN NoAnswer
                 ELSE [count |-> Len(RangeData(0, Size)),
                       data |-> SubSeq(RangeData(0, Size), 1, Least(len, Len(RangeData(0, Size)))),
                       loc |-> 0, n |-> Size]
    /\ UNCHANGED <<config, registered, asked, chain, whole, out, range>>

-----------------------------------------------------------------------------
Next ==
    \/ \E f \in Filters : RegisterFilter(f)
    \/ BuildChain
    \/ OpenWhole
    \/ BytesAvailable
    \/ \E len \in 1 .. 2 : ReadBytes(len)
    \/ OpenRange
    \/ \E loc \in 0 .. Size, n \in 0 .. Size, len \in 1 .. Size : ReadRange(loc, n, len)
    \/ \E len \in 1 .. Size : ReadFull(len)

Spec == Init /\ [][Next]_vars

-----------------------------------------------------------------------------
Content == out \o whole.cache

(***************************************************************************)
(* "The implementation *always* queries every filter in the chain"         *)
(* (filter.h:219).  All bytes of a stream have been through the same       *)
(* filters, never some through these and some through those or none,       *)
(* whatever fails.  They are all the registered filters that apply, each   *)
(* once and by priority, if the resource could be read, no filter returned *)
(* no data (the raw bytes are served then) and a range filter comes first. *)
(* A filter that was not registered gave way to one of its priority.       *)
(*                                                                         *)
(* The order is that of filter_manager.h and of the priorities of          *)
(* filter.h:241; filter.h:213 still describes "LIFO order" through a       *)
(* SetNextFilter() that does not exist, and filter.h:220 that a later      *)
(* filter "will not 'replace'" an earlier one: nor does it, it is dropped. *)
(***************************************************************************)
Alike(data) == \A i, j \in 1 .. Len(data) : data[i].by = data[j].by
Complete(by) ==
    /\ {by[i] : i \in 1 .. Len(by)} = registered \cap sniffs
    /\ \A i, j \in 1 .. Len(by) : i < j => priority[by[i]] > priority[by[j]]
Healthy ==
    /\ readable = Size
    /\ \A i \in 1 .. Len(whole.filters) : /\ kind[whole.filters[i]] # "empty"
                                          /\ kind[whole.filters[i]] = "range" => i = 1
    /\ Cardinality({f \in Filters : kind[f] = "shrink"}) < Size
EveryByteFiltered ==
    whole.open =>
        /\ Alike(Content)
        /\ Healthy => \A i \in 1 .. Len(Content) : Complete(Content[i].by)
        /\ \A f \in Filters \ registered : \E g \in registered : priority[g] = priority[f]

(***************************************************************************)
(* What a stream has begun to serve is what it serves to the end: a cache  *)
(* that is filled again when the raw bytes in it have been read, because   *)
(* no filter made anything of them, adds nothing; and reading moves bytes  *)
(* from the cache to the reader and loses, repeats and exchanges none.     *)
(***************************************************************************)
ContentIsFixed == [][whole.open /\ Content # <<>> => Content' = Content]_vars

(***************************************************************************)
(* A byte range is a slice of the filtered resource: the two kinds of      *)
(* stream agree, if a filter that applies can do ranges.                   *)
(***************************************************************************)
RangeAgreesWithWhole ==
    (whole.open /\ range.open /\ answer.count > 0) =>
        ((Content # <<>> /\ Healthy /\ range.filters = whole.filters) =>
            \A i \in 1 .. Len(answer.data) : answer.data[i] = Content[answer.loc + i])

=============================================================================
