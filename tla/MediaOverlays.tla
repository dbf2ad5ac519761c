---------------------------- MODULE MediaOverlays ----------------------------
(***************************************************************************)
(* Media overlays (ePub3/ePub/media-overlays_smil_model.cpp and            *)
(* media-overlays_smil_data.h): the SMIL documents of the spine items are  *)
(* parsed into trees of sequences and parallels, and a time of the whole   *)
(* publication is converted into a position (a SMIL document, a parallel   *)
(* and a time in its clip) and back.                                       *)
(*                                                                         *)
(* Times are milliseconds.  A parallel is found by its path, the indices of*)
(* the children that lead to it.  The error handler is the default one.    *)
(* The durations of the metadata are only compared and reported.  A client *)
(* asks for positions and percentages without changing anything.           *)
(***************************************************************************)
EXTENDS Integers, Sequences, SequencesExt, FiniteSetsExt

CONSTANTS
    Books,      \* the publications: for each spine item the body of its SMIL
                \* document, a sequence of containers, or NoOverlay
    MaxDepth,   \* how deep the sequences of a document are nested at most
    Word        \* how many numbers a uint32_t has, 2^32

VARIABLES
    pc,         \* "start", "parse", "ready" or "threw"
    book,       \* the publication
    datas,      \* _smilDatas: the children of each body, <<>> if it has none
    next,       \* the spine item parseSMILs() is at
    parsed      \* history: what parseSMIL() returned for each document

overlays == <<pc, book, datas, next, parsed>>

NoOverlay == <<[kind |-> "none"]>>
NoParallel == <<>>
Nowhere == [smil |-> 0, par |-> NoParallel, ms |-> 0]

\* uint32_t, its subtraction, and its conversion to int32_t
Times == 0 .. Word - 1
Minus(a, b) == (a - b) % Word
Int32(n) == IF 2 * n < Word THEN n ELSE n - Word

\* SumsOf(s)[n]: what the first n numbers add up to
SumsOf(s) == LET sum[n \in 0 .. Len(s)] == IF n = 0 THEN 0 ELSE sum[n - 1] + s[n] IN sum
SumOf(s) == SumsOf(s)[Len(s)]

-----------------------------------------------------------------------------
(***************************************************************************)
(* The trees: a sequence has children (kids).  A parallel has media, in the*)
(* order of the document: texts, of the spine item or of another one (own),*)
(* and audio, with the beginning and the end of a clip.  Of each kind it   *)
(* keeps the last, as Text() and Audio().                                  *)
(***************************************************************************)
Media == [kind : {"text"}, own : BOOLEAN] \cup [kind : {"audio"}, begin : Times, end : Times]
Par == [kind : {"par"}, media : Seq(Media)]
Trees[d \in 0 .. MaxDepth] ==
    IF d = 0 THEN Seq(Par) ELSE Seq(Par \cup [kind : {"seq"}, kids : Trees[d - 1]])
Bodies == Trees[MaxDepth]

Silent == [kind |-> "par", media |-> << [kind |-> "text", own |-> TRUE] >>]

AllOf(p, kind) == {i \in DOMAIN p.media : p.media[i].kind = kind}
LastOf(p, kind) == p.media[Max(AllOf(p, kind))]

ClipDurationMilliseconds(clip) == IF clip.end <= clip.begin THEN 0 ELSE clip.end - clip.begin

\* The parallels that have a place on the time line
Counts(p) == AllOf(p, "audio") # {} /\ (AllOf(p, "text") # {} => LastOf(p, "text").own)
CountedTime(p) == IF Counts(p) THEN ClipDurationMilliseconds(LastOf(p, "audio")) ELSE 0

\* Sequence::DurationMilliseconds()
DurationMilliseconds[kids \in Bodies] ==
    SumOf([i \in DOMAIN kids |-> IF kids[i].kind = "seq" THEN DurationMilliseconds[kids[i].kids]
                                 ELSE CountedTime(kids[i])])

\* What the children before the i-th add to an offset
TimeBefore(kids, i) ==
    SumsOf([k \in DOMAIN kids |-> IF kids[k].kind = "seq" THEN DurationMilliseconds[kids[k].kids]
                                  ELSE CountedTime(kids[k])])[i - 1]

\* The first of several answers that is one, 0 if none is
FirstFound(answers) ==
    LET found == {i \in DOMAIN answers : answers[i] # NoParallel}
    IN IF found = {} THEN 0 ELSE Min(found)

\* Sequence::ParallelAt(): a clip of some length contains its end.
WithinOpen(time, clip) == time < clip
Within(time, clip) == clip > 0 /\ time <= clip

Below(i, path) == IF path = NoParallel THEN NoParallel ELSE <<i>> \o path
ParallelInTree[kids \in Bodies] ==
    [time \in Times |->
        LET Adjusted(i) == Minus(time, TimeBefore(kids, i))
            answers ==
                [i \in DOMAIN kids |->
                    IF kids[i].kind = "seq" THEN Below(i, ParallelInTree[kids[i].kids][Adjusted(i)])
                    ELSE IF Within(Adjusted(i), CountedTime(kids[i])) THEN <<i>> ELSE NoParallel]
            first == FirstFound(answers)
        IN IF first = 0 THEN NoParallel ELSE answers[first]]

\* The parallels of a tree, in the order of the document
Parallels[kids \in Bodies] ==
    FlattenSeq([i \in DOMAIN kids |->
        IF kids[i].kind = "seq"
        THEN LET inside == Parallels[kids[i].kids] IN [k \in DOMAIN inside |-> <<i>> \o inside[k]]
        ELSE << <<i>> >>])

\* The parallel at the end of a path
Leads(kids, path) == path # <<>> /\ path[1] \in DOMAIN kids
Node[kids \in Bodies] ==
    [path \in Seq(Nat) |->
        IF ~Leads(kids, path) THEN Silent
        ELSE IF kids[path[1]].kind = "seq" THEN Node[kids[path[1]].kids][Tail(path)]
        ELSE kids[path[1]]]

\* SMILData::ClipOffset(): what counts before the parallel; a sequence it is
\* not in is walked to its end, and adds all that counts there.
ClipOffset[kids \in Bodies] ==
    [path \in Seq(Nat) |->
        IF ~Leads(kids, path) THEN 0
        ELSE TimeBefore(kids, path[1])
             + (IF kids[path[1]].kind = "seq" THEN ClipOffset[kids[path[1]].kids][Tail(path)] ELSE 0)]

\* SMILData::NthParallel(): count begins one before 0, and every parallel
\* counts, also one without a place on the time line.
FirstCountLate == 1
FirstCount == 0
NthParallel(kids, index) ==
    LET pars == Parallels[kids]
        k == index - FirstCount + 1
    IN IF k \in DOMAIN pars THEN pars[k] ELSE NoParallel

-----------------------------------------------------------------------------
(***************************************************************************)
(* The time line of the publication                                        *)
(***************************************************************************)
\* The durations of the documents, which together fit in 32 bits: less than
\* 49 days of audio
DurationsOf(docs) ==
    [i \in DOMAIN docs |-> IF docs[i] = NoOverlay THEN 0 ELSE DurationMilliseconds[docs[i]]]

ASSUME WordAssumption == Word \in Nat /\ Word > 0 /\ MaxDepth \in Nat
ASSUME BooksAssumption ==
    \A b \in Books : b \in Seq(Bodies \cup {NoOverlay}) /\ SumOf(DurationsOf(b)) < Word

SumTo(i) == SumsOf(DurationsOf(datas))[i]
Total == SumTo(Len(datas))    \* DurationMilliseconds_Calculated()

\* MediaOverlaysSmilModel::ParallelAt(): the first document that has one
ParallelAt(time) ==
    LET answers == [i \in DOMAIN datas |-> ParallelInTree[datas[i]][Minus(time, SumTo(i - 1))]]
        smil == FirstFound(answers)
    IN [smil |-> smil, par |-> IF smil = 0 THEN NoParallel ELSE answers[smil]]

\* PercentToPosition(), from the time the percentage stands for; one below 0
\* or above 100 counts as 0.  The index of the parallel is not among the
\* results that are set.
PositionAt(wanted) ==
    LET time == IF wanted \in 0 .. Total THEN wanted ELSE 0
        at == ParallelAt(time)
    IN IF at.smil = 0 THEN Nowhere
       ELSE [smil |-> at.smil, par |-> at.par,
             ms |-> Minus(time, SumTo(at.smil - 1) + ClipOffset[datas[at.smil]][at.par])]

\* PositionToPercent(), as the time its percentage stands for, or below 0
PositionToTime(smil, parIndex, ms) ==
    LET par == IF smil \in DOMAIN datas THEN NthParallel(datas[smil], parIndex) ELSE NoParallel
    IN IF par = NoParallel THEN -1
       ELSE (SumTo(smil - 1) + ClipOffset[datas[smil]][par] + ms) % Word

-----------------------------------------------------------------------------
OverlaysInit ==
    /\ pc = "start" /\ book = <<>> /\ datas = <<>>
    /\ next = 1 /\ parsed = <<>>

\* parseMetadata(): a spine item without overlay gets a body with a silent
\* parallel, unless none has one.
ParseMetadata(b) ==
    /\ pc = "start"
    /\ book' = b
    /\ datas' = IF \A i \in DOMAIN b : b[i] = NoOverlay THEN <<>>
                ELSE [i \in DOMAIN b |-> IF b[i] = NoOverlay THEN <<Silent>> ELSE <<>>]
    /\ pc' = "parse"
    /\ UNCHANGED <<next, parsed>>

\* parseSMIL(): what it adds for an audio element, whose duration is an
\* int32_t; a clip that has no end, or one before its beginning, ends at 0.
ClipAdded(clip) ==
    LET end == IF clip.end <= clip.begin THEN 0 ELSE clip.end
        clipDuration == Int32(Minus(end, clip.begin))
    IN IF clipDuration <= 0 THEN 0 ELSE clipDuration

\* Every audio of a parallel is added, up to the first text that is another
\* item's: from there on, _excludeAudioDuration.
NotExcluded(p, i) == FALSE
Excluded(p, i) == \E j \in 1 .. i - 1 : p.media[j].kind = "text" /\ ~p.media[j].own
ParTime(p) ==
    SumOf([i \in DOMAIN p.media |-> IF p.media[i].kind = "audio" /\ ~Excluded(p, i)
                                    THEN ClipAdded(p.media[i]) ELSE 0])

ParsedDuration[kids \in Bodies] ==
    SumOf([i \in DOMAIN kids |-> IF kids[i].kind = "seq" THEN ParsedDuration[kids[i].kids]
                                 ELSE ParTime(kids[i])])

\* A pass of the loop of parseSMILs()
Skip ==
    /\ pc = "parse" /\ next <= Len(book) /\ book[next] = NoOverlay
    /\ next' = next + 1
    /\ UNCHANGED <<pc, book, datas, parsed>>
ParseSMIL ==
    /\ pc = "parse" /\ next <= Len(book) /\ book[next] # NoOverlay
    /\ datas' = [datas EXCEPT ![next] = book[next]]
    /\ parsed' = Append(parsed, <<next, ParsedDuration[book[next]] % Word>>)
    /\ next' = next + 1
    /\ UNCHANGED <<pc, book>>

\* Two head or two body elements are tolerated and end the parsing of all
\* documents; other errors are refused, and leave Initialize().
ParseStops(how) ==
    /\ pc = "parse" /\ next <= Len(book) /\ book[next] # NoOverlay
    /\ pc' = how
    /\ UNCHANGED <<book, datas, next, parsed>>
ParseEnds ==
    /\ pc = "parse" /\ next > Len(book)
    /\ pc' = "ready"
    /\ UNCHANGED <<book, datas, next, parsed>>

OverlaysNext ==
    \/ \E b \in Books : ParseMetadata(b)
    \/ Skip \/ ParseSMIL \/ ParseEnds
    \/ \E how \in {"ready", "threw"} : ParseStops(how)

OverlaysSpec == OverlaysInit /\ [][OverlaysNext]_overlays

-----------------------------------------------------------------------------
(***************************************************************************)
(* Properties                                                              *)
(***************************************************************************)
\* If there is any audio, every time has a position, which is in the clip it
\* names: after its beginning, unless it is the beginning of all, and not
\* after its end.  ParallelAt() and ClipOffset() walk the trees differently.
SeekLandsInClip ==
    pc = "ready" /\ Total > 0 =>
        \A time \in 0 .. Total :
            LET at == PositionAt(time)
            IN at # Nowhere /\ at.ms <= CountedTime(Node[datas[at.smil]][at.par]) /\ (at.ms > 0 \/ time = 0)

\* A place in the audio that a client keeps as a percentage, by the number of
\* its parallel among all those of its document, is where that percentage
\* leads: NthParallel() and ClipOffset(), which find the time of a place, and
\* ParallelAt(), which finds the place of a time, walk the trees in different
\* ways and count different parallels.  The beginning of a clip is left out,
\* whose time is that of the end of the clip before, and so is what doubles
\* lose: a time that is cut off is the one before it.
PlaceComesBack ==
    pc = "ready" =>
        \A smil \in DOMAIN datas : \A k \in DOMAIN Parallels[datas[smil]] :
            LET par == Parallels[datas[smil]][k]
            IN \A ms \in 1 .. CountedTime(Node[datas[smil]][par]) :
                   PositionAt(PositionToTime(smil, k - 1, ms)) = [smil |-> smil, par |-> par, ms |-> ms]

\* What parseSMIL() adds up is what the tree it has built lasts, for the
\* parallels EPUB 3 allows, of one text and at most one audio, if a text of
\* another item comes before the audio and clock values are below 2^31 (24
\* days).  Of several audios the parser adds each and the tree keeps the last;
\* a longer clip is not added, and one that begins later and has no end is.
Regular(p) ==
    /\ \A i, j \in DOMAIN p.media : p.media[i].kind = p.media[j].kind => i = j
    /\ \A i \in AllOf(p, "text"), j \in AllOf(p, "audio") : ~p.media[i].own => i < j
    /\ \A j \in AllOf(p, "audio") : 2 * p.media[j].begin < Word /\ 2 * p.media[j].end < Word
AllRegular[kids \in Bodies] ==
    \A i \in DOMAIN kids : IF kids[i].kind = "seq" THEN AllRegular[kids[i].kids] ELSE Regular(kids[i])
DurationsAgree ==
    \A k \in DOMAIN parsed :
        LET i == parsed[k][1]
        IN AllRegular[datas[i]] => parsed[k][2] = DurationMilliseconds[datas[i]]

=============================================================================
