----------------------------- MODULE MCPositions -----------------------------
(***************************************************************************)
(* Instance of Positions for TLC: strings, parts and publications.         *)
(***************************************************************************)
EXTENDS Positions

\* Component strings of up to three tokens, and ranges whose ends have one or
\* two components, in and out of order, with offsets of every kind.  The
\* floats are printed with one digit: 12 and 14 become 10.
OneDigit == 0 .. 9 \cup {10 * d : d \in 1 .. 9}
Tokens == {[mark |-> "[", text |-> "a", bias |-> "unspecified"],
           [mark |-> "[", text |-> "b", bias |-> "before"],
           [mark |-> "@", point |-> <<14, 0>>], [mark |-> "@", point |-> <<0, 12>>],
           [mark |-> "!"]}
          \cup [mark : {":"}, value : 0 .. 1] \cup [mark : {"~"}, value : {12, 14}]
Steps == [node : {2, 4}, tokens : {<<>>}]
LastSteps ==
    [node : {2, 4}, tokens : SeqOf(Tokens, 1)]
    \cup [node : {2}, tokens : {<<[mark |-> "~", value |-> v], [mark |-> "@", point |-> <<v, 26 - v>>]>> :
                                    v \in {12, 14}}]
Ends == {<<c>> : c \in LastSteps} \cup {<<s, c>> : s \in Steps, c \in LastSteps}
SmallStrings ==
    {<< <<c>> >> : c \in [node : {2}, tokens : SeqOf(Tokens, 3)]}
    \cup {<< <<c>>, s, e>> : c \in Steps, s \in Ends, e \in Ends}
    \cup {<< <<c>>, <<c>> >> : c \in Steps}
SmallParts == {<< <<c>> >> : c \in Steps} \cup {<< <<c>>, <<c>>, <<[c EXCEPT !.node = 4]>> >> : c \in Steps}

\* Bodies of up to two containers, sequences of up to two parallels among
\* them, beside a spine item without overlay or with a simple one.  With a
\* Word of 32 the longest int32_t is 15.
Txt(own) == [kind |-> "text", own |-> own]
Clip(begin, end) == [kind |-> "audio", begin |-> begin, end |-> end]
P(media) == [kind |-> "par", media |-> media]
Spoken == {P(<<Txt(TRUE), Clip(0, 2)>>), P(<<Clip(1, 2), Txt(TRUE)>>), P(<<Txt(FALSE), Clip(0, 1)>>)}
Others == {P(<<Txt(TRUE)>>), P(<<Txt(TRUE), Clip(2, 1)>>), P(<<Clip(0, 1), Txt(FALSE)>>),
           P(<<Txt(TRUE), Clip(0, 1), Clip(0, 2)>>),                \* two audios
           P(<<Txt(FALSE), Clip(0, 1), Txt(TRUE)>>)}                \* two texts
Extreme == {<<P(<<Txt(TRUE), Clip(0, 17)>>)>>, <<P(<<Txt(TRUE), Clip(20, 0)>>)>>}
Containers == Spoken \cup Others
              \cup [kind : {"seq"}, kids : (SeqOf(Spoken, 2) \ {<<>>}) \cup {<<p>> : p \in Others}]
SmallBodies == SeqOf(Containers, 2) \ {<<>>}
Simple == {<<[kind |-> "none"]>>, <<P(<<Txt(TRUE), Clip(0, 1)>>)>>}
OneDocument == {<<b>> : b \in SmallBodies \cup Simple \cup Extreme}
TwoDocuments == {<<b, o>> : b \in SmallBodies, o \in Simple} \cup {<<o, b>> : b \in SmallBodies, o \in Simple}
Publications == OneDocument \cup TwoDocuments

\* TLC computes a definition once, unless a constant is replaced by it.
MCStrings == SmallStrings
MCParts == SmallParts
MCPrintable == OneDigit
MCBooks == Publications
=============================================================================
