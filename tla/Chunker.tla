------------------------------ MODULE Chunker ------------------------------
(***************************************************************************)
(* Splitting the text of a document into chunks                             *)
(* (internal/textchunk/chunker.go).                                         *)
(*                                                                         *)
(* A text is a sequence of characters: NL for a line break, any other       *)
(* number for a letter; the dashes and equals signs a ruler is made of are   *)
(* letters.  ChunkBySemanticBreaks cuts at empty lines and at rulers and     *)
(* keeps neither.  The steps of the two loops are operators, so that a       *)
(* specification can take them one iteration at a time.                     *)
(***************************************************************************)
EXTENDS Filter, SequencesExt, FiniteSetsExt

CONSTANTS
    MaxChunkSize,   \* defaultMaxChunkSize
    OverlapSize,    \* defaultOverlapSize
    MinChunkSize,   \* defaultMinChunkSize
    Rulers          \* the rulers of ChunkBySemanticBreaks, in the order it tries them

ASSUME SizesAssumption ==
    /\ {MaxChunkSize, OverlapSize, MinChunkSize} \subseteq Nat \ {0}
    /\ MinChunkSize <= OverlapSize
    /\ OverlapSize < MaxChunkSize

NL == 0

ASSUME RulersAssumption ==
    /\ Rulers \in Seq(Seq(Nat \ {NL}))
    /\ \A i \in DOMAIN Rulers : Rulers[i] # <<>>

Letters(s) == Keep(s, ToSet(s) \ {NL})

\* strings.TrimSpace
Trim(s) ==
    LET Solid == {i \in 1 .. Len(s) : s[i] # NL}
    IN  IF Solid = {} THEN <<>> ELSE SubSeq(s, Min(Solid), Max(Solid))

-----------------------------------------------------------------------------
(* ChunkByParagraphs *)

\* strings.Split(text, "\n"): the lines that are complete after n characters, and the
\* one that has begun.
LinesAfter(text) ==
    LET lines[n \in 0 .. Len(text)] ==
          IF n = 0 THEN [done |-> <<>>, line |-> <<>>]
          ELSE IF text[n] = NL
          THEN [done |-> Append(lines[n - 1].done, lines[n - 1].line), line |-> <<>>]
          ELSE [lines[n - 1] EXCEPT !.line = Append(@, text[n])]
    IN  lines

Lines(text) ==
    LET all == LinesAfter(text)[Len(text)]
    IN  Append(all.done, all.line)

\* Mutant of AddParagraph: the paragraph that does not fit any more is left out.
AddParagraphDrops(acc, para) ==
    IF para = <<>> THEN acc
    ELSE IF Len(acc.current) + Len(para) > MaxChunkSize /\ acc.current # <<>>
    THEN [chunks |-> Append(acc.chunks, Trim(acc.current)), current |-> <<>>]
    ELSE [acc EXCEPT !.current = @ \o para \o <<NL>>]

\* A paragraph joins the current chunk unless that would grow past the maximum.
AddParagraph(acc, para) ==
    IF para = <<>> THEN acc
    ELSE IF Len(acc.current) + Len(para) > MaxChunkSize /\ acc.current # <<>>
    THEN [chunks |-> Append(acc.chunks, Trim(acc.current)), current |-> para \o <<NL>>]
    ELSE [acc EXCEPT !.current = @ \o para \o <<NL>>]

ParagraphsAfter(lines) ==
    LET after[n \in 0 .. Len(lines)] ==
          IF n = 0 THEN [chunks |-> <<>>, current |-> <<>>]
          ELSE AddParagraph(after[n - 1], lines[n])
    IN  after

ChunkByParagraphs(text) ==
    LET all == ParagraphsAfter(Lines(text))[Len(Lines(text))]
    IN  IF all.current = <<>> THEN all.chunks ELSE Append(all.chunks, Trim(all.current))

-----------------------------------------------------------------------------
(* ChunkText: windows of MaxChunkSize that overlap; text[pos + 1] is the first  *)
(* character of the window.                                                   *)

\* Line breaks are not counted in the length of the sentences, so the boundary of a
\* window with two sentences or more moves to the left by the number of its breaks.
FindChunkBoundary(text, start, end) ==
    LET window == SubSeq(text, start + 1, end)
        sentences == SelectSeq(Lines(window), LAMBDA l : l # <<>>)
    IN  IF end = Len(text) \/ Len(sentences) <= 1
        THEN end
        ELSE start + Len(Letters(window))

\* One iteration: the chunk it adds, if any, and the next position.
Window(text, pos) ==
    LET end == Min({pos + MaxChunkSize, Len(text)})
        boundary == FindChunkBoundary(text, pos, end)
        chunk == SubSeq(text, pos + 1, boundary)
    IN  IF Len(chunk) < MinChunkSize
        THEN [add |-> <<>>, next |-> end]
        ELSE [add |-> <<chunk>>, next |-> Max({boundary, OverlapSize}) - OverlapSize]

-----------------------------------------------------------------------------
(* ChunkBySemanticBreaks *)

Breaks == <<<<NL, NL>>>> \o Rulers

\* Where mark occurs at or after start: the lengths of the text before it.
Occurrences(text, start, mark) ==
    {i \in start .. Len(text) - Len(mark) : SubSeq(text, i + 1, i + Len(mark)) = mark}

\* strings.Index
FirstAt(text, start, mark) == Min(Occurrences(text, start, mark))

\* The break is found, and the section before it is not too short.
CutsAt(text, start, mark) ==
    /\ Occurrences(text, start, mark) # {}
    /\ FirstAt(text, start, mark) - start > MinChunkSize

LastSection(text, start) ==
    IF start < Len(text) THEN <<Trim(SubSeq(text, start + 1, Len(text)))>> ELSE <<>>

\* Mutant of SemanticBreak: a section that is too short is passed over, and the
\* search starts again at the same place.
SemanticBreakRetries(text, start, b) ==
    IF b > Len(Breaks)
    THEN [more |-> FALSE, next |-> Len(text), brk |-> b, add |-> LastSection(text, start)]
    ELSE IF CutsAt(text, start, Breaks[b])
    THEN [more |-> TRUE, next |-> FirstAt(text, start, Breaks[b]) + Len(Breaks[b]), brk |-> b,
          add |-> <<Trim(SubSeq(text, start + 1, FirstAt(text, start, Breaks[b])))>>]
    ELSE IF Occurrences(text, start, Breaks[b]) # {}
    THEN [more |-> TRUE, next |-> start, brk |-> b, add |-> <<>>]
    ELSE [more |-> TRUE, next |-> start, brk |-> b + 1, add |-> <<>>]

\* One iteration with break b: the section before its next occurrence is a chunk; b is
\* given up for the next break when there is none, or the section would be too short.
\* What remains after the last break is the last chunk.
SemanticBreak(text, start, b) ==
    IF b > Len(Breaks)
    THEN [more |-> FALSE, next |-> Len(text), brk |-> b, add |-> LastSection(text, start)]
    ELSE IF CutsAt(text, start, Breaks[b])
    THEN [more |-> TRUE, next |-> FirstAt(text, start, Breaks[b]) + Len(Breaks[b]), brk |-> b,
          add |-> <<Trim(SubSeq(text, start + 1, FirstAt(text, start, Breaks[b])))>>]
    ELSE [more |-> TRUE, next |-> start, brk |-> b + 1, add |-> <<>>]

-----------------------------------------------------------------------------
(* Texts SmartChunk splits without the windows of ChunkText. *)
Fits(text) ==
    LET paragraphs == ChunkByParagraphs(text)
    IN  IF Len(paragraphs) = 1
        THEN Len(text) <= MaxChunkSize
        ELSE \A i \in DOMAIN paragraphs : Len(paragraphs[i]) <= MaxChunkSize
=============================================================================
