------------------------------ MODULE Chunker ------------------------------
(***************************************************************************)
(* How the body of a corpus document becomes cited chunks: the pipeline of *)
(* features/ingestion/chunker.py and of build_chunks_for_document in       *)
(* features/ingestion/cli.py.                                              *)
(*                                                                         *)
(*   scan   split_into_sections: one line of the body per step             *)
(*   merge  _merge_small_sibling_sections: one section per step, of the    *)
(*          document or of a group                                         *)
(*   split  _split_section on each section in turn (module SectionSplit)   *)
(*                                                                         *)
(* A line of the body is a heading of some level, a blank line or a line   *)
(* of text with its token count; a title is the number of the line of its  *)
(* heading (titles are distinct), 0 the placeholder of a body without one. *)
(* The text of a section or chunk is the sequence of the body lines it     *)
(* holds, 0 standing for the blank line that joins two merged texts.       *)
(***************************************************************************)
EXTENDS SectionSplit, SequencesExt

CONSTANTS
    Bodies,                       \* documents: sequences of lines
    BodyStartLine,                \* body_start_line: the file's line of body line 1
    LineBreakTokens,              \* tokens a line break adds to a text of several lines
    MIN_MERGE_TOKENS,             \* below it a section looks for siblings
    MAX_MERGED_SECTION_TOKENS     \* a merged section never exceeds it

Line == [kind : {"heading", "blank", "text"}, level : Nat, tokens : Nat]
Heading(level) == [kind |-> "heading", level |-> level, tokens |-> 0]
Blank == [kind |-> "blank", level |-> 0, tokens |-> 0]
Text(tokens) == [kind |-> "text", level |-> 0, tokens |-> tokens]

\* A line that is not blank has a token at least.
ASSUME ChunkerAssumption ==
    /\ \A b \in Bodies :
          b \in Seq(Line) /\ \A l \in DOMAIN b : b[l].kind = "text" => b[l].tokens > 0
    /\ BodyStartLine \in Nat /\ LineBreakTokens \in Nat
    /\ MIN_MERGE_TOKENS <= TARGET_CHUNK_TOKENS
    /\ MAX_MERGED_SECTION_TOKENS \in Nat
    /\ MAX_MERGED_SECTION_TOKENS <= SECTION_SPLIT_TRIGGER_TOKENS

VARIABLES
    body,          \* the document at hand
    phase,         \* "scan", "merge", "group" (its inner loop), "split" or "done"
    lineNumber,    \* the line the scan looks at
    headingStack,  \* heading_stack: titles with their levels
    contentStart,  \* content_start_line; content_lines run from here to the line before
    sections,      \* what the scan, then what the merge has produced
    merged, i,     \* the list under construction and the next section to look at
    group, j,      \* the sections i .. j-1 as the one they would merge into
    groupTokens,   \* group_tokens
    raw            \* the chunks of the sections already split

scanVars == <<lineNumber, headingStack, contentStart>>
mergeVars == <<sections, merged, i>>
groupVars == <<group, j, groupTokens>>
vars == <<body, phase, scanVars, mergeVars, groupVars, raw, splitVars>>

-----------------------------------------------------------------------------
\* split_into_sections.

\* The titles a section cites: those of level 2 and below, else the last one.
Breadcrumb(stack) ==
    LET deep == SelectSeq(stack, LAMBDA h : h.level >= 2)
        shown == IF deep # << >> \/ stack = << >> THEN deep ELSE <<Last(stack)>>
    IN  IF shown = << >> THEN <<0>> ELSE [k \in DOMAIN shown |-> shown[k].title]

IsText(l) == l > 0 /\ body[l].kind = "text"

\* A slip: the blank lines trimmed at the front are not added to the start.
FlushUnaligned(stack, first, last) ==
    LET text == {l \in first .. last : body[l].kind = "text"}
    IN  IF text = {} THEN << >>
        ELSE LET from == Min(text)
                 to == Max(text)
             IN  <<[breadcrumb |-> Breadcrumb(stack),
                    start |-> first, end |-> first + to - from,
                    lines |-> [k \in 1 .. to - from + 1 |-> from + k - 1]]>>

\* flush(): the section of lines first .. last without the blank lines around
\* it, or nothing when they are all blank.
Flush(stack, first, last) ==
    LET text == {l \in first .. last : body[l].kind = "text"}
    IN  IF text = {} THEN << >>
        ELSE <<[breadcrumb |-> Breadcrumb(stack),
                start |-> Min(text), end |-> Max(text),
                lines |-> [k \in 1 .. Max(text) - Min(text) + 1 |-> Min(text) + k - 1]]>>

\* A slip: a heading replaces the content before it without flushing it.
ScanHeadingUnflushed ==
    /\ phase = "scan" /\ lineNumber <= Len(body) /\ body[lineNumber].kind = "heading"
    /\ headingStack' =
         Append(SelectSeq(headingStack, LAMBDA h : h.level < body[lineNumber].level),
                [level |-> body[lineNumber].level, title |-> lineNumber])
    /\ contentStart' = lineNumber + 1 /\ lineNumber' = lineNumber + 1
    /\ UNCHANGED <<body, phase, sections, merged, i, groupVars, raw, splitVars>>

ScanHeading ==
    /\ phase = "scan" /\ lineNumber <= Len(body)
    /\ LET line == body[lineNumber]
       IN  /\ line.kind = "heading"
           /\ sections' = sections \o Flush(headingStack, contentStart, lineNumber - 1)
           /\ headingStack' =
                Append(SelectSeq(headingStack, LAMBDA h : h.level < line.level),
                       [level |-> line.level, title |-> lineNumber])
    /\ contentStart' = lineNumber + 1
    /\ lineNumber' = lineNumber + 1
    /\ UNCHANGED <<body, phase, merged, i, groupVars, raw, splitVars>>

ScanContent ==
    /\ phase = "scan" /\ lineNumber <= Len(body)
    /\ body[lineNumber].kind # "heading"
    /\ lineNumber' = lineNumber + 1
    /\ UNCHANGED <<body, phase, headingStack, contentStart, mergeVars, groupVars, raw,
                   splitVars>>

ScanEnd ==
    /\ phase = "scan" /\ lineNumber > Len(body)
    /\ sections' = sections \o Flush(headingStack, contentStart, Len(body))
    /\ phase' = "merge"
    /\ UNCHANGED <<body, scanVars, merged, i, groupVars, raw, splitVars>>

-----------------------------------------------------------------------------
\* _merge_small_sibling_sections.

Tokens(l) == IF l = 0 THEN 0 ELSE body[l].tokens
LineTokens(section) == [k \in DOMAIN section.lines |-> Tokens(section.lines[k])]
PartialSums(seq) ==
    LET upTo[k \in 0 .. Len(seq)] == IF k = 0 THEN 0 ELSE upTo[k - 1] + seq[k]
    IN  upTo
SumOf(seq) == PartialSums(seq)[Len(seq)]
CountTokens(section) ==
    SumOf(LineTokens(section)) + LineBreakTokens * (Len(section.lines) - 1)

\* _parent_breadcrumb; << >> for a top-level section, which never merges.
Parent(section) ==
    IF Len(section.breadcrumb) > 1 THEN Front(section.breadcrumb) ELSE << >>

LooksForSiblings(section) ==
    CountTokens(section) < MIN_MERGE_TOKENS /\ Parent(section) # << >>

KeepSection ==
    /\ phase = "merge" /\ i <= Len(sections)
    /\ ~LooksForSiblings(sections[i])
    /\ merged' = Append(merged, sections[i])
    /\ i' = i + 1
    /\ UNCHANGED <<body, phase, scanVars, sections, groupVars, raw, splitVars>>

\* Before the first group.
NoGroup == [breadcrumb |-> << >>, start |-> 0, end |-> 0, lines |-> << >>]

\* A small section opens a group.
OpenGroup ==
    /\ phase = "merge" /\ i <= Len(sections)
    /\ LooksForSiblings(sections[i])
    /\ group' = sections[i] /\ groupTokens' = CountTokens(sections[i])
    /\ j' = i + 1
    /\ phase' = "group"
    /\ UNCHANGED <<body, scanVars, mergeVars, raw, splitVars>>

\* Section j joins the group: it is a sibling, the group stays under the
\* ceiling and has not reached the target.
Joins ==
    /\ j <= Len(sections)
    /\ Parent(sections[j]) = Parent(sections[i])
    /\ groupTokens + CountTokens(sections[j]) <= MAX_MERGED_SECTION_TOKENS
    /\ groupTokens < TARGET_CHUNK_TOKENS

\* The group with one more section: a blank line joins the texts.
Join(section) ==
    [breadcrumb |-> group.breadcrumb, start |-> group.start, end |-> section.end,
     lines |-> group.lines \o <<0>> \o section.lines]

JoinGroup ==
    /\ phase = "group" /\ Joins
    /\ group' = Join(sections[j])
    /\ groupTokens' = groupTokens + CountTokens(sections[j])
    /\ j' = j + 1
    /\ UNCHANGED <<body, phase, scanVars, mergeVars, raw, splitVars>>

\* A merged section lists the leaf titles; a group of one stays as it was.
LeafTitles == {Last(sections[k].breadcrumb) : k \in i .. j - 1}
Combined ==
    IF j = i + 1 THEN group
    ELSE [breadcrumb |-> Append(Parent(group), LeafTitles),
          start |-> group.start, end |-> group.end, lines |-> group.lines]

\* A slip: a small section without a sibling is looked at for ever.
CloseGroupOfSeveral ==
    /\ phase = "group" /\ ~Joins
    /\ merged' = IF j = i + 1 THEN merged ELSE Append(merged, Combined)
    /\ i' = IF j = i + 1 THEN i ELSE j
    /\ phase' = "merge"
    /\ UNCHANGED <<body, scanVars, sections, groupVars, raw, splitVars>>

CloseGroup ==
    /\ phase = "group" /\ ~Joins
    /\ merged' = Append(merged, Combined)
    /\ i' = j
    /\ phase' = "merge"
    /\ UNCHANGED <<body, scanVars, sections, groupVars, raw, splitVars>>

MergeEnd ==
    /\ phase = "merge" /\ i > Len(sections)
    /\ phase' = "split"
    /\ i' = 1
    /\ UNCHANGED <<body, scanVars, sections, merged, groupVars, raw, splitVars>>

-----------------------------------------------------------------------------
\* chunk_document: _split_section on every section in turn.

\* The chunks of a section as RawChunks: the line range they cite is counted
\* from the start of the section.  A section emitted whole cites its own range.
RawChunks(section, whole) ==
    [k \in DOMAIN chunks |->
        [breadcrumb |-> section.breadcrumb,
         start |-> section.start + chunks[k].start,
         end |-> IF whole THEN section.end ELSE section.start + chunks[k].end - 1,
         lines |-> SubSeq(section.lines, chunks[k].start + 1, chunks[k].end),
         tokens |-> chunks[k].tokens]]

SplitCall ==
    /\ phase = "split" /\ i <= Len(merged)
    /\ Enter(LineTokens(merged[i]))
    /\ UNCHANGED <<body, phase, scanVars, mergeVars, groupVars, raw>>

SplitSection ==
    /\ phase = "split"
    /\ SplitStep
    /\ UNCHANGED <<body, phase, scanVars, mergeVars, groupVars, raw>>

SplitReturn ==
    /\ phase = "split"
    /\ raw' = raw \o RawChunks(merged[i], totalTokens <= SECTION_SPLIT_TRIGGER_TOKENS)
    /\ i' = i + 1
    /\ Return
    /\ UNCHANGED <<body, phase, scanVars, sections, merged, groupVars>>

SplitEnd ==
    /\ phase = "split" /\ i > Len(merged)
    /\ phase' = "done"
    /\ UNCHANGED <<body, scanVars, mergeVars, groupVars, raw, splitVars>>

\* md_line_range of build_chunks_for_document: lines of the file.
MdLineRange(chunk) == BodyStartLine + chunk.start - 1 .. BodyStartLine + chunk.end - 1

-----------------------------------------------------------------------------
Init ==
    /\ body \in Bodies
    /\ phase = "scan"
    /\ lineNumber = 1 /\ headingStack = << >> /\ contentStart = 1
    /\ sections = << >> /\ merged = << >> /\ i = 1
    /\ group = NoGroup /\ j = 1 /\ groupTokens = 0
    /\ raw = << >>
    /\ SplitIdle

Next ==
    \/ ScanHeading \/ ScanContent \/ ScanEnd
    \/ KeepSection \/ OpenGroup \/ JoinGroup \/ CloseGroup \/ MergeEnd
    \/ SplitCall \/ SplitSection \/ SplitReturn \/ SplitEnd

Spec == Init /\ [][Next]_vars /\ WF_vars(Next)

-----------------------------------------------------------------------------
Section == [breadcrumb : Seq(Nat), start : Nat, end : Nat, lines : Seq(Nat)]

\* Content lines of the file, numbered as md_line_range numbers them.
FileLine(l) == BodyStartLine + l - 1
ContentLines == {FileLine(l) : l \in {l \in DOMAIN body : body[l].kind = "text"}}
TextOf(chunk) == {FileLine(l) : l \in {l \in Range(chunk.lines) : IsText(l)}}

\* The variables keep their types.
TypeOK ==
    /\ body \in Bodies
    /\ phase \in {"scan", "merge", "group", "split", "done"}
    /\ lineNumber \in 1 .. Len(body) + 1 /\ contentStart \in 1 .. Len(body) + 1
    /\ \A k \in DOMAIN sections : sections[k] \in Section
    /\ i \in Nat \ {0}
    /\ SplitTypeOK

\* The citation of a chunk is exact (the comment in flush, chunker.py:78):
\* the content lines of the file inside md_line_range are those of its text,
\* after trimming, merging and splitting.
CitationExact ==
    \A k \in DOMAIN raw : TextOf(raw[k]) = MdLineRange(raw[k]) \cap ContentLines

\* Nothing is dropped: when a document is chunked, every content line of the
\* file is in the text of a chunk, the chunks come in document order, and none
\* is empty (ChunkMetadata.validate would stop the whole ingestion).
DocumentCovered ==
    /\ phase = "done" => ContentLines = UNION {TextOf(raw[k]) : k \in DOMAIN raw}
    /\ \A k \in 1 .. Len(raw) - 1 : raw[k].start < raw[k + 1].start
    /\ \A k \in DOMAIN raw : raw[k].tokens > 0

\* The sections a merged section stands for, and the merged sections.
PartsOf(section) ==
    {p \in DOMAIN sections : section.start <= sections[p].start /\ sections[p].end <= section.end}
Groups == {k \in DOMAIN merged : 0 \in Range(merged[k].lines)}

\* The docstring of _merge_small_sibling_sections (chunker.py:141): it combines
\* "consecutive, same-parent sections that are individually below
\* MIN_MERGE_TOKENS".
MergesOnlySmallSections ==
    \A k \in Groups :
        \A p \in PartsOf(merged[k]) : CountTokens(sections[p]) < MIN_MERGE_TOKENS

\* Every document is chunked in the end.
DocumentChunked == <>(phase = "done")

=============================================================================
