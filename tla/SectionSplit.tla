---------------------------- MODULE SectionSplit ----------------------------
(***************************************************************************)
(* How one section of a document becomes chunks: `_split_section` of       *)
(* features/ingestion/chunker.py.  A section is the sequence of the token  *)
(* counts of its lines; a chunk is a range of line indices, 0-based as in  *)
(* the code, end exclusive.                                                *)
(*                                                                         *)
(* The three nested loops of the function are the actions below: one       *)
(* iteration of a loop is one step.  A section under the trigger is        *)
(* emitted whole; any other is filled line by line up to the target, then  *)
(* the index walks back over an overlap, and the next chunk starts there.  *)
(***************************************************************************)
EXTENDS Integers, Sequences

CONSTANTS
    TARGET_CHUNK_TOKENS,            \* a chunk takes lines until it holds this many tokens
    SECTION_SPLIT_TRIGGER_TOKENS,   \* a section up to this size is emitted whole
    OverlapTokens                   \* round(TARGET_CHUNK_TOKENS * OVERLAP_RATIO)

ASSUME SplitAssumption ==
    /\ TARGET_CHUNK_TOKENS \in Nat \ {0}
    /\ SECTION_SPLIT_TRIGGER_TOKENS \in Nat
    /\ OverlapTokens \in Nat

VARIABLES
    lineTokens,   \* line_token_counts of the section at hand
    at,           \* which loop the function is in: "idle", "count", "fill", "back" or "done"
    counted,      \* how many lines are summed so far
    totalTokens,  \* total_tokens
    startIdx,     \* start_idx
    lineIdx,      \* line_idx
    chunkTotal,   \* chunk_token_total
    backIdx,      \* back_idx
    overlapAccum, \* overlap_accum
    chunks        \* the chunks emitted so far: [start, end, tokens]

countVars == <<lineTokens, counted, totalTokens>>
loopVars == <<startIdx, lineIdx, chunkTotal, backIdx, overlapAccum>>
splitVars == <<countVars, at, loopVars, chunks>>

\* Number of lines, and the count of the line at a 0-based index.
n == Len(lineTokens)
TokensAt(i) == lineTokens[i + 1]

Chunk(start, end, tokens) == [start |-> start, end |-> end, tokens |-> tokens]
ChunkRecords == [start : Nat, end : Nat, tokens : Nat]

-----------------------------------------------------------------------------
\* Before the function is called.
SplitIdle ==
    /\ lineTokens = << >> /\ counted = 0 /\ totalTokens = 0
    /\ at = "idle"
    /\ startIdx = 0 /\ lineIdx = 0 /\ chunkTotal = 0
    /\ backIdx = 0 /\ overlapAccum = 0
    /\ chunks = << >>

\* The locals of a call, in the loop it begins with.
Locals(tokens, loop) ==
    /\ lineTokens' = tokens /\ counted' = 0 /\ totalTokens' = 0
    /\ at' = loop
    /\ startIdx' = 0 /\ lineIdx' = 0 /\ chunkTotal' = 0
    /\ backIdx' = 0 /\ overlapAccum' = 0
    /\ chunks' = << >>

\* The call: the section is split at its newlines.
Enter(tokens) == at = "idle" /\ Locals(tokens, "count")

\* The return: the caller has the chunks, and the locals are gone.
Return == at = "done" /\ Locals(<< >>, "idle")

\* sum(line_token_counts), line by line.
CountLine ==
    /\ at = "count"
    /\ counted < n
    /\ counted' = counted + 1
    /\ totalTokens' = totalTokens + TokensAt(counted)
    /\ UNCHANGED <<lineTokens, at, loopVars, chunks>>

\* Up to the trigger the section is one chunk.
EmitWhole ==
    /\ at = "count" /\ counted = n
    /\ totalTokens <= SECTION_SPLIT_TRIGGER_TOKENS
    /\ chunks' = <<Chunk(0, n, totalTokens)>>
    /\ at' = "done"
    /\ UNCHANGED <<countVars, loopVars>>

\* Above it the outer loop starts at the first line.
StartSplit ==
    /\ at = "count" /\ counted = n
    /\ totalTokens > SECTION_SPLIT_TRIGGER_TOKENS
    /\ at' = "fill"
    /\ UNCHANGED <<countVars, loopVars, chunks>>

\* A slip: a chunk that has just reached the target takes one more line.
TakeLineAtTarget ==
    /\ at = "fill" /\ lineIdx < n /\ chunkTotal <= TARGET_CHUNK_TOKENS
    /\ chunkTotal' = chunkTotal + TokensAt(lineIdx) /\ lineIdx' = lineIdx + 1
    /\ UNCHANGED <<countVars, at, startIdx, backIdx, overlapAccum, chunks>>

\* Inner loop: one more line, while the chunk is below the target.
TakeLine ==
    /\ at = "fill"
    /\ lineIdx < n
    /\ chunkTotal < TARGET_CHUNK_TOKENS
    /\ chunkTotal' = chunkTotal + TokensAt(lineIdx)
    /\ lineIdx' = lineIdx + 1
    /\ UNCHANGED <<countVars, at, startIdx, backIdx, overlapAccum, chunks>>

\* The chunk is appended; at the last line the function returns, before it the
\* walk back begins at the end of the chunk.
EmitChunk ==
    /\ at = "fill"
    /\ ~(lineIdx < n /\ chunkTotal < TARGET_CHUNK_TOKENS)
    /\ chunks' = Append(chunks, Chunk(startIdx, lineIdx, chunkTotal))
    /\ at' = IF lineIdx >= n THEN "done" ELSE "back"
    /\ backIdx' = lineIdx
    /\ overlapAccum' = 0
    /\ UNCHANGED <<countVars, startIdx, lineIdx, chunkTotal>>

\* Overlap loop: one line back, while the overlap is short and lies inside the
\* chunk just emitted.
StepBack ==
    /\ at = "back"
    /\ backIdx > startIdx
    /\ overlapAccum < OverlapTokens
    /\ backIdx' = backIdx - 1
    /\ overlapAccum' = overlapAccum + TokensAt(backIdx - 1)
    /\ UNCHANGED <<countVars, at, startIdx, lineIdx, chunkTotal, chunks>>

\* Where the next chunk starts: never at or before the start of this one.
NextStart == IF backIdx >= startIdx + 1 THEN backIdx ELSE startIdx + 1

\* The next chunk starts, and line_idx with it.
Restart ==
    /\ at = "back"
    /\ ~(backIdx > startIdx /\ overlapAccum < OverlapTokens)
    /\ startIdx' = NextStart
    /\ lineIdx' = NextStart
    /\ chunkTotal' = 0
    /\ at' = "fill"
    /\ UNCHANGED <<countVars, backIdx, overlapAccum, chunks>>

SplitStep ==
    CountLine \/ EmitWhole \/ StartSplit \/ TakeLine \/ EmitChunk \/ StepBack \/ Restart

-----------------------------------------------------------------------------
\* The function by itself, called again and again on a section of any lines.
Call == \E tokens \in Seq(Nat) \ {<< >>} : Enter(tokens)

SplitNext == Call \/ SplitStep \/ Return
SplitSpec == SplitIdle /\ [][SplitNext]_splitVars

-----------------------------------------------------------------------------
\* The variables of the function keep their types and its indices stay in range.
SplitTypeOK ==
    /\ lineTokens \in Seq(Nat)
    /\ at \in {"idle", "count", "fill", "back", "done"}
    /\ counted \in 0 .. n /\ totalTokens \in Nat
    /\ startIdx \in 0 .. n /\ lineIdx \in 0 .. n /\ backIdx \in 0 .. n
    /\ chunkTotal \in Nat /\ overlapAccum \in Nat
    /\ chunks \in Seq(ChunkRecords)

\* The loop the comment at chunker.py:246 guards against: "regenerate the same
\* chunk boundary forever".  Every chunk starts after the one before it and no
\* later than that one ends, whatever the tokens of the lines.
ChunksAdvance ==
    \A k \in 1 .. Len(chunks) - 1 :
        /\ chunks[k].start < chunks[k + 1].start
        /\ chunks[k + 1].start <= chunks[k].end

\* Citation coverage of a split section: when the function returns, every line
\* of the section is inside some chunk, lines of zero tokens and lines longer
\* than the target included.
EveryLineCited ==
    at = "done" =>
        \A i \in 0 .. n - 1 :
            \E k \in 1 .. Len(chunks) : chunks[k].start <= i /\ i < chunks[k].end

\* What the target buys: a chunk of a split section would be below the target
\* without its last line, so only that one line can carry it over.
TargetOverrunByOneLine ==
    totalTokens > SECTION_SPLIT_TRIGGER_TOKENS =>
        \A k \in 1 .. Len(chunks) :
            chunks[k].tokens < TARGET_CHUNK_TOKENS + TokensAt(chunks[k].end - 1)

=============================================================================
