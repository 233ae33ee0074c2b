--------------------------- MODULE ChunkerProofs ---------------------------
(***************************************************************************)
(* Proofs about the chunker, for every document and all settings of the    *)
(* sizes.                                                                  *)
(*                                                                         *)
(* First `_split_section` by itself: what its indices mean in each loop    *)
(* gives that the chunks advance, leave no gap and keep to the target.     *)
(* Then the pipeline around it.  Its invariant says, of each list it       *)
(* builds, that the ranges cited hold the text there is, in order, and all *)
(* of the text up to where the phase has come.  A section that was merged  *)
(* has blank lines in it that are not its body's, so line numbers counted  *)
(* from its start would be wrong; the invariant knows that it is never     *)
(* split, because the sum of its lines stays under the trigger.  Sums are  *)
(* recursive functions; what is needed of them is proved by looking at the *)
(* least place where it would fail.                                        *)
(***************************************************************************)
EXTENDS Chunker, SequenceTheorems, WellFoundedInduction, TLAPS

-----------------------------------------------------------------------------
(* Sets of naturals and sums.                                              *)

\* A set of naturals that is not empty has a least member.
LEMMA LeastLine ==
    ASSUME NEW S \in SUBSET Nat, S # {}
    PROVE  \E l \in S : \A m \in S : l <= m
  <1> DEFINE less == {ss \in Nat \X Nat : ss[1] < ss[2]}
  <1>1. IsWellFoundedOn(less, Nat)
    BY NatLessThanWellFounded DEF OpToRel
  <1>2. PICK l \in S : \A m \in S : ~(<<m, l>> \in less)
    <2> HIDE DEF less
    <2> QED BY <1>1, WFMin
  <1>3. \A m \in S : ~(m < l)
    BY <1>2
  <1> QED BY <1>3

\* Bounded, it also has a greatest.
LEMMA GreatestLine ==
    ASSUME NEW m \in Nat, NEW S \in SUBSET (0 .. m), S # {}
    PROVE  \E l \in S : \A k \in S : k <= l
  <1> DEFINE D == {m - l : l \in S}
  <1>1. D \in SUBSET Nat /\ D # {}
    <2>1. \A l \in S : m - l \in Nat
      OBVIOUS
    <2> QED BY <2>1
  <1>2. PICK d \in D : \A e \in D : d <= e
    <2> HIDE DEF D
    <2> QED BY <1>1, LeastLine
  <1>3. PICK l \in S : d = m - l
    BY <1>2
  <1>4. \A k \in S : m - l <= m - k
    BY <1>2, <1>3
  <1> QED BY <1>4

\* `upTo` is a prefix of the partial sums of seq, as far as `limit`.
Prefix(seq, upTo, limit) ==
    upTo = [k \in 0 .. limit |-> IF k = 0 THEN 0 ELSE upTo[k - 1] + seq[k]]

\* The recursion of PartialSums has a solution for every sequence.
LEMMA SumsExist ==
    ASSUME NEW seq \in Seq(Nat)
    PROVE  \E upTo : Prefix(seq, upTo, Len(seq))
  <1> DEFINE Bad == {m \in 0 .. Len(seq) : ~\E upTo : Prefix(seq, upTo, m)}
  <1>0. Len(seq) \in 0 .. Len(seq)
    OBVIOUS
  <1>1. SUFFICES ASSUME Bad # {} PROVE FALSE
    BY <1>0
  <1>2. PICK m \in Bad : \A k \in Bad : m <= k
    <2>1. Bad \in SUBSET Nat
      OBVIOUS
    <2> HIDE DEF Bad
    <2> QED BY <1>1, <2>1, LeastLine
  <1>3. CASE m = 0
    <2> DEFINE f == [k \in 0 .. 0 |-> 0]
    <2>1. Prefix(seq, f, 0)
      BY DEF Prefix
    <2> QED BY <2>1, <1>2, <1>3
  <1>4. CASE m # 0
    <2>1. m \in Nat /\ m - 1 \in 0 .. Len(seq) /\ m - 1 \notin Bad
      BY <1>2, <1>4
    <2>2. PICK f : Prefix(seq, f, m - 1)
      BY <2>1
    <2> DEFINE g == [k \in 0 .. m |-> IF k = m THEN f[m - 1] + seq[m] ELSE f[k]]
    <2>3. \A k \in 0 .. m - 1 : g[k] = f[k] /\ f[k] = IF k = 0 THEN 0 ELSE f[k - 1] + seq[k]
      BY <2>1, <2>2 DEF Prefix
    <2>4. ASSUME NEW k \in 0 .. m
          PROVE  g[k] = IF k = 0 THEN 0 ELSE g[k - 1] + seq[k]
      <3>1. k \in 0 .. m - 1 \/ k = m
        BY <2>1
      <3>2. CASE k = m
        <4>1. g[m] = f[m - 1] + seq[m]
          BY <2>1
        <4>2. g[m - 1] = f[m - 1]
          BY <2>1, <2>3
        <4> QED BY <4>1, <4>2, <3>2, <1>4
      <3>3. CASE k \in 0 .. m - 1
        <4>1. k = 0 \/ k - 1 \in 0 .. m - 1
          BY <2>1, <3>3
        <4> HIDE DEF g
        <4> QED BY <2>3, <3>3, <4>1
      <3> QED BY <3>1, <3>2, <3>3
    <2>5. Prefix(seq, g, m)
      <3>1. \A k \in 0 .. m : g[k] = IF k = 0 THEN 0 ELSE g[k - 1] + seq[k]
        BY <2>4
      <3> QED BY <3>1 DEF Prefix
    <2> QED BY <2>5, <1>2
  <1> QED BY <1>3, <1>4

\* What the partial sums are.
LEMMA SumsStep ==
    ASSUME NEW seq \in Seq(Nat)
    PROVE  /\ PartialSums(seq)[0] = 0
           /\ \A k \in 1 .. Len(seq) : PartialSums(seq)[k] = PartialSums(seq)[k - 1] + seq[k]
  <1> DEFINE f == PartialSums(seq)
  <1>1. f = CHOOSE upTo : upTo = [k \in 0 .. Len(seq) |->
                                     IF k = 0 THEN 0 ELSE upTo[k - 1] + seq[k]]
    BY DEF PartialSums
  <1>2. f = [k \in 0 .. Len(seq) |-> IF k = 0 THEN 0 ELSE f[k - 1] + seq[k]]
    <2> HIDE DEF f
    <2> QED BY <1>1, SumsExist DEF Prefix
  <1> HIDE DEF f
  <1>3. Len(seq) \in Nat
    OBVIOUS
  <1>4. f[0] = 0 /\ \A k \in 1 .. Len(seq) : f[k] = f[k - 1] + seq[k]
    BY <1>2, <1>3
  <1> QED BY <1>4 DEF f

\* A function that starts at `start` and grows by the natural `steps`.
Runs(f, start, steps, limit) ==
    /\ f[0] = start
    /\ \A k \in 1 .. limit : steps[k] \in Nat /\ f[k] = f[k - 1] + steps[k]

Alike(f, g, limit) ==
    \A k \in 0 .. limit : f[k] = g[k] /\ g[k] \in Nat /\ g[0] <= g[k]

\* Two functions that start alike and grow alike agree, and do not shrink.
LEMMA SameSteps ==
    ASSUME NEW limit \in Nat, NEW start \in Nat, NEW steps, NEW f, NEW g,
           Runs(f, start, steps, limit), Runs(g, start, steps, limit)
    PROVE  Alike(f, g, limit)
  <1> USE DEF Runs
  <1> DEFINE Bad == {k \in 0 .. limit : ~(f[k] = g[k] /\ g[k] \in Nat /\ g[0] <= g[k])}
  <1>1. SUFFICES ASSUME Bad # {} PROVE FALSE
    BY DEF Alike
  <1>2. PICK m \in Bad : \A k \in Bad : m <= k
    <2>1. Bad \in SUBSET Nat
      OBVIOUS
    <2> HIDE DEF Bad
    <2> QED BY <1>1, <2>1, LeastLine
  <1>3. m # 0 /\ m \in 1 .. limit
    BY <1>2
  <1>4. m - 1 \in 0 .. limit /\ m - 1 \notin Bad
    BY <1>2, <1>3
  <1>5. f[m - 1] = g[m - 1] /\ g[m - 1] \in Nat /\ g[0] <= g[m - 1]
    BY <1>4
  <1>6. f[m] = g[m] /\ g[m] \in Nat /\ g[0] <= g[m]
    BY <1>3, <1>5
  <1> QED BY <1>2, <1>6

LEMMA SumsAreNatural ==
    ASSUME NEW seq \in Seq(Nat)
    PROVE  \A k \in 0 .. Len(seq) : PartialSums(seq)[k] \in Nat
  <1> DEFINE f == PartialSums(seq)
  <1>1. f[0] = 0 /\ \A k \in 1 .. Len(seq) : f[k] = f[k - 1] + seq[k]
    BY SumsStep
  <1> HIDE DEF f
  <1>2. Len(seq) \in Nat /\ Runs(f, 0, seq, Len(seq))
    BY <1>1 DEF Runs
  <1>3. Alike(f, f, Len(seq))
    BY <1>2, SameSteps
  <1> QED BY <1>3 DEF f, Alike

\* The sum of two sequences joined by a zero.
LEMMA JoinedSum ==
    ASSUME NEW a \in Seq(Nat), NEW b \in Seq(Nat), NEW c \in Seq(Nat),
           Len(c) = Len(a) + 1 + Len(b),
           \A k \in 1 .. Len(a) : c[k] = a[k],
           c[Len(a) + 1] = 0,
           \A k \in 1 .. Len(b) : c[Len(a) + 1 + k] = b[k]
    PROVE  SumOf(c) = SumOf(a) + SumOf(b)
  <1> DEFINE A == PartialSums(a)
             B == PartialSums(b)
             C == PartialSums(c)
             F == [k \in 0 .. Len(b) |-> C[Len(a) + 1 + k]]
             G == [k \in 0 .. Len(b) |-> A[Len(a)] + B[k]]
  <1>1. Len(a) \in Nat /\ Len(b) \in Nat
    OBVIOUS
  <1>2. A[0] = 0 /\ \A k \in 1 .. Len(a) : A[k] = A[k - 1] + a[k]
    BY SumsStep
  <1>3. B[0] = 0 /\ \A k \in 1 .. Len(b) : B[k] = B[k - 1] + b[k]
    BY SumsStep
  <1>4. C[0] = 0 /\ \A k \in 1 .. Len(c) : C[k] = C[k - 1] + c[k]
    BY SumsStep
  <1>5. \A k \in 0 .. Len(a) : A[k] \in Nat
    BY SumsAreNatural
  <1>6. \A k \in 0 .. Len(b) : B[k] \in Nat
    BY SumsAreNatural
  <1>7. SumOf(a) = A[Len(a)] /\ SumOf(b) = B[Len(b)] /\ SumOf(c) = C[Len(c)]
    BY DEF SumOf
  <1> HIDE DEF A, B, C
  <1>8. \A k \in 0 .. Len(a) : C[k] = A[k]
    <2>1. \A k \in 1 .. Len(a) : /\ a[k] \in Nat
                                 /\ C[k] = C[k - 1] + a[k]
                                 /\ A[k] = A[k - 1] + a[k]
      <3> SUFFICES ASSUME NEW k \in 1 .. Len(a)
                   PROVE  a[k] \in Nat /\ C[k] = C[k - 1] + a[k] /\ A[k] = A[k - 1] + a[k]
        OBVIOUS
      <3>1. a[k] \in Nat /\ k \in 1 .. Len(c) /\ c[k] = a[k]
        BY <1>1
      <3> QED BY <3>1, <1>2, <1>4
    <2>2. Runs(C, 0, a, Len(a)) /\ Runs(A, 0, a, Len(a))
      BY <1>2, <1>4, <2>1 DEF Runs
    <2>3. Alike(C, A, Len(a))
      BY <1>1, <2>2, SameSteps
    <2> QED BY <2>3 DEF Alike
  <1>9. C[Len(a) + 1] = A[Len(a)]
    <2>1. Len(a) + 1 \in 1 .. Len(c) /\ Len(a) + 1 - 1 = Len(a) /\ Len(a) \in 0 .. Len(a)
      BY <1>1
    <2>2. C[Len(a) + 1] = C[Len(a)] + c[Len(a) + 1]
      BY <1>4, <2>1
    <2>3. C[Len(a)] = A[Len(a)] /\ A[Len(a)] \in Nat
      BY <1>5, <1>8, <2>1
    <2> QED BY <2>2, <2>3
  <1>10. F[0] = G[0] /\ G[0] \in Nat
    <2>1. 0 \in 0 .. Len(b) /\ A[Len(a)] \in Nat /\ Len(a) + 1 + 0 = Len(a) + 1
      BY <1>1, <1>5
    <2>2. F[0] = C[Len(a) + 1 + 0] /\ G[0] = A[Len(a)] + B[0]
      BY <2>1
    <2> HIDE DEF F, G
    <2>3. F[0] = A[Len(a)]
      BY <1>9, <2>1, <2>2
    <2>4. G[0] = A[Len(a)]
      <3>1. \A x \in Nat : x + 0 = x
        OBVIOUS
      <3> QED BY <3>1, <1>3, <2>1, <2>2
    <2> QED BY <2>1, <2>3, <2>4
  <1>11. ASSUME NEW k \in 1 .. Len(b)
         PROVE  b[k] \in Nat /\ F[k] = F[k - 1] + b[k] /\ G[k] = G[k - 1] + b[k]
    <2>1. b[k] \in Nat /\ k \in 0 .. Len(b) /\ k - 1 \in 0 .. Len(b) /\ k \in Nat
      <3> HIDE DEF F, G
      <3>1. b[k] \in Nat
        BY ElementOfSeq
      <3>2. k \in 0 .. Len(b) /\ k - 1 \in 0 .. Len(b) /\ k \in Nat
        BY <1>1
      <3> QED BY <3>1, <3>2
    <2>2. c[Len(a) + 1 + k] = b[k]
      OBVIOUS
    <2>3. C[Len(a) + 1 + k] = C[Len(a) + 1 + (k - 1)] + b[k]
      <3> DEFINE q == Len(a) + 1 + k
      <3>1. q \in 1 .. Len(c)
        BY <1>1, <2>1
      <3>0. q - 1 = Len(a) + 1 + (k - 1)
        BY <1>1, <2>1
      <3>2. C[q] = C[q - 1] + c[q]
        <4> HIDE DEF q
        <4> QED BY <1>4, <3>1
      <3> QED BY <2>2, <3>0, <3>2
    <2>4. B[k] = B[k - 1] + b[k]
      BY <1>3
    <2>5. A[Len(a)] \in Nat /\ B[k - 1] \in Nat
      <3>1. Len(a) \in 0 .. Len(a)
        BY <1>1
      <3> QED BY <3>1, <1>5, <1>6, <2>1
    <2>6. F[k] = C[Len(a) + 1 + k] /\ F[k - 1] = C[Len(a) + 1 + (k - 1)]
      BY <2>1
    <2>7. G[k] = A[Len(a)] + B[k] /\ G[k - 1] = A[Len(a)] + B[k - 1]
      BY <2>1
    <2> HIDE DEF F, G
    <2>8. F[k] = F[k - 1] + b[k]
      BY <2>3, <2>6
    <2>9. G[k] = G[k - 1] + b[k]
      <3>1. \A x, y, z \in Nat : x + (y + z) = (x + y) + z
        OBVIOUS
      <3>2. A[Len(a)] + (B[k - 1] + b[k]) = (A[Len(a)] + B[k - 1]) + b[k]
        BY <3>1, <2>1, <2>5
      <3> QED BY <3>2, <2>4, <2>7
    <2> QED BY <2>1, <2>8, <2>9
  <1>12. F[Len(b)] = G[Len(b)]
    <2> HIDE DEF F, G
    <2>1. Runs(F, G[0], b, Len(b)) /\ Runs(G, G[0], b, Len(b))
      BY <1>10, <1>11 DEF Runs
    <2>2. Alike(F, G, Len(b))
      BY <1>1, <1>10, <2>1, SameSteps
    <2>3. Len(b) \in 0 .. Len(b)
      BY <1>1
    <2> QED BY <2>2, <2>3 DEF Alike
  <1>13. F[Len(b)] = C[Len(a) + 1 + Len(b)] /\ G[Len(b)] = A[Len(a)] + B[Len(b)]
    BY <1>1
  <1> QED BY <1>7, <1>12, <1>13

(***************************************************************************)
(* The inductive strengthening: what the indices mean in each loop, and    *)
(* that the lines before the end of the last chunk are all in a chunk.     *)
(***************************************************************************)
Frontier == IF chunks = << >> THEN 0 ELSE chunks[Len(chunks)].end

CoveredBefore(limit) ==
    \A l \in 0 .. limit - 1 :
        \E k \in 1 .. Len(chunks) : chunks[k].start <= l /\ l < chunks[k].end

IndicesInv ==
    /\ at # "idle" => n > 0
    /\ at \in {"idle", "count"} =>
          chunks = << >> /\ startIdx = 0 /\ lineIdx = 0 /\ chunkTotal = 0
    /\ at \in {"fill", "back"} =>
          /\ totalTokens > SECTION_SPLIT_TRIGGER_TOKENS
          /\ startIdx < n /\ startIdx <= lineIdx
    /\ at = "fill" =>
          /\ startIdx <= Frontier
          /\ chunks # << >> => chunks[Len(chunks)].start < startIdx
          /\ IF lineIdx = startIdx
                THEN chunkTotal = 0
                ELSE chunkTotal < TARGET_CHUNK_TOKENS + TokensAt(lineIdx - 1)
    /\ at = "back" =>
          /\ chunks # << >>
          /\ chunks[Len(chunks)].start = startIdx
          /\ chunks[Len(chunks)].end = lineIdx
          /\ startIdx < lineIdx /\ lineIdx < n
          /\ startIdx <= backIdx /\ backIdx <= lineIdx
    /\ at = "done" => Frontier = n

SplitInv ==
    /\ SplitTypeOK
    /\ IndicesInv
    /\ ChunksAdvance
    /\ CoveredBefore(Frontier)
    /\ TargetOverrunByOneLine


-----------------------------------------------------------------------------
\* A chunk appended to the list: what the list then holds.
LEMMA AppendChunk ==
    ASSUME NEW s \in Seq(ChunkRecords), NEW c \in ChunkRecords
    PROVE  /\ Append(s, c) \in Seq(ChunkRecords)
           /\ Append(s, c) # << >>
           /\ Len(Append(s, c)) = Len(s) + 1
           /\ Append(s, c)[Len(s) + 1] = c
           /\ \A k \in 1 .. Len(s) : Append(s, c)[k] = s[k]
  BY AppendProperties

\* The call starts on any section of natural counts.
LEMMA SplitInitInv == SplitIdle => SplitInv
  BY EmptySeq, SplitAssumption
  DEF SplitIdle, SplitInv, SplitTypeOK, IndicesInv, ChunksAdvance,
      CoveredBefore, Frontier, TargetOverrunByOneLine, n

LEMMA CallInv ==
    ASSUME SplitInv, Call
    PROVE  SplitInv'
  <1>1. PICK tokens \in Seq(Nat) \ {<< >>} : Enter(tokens)
    BY DEF Call
  <1>2. tokens \in Seq(Nat) /\ Len(tokens) > 0
    BY EmptySeq
  <1> USE <1>1 DEF Enter, Locals
  <1>3. SplitTypeOK'
    BY <1>2, EmptySeq DEF SplitTypeOK, n
  <1>4. IndicesInv'
    BY <1>2 DEF IndicesInv, n
  <1>5. (ChunksAdvance /\ CoveredBefore(Frontier) /\ TargetOverrunByOneLine)'
    BY SplitAssumption
    DEF ChunksAdvance, CoveredBefore, Frontier, TargetOverrunByOneLine
  <1> QED BY <1>3, <1>4, <1>5 DEF SplitInv

LEMMA ReturnInv ==
    ASSUME SplitInv, Return
    PROVE  SplitInv'
  <1> USE DEF Return, Locals
  <1>1. SplitTypeOK'
    BY EmptySeq DEF SplitTypeOK, n
  <1>2. IndicesInv'
    BY DEF IndicesInv, n
  <1>3. (ChunksAdvance /\ CoveredBefore(Frontier) /\ TargetOverrunByOneLine)'
    BY SplitAssumption
    DEF ChunksAdvance, CoveredBefore, Frontier, TargetOverrunByOneLine
  <1> QED BY <1>1, <1>2, <1>3 DEF SplitInv

LEMMA CountLineInv ==
    ASSUME SplitInv, CountLine
    PROVE  SplitInv'
  <1> USE DEF SplitInv
  <1>1. TokensAt(counted) \in Nat
    BY DEF CountLine, SplitTypeOK, TokensAt, n
  <1>2. SplitTypeOK'
    BY <1>1 DEF CountLine, countVars, loopVars, SplitTypeOK, n
  <1>3. IndicesInv'
    BY DEF CountLine, countVars, loopVars, IndicesInv, n
  <1>4. chunks = << >>
    BY DEF CountLine, IndicesInv
  <1>5. (ChunksAdvance /\ CoveredBefore(Frontier) /\ TargetOverrunByOneLine)'
    BY <1>4 DEF CountLine, ChunksAdvance, CoveredBefore, Frontier,
                TargetOverrunByOneLine
  <1> QED BY <1>2, <1>3, <1>5

LEMMA EmitWholeInv ==
    ASSUME SplitInv, EmitWhole
    PROVE  SplitInv'
  <1> USE DEF SplitInv
  <1> DEFINE c == Chunk(0, n, totalTokens)
  <1>1. c \in ChunkRecords /\ c.start = 0 /\ c.end = n
    BY DEF SplitTypeOK, Chunk, ChunkRecords, n
  <1>2. chunks' = <<c>> /\ at' = "done"
    BY DEF EmitWhole
  <1> HIDE DEF c
  <1>3. chunks' \in Seq(ChunkRecords) /\ Len(chunks') = 1 /\ chunks'[1] = c
    BY <1>1, <1>2
  <1>4. UNCHANGED <<lineTokens, counted, totalTokens, startIdx, lineIdx, chunkTotal,
                    backIdx, overlapAccum>>
    BY DEF EmitWhole, countVars, loopVars
  <1>5. n \in Nat /\ n' = n
    BY <1>4 DEF SplitTypeOK, n
  <1>6. SplitTypeOK'
    BY <1>2, <1>3, <1>4, <1>5 DEF SplitTypeOK
  <1>7. Frontier' = n
    BY <1>1, <1>2, <1>3 DEF Frontier
  <1>8. IndicesInv'
    BY <1>2, <1>5, <1>7 DEF EmitWhole, IndicesInv
  <1>9. ChunksAdvance'
    BY <1>3 DEF ChunksAdvance
  <1>10. CoveredBefore(Frontier)'
    BY <1>1, <1>3, <1>5, <1>7 DEF CoveredBefore
  <1>11. TargetOverrunByOneLine'
    BY <1>4, SplitAssumption DEF EmitWhole, TargetOverrunByOneLine, SplitTypeOK
  <1> QED BY <1>6, <1>8, <1>9, <1>10, <1>11

LEMMA StartSplitInv ==
    ASSUME SplitInv, StartSplit
    PROVE  SplitInv'
  <1> USE DEF SplitInv
  <1>1. UNCHANGED <<lineTokens, counted, totalTokens, startIdx, lineIdx, chunkTotal,
                    backIdx, overlapAccum, chunks>>
    BY DEF StartSplit, countVars, loopVars
  <1>2. at' = "fill" /\ n' = n /\ n \in Nat
    BY <1>1 DEF StartSplit, n, SplitTypeOK
  <1>3. SplitTypeOK'
    BY <1>1, <1>2 DEF SplitTypeOK
  <1>4. chunks = << >> /\ startIdx = 0 /\ lineIdx = 0 /\ chunkTotal = 0 /\ n > 0
    BY DEF StartSplit, IndicesInv
  <1>5. IndicesInv'
    BY <1>1, <1>2, <1>4 DEF StartSplit, IndicesInv, Frontier
  <1>6. (ChunksAdvance /\ CoveredBefore(Frontier) /\ TargetOverrunByOneLine)'
    BY <1>1, <1>4 DEF ChunksAdvance, CoveredBefore, Frontier, TargetOverrunByOneLine
  <1> QED BY <1>3, <1>5, <1>6

LEMMA TakeLineInv ==
    ASSUME SplitInv, TakeLine
    PROVE  SplitInv'
  <1> USE DEF SplitInv
  <1>1. TokensAt(lineIdx) \in Nat /\ lineIdx \in Nat /\ n \in Nat
    BY DEF TakeLine, SplitTypeOK, TokensAt, n
  <1>2. UNCHANGED <<lineTokens, counted, totalTokens, at, startIdx, backIdx,
                    overlapAccum, chunks>>
    BY DEF TakeLine, countVars
  <1>3. n' = n /\ Frontier' = Frontier
    BY <1>2 DEF n, Frontier
  <1>4. SplitTypeOK'
    BY <1>1, <1>2, <1>3 DEF TakeLine, SplitTypeOK
  <1>5. chunkTotal' < TARGET_CHUNK_TOKENS + TokensAt(lineIdx)
    BY <1>1, SplitAssumption DEF TakeLine, SplitTypeOK
  <1>6. lineIdx' # startIdx' /\ lineTokens'[lineIdx' - 1 + 1] = TokensAt(lineIdx)
    <2>1. lineIdx' = lineIdx + 1 /\ startIdx' = startIdx /\ startIdx <= lineIdx
      BY <1>2 DEF TakeLine, IndicesInv
    <2>2. startIdx \in Nat /\ lineIdx' - 1 + 1 = lineIdx + 1
      BY <1>1, <2>1 DEF SplitTypeOK
    <2> QED BY <1>1, <1>2, <2>1, <2>2 DEF TokensAt
  <1>7. startIdx' <= lineIdx'
    BY <1>1, <1>2 DEF TakeLine, IndicesInv, SplitTypeOK
  <1>8. IndicesInv'
    BY <1>2, <1>3, <1>5, <1>6, <1>7 DEF TakeLine, IndicesInv, TokensAt
  <1>9. (ChunksAdvance /\ CoveredBefore(Frontier) /\ TargetOverrunByOneLine)'
    BY <1>2, <1>3
    DEF ChunksAdvance, CoveredBefore, TargetOverrunByOneLine, TokensAt
  <1> QED BY <1>4, <1>8, <1>9

\* The chunk emitted is the lines from start_idx to line_idx, and those before
\* it were in chunks already.
LEMMA EmitChunkInv ==
    ASSUME SplitInv, EmitChunk
    PROVE  SplitInv'
  <1> USE DEF SplitInv
  <1> DEFINE c == Chunk(startIdx, lineIdx, chunkTotal)
             last == Len(chunks)
  <1>1. /\ c \in ChunkRecords /\ c.start = startIdx /\ c.end = lineIdx
        /\ c.tokens = chunkTotal
    BY DEF SplitTypeOK, Chunk, ChunkRecords, n
  <1>2. chunks' = Append(chunks, c) /\ chunks \in Seq(ChunkRecords) /\ last \in Nat
    BY DEF EmitChunk, SplitTypeOK
  <1> HIDE DEF c
  <1>3. /\ chunks' \in Seq(ChunkRecords) /\ chunks' # << >>
        /\ Len(chunks') = last + 1 /\ chunks'[last + 1] = c
        /\ \A k \in 1 .. last : chunks'[k] = chunks[k]
    BY <1>1, <1>2, AppendChunk
  <1>4. UNCHANGED <<lineTokens, counted, totalTokens, startIdx, lineIdx, chunkTotal>>
    BY DEF EmitChunk, countVars
  <1>5. n \in Nat /\ n' = n
    BY <1>4 DEF n, SplitTypeOK
  <1>6. startIdx \in Nat /\ lineIdx \in 0 .. n /\ startIdx < lineIdx
    BY SplitAssumption DEF EmitChunk, IndicesInv, SplitTypeOK
  <1>7. SplitTypeOK'
    BY <1>3, <1>4, <1>5 DEF EmitChunk, SplitTypeOK
  <1>8. Frontier' = lineIdx
    BY <1>1, <1>3 DEF Frontier
  <1>9. IndicesInv'
    BY <1>1, <1>3, <1>4, <1>5, <1>6, <1>8 DEF EmitChunk, IndicesInv, SplitTypeOK
  <1>10. ASSUME last > 0 PROVE chunks[last].start < startIdx /\ startIdx <= chunks[last].end
    BY <1>10, <1>2, EmptySeq DEF EmitChunk, IndicesInv, Frontier
  <1>11. ChunksAdvance'
    <2> SUFFICES ASSUME NEW k \in 1 .. last
                 PROVE  /\ chunks'[k].start < chunks'[k + 1].start
                        /\ chunks'[k + 1].start <= chunks'[k].end
      BY <1>3 DEF ChunksAdvance
    <2>1. CASE k = last
      BY <2>1, <1>1, <1>2, <1>3, <1>10
    <2>2. CASE k # last
      BY <2>2, <1>2, <1>3 DEF ChunksAdvance
    <2> QED BY <2>1, <2>2
  <1>12. CoveredBefore(lineIdx)'
    <2> SUFFICES ASSUME NEW l \in 0 .. lineIdx - 1
                 PROVE  \E k \in 1 .. last + 1 : chunks'[k].start <= l /\ l < chunks'[k].end
      BY <1>3, <1>4 DEF CoveredBefore
    <2>1. CASE l >= startIdx
      BY <2>1, <1>1, <1>2, <1>3, <1>6
    <2>2. CASE l < startIdx
      <3>1. startIdx <= Frontier
        BY DEF EmitChunk, IndicesInv
      <3>2. Frontier \in Nat
        <4>1. CASE chunks = << >>
          BY <4>1 DEF Frontier
        <4>2. CASE chunks # << >>
          <5>1. last \in 1 .. Len(chunks)
            BY <1>2, <4>2, EmptySeq
          <5>2. chunks[last] \in ChunkRecords
            BY <1>2, <5>1
          <5> QED BY <4>2, <5>2 DEF Frontier, ChunkRecords
        <4> QED BY <4>1, <4>2
      <3>3. PICK k \in 1 .. last : chunks[k].start <= l /\ l < chunks[k].end
        BY <2>2, <3>1, <3>2, <1>6 DEF CoveredBefore
      <3> QED BY <3>3, <1>2, <1>3
    <2> QED BY <2>1, <2>2, <1>6
  <1>13. CoveredBefore(Frontier)'
    BY <1>4, <1>8, <1>12 DEF CoveredBefore
  <1>14. TargetOverrunByOneLine'
    <2> SUFFICES ASSUME totalTokens > SECTION_SPLIT_TRIGGER_TOKENS,
                        NEW k \in 1 .. last + 1
                 PROVE  chunks'[k].tokens
                          < TARGET_CHUNK_TOKENS + TokensAt(chunks'[k].end - 1)
      BY <1>3, <1>4 DEF TargetOverrunByOneLine, TokensAt
    <2>1. CASE k = last + 1
      BY <2>1, <1>1, <1>3, <1>6 DEF EmitChunk, IndicesInv
    <2>2. CASE k # last + 1
      BY <2>2, <1>2, <1>3 DEF TargetOverrunByOneLine
    <2> QED BY <2>1, <2>2
  <1> QED BY <1>7, <1>9, <1>11, <1>13, <1>14

LEMMA StepBackInv ==
    ASSUME SplitInv, StepBack
    PROVE  SplitInv'
  <1> USE DEF SplitInv
  <1>1. UNCHANGED <<lineTokens, counted, totalTokens, at, startIdx, lineIdx, chunkTotal,
                    chunks>>
    BY DEF StepBack, countVars
  <1>2. n' = n /\ Frontier' = Frontier
    BY <1>1 DEF n, Frontier
  <1>3. TokensAt(backIdx - 1) \in Nat
    BY DEF StepBack, SplitTypeOK, TokensAt, n
  <1>4. SplitTypeOK'
    <2>1. backIdx - 1 \in 0 .. n
      BY DEF StepBack, SplitTypeOK, n
    <2>2. overlapAccum + TokensAt(backIdx - 1) \in Nat
      BY <1>3 DEF SplitTypeOK
    <2> QED BY <1>1, <1>2, <2>1, <2>2 DEF StepBack, SplitTypeOK
  <1>5. startIdx <= backIdx' /\ backIdx' <= lineIdx
    BY DEF StepBack, IndicesInv, SplitTypeOK
  <1>6. IndicesInv'
    BY <1>1, <1>2, <1>5 DEF StepBack, IndicesInv, TokensAt
  <1>7. (ChunksAdvance /\ CoveredBefore(Frontier) /\ TargetOverrunByOneLine)'
    BY <1>1, <1>2 DEF ChunksAdvance, CoveredBefore, TargetOverrunByOneLine, TokensAt
  <1> QED BY <1>4, <1>6, <1>7

\* The forward progress of the loop: the next chunk starts after this one
\* starts and no later than this one ends.
LEMMA RestartInv ==
    ASSUME SplitInv, Restart
    PROVE  SplitInv'
  <1> USE DEF SplitInv
  <1>1. UNCHANGED <<lineTokens, counted, totalTokens, backIdx, overlapAccum, chunks>>
    BY DEF Restart, countVars
  <1>2. n' = n /\ Frontier' = Frontier /\ n \in Nat
    BY <1>1 DEF n, Frontier, SplitTypeOK
  <1>3. /\ NextStart \in 0 .. n /\ startIdx < NextStart /\ NextStart <= lineIdx
        /\ NextStart < n
    BY <1>2 DEF Restart, IndicesInv, NextStart, SplitTypeOK
  <1>4. startIdx' = NextStart /\ lineIdx' = NextStart /\ chunkTotal' = 0 /\ at' = "fill"
    BY DEF Restart
  <1>5. chunks # << >> /\ chunks[Len(chunks)].start = startIdx /\ Frontier = lineIdx
        /\ totalTokens > SECTION_SPLIT_TRIGGER_TOKENS
    BY DEF Restart, IndicesInv, Frontier
  <1> HIDE DEF SplitInv
  <1>6. SplitTypeOK'
    BY <1>1, <1>2, <1>3, <1>4 DEF SplitInv, SplitTypeOK
  <1>7. startIdx' <= lineIdx'
    BY <1>2, <1>3, <1>4
  <1>8. IndicesInv'
    BY <1>1, <1>2, <1>3, <1>4, <1>5, <1>7 DEF IndicesInv
  <1>9. (ChunksAdvance /\ CoveredBefore(Frontier) /\ TargetOverrunByOneLine)'
    BY <1>1, <1>2
    DEF SplitInv, ChunksAdvance, CoveredBefore, TargetOverrunByOneLine, TokensAt
  <1> QED BY <1>6, <1>8, <1>9 DEF SplitInv

LEMMA SplitStutterInv ==
    ASSUME SplitInv, UNCHANGED splitVars
    PROVE  SplitInv'
  <1> USE DEF splitVars, countVars, loopVars
  <1> QED BY DEF SplitInv, SplitTypeOK, IndicesInv, ChunksAdvance, CoveredBefore,
                 TargetOverrunByOneLine, Frontier, TokensAt, n

LEMMA SplitNextInv == SplitInv /\ [SplitNext]_splitVars => SplitInv'
  BY CallInv, ReturnInv, CountLineInv, EmitWholeInv, StartSplitInv, TakeLineInv, EmitChunkInv,
     StepBackInv, RestartInv, SplitStutterInv
  DEF SplitNext, SplitStep

LEMMA SplitInvariance == SplitSpec => []SplitInv
  BY SplitInitInv, SplitNextInv, PTL DEF SplitSpec

-----------------------------------------------------------------------------
\* The variables of `_split_section` stay in range: no index leaves the lines.
THEOREM SplitTypeCorrect == SplitSpec => []SplitTypeOK
  <1>1. SplitInv => SplitTypeOK
    BY DEF SplitInv
  <1> QED BY <1>1, SplitInvariance, PTL

\* The overlap can never regenerate a chunk boundary: whatever the counts of
\* the lines, each chunk starts after the last one and leaves no gap to it.
THEOREM SplitAdvances == SplitSpec => []ChunksAdvance
  <1>1. SplitInv => ChunksAdvance
    BY DEF SplitInv
  <1> QED BY <1>1, SplitInvariance, PTL

\* Whatever the section, every line of it ends up in a chunk.
THEOREM SplitCovers == SplitSpec => []EveryLineCited
  <1>1. SplitInv => EveryLineCited
    BY DEF SplitInv, IndicesInv, CoveredBefore, EveryLineCited
  <1> QED BY <1>1, SplitInvariance, PTL

\* Only the last line of a chunk can carry it over the target.
THEOREM SplitRespectsTarget == SplitSpec => []TargetOverrunByOneLine
  <1>1. SplitInv => TargetOverrunByOneLine
    BY DEF SplitInv
  <1> QED BY <1>1, SplitInvariance, PTL

-----------------------------------------------------------------------------
(* What the caller of `_split_section` relies on besides: the total is the *)
(* sum of the lines, a section emitted whole is one chunk of all of them,  *)
(* and no chunk is empty when the section begins and ends with text.       *)

TextAtEnds == n > 0 /\ TokensAt(0) > 0 /\ TokensAt(n - 1) > 0

TotalInv ==
    /\ at # "idle" => totalTokens = PartialSums(lineTokens)[counted]
    /\ at \in {"fill", "back", "done"} => counted = n
    /\ at = "done" => n > 0

RangesInv ==
    /\ \A k \in 1 .. Len(chunks) :
          chunks[k].start \in Nat /\ chunks[k].end \in Nat
            /\ chunks[k].start < chunks[k].end /\ chunks[k].end <= n
    /\ at = "done" /\ totalTokens <= SECTION_SPLIT_TRIGGER_TOKENS =>
          chunks = <<Chunk(0, n, totalTokens)>>

PositiveInv ==
    /\ counted > 0 => totalTokens > 0
    /\ at = "fill" /\ lineIdx = n => chunkTotal > 0
    /\ \A k \in 1 .. Len(chunks) : chunks[k].tokens > 0

ShapeInv == TotalInv /\ RangesInv /\ (TextAtEnds => PositiveInv)

LEMMA ShapeInit == SplitIdle => ShapeInv
  BY EmptySeq DEF SplitIdle, ShapeInv, TotalInv, RangesInv, TextAtEnds, n

LEMMA CallShape ==
    ASSUME Call
    PROVE  ShapeInv'
  <1>1. PICK tokens \in Seq(Nat) \ {<< >>} : Enter(tokens)
    BY DEF Call
  <1> USE <1>1 DEF Enter, Locals
  <1>2. TotalInv'
    <2>1. PartialSums(tokens)[0] = 0
      BY SumsStep
    <2> QED BY <2>1 DEF TotalInv
  <1>3. RangesInv' /\ PositiveInv'
    <2>1. 0 # n' /\ Len(chunks') = 0
      BY EmptySeq DEF n
    <2> QED BY <2>1 DEF RangesInv, PositiveInv
  <1> QED BY <1>2, <1>3 DEF ShapeInv

LEMMA ReturnShape ==
    ASSUME Return
    PROVE  ShapeInv'
  <1> USE DEF Return, Locals
  <1>1. n' = 0 /\ Len(chunks') = 0
    BY EmptySeq DEF n
  <1> QED BY <1>1 DEF ShapeInv, TotalInv, RangesInv, TextAtEnds

LEMMA CountLineShape ==
    ASSUME SplitInv, ShapeInv, CountLine
    PROVE  ShapeInv'
  <1>1. UNCHANGED <<lineTokens, at, lineIdx, chunkTotal, chunks>> /\ n' = n /\ at = "count"
    BY DEF CountLine, loopVars, n
  <1>2. /\ lineTokens \in Seq(Nat) /\ n \in Nat /\ counted \in 0 .. n /\ counted < n
        /\ totalTokens \in Nat /\ chunks = << >>
    BY DEF CountLine, SplitInv, SplitTypeOK, IndicesInv, n
  <1>3. /\ counted' = counted + 1 /\ totalTokens' = totalTokens + TokensAt(counted)
        /\ TokensAt(counted) \in Nat
    BY <1>2 DEF CountLine, TokensAt, n
  <1>4. TotalInv'
    <2>1. counted + 1 \in 1 .. Len(lineTokens) /\ counted + 1 - 1 = counted
      BY <1>2 DEF n
    <2>2. PartialSums(lineTokens)[counted + 1]
            = PartialSums(lineTokens)[counted] + TokensAt(counted)
      BY <1>2, <2>1, SumsStep DEF TokensAt
    <2> QED BY <1>1, <1>3, <2>2 DEF TotalInv, ShapeInv
  <1>5. RangesInv'
    BY <1>1, <1>2, EmptySeq DEF RangesInv
  <1>6. ASSUME TextAtEnds' PROVE PositiveInv'
    <2>1. totalTokens' > 0
      <3>1. CASE counted = 0
        <4>1. TokensAt(0) > 0
          BY <1>1, <1>6 DEF TextAtEnds, TokensAt
        <4> QED BY <1>2, <1>3, <3>1, <4>1
      <3>2. CASE counted # 0
        <4>1. totalTokens > 0
          BY <1>1, <1>2, <1>6, <3>2 DEF ShapeInv, TextAtEnds, TokensAt, PositiveInv
        <4> QED BY <1>2, <1>3, <4>1
      <3> QED BY <3>1, <3>2
    <2> QED BY <1>1, <1>2, <2>1, EmptySeq DEF PositiveInv
  <1> QED BY <1>4, <1>5, <1>6 DEF ShapeInv

LEMMA EmitWholeShape ==
    ASSUME SplitInv, ShapeInv, EmitWhole
    PROVE  ShapeInv'
  <1> DEFINE c == Chunk(0, n, totalTokens)
  <1>1. UNCHANGED <<lineTokens, counted, totalTokens, lineIdx, chunkTotal>> /\ n' = n
    BY DEF EmitWhole, countVars, loopVars, n
  <1>2. /\ at = "count" /\ at' = "done" /\ counted = n /\ chunks' = <<c>>
        /\ n \in Nat /\ n > 0 /\ totalTokens \in Nat
    BY DEF EmitWhole, SplitInv, SplitTypeOK, IndicesInv, n
  <1>3. c.start = 0 /\ c.end = n /\ c.tokens = totalTokens
    BY DEF Chunk
  <1>4. Len(chunks') = 1 /\ chunks'[1] = c
    BY <1>2
  <1>5. TotalInv'
    BY <1>1, <1>2 DEF TotalInv, ShapeInv
  <1>6. RangesInv'
    <2>1. chunks' = <<Chunk(0, n, totalTokens)>>'
      BY <1>1, <1>2
    <2> HIDE DEF c
    <2> QED BY <1>1, <1>2, <1>3, <1>4, <2>1 DEF RangesInv
  <1>7. ASSUME TextAtEnds' PROVE PositiveInv'
    <2>1. totalTokens > 0
      BY <1>1, <1>2, <1>7 DEF ShapeInv, TextAtEnds, TokensAt, PositiveInv
    <2> HIDE DEF c
    <2> QED BY <1>1, <1>2, <1>3, <1>4, <2>1 DEF PositiveInv
  <1> QED BY <1>5, <1>6, <1>7 DEF ShapeInv

LEMMA StartSplitShape ==
    ASSUME SplitInv, ShapeInv, StartSplit
    PROVE  ShapeInv'
  <1>1. /\ UNCHANGED <<lineTokens, counted, totalTokens, lineIdx, chunkTotal, chunks>>
        /\ n' = n /\ at = "count" /\ at' = "fill" /\ counted = n
    BY DEF StartSplit, countVars, loopVars, n
  <1>2. n \in Nat /\ n > 0 /\ lineIdx = 0 /\ chunks = << >>
    BY <1>1 DEF SplitInv, SplitTypeOK, IndicesInv, n
  <1>3. TotalInv'
    BY <1>1 DEF TotalInv, ShapeInv
  <1>4. RangesInv'
    BY <1>1, <1>2, EmptySeq DEF RangesInv
  <1>5. ASSUME TextAtEnds' PROVE PositiveInv'
    BY <1>1, <1>2, <1>5, EmptySeq DEF ShapeInv, PositiveInv, TextAtEnds, TokensAt
  <1> QED BY <1>3, <1>4, <1>5 DEF ShapeInv

LEMMA TakeLineShape ==
    ASSUME SplitInv, ShapeInv, TakeLine
    PROVE  ShapeInv'
  <1>1. /\ UNCHANGED <<lineTokens, counted, totalTokens, at, chunks>>
        /\ n' = n /\ at = "fill"
    BY DEF TakeLine, countVars, n
  <1>2. /\ n \in Nat /\ lineIdx \in Nat /\ lineIdx < n /\ chunkTotal \in Nat
        /\ lineIdx' = lineIdx + 1 /\ chunkTotal' = chunkTotal + TokensAt(lineIdx)
    BY DEF TakeLine, SplitInv, SplitTypeOK, n
  <1>3. TotalInv' /\ RangesInv'
    BY <1>1 DEF TotalInv, RangesInv, ShapeInv
  <1>4. ASSUME TextAtEnds' PROVE PositiveInv'
    <2>1. ASSUME lineIdx' = n' PROVE chunkTotal' > 0
      <3>1. lineIdx = n - 1 /\ TokensAt(n - 1) > 0
        BY <1>1, <1>2, <1>4, <2>1 DEF TextAtEnds, TokensAt
      <3>2. TokensAt(lineIdx) \in Nat
        BY <1>2 DEF SplitInv, SplitTypeOK, TokensAt, n
      <3> QED BY <1>2, <3>1, <3>2
    <2> QED BY <1>1, <1>4, <2>1 DEF ShapeInv, PositiveInv, TextAtEnds, TokensAt
  <1> QED BY <1>3, <1>4 DEF ShapeInv

LEMMA EmitChunkShape ==
    ASSUME SplitInv, ShapeInv, EmitChunk
    PROVE  ShapeInv'
  <1> DEFINE c == Chunk(startIdx, lineIdx, chunkTotal)
             size == Len(chunks)
  <1>1. /\ UNCHANGED <<lineTokens, counted, totalTokens, lineIdx, chunkTotal>>
        /\ n' = n /\ at = "fill" /\ at' \in {"back", "done"}
    BY DEF EmitChunk, countVars, n
  <1>2. /\ n \in Nat /\ startIdx \in Nat /\ lineIdx \in 0 .. n /\ chunkTotal \in Nat
        /\ startIdx < n /\ totalTokens > SECTION_SPLIT_TRIGGER_TOKENS /\ totalTokens \in Nat
        /\ startIdx <= lineIdx
        /\ ~(lineIdx < n /\ chunkTotal < TARGET_CHUNK_TOKENS)
        /\ lineIdx = startIdx => chunkTotal = 0
    BY <1>1 DEF EmitChunk, SplitInv, SplitTypeOK, IndicesInv, n
  <1>3. startIdx < lineIdx
    BY <1>2, SplitAssumption
  <1>4. /\ c \in ChunkRecords /\ c.start = startIdx /\ c.end = lineIdx
        /\ c.tokens = chunkTotal
    BY <1>2 DEF Chunk, ChunkRecords
  <1>5. chunks' = Append(chunks, c) /\ chunks \in Seq(ChunkRecords) /\ size \in Nat
    BY DEF EmitChunk, SplitInv, SplitTypeOK
  <1> HIDE DEF c
  <1>6. /\ Len(chunks') = size + 1 /\ chunks'[size + 1] = c
        /\ \A k \in 1 .. size : chunks'[k] = chunks[k]
    BY <1>4, <1>5, AppendChunk
  <1>7. \A k \in 1 .. Len(chunks') : k \in 1 .. size \/ k = size + 1
    BY <1>5, <1>6
  <1>8. TotalInv'
    BY <1>1, <1>2 DEF TotalInv, ShapeInv
  <1>9. RangesInv'
    <2>1. ASSUME NEW k \in 1 .. Len(chunks')
          PROVE  /\ chunks'[k].start \in Nat /\ chunks'[k].end \in Nat
                 /\ chunks'[k].start < chunks'[k].end /\ chunks'[k].end <= n
      <3>1. CASE k = size + 1
        BY <3>1, <1>2, <1>3, <1>4, <1>6
      <3>2. CASE k \in 1 .. size
        BY <3>2, <1>6 DEF ShapeInv, RangesInv
      <3> QED BY <3>1, <3>2, <1>7
    <2>2. ~(totalTokens' <= SECTION_SPLIT_TRIGGER_TOKENS)
      BY <1>1, <1>2, SplitAssumption
    <2> QED BY <1>1, <2>1, <2>2 DEF RangesInv
  <1>10. ASSUME TextAtEnds' PROVE PositiveInv'
    <2>1. PositiveInv
      BY <1>1, <1>10 DEF ShapeInv, TextAtEnds, TokensAt
    <2>2. chunkTotal > 0
      BY <1>1, <1>2, <2>1, SplitAssumption DEF PositiveInv
    <2>3. ASSUME NEW k \in 1 .. Len(chunks')
          PROVE  chunks'[k].tokens > 0
      <3>1. CASE k = size + 1
        BY <3>1, <1>4, <1>6, <2>2
      <3>2. CASE k \in 1 .. size
        BY <3>2, <1>6, <2>1 DEF PositiveInv
      <3> QED BY <3>1, <3>2, <1>7
    <2> QED BY <1>1, <2>1, <2>3 DEF PositiveInv
  <1> QED BY <1>8, <1>9, <1>10 DEF ShapeInv

LEMMA WalkBackShape ==
    ASSUME SplitInv, ShapeInv, StepBack \/ Restart
    PROVE  ShapeInv'
  <1>1. /\ UNCHANGED <<lineTokens, counted, totalTokens, chunks>>
        /\ n' = n /\ at = "back" /\ at' \in {"back", "fill"}
    BY DEF StepBack, Restart, countVars, n
  <1>2. at' = "fill" => lineIdx' < n /\ lineIdx' \in Nat
    <2>1. CASE StepBack
      BY <2>1, <1>1 DEF StepBack
    <2>2. CASE Restart
      <3>1. /\ n \in Nat /\ startIdx \in Nat /\ lineIdx \in Nat /\ backIdx \in Nat
            /\ startIdx < lineIdx /\ lineIdx < n /\ backIdx <= lineIdx
        BY <1>1 DEF SplitInv, SplitTypeOK, IndicesInv, n
      <3>2. lineIdx' = NextStart
        BY <2>2 DEF Restart
      <3> QED BY <3>1, <3>2 DEF NextStart
    <2> QED BY <2>1, <2>2
  <1>3. n \in Nat
    BY DEF SplitInv, SplitTypeOK, n
  <1>4. TotalInv' /\ RangesInv'
    BY <1>1 DEF TotalInv, RangesInv, ShapeInv
  <1>5. ASSUME TextAtEnds' PROVE PositiveInv'
    BY <1>1, <1>2, <1>3, <1>5 DEF ShapeInv, PositiveInv, TextAtEnds, TokensAt
  <1> QED BY <1>4, <1>5 DEF ShapeInv

LEMMA ShapeNext == SplitInv /\ ShapeInv /\ [SplitNext]_splitVars => ShapeInv'
  <1>1. ASSUME ShapeInv, UNCHANGED splitVars PROVE ShapeInv'
    BY <1>1 DEF splitVars, countVars, loopVars, ShapeInv, TotalInv, RangesInv, PositiveInv,
                TextAtEnds, TokensAt, n, Chunk
  <1> QED BY <1>1, CallShape, ReturnShape, CountLineShape, EmitWholeShape, StartSplitShape,
             TakeLineShape, EmitChunkShape, WalkBackShape
          DEF SplitNext, SplitStep

-----------------------------------------------------------------------------
(* Sections of a body: what one cites, and lists of them.                  *)

TextLine(b, l) == l \in 1 .. Len(b) /\ b[l].kind = "text"

\* The range of a section or chunk, and the text it holds, are the same lines
\* of text.
Exact(b, x) ==
    /\ x.start \in 1 .. Len(b) /\ x.end \in 1 .. Len(b) /\ x.start <= x.end
    /\ x.lines \in Seq(0 .. Len(b))
    /\ \A k \in 1 .. Len(x.lines) :
          TextLine(b, x.lines[k]) => x.start <= x.lines[k] /\ x.lines[k] <= x.end
    /\ \A l \in x.start .. x.end :
          TextLine(b, l) => \E k \in 1 .. Len(x.lines) : x.lines[k] = l

\* A section begins and ends with a line of text.
SectionOK(b, s) ==
    /\ Exact(b, s)
    /\ Len(s.lines) > 0 /\ s.lines[1] = s.start /\ s.lines[Len(s.lines)] = s.end
    /\ TextLine(b, s.start) /\ TextLine(b, s.end)
    /\ s = [breadcrumb |-> s.breadcrumb, start |-> s.start, end |-> s.end, lines |-> s.lines]

\* A section that holds the very lines of its range.
Plain(s) == s.lines = [k \in 1 .. s.end - s.start + 1 |-> s.start + k - 1]

\* A sequence, of whatever values.
Listed(list) == list \in Seq(Range(list))

Covered(list, l) == \E k \in 1 .. Len(list) : list[k].start <= l /\ l <= list[k].end

\* Sections in document order that hold all the text up to a line.
ListOK(b, list, limit) ==
    /\ Listed(list)
    /\ \A k \in 1 .. Len(list) : SectionOK(b, list[k]) /\ list[k].end <= limit
    /\ \A p, q \in 1 .. Len(list) : p < q => list[p].end < list[q].start
    /\ \A l \in 1 .. limit : TextLine(b, l) => Covered(list, l)

LEMMA ListedAppend ==
    ASSUME NEW list, Listed(list), NEW s
    PROVE  /\ Listed(Append(list, s))
           /\ Len(list) \in Nat
           /\ Len(Append(list, s)) = Len(list) + 1
           /\ \A k \in 1 .. Len(list) : Append(list, s)[k] = list[k]
           /\ Append(list, s)[Len(list) + 1] = s
           /\ list \o <<s>> = Append(list, s)
  <1> DEFINE S == Range(list) \cup {s}
  <1>1. list \in Seq(S) /\ s \in S
    BY SeqMonotonic DEF Listed
  <1> HIDE DEF S
  <1>2. Append(list, s) \in Seq(S)
    BY <1>1, AppendProperties
  <1>3. Listed(Append(list, s))
    BY <1>2, SeqOfRange DEF Listed
  <1> QED BY <1>1, <1>3, AppendProperties, AppendIsConcat

LEMMA ListedConcat ==
    ASSUME NEW list, Listed(list), NEW more, Listed(more)
    PROVE  /\ Listed(list \o more)
           /\ Len(list) \in Nat /\ Len(more) \in Nat
           /\ Len(list \o more) = Len(list) + Len(more)
           /\ \A k \in 1 .. Len(list) : (list \o more)[k] = list[k]
           /\ \A k \in 1 .. Len(more) : (list \o more)[Len(list) + k] = more[k]
  <1> DEFINE S == Range(list) \cup Range(more)
  <1>1. list \in Seq(S) /\ more \in Seq(S)
    BY SeqMonotonic DEF Listed
  <1> HIDE DEF S
  <1>2. list \o more \in Seq(S)
    BY <1>1, ConcatProperties
  <1>3. Listed(list \o more)
    BY <1>2, SeqOfRange DEF Listed
  <1>4. Len(list) \in Nat /\ Len(more) \in Nat
    BY <1>1
  <1>5. /\ Len(list \o more) = Len(list) + Len(more)
        /\ \A k \in 1 .. Len(list) + Len(more) :
             (list \o more)[k] = IF k <= Len(list) THEN list[k] ELSE more[k - Len(list)]
    BY <1>1, ConcatProperties
  <1>6. ASSUME NEW k \in 1 .. Len(list) PROVE (list \o more)[k] = list[k]
    <2>1. k \in 1 .. Len(list) + Len(more) /\ k <= Len(list)
      BY <1>4
    <2> QED BY <2>1, <1>5
  <1>7. ASSUME NEW k \in 1 .. Len(more) PROVE (list \o more)[Len(list) + k] = more[k]
    <2>1. /\ Len(list) + k \in 1 .. Len(list) + Len(more) /\ ~(Len(list) + k <= Len(list))
          /\ Len(list) + k - Len(list) = k
      BY <1>4
    <2> QED BY <2>1, <1>5
  <1> QED BY <1>3, <1>4, <1>5, <1>6, <1>7

LEMMA SectionRange ==
    ASSUME NEW b \in Seq(Line), NEW s, SectionOK(b, s)
    PROVE  s.start \in Nat /\ s.end \in Nat /\ 1 <= s.start /\ s.start <= s.end /\ s.end <= Len(b)
  <1>1. Len(b) \in Nat
    OBVIOUS
  <1>2. s.start \in 1 .. Len(b) /\ s.end \in 1 .. Len(b) /\ s.start <= s.end
    BY DEF SectionOK, Exact
  <1> QED BY <1>1, <1>2

\* One more section behind the others.
LEMMA AppendSection ==
    ASSUME NEW b \in Seq(Line), NEW list, NEW m \in Nat, NEW limit \in Nat, m <= limit,
           NEW s, ListOK(b, list, m), SectionOK(b, s), m < s.start, s.end <= limit,
           \A l \in m + 1 .. limit : TextLine(b, l) => s.start <= l /\ l <= s.end
    PROVE  ListOK(b, Append(list, s), limit)
  <1> DEFINE new == Append(list, s)
             size == Len(list)
  <1>1. /\ Listed(new) /\ size \in Nat /\ Len(new) = size + 1
        /\ \A k \in 1 .. size : new[k] = list[k]
        /\ new[size + 1] = s
    BY ListedAppend DEF ListOK
  <1> HIDE DEF new
  <1>2. \A k \in 1 .. Len(new) : k \in 1 .. size \/ k = size + 1
    BY <1>1
  <1>3. /\ \A k \in 1 .. size : SectionOK(b, list[k]) /\ list[k].end <= m
        /\ \A p, q \in 1 .. size : p < q => list[p].end < list[q].start
        /\ \A l \in 1 .. m : TextLine(b, l) => Covered(list, l)
    BY DEF ListOK
  <1>4. s.start \in Nat /\ s.end \in Nat /\ \A k \in 1 .. size : list[k].end \in Nat
    BY <1>3, SectionRange
  <1>5. ASSUME NEW k \in 1 .. Len(new)
        PROVE  SectionOK(b, new[k]) /\ new[k].end <= limit
    <2>1. CASE k = size + 1
      BY <2>1, <1>1
    <2>2. CASE k \in 1 .. size
      BY <2>2, <1>1, <1>3, <1>4
    <2> QED BY <2>1, <2>2, <1>2
  <1>6. ASSUME NEW p \in 1 .. Len(new), NEW q \in 1 .. Len(new), p < q
        PROVE  new[p].end < new[q].start
    <2>1. p \in 1 .. size
      BY <1>1, <1>6
    <2>2. CASE q = size + 1
      BY <2>1, <2>2, <1>1, <1>3, <1>4
    <2>3. CASE q \in 1 .. size
      BY <2>1, <2>3, <1>1, <1>3, <1>6
    <2> QED BY <2>2, <2>3, <1>2
  <1>7. ASSUME NEW l \in 1 .. limit, TextLine(b, l)
        PROVE  Covered(new, l)
    <2>1. CASE l <= m
      <3>1. PICK k \in 1 .. size : list[k].start <= l /\ l <= list[k].end
        BY <2>1, <1>3, <1>7 DEF Covered
      <3> QED BY <3>1, <1>1 DEF Covered
    <2>2. CASE l > m
      <3>1. s.start <= l /\ l <= s.end
        BY <2>2, <1>7
      <3>2. size + 1 \in 1 .. Len(new)
        BY <1>1
      <3> QED BY <3>1, <3>2, <1>1 DEF Covered
    <2> QED BY <2>1, <2>2
  <1> QED BY <1>1, <1>5, <1>6, <1>7 DEF ListOK, new

\* Lines without text behind the last section.
LEMMA ExtendList ==
    ASSUME NEW b \in Seq(Line), NEW list, NEW m \in Nat, NEW limit \in Nat, m <= limit,
           ListOK(b, list, m), \A l \in m + 1 .. limit : ~TextLine(b, l)
    PROVE  ListOK(b, list, limit)
  <1>1. ASSUME NEW k \in 1 .. Len(list)
        PROVE  SectionOK(b, list[k]) /\ list[k].end <= limit
    <2>1. SectionOK(b, list[k]) /\ list[k].end <= m
      BY DEF ListOK
    <2>2. list[k].end \in Nat
      BY <2>1, SectionRange
    <2> QED BY <2>1, <2>2
  <1>2. ASSUME NEW l \in 1 .. limit, TextLine(b, l)
        PROVE  Covered(list, l)
    BY <1>2 DEF ListOK
  <1> QED BY <1>1, <1>2 DEF ListOK

-----------------------------------------------------------------------------
(* What the scan flushes and what the merge joins.                         *)

\* The section of the lines first .. last, if they hold text.
Flushed(b, list, first, last) ==
    \/ list = << >> /\ \A l \in first .. last : ~TextLine(b, l)
    \/ \E s : /\ list = <<s>> /\ SectionOK(b, s) /\ Plain(s)
              /\ first <= s.start /\ s.end <= last
              /\ \A l \in first .. last : TextLine(b, l) => s.start <= l /\ l <= s.end

LEMMA FunctionIsSequence ==
    ASSUME NEW S, NEW m \in Nat, NEW f \in [1 .. m -> S]
    PROVE  f \in Seq(S) /\ Len(f) = m
  OBVIOUS

LEMMA FlushSection ==
    ASSUME body \in Seq(Line), NEW stack, NEW first \in Nat, NEW last \in Nat,
           1 <= first, last <= Len(body)
    PROVE  Flushed(body, Flush(stack, first, last), first, last)
  <1> DEFINE text == {l \in first .. last : body[l].kind = "text"}
             from == Min(text)
             to == Max(text)
             s == [breadcrumb |-> Breadcrumb(stack),
                   start |-> from, end |-> to,
                   lines |-> [k \in 1 .. to - from + 1 |-> from + k - 1]]
  <1>1. Flush(stack, first, last) = IF text = {} THEN << >> ELSE <<s>>
    BY DEF Flush
  <1>2. Len(body) \in Nat /\ \A l \in first .. last : l \in 1 .. Len(body)
    OBVIOUS
  <1>3. \A l \in first .. last : TextLine(body, l) <=> l \in text
    BY <1>2 DEF TextLine
  <1>4. CASE text = {}
    BY <1>1, <1>3, <1>4 DEF Flushed
  <1>5. CASE text # {}
    <2>1. text \in SUBSET Nat /\ text \in SUBSET (0 .. last)
      OBVIOUS
    <2>2. from \in text /\ \A l \in text : from <= l
      <3>1. \E l \in text : \A m \in text : l <= m
        <4> HIDE DEF text
        <4> QED BY <2>1, <1>5, LeastLine
      <3> HIDE DEF text
      <3> QED BY <3>1 DEF Min
    <2>3. to \in text /\ \A l \in text : l <= to
      <3>1. \E l \in text : \A m \in text : m <= l
        <4> HIDE DEF text
        <4> QED BY <2>1, <1>5, GreatestLine
      <3>2. \E l \in text : \A m \in text : l >= m
        <4> HIDE DEF text
        <4> QED BY <3>1, <2>1
      <3>3. to \in text /\ \A m \in text : to >= m
        <4> HIDE DEF text
        <4> QED BY <3>2 DEF Max
      <3> HIDE DEF to, text
      <3> QED BY <3>3, <2>1
    <2>4. /\ from \in Nat /\ to \in Nat /\ from <= to /\ first <= from /\ to <= last
          /\ from \in 1 .. Len(body) /\ to \in 1 .. Len(body)
          /\ TextLine(body, from) /\ TextLine(body, to)
      <3>1. /\ from \in first .. last /\ to \in first .. last
        BY <2>2, <2>3
      <3>2. TextLine(body, from) /\ TextLine(body, to)
        BY <1>3, <2>2, <2>3, <3>1
      <3>3. from <= to
        BY <2>2, <2>3
      <3> HIDE DEF from, to
      <3> QED BY <3>1, <3>2, <3>3, <1>2
    <2>5. /\ s.start = from /\ s.end = to
          /\ s.lines = [k \in 1 .. to - from + 1 |-> from + k - 1]
          /\ s = [breadcrumb |-> s.breadcrumb, start |-> s.start, end |-> s.end,
                  lines |-> s.lines]
      OBVIOUS
    <2> HIDE DEF from, to, s, text
    <2>6. to - from + 1 \in Nat /\ to - from + 1 > 0
      BY <2>4
    <2>7. /\ s.lines \in Seq(0 .. Len(body)) /\ Len(s.lines) = to - from + 1
          /\ \A k \in 1 .. Len(s.lines) : s.lines[k] = from + k - 1
      <3>1. \A k \in 1 .. to - from + 1 : from + k - 1 \in 0 .. Len(body)
        BY <1>2, <2>4
      <3>2. s.lines \in [1 .. to - from + 1 -> 0 .. Len(body)]
        BY <2>5, <3>1
      <3>3. s.lines \in Seq(0 .. Len(body)) /\ Len(s.lines) = to - from + 1
        BY <2>6, <3>2, FunctionIsSequence
      <3>4. \A k \in 1 .. to - from + 1 : s.lines[k] = from + k - 1
        BY <2>5
      <3> QED BY <3>3, <3>4
    <2>8. \A k \in 1 .. Len(s.lines) : from <= s.lines[k] /\ s.lines[k] <= to
      BY <2>4, <2>7
    <2>9. ASSUME NEW l \in from .. to
          PROVE  \E k \in 1 .. Len(s.lines) : s.lines[k] = l
      <3>1. l - from + 1 \in 1 .. Len(s.lines) /\ from + (l - from + 1) - 1 = l
        BY <2>4, <2>7
      <3> QED BY <2>7, <3>1
    <2>10. Exact(body, s)
      BY <2>4, <2>5, <2>7, <2>8, <2>9 DEF Exact
    <2>11. s.lines[1] = from /\ s.lines[Len(s.lines)] = to /\ Len(s.lines) > 0
      BY <2>4, <2>6, <2>7
    <2>12. SectionOK(body, s)
      BY <2>4, <2>5, <2>10, <2>11 DEF SectionOK
    <2>13. Plain(s)
      BY <2>5 DEF Plain
    <2>14. \A l \in first .. last : TextLine(body, l) => from <= l /\ l <= to
      BY <1>3, <2>2, <2>3
    <2> QED BY <1>1, <1>5, <2>4, <2>5, <2>12, <2>13, <2>14 DEF Flushed
  <1> QED BY <1>4, <1>5

\* The token counts of the lines of a section, and their sum.
TokensIn(b, s) == [k \in DOMAIN s.lines |-> IF s.lines[k] = 0 THEN 0 ELSE b[s.lines[k]].tokens]

LEMMA TokensAreNatural ==
    ASSUME NEW b \in Seq(Line), NEW s, SectionOK(b, s)
    PROVE  /\ TokensIn(b, s) \in Seq(Nat) \ {<< >>}
           /\ Len(TokensIn(b, s)) = Len(s.lines)
           /\ DOMAIN TokensIn(b, s) = 1 .. Len(s.lines)
           /\ SumOf(TokensIn(b, s)) \in Nat
  <1>1. s.lines \in Seq(0 .. Len(b)) /\ Len(s.lines) \in Nat /\ Len(s.lines) > 0
    BY DEF SectionOK, Exact
  <1>2. DOMAIN s.lines = 1 .. Len(s.lines)
    BY <1>1
  <1>3. ASSUME NEW k \in 1 .. Len(s.lines)
        PROVE  (IF s.lines[k] = 0 THEN 0 ELSE b[s.lines[k]].tokens) \in Nat
    <2>1. s.lines[k] \in 0 .. Len(b) /\ Len(b) \in Nat
      BY <1>1
    <2>2. s.lines[k] # 0 => b[s.lines[k]] \in Line
      BY <2>1
    <2> QED BY <2>2 DEF Line
  <1>4. TokensIn(b, s) \in [1 .. Len(s.lines) -> Nat]
    BY <1>2, <1>3 DEF TokensIn
  <1>5. TokensIn(b, s) \in Seq(Nat) /\ Len(TokensIn(b, s)) = Len(s.lines)
    BY <1>1, <1>4, FunctionIsSequence
  <1>6. TokensIn(b, s) # << >>
    BY <1>1, <1>5, EmptySeq
  <1>7. Len(s.lines) \in 0 .. Len(s.lines)
    BY <1>1
  <1>8. SumOf(TokensIn(b, s)) \in Nat
    BY <1>5, <1>7, SumsAreNatural DEF SumOf
  <1> QED BY <1>4, <1>5, <1>6, <1>8

\* Two sections joined.
Joined(g, s) ==
    [breadcrumb |-> g.breadcrumb, start |-> g.start, end |-> s.end,
     lines |-> g.lines \o <<0>> \o s.lines]

\* Two sections of a body with no text between them, joined.
LEMMA JoinedSection ==
    ASSUME NEW b \in Seq(Line), NEW g, NEW s, SectionOK(b, g), SectionOK(b, s),
           g.end < s.start,
           \A l \in g.end + 1 .. s.start - 1 : ~TextLine(b, l)
    PROVE  /\ SectionOK(b, Joined(g, s))
           /\ Joined(g, s).start = g.start /\ Joined(g, s).end = s.end
           /\ SumOf(TokensIn(b, Joined(g, s)))
                = SumOf(TokensIn(b, g)) + SumOf(TokensIn(b, s))
  <1> DEFINE t == Joined(g, s)
             p == Len(g.lines)
             q == Len(s.lines)
             size == Len(b)
  <1>1. size \in Nat /\ 0 \in 0 .. size /\ Len(b) = size
    OBVIOUS
  <1>2. /\ g.lines \in Seq(0 .. size) /\ s.lines \in Seq(0 .. size) /\ <<0>> \in Seq(0 .. size)
        /\ p \in Nat /\ q \in Nat /\ p > 0 /\ q > 0
        /\ Len(g.lines) = p /\ Len(s.lines) = q
    BY <1>1 DEF SectionOK, Exact
  <1>3. /\ g.start \in Nat /\ g.end \in Nat /\ 1 <= g.start /\ g.start <= g.end
        /\ s.start \in Nat /\ s.end \in Nat /\ 1 <= s.start /\ s.start <= s.end
        /\ s.end <= size /\ g.end <= size
    BY SectionRange
  <1>4. /\ g = [breadcrumb |-> g.breadcrumb, start |-> g.start, end |-> g.end,
                lines |-> g.lines]
        /\ g.lines[1] = g.start /\ s.lines[q] = s.end
        /\ TextLine(b, g.start) /\ TextLine(b, s.end)
    BY DEF SectionOK
  <1> HIDE DEF p, q, size
  <1>5. t = [breadcrumb |-> g.breadcrumb, start |-> g.start, end |-> s.end,
             lines |-> g.lines \o <<0>> \o s.lines]
    BY DEF Joined
  <1> HIDE DEF t
  <1>6. /\ t.start = g.start /\ t.end = s.end /\ t.lines = (g.lines \o <<0>>) \o s.lines
        /\ t = [breadcrumb |-> t.breadcrumb, start |-> t.start, end |-> t.end,
                lines |-> t.lines]
    BY <1>5
  <1> DEFINE h == g.lines \o <<0>>
  <1>7. /\ h \in Seq(0 .. size) /\ Len(h) = p + 1
        /\ \A k \in 1 .. p : h[k] = g.lines[k]
        /\ h[p + 1] = 0
    <2>1. h = Append(g.lines, 0)
      BY <1>1, <1>2, AppendIsConcat
    <2> HIDE DEF h
    <2> QED BY <1>1, <1>2, <2>1, AppendProperties
  <1>8. /\ t.lines \in Seq(0 .. size) /\ Len(t.lines) = p + 1 + q
        /\ \A k \in 1 .. p + 1 + q :
             t.lines[k] = IF k <= p + 1 THEN h[k] ELSE s.lines[k - (p + 1)]
    <2>1. t.lines = h \o s.lines
      BY <1>6
    <2> HIDE DEF h
    <2>2. /\ h \o s.lines \in Seq(0 .. size)
          /\ Len(h \o s.lines) = Len(h) + Len(s.lines)
          /\ \A k \in 1 .. Len(h) + Len(s.lines) :
               (h \o s.lines)[k] = IF k <= Len(h) THEN h[k] ELSE s.lines[k - Len(h)]
      BY <1>2, <1>7, ConcatProperties
    <2> QED BY <1>2, <1>7, <2>1, <2>2
  <1> HIDE DEF h
  <1>9. \A k \in 1 .. p : t.lines[k] = g.lines[k]
    <2>1. \A k \in 1 .. p : k \in 1 .. p + 1 + q /\ k <= p + 1
      BY <1>2
    <2> QED BY <2>1, <1>7, <1>8
  <1>10. t.lines[p + 1] = 0
    <2>1. p + 1 \in 1 .. p + 1 + q /\ p + 1 <= p + 1
      BY <1>2
    <2> QED BY <2>1, <1>7, <1>8
  <1>11. ASSUME NEW k \in 1 .. q PROVE t.lines[p + 1 + k] = s.lines[k]
    <2> DEFINE d == p + 1 + k
    <2>1. d \in 1 .. p + 1 + q /\ ~(d <= p + 1) /\ d - (p + 1) = k
      BY <1>2
    <2> HIDE DEF d
    <2>2. t.lines[d] = s.lines[k]
      BY <2>1, <1>8
    <2> QED BY <2>2 DEF d
  <1>12. \A k \in 1 .. p + 1 + q : \/ k \in 1 .. p
                                   \/ k = p + 1
                                   \/ k - (p + 1) \in 1 .. q /\ k = p + 1 + (k - (p + 1))
    BY <1>2
  <1>13. Exact(b, t)
    <2>1. ASSUME NEW k \in 1 .. Len(t.lines), TextLine(b, t.lines[k])
          PROVE  t.start <= t.lines[k] /\ t.lines[k] <= t.end
      <3>1. CASE k \in 1 .. p
        <4>1. g.start <= g.lines[k] /\ g.lines[k] <= g.end
          BY <2>1, <3>1, <1>9 DEF SectionOK, Exact, p
        <4>2. g.lines[k] \in Nat
          BY <1>1, <1>2, <3>1 DEF p
        <4>3. g.lines[k] <= s.end
          BY <4>1, <4>2, <1>3
        <4> QED BY <4>1, <4>3, <3>1, <1>6, <1>9
      <3>2. CASE k = p + 1
        BY <2>1, <3>2, <1>10 DEF TextLine
      <3>3. CASE k - (p + 1) \in 1 .. q /\ k = p + 1 + (k - (p + 1))
        <4> DEFINE d == k - (p + 1)
        <4>1. t.lines[k] = s.lines[d]
          BY <3>3, <1>11
        <4>2. s.start <= s.lines[d] /\ s.lines[d] <= s.end
          BY <2>1, <3>3, <4>1 DEF SectionOK, Exact, q
        <4>3. s.lines[d] \in Nat
          BY <1>1, <1>2, <3>3 DEF q
        <4> HIDE DEF d
        <4> QED BY <4>1, <4>2, <4>3, <1>3, <1>6
      <3> QED BY <3>1, <3>2, <3>3, <1>8, <1>12
    <2>2. ASSUME NEW l \in t.start .. t.end, TextLine(b, l)
          PROVE  \E k \in 1 .. Len(t.lines) : t.lines[k] = l
      <3>1. CASE l <= g.end
        <4>1. l \in g.start .. g.end
          BY <3>1, <1>3, <1>6
        <4>2. PICK k \in 1 .. p : g.lines[k] = l
          BY <2>2, <4>1 DEF SectionOK, Exact, p
        <4>3. k \in 1 .. Len(t.lines)
          BY <1>2, <1>8
        <4> QED BY <4>2, <4>3, <1>9
      <3>2. CASE s.start <= l
        <4>1. l \in s.start .. s.end
          BY <3>2, <1>3, <1>6
        <4>2. PICK k \in 1 .. q : s.lines[k] = l
          BY <2>2, <4>1 DEF SectionOK, Exact, q
        <4>3. p + 1 + k \in 1 .. Len(t.lines)
          BY <1>2, <1>8
        <4> QED BY <4>2, <4>3, <1>11
      <3>3. CASE g.end < l /\ l < s.start
        <4>1. l \in g.end + 1 .. s.start - 1
          BY <3>3, <1>3, <1>6
        <4> QED BY <2>2, <4>1
      <3>4. l \in Int
        BY <1>3, <1>6
      <3>5. l <= g.end \/ s.start <= l \/ (g.end < l /\ l < s.start)
        BY <3>4, <1>3
      <3> QED BY <3>1, <3>2, <3>3, <3>5
    <2>3. t.start \in 1 .. Len(b) /\ t.end \in 1 .. Len(b) /\ t.start <= t.end
      BY <1>1, <1>3, <1>6
    <2> QED BY <2>1, <2>2, <2>3, <1>1, <1>8 DEF Exact
  <1>14. SectionOK(b, t)
    <2>1. t.lines[1] = t.start
      <3>1. 1 \in 1 .. p
        BY <1>2
      <3> QED BY <3>1, <1>4, <1>6, <1>9
    <2>2. t.lines[Len(t.lines)] = t.end /\ Len(t.lines) > 0
      <3>1. q \in 1 .. q /\ p + 1 + q > 0
        BY <1>2
      <3> QED BY <3>1, <1>4, <1>6, <1>8, <1>11
    <2> QED BY <2>1, <2>2, <1>4, <1>6, <1>13 DEF SectionOK
  <1>15. SumOf(TokensIn(b, t)) = SumOf(TokensIn(b, g)) + SumOf(TokensIn(b, s))
    <2> DEFINE A == TokensIn(b, g)
               B == TokensIn(b, s)
               C == TokensIn(b, t)
    <2>1. /\ A \in Seq(Nat) /\ Len(A) = p
          /\ \A k \in 1 .. p : A[k] = IF g.lines[k] = 0 THEN 0 ELSE b[g.lines[k]].tokens
      BY TokensAreNatural, <1>2 DEF TokensIn, p
    <2>2. /\ B \in Seq(Nat) /\ Len(B) = q
          /\ \A k \in 1 .. q : B[k] = IF s.lines[k] = 0 THEN 0 ELSE b[s.lines[k]].tokens
      BY TokensAreNatural, <1>2 DEF TokensIn, q
    <2>3. /\ C \in Seq(Nat) /\ Len(C) = p + 1 + q
          /\ \A k \in 1 .. p + 1 + q :
               C[k] = IF t.lines[k] = 0 THEN 0 ELSE b[t.lines[k]].tokens
      <3>1. C \in Seq(Nat) /\ Len(C) = p + 1 + q /\ DOMAIN t.lines = 1 .. p + 1 + q
        BY TokensAreNatural, <1>8, <1>14
      <3> QED BY <3>1 DEF TokensIn
    <2> HIDE DEF A, B, C
    <2>4. \A k \in 1 .. p : C[k] = A[k]
      <3>1. \A k \in 1 .. p : k \in 1 .. p + 1 + q
        BY <1>2
      <3> QED BY <3>1, <2>1, <2>3, <1>9
    <2>5. C[p + 1] = 0
      <3>1. p + 1 \in 1 .. p + 1 + q
        BY <1>2
      <3> QED BY <3>1, <2>3, <1>10
    <2>6. ASSUME NEW k \in 1 .. q PROVE C[p + 1 + k] = B[k]
      <3> DEFINE d == p + 1 + k
      <3>1. d \in 1 .. p + 1 + q
        BY <1>2
      <3>2. t.lines[d] = s.lines[k]
        BY <1>11
      <3> HIDE DEF d
      <3>3. C[d] = IF t.lines[d] = 0 THEN 0 ELSE b[t.lines[d]].tokens
        BY <3>1, <2>3
      <3>4. C[d] = B[k]
        BY <3>2, <3>3, <2>2
      <3> QED BY <3>4 DEF d
    <2>7. SumOf(C) = SumOf(A) + SumOf(B)
      BY <2>1, <2>2, <2>3, <2>4, <2>5, <2>6, JoinedSum
    <2> QED BY <2>7 DEF A, B, C
  <1> QED BY <1>6, <1>14, <1>15 DEF t

-----------------------------------------------------------------------------
(* The gaps between sections, and the lists of chunks.                     *)

\* Where the sections before the k-th of a list end.
Before(list, k) == IF k = 1 THEN 0 ELSE list[k - 1].end

\* There is no text in front of a section and behind the one before it, ...
LEMMA GapBefore ==
    ASSUME NEW b \in Seq(Line), NEW list, NEW limit \in Nat, ListOK(b, list, limit),
           NEW k \in 1 .. Len(list)
    PROVE  /\ Before(list, k) \in Nat
           /\ Before(list, k) < list[k].start
           /\ \A l \in Before(list, k) + 1 .. list[k].start - 1 : ~TextLine(b, l)
  <1>1. Len(list) \in Nat
    BY DEF ListOK, Listed
  <1>2. \A p \in 1 .. Len(list) :
           /\ list[p].start \in Nat /\ list[p].end \in Nat
           /\ 1 <= list[p].start /\ list[p].start <= list[p].end /\ list[p].end <= limit
    BY SectionRange DEF ListOK
  <1>3. \A p, q \in 1 .. Len(list) : p < q => list[p].end < list[q].start
    BY DEF ListOK
  <1>4. k # 1 => k - 1 \in 1 .. Len(list) /\ k - 1 < k
    BY <1>1
  <1>5. Before(list, k) \in Nat /\ Before(list, k) < list[k].start
    BY <1>2, <1>3, <1>4 DEF Before
  <1>6. ASSUME NEW l \in Before(list, k) + 1 .. list[k].start - 1, TextLine(b, l)
        PROVE  FALSE
    <2>1. l \in 1 .. limit /\ l < list[k].start /\ Before(list, k) < l
      BY <1>2, <1>5
    <2>2. PICK p \in 1 .. Len(list) : list[p].start <= l /\ l <= list[p].end
      BY <1>6, <2>1 DEF ListOK, Covered
    <2>3. CASE p < k
      <3>1. k # 1 /\ (p = k - 1 \/ p < k - 1)
        BY <2>3, <1>1
      <3> DEFINE q == k - 1
      <3>2. q \in 1 .. Len(list) /\ (p = q \/ p < q)
        BY <3>1, <1>4
      <3>3. Before(list, k) = list[q].end
        BY <3>1 DEF Before
      <3> HIDE DEF q
      <3>4. p < q => list[p].end <= list[q].end
        <4>1. /\ list[p].end \in Nat /\ list[q].start \in Nat /\ list[q].end \in Nat
              /\ list[q].start <= list[q].end
          BY <3>2, <1>2
        <4>2. p < q => list[p].end < list[q].start
          BY <3>2, <1>3
        <4> QED BY <4>1, <4>2
      <3>5. l <= list[q].end
        <4>1. list[p].end \in Nat /\ list[q].end \in Nat /\ l \in Nat
          BY <3>2, <1>2, <2>1
        <4> QED BY <4>1, <2>2, <3>2, <3>4
      <3>6. list[q].end \in Nat /\ l \in Nat /\ list[q].end < l
        BY <2>1, <3>2, <3>3, <1>2
      <3> QED BY <3>5, <3>6
    <2>4. CASE p = k
      BY <2>1, <2>2, <2>4, <1>2
    <2>5. CASE p > k
      <3>1. list[k].end < list[p].start
        BY <2>5, <1>3
      <3> QED BY <3>1, <2>1, <2>2, <1>2
    <2> QED BY <2>3, <2>4, <2>5, <1>1
  <1> QED BY <1>5, <1>6

\* ... and none behind the last.
LEMMA GapBehind ==
    ASSUME NEW b \in Seq(Line), NEW list, NEW limit \in Nat, ListOK(b, list, limit)
    PROVE  LET end == Before(list, Len(list) + 1)
           IN  /\ end \in Nat /\ end <= limit
               /\ \A l \in end + 1 .. limit : ~TextLine(b, l)
  <1> DEFINE size == Len(list)
             end == Before(list, size + 1)
  <1>1. size \in Nat
    BY DEF ListOK, Listed
  <1>2. \A p \in 1 .. size :
           /\ list[p].start \in Nat /\ list[p].end \in Nat
           /\ list[p].start <= list[p].end /\ list[p].end <= limit
    BY SectionRange DEF ListOK
  <1>3. \A p, q \in 1 .. size : p < q => list[p].end < list[q].start
    BY DEF ListOK
  <1>4. end = IF size = 0 THEN 0 ELSE list[size].end
    BY <1>1 DEF Before
  <1> HIDE DEF end
  <1>5. size # 0 => size \in 1 .. size
    BY <1>1
  <1>6. end \in Nat /\ end <= limit
    BY <1>2, <1>4, <1>5
  <1>7. ASSUME NEW l \in end + 1 .. limit, TextLine(b, l)
        PROVE  FALSE
    <2>1. l \in 1 .. limit /\ end < l
      BY <1>6
    <2>2. PICK p \in 1 .. size : list[p].start <= l /\ l <= list[p].end
      BY <1>7, <2>1 DEF ListOK, Covered
    <2>3. size # 0 /\ (p = size \/ p < size)
      BY <1>1
    <2>4. list[p].end <= list[size].end
      BY <2>3, <1>2, <1>3, <1>5
    <2> QED BY <2>1, <2>2, <2>3, <2>4, <1>2, <1>4, <1>5
  <1> QED BY <1>6, <1>7 DEF end

\* The list after a flush.
LEMMA FlushStep ==
    ASSUME NEW b \in Seq(Line), NEW list, NEW first \in Nat, NEW last \in Nat, NEW more,
           1 <= first, first - 1 <= last, ListOK(b, list, first - 1),
           \A k \in 1 .. Len(list) : Plain(list[k]),
           Flushed(b, more, first, last)
    PROVE  /\ ListOK(b, list \o more, last)
           /\ \A k \in 1 .. Len(list \o more) : Plain((list \o more)[k])
  <1>1. first - 1 \in Nat /\ first - 1 + 1 = first
    OBVIOUS
  <1>2. CASE more = << >> /\ \A l \in first .. last : ~TextLine(b, l)
    <2>1. list \o more = list
      BY <1>2, ConcatEmptySeq DEF ListOK, Listed
    <2>2. ListOK(b, list, last)
      BY <1>1, <1>2, ExtendList
    <2> QED BY <2>1, <2>2
  <1>3. CASE \E s : /\ more = <<s>> /\ SectionOK(b, s) /\ Plain(s)
                    /\ first <= s.start /\ s.end <= last
                    /\ \A l \in first .. last : TextLine(b, l) => s.start <= l /\ l <= s.end
    <2>1. PICK s : /\ more = <<s>> /\ SectionOK(b, s) /\ Plain(s)
                   /\ first <= s.start /\ s.end <= last
                   /\ \A l \in first .. last : TextLine(b, l) => s.start <= l /\ l <= s.end
      BY <1>3
    <2>2. /\ list \o more = Append(list, s) /\ Len(list) \in Nat
          /\ Len(Append(list, s)) = Len(list) + 1
          /\ \A k \in 1 .. Len(list) : Append(list, s)[k] = list[k]
          /\ Append(list, s)[Len(list) + 1] = s
      BY <2>1, ListedAppend DEF ListOK
    <2>3. first - 1 < s.start
      BY <2>1, SectionRange
    <2>4. ListOK(b, Append(list, s), last)
      BY <1>1, <2>1, <2>3, AppendSection
    <2>5. ASSUME NEW k \in 1 .. Len(Append(list, s)) PROVE Plain(Append(list, s)[k])
      <3>1. k \in 1 .. Len(list) \/ k = Len(list) + 1
        BY <2>2
      <3> QED BY <3>1, <2>1, <2>2
    <2> QED BY <2>2, <2>4, <2>5
  <1> QED BY <1>2, <1>3 DEF Flushed

\* Chunks in document order that hold all the text up to a line.
ChunkOK(b, c) == Exact(b, c) /\ c.tokens > 0

RawOK(b, list, limit) ==
    /\ Listed(list)
    /\ \A k \in 1 .. Len(list) : ChunkOK(b, list[k]) /\ list[k].end <= limit
    /\ \A k \in 1 .. Len(list) - 1 : list[k].start < list[k + 1].start
    /\ \A l \in 1 .. limit : TextLine(b, l) => Covered(list, l)

LEMMA ChunkRange ==
    ASSUME NEW b \in Seq(Line), NEW c, ChunkOK(b, c)
    PROVE  c.start \in Nat /\ c.end \in Nat /\ 1 <= c.start /\ c.start <= c.end
  <1>1. Len(b) \in Nat
    OBVIOUS
  <1>2. c.start \in 1 .. Len(b) /\ c.end \in 1 .. Len(b) /\ c.start <= c.end
    BY DEF ChunkOK, Exact
  <1> QED BY <1>1, <1>2

\* The chunks of one more section.
LEMMA ConcatRaw ==
    ASSUME NEW b \in Seq(Line), NEW list, NEW more, NEW m \in Nat, NEW limit \in Nat,
           m <= limit, RawOK(b, list, m), Listed(more),
           \A k \in 1 .. Len(more) : ChunkOK(b, more[k]) /\ more[k].end <= limit
                                       /\ m < more[k].start,
           \A k \in 1 .. Len(more) - 1 : more[k].start < more[k + 1].start,
           \A l \in m + 1 .. limit : TextLine(b, l) => Covered(more, l)
    PROVE  RawOK(b, list \o more, limit)
  <1> DEFINE new == list \o more
             p == Len(list)
             q == Len(more)
  <1>1. /\ Listed(new) /\ p \in Nat /\ q \in Nat /\ Len(new) = p + q
        /\ \A k \in 1 .. p : new[k] = list[k]
        /\ \A k \in 1 .. q : new[p + k] = more[k]
    BY ListedConcat DEF RawOK
  <1> HIDE DEF new
  <1>2. /\ \A k \in 1 .. p : ChunkOK(b, list[k]) /\ list[k].end <= m
        /\ \A k \in 1 .. p - 1 : list[k].start < list[k + 1].start
        /\ \A l \in 1 .. m : TextLine(b, l) => Covered(list, l)
    BY DEF RawOK
  <1>3. /\ \A k \in 1 .. p : list[k].start \in Nat /\ list[k].end \in Nat
                             /\ list[k].start <= list[k].end
        /\ \A k \in 1 .. q : more[k].start \in Nat
    BY <1>2, ChunkRange
  <1>4. \A k \in 1 .. Len(new) : k \in 1 .. p \/ (k - p \in 1 .. q /\ k = p + (k - p))
    BY <1>1
  <1>5. ASSUME NEW k \in 1 .. Len(new)
        PROVE  ChunkOK(b, new[k]) /\ new[k].end <= limit
    <2>1. CASE k \in 1 .. p
      BY <2>1, <1>1, <1>2, <1>3
    <2>2. CASE k - p \in 1 .. q /\ k = p + (k - p)
      BY <2>2, <1>1
    <2> QED BY <2>1, <2>2, <1>4
  <1>6. ASSUME NEW k \in 1 .. Len(new) - 1
        PROVE  new[k].start < new[k + 1].start
    <2>1. k \in 1 .. p + q - 1
      BY <1>1
    <2>2. CASE k < p
      <3>1. k \in 1 .. p - 1 /\ k \in 1 .. p /\ k + 1 \in 1 .. p
        BY <2>1, <2>2, <1>1
      <3> QED BY <3>1, <1>1, <1>2
    <2>3. CASE k = p
      <3>1. k \in 1 .. p /\ 1 \in 1 .. q
        BY <2>1, <2>3, <1>1
      <3>2. new[k] = list[k] /\ new[k + 1] = more[1]
        BY <2>3, <3>1, <1>1
      <3>3. m < more[1].start /\ list[k].end <= m
        BY <3>1, <1>2
      <3> QED BY <3>1, <3>2, <3>3, <1>3
    <2>4. CASE k > p
      <3> DEFINE d == k - p
                 e == d + 1
      <3>1. d \in 1 .. q - 1 /\ d \in 1 .. q /\ e \in 1 .. q /\ k = p + d /\ k + 1 = p + e
        BY <2>1, <2>4, <1>1
      <3>2. more[d].start < more[e].start
        BY <3>1
      <3> HIDE DEF d, e
      <3>3. new[k] = more[d] /\ new[k + 1] = more[e]
        BY <3>1, <1>1
      <3> QED BY <3>2, <3>3
    <2> QED BY <2>1, <2>2, <2>3, <2>4, <1>1
  <1>7. ASSUME NEW l \in 1 .. limit, TextLine(b, l)
        PROVE  Covered(new, l)
    <2>1. CASE l <= m
      <3>1. PICK k \in 1 .. p : list[k].start <= l /\ l <= list[k].end
        BY <2>1, <1>2, <1>7 DEF Covered
      <3>2. k \in 1 .. Len(new)
        BY <1>1
      <3> QED BY <3>1, <3>2, <1>1 DEF Covered
    <2>2. CASE l > m
      <3>1. l \in m + 1 .. limit
        BY <2>2
      <3>2. PICK k \in 1 .. q : more[k].start <= l /\ l <= more[k].end
        BY <3>1, <1>7 DEF Covered
      <3>3. p + k \in 1 .. Len(new)
        BY <1>1
      <3> QED BY <3>2, <3>3, <1>1 DEF Covered
    <2> QED BY <2>1, <2>2
  <1> QED BY <1>1, <1>5, <1>6, <1>7 DEF RawOK, new

LEMMA ExtendRaw ==
    ASSUME NEW b \in Seq(Line), NEW list, NEW m \in Nat, NEW limit \in Nat, m <= limit,
           RawOK(b, list, m), \A l \in m + 1 .. limit : ~TextLine(b, l)
    PROVE  RawOK(b, list, limit)
  <1>1. ASSUME NEW k \in 1 .. Len(list)
        PROVE  ChunkOK(b, list[k]) /\ list[k].end <= limit
    <2>1. ChunkOK(b, list[k]) /\ list[k].end <= m
      BY DEF RawOK
    <2> QED BY <2>1, ChunkRange
  <1>2. ASSUME NEW l \in 1 .. limit, TextLine(b, l)
        PROVE  Covered(list, l)
    BY <1>2 DEF RawOK
  <1> QED BY <1>1, <1>2 DEF RawOK

-----------------------------------------------------------------------------
(***************************************************************************)
(* The inductive invariant of the pipeline.  While the body is scanned,    *)
(* the sections hold all the text before the content at hand; while it is  *)
(* merged, the merged list holds all the text of the sections looked at,   *)
(* and a group stands for the sections i .. j-1; while it is split, the    *)
(* chunks hold all the text of the sections split.  A merged section does  *)
(* not hold the very lines of its range, so it must never be split: its    *)
(* lines sum to no more than the trigger.                                  *)
(***************************************************************************)
Small(b, s) == Plain(s) \/ SumOf(TokensIn(b, s)) <= SECTION_SPLIT_TRIGGER_TOKENS

ScanInv ==
    /\ phase \in {"scan", "merge", "group", "split", "done"}
    /\ \A k \in 1 .. Len(sections) : Plain(sections[k])
    /\ phase = "scan" =>
          /\ lineNumber \in 1 .. Len(body) + 1
          /\ contentStart \in 1 .. lineNumber
          /\ ListOK(body, sections, contentStart - 1)
          /\ merged = << >> /\ i = 1
    /\ phase # "scan" => ListOK(body, sections, Len(body))

GroupInv ==
    /\ i <= Len(sections) /\ j \in i + 1 .. Len(sections) + 1
    /\ SectionOK(body, group)
    /\ group.start = sections[i].start /\ group.end = sections[j - 1].end
    /\ groupTokens \in Nat /\ SumOf(TokensIn(body, group)) <= groupTokens
    /\ j = i + 1 => group = sections[i]
    /\ j > i + 1 => groupTokens <= MAX_MERGED_SECTION_TOKENS

MergeInv ==
    /\ \A k \in 1 .. Len(merged) : Small(body, merged[k])
    /\ phase \in {"merge", "group"} =>
          i \in 1 .. Len(sections) + 1 /\ ListOK(body, merged, Before(sections, i))
    /\ phase = "group" => GroupInv
    /\ phase \in {"split", "done"} =>
          i \in 1 .. Len(merged) + 1 /\ ListOK(body, merged, Len(body))

OutputInv ==
    /\ phase \notin {"split", "done"} => raw = << >>
    /\ phase = "split" => RawOK(body, raw, Before(merged, i))
    /\ phase = "done" => RawOK(body, raw, Len(body))
    /\ at # "idle" => /\ phase = "split" /\ i <= Len(merged)
                      /\ lineTokens = TokensIn(body, merged[i])

ChunkInv ==
    /\ body \in Bodies
    /\ ScanInv /\ MergeInv /\ OutputInv
    /\ SplitInv /\ ShapeInv

LEMMA BodyLines ==
    ASSUME body \in Bodies
    PROVE  /\ body \in Seq(Line) /\ Len(body) \in Nat
           /\ \A l \in 1 .. Len(body) : TextLine(body, l) => body[l].tokens > 0
  <1>1. body \in Seq(Line) /\ \A l \in DOMAIN body : body[l].kind = "text" => body[l].tokens > 0
    BY ChunkerAssumption
  <1>2. DOMAIN body = 1 .. Len(body) /\ Len(body) \in Nat
    BY <1>1
  <1> QED BY <1>1, <1>2 DEF TextLine

LEMMA LineTokensIn == \A s : LineTokens(s) = TokensIn(body, s)
  BY DEF LineTokens, TokensIn, Tokens

\* A body of no sections, and one without chunks.
LEMMA EmptyLists ==
    ASSUME NEW b
    PROVE  ListOK(b, << >>, 0) /\ RawOK(b, << >>, 0)
  <1>1. << >> \in Seq(Range(<< >>)) /\ Len(<< >>) = 0
    BY EmptySeq
  <1> QED BY <1>1 DEF ListOK, RawOK, Listed

LEMMA ChunkInit == Init => ChunkInv
  <1> SUFFICES ASSUME Init PROVE ChunkInv
    OBVIOUS
  <1>1. SplitInv /\ ShapeInv
    BY SplitInitInv, ShapeInit DEF Init
  <1>2. body \in Bodies /\ Len(body) \in Nat
    BY BodyLines DEF Init
  <1>3. ScanInv
    BY <1>2, EmptyLists, EmptySeq DEF Init, ScanInv
  <1>4. MergeInv
    BY EmptySeq DEF Init, MergeInv
  <1>5. OutputInv
    BY DEF Init, SplitIdle, OutputInv
  <1> QED BY <1>1, <1>2, <1>3, <1>4, <1>5 DEF ChunkInv

\* Each step of the pipeline is one of `_split_section`, or leaves it alone.
LEMMA CallTypes ==
    ASSUME ChunkInv, SplitCall
    PROVE  /\ LineTokens(merged[i]) = TokensIn(body, merged[i])
           /\ LineTokens(merged[i]) \in Seq(Nat) \ {<< >>}
  <1>1. i \in 1 .. Len(merged)
    <2>1. i \in 1 .. Len(merged) + 1 /\ i <= Len(merged) /\ Len(merged) \in Nat
      BY DEF ChunkInv, MergeInv, SplitCall, ListOK, Listed
    <2> QED BY <2>1
  <1>2. SectionOK(body, merged[i])
    BY <1>1 DEF ChunkInv, MergeInv, SplitCall, ListOK
  <1> QED BY <1>2, BodyLines, LineTokensIn, TokensAreNatural DEF ChunkInv

LEMMA StepsOfSplit == ChunkInv /\ [Next]_vars => [SplitNext]_splitVars
  <1> SUFFICES ASSUME ChunkInv, [Next]_vars PROVE [SplitNext]_splitVars
    OBVIOUS
  <1>1. CASE SplitCall
    BY <1>1, CallTypes DEF SplitCall, SplitNext, Call
  <1>2. CASE SplitSection
    BY <1>2 DEF SplitSection, SplitNext
  <1>3. CASE SplitReturn
    BY <1>3 DEF SplitReturn, SplitNext
  <1>4. CASE ScanHeading \/ ScanContent \/ ScanEnd
    BY <1>4 DEF ScanHeading, ScanContent, ScanEnd
  <1>5. CASE KeepSection \/ OpenGroup \/ JoinGroup \/ CloseGroup \/ MergeEnd \/ SplitEnd
    BY <1>5 DEF KeepSection, OpenGroup, JoinGroup, CloseGroup, MergeEnd, SplitEnd
  <1>6. CASE UNCHANGED vars
    BY <1>6 DEF vars
  <1> QED BY <1>1, <1>2, <1>3, <1>4, <1>5, <1>6 DEF Next

ListsInv == ScanInv /\ MergeInv /\ OutputInv

LEMMA ScanHeadingInv ==
    ASSUME ChunkInv, ScanHeading
    PROVE  ListsInv'
  <1> DEFINE more == Flush(headingStack, contentStart, lineNumber - 1)
  <1>1. /\ phase = "scan" /\ phase' = "scan" /\ lineNumber <= Len(body)
        /\ body[lineNumber].kind = "heading" /\ sections' = sections \o more
        /\ contentStart' = lineNumber + 1 /\ lineNumber' = lineNumber + 1
        /\ UNCHANGED <<body, merged, i, raw, at>>
    BY DEF ScanHeading, splitVars
  <1>2. /\ body \in Seq(Line) /\ Len(body) \in Nat
        /\ lineNumber \in 1 .. Len(body) + 1 /\ contentStart \in 1 .. lineNumber
        /\ ListOK(body, sections, contentStart - 1)
        /\ \A k \in 1 .. Len(sections) : Plain(sections[k])
        /\ merged = << >> /\ i = 1 /\ raw = << >> /\ at = "idle"
    BY <1>1, BodyLines DEF ChunkInv, ScanInv, OutputInv
  <1>3. /\ lineNumber \in Nat /\ lineNumber - 1 \in Nat /\ contentStart \in Nat
        /\ lineNumber - 1 <= Len(body) /\ 1 <= contentStart
        /\ contentStart - 1 <= lineNumber - 1 /\ lineNumber - 1 <= lineNumber
        /\ lineNumber - 1 + 1 = lineNumber
    BY <1>1, <1>2
  <1>4. Flushed(body, more, contentStart, lineNumber - 1)
    BY <1>2, <1>3, FlushSection
  <1> HIDE DEF more
  <1>5. /\ ListOK(body, sections \o more, lineNumber - 1)
        /\ \A k \in 1 .. Len(sections \o more) : Plain((sections \o more)[k])
    BY <1>2, <1>3, <1>4, FlushStep
  <1>6. \A l \in lineNumber .. lineNumber : ~TextLine(body, l)
    BY <1>1, <1>3 DEF TextLine
  <1>7. ListOK(body, sections \o more, lineNumber)
    BY <1>2, <1>3, <1>5, <1>6, ExtendList
  <1>8. ScanInv'
    <2>1. /\ lineNumber' \in 1 .. Len(body) + 1 /\ contentStart' \in 1 .. lineNumber'
          /\ contentStart' - 1 = lineNumber
      BY <1>1, <1>2, <1>3
    <2> QED BY <2>1, <1>1, <1>2, <1>5, <1>7 DEF ScanInv
  <1>9. MergeInv'
    BY <1>1, <1>2, EmptySeq DEF MergeInv
  <1>10. OutputInv'
    BY <1>1, <1>2 DEF OutputInv
  <1> QED BY <1>8, <1>9, <1>10 DEF ListsInv

LEMMA ScanContentInv ==
    ASSUME ChunkInv, ScanContent
    PROVE  ListsInv'
  <1>1. /\ phase = "scan" /\ phase' = "scan" /\ lineNumber <= Len(body)
        /\ lineNumber' = lineNumber + 1
        /\ UNCHANGED <<body, contentStart, sections, merged, i, raw, at>>
    BY DEF ScanContent, mergeVars, splitVars
  <1>2. /\ Len(body) \in Nat
        /\ lineNumber \in 1 .. Len(body) + 1 /\ contentStart \in 1 .. lineNumber
        /\ ListOK(body, sections, contentStart - 1)
        /\ \A k \in 1 .. Len(sections) : Plain(sections[k])
        /\ merged = << >> /\ i = 1 /\ raw = << >> /\ at = "idle"
    BY <1>1, BodyLines DEF ChunkInv, ScanInv, OutputInv
  <1>3. lineNumber' \in 1 .. Len(body) + 1 /\ contentStart \in 1 .. lineNumber'
    BY <1>1, <1>2
  <1>4. ScanInv'
    BY <1>1, <1>2, <1>3 DEF ScanInv
  <1>5. MergeInv' /\ OutputInv'
    BY <1>1, <1>2, EmptySeq DEF MergeInv, OutputInv
  <1> QED BY <1>4, <1>5 DEF ListsInv

LEMMA ScanEndInv ==
    ASSUME ChunkInv, ScanEnd
    PROVE  ListsInv'
  <1> DEFINE more == Flush(headingStack, contentStart, Len(body))
  <1>1. /\ phase = "scan" /\ phase' = "merge" /\ lineNumber > Len(body)
        /\ sections' = sections \o more
        /\ UNCHANGED <<body, merged, i, raw, at>>
    BY DEF ScanEnd, splitVars
  <1>2. /\ body \in Seq(Line) /\ Len(body) \in Nat
        /\ lineNumber \in 1 .. Len(body) + 1 /\ contentStart \in 1 .. lineNumber
        /\ ListOK(body, sections, contentStart - 1)
        /\ \A k \in 1 .. Len(sections) : Plain(sections[k])
        /\ merged = << >> /\ i = 1 /\ raw = << >> /\ at = "idle"
    BY <1>1, BodyLines DEF ChunkInv, ScanInv, OutputInv
  <1>3. /\ contentStart \in Nat /\ 1 <= contentStart /\ contentStart - 1 <= Len(body)
        /\ Len(body) <= Len(body)
    BY <1>1, <1>2
  <1>4. Flushed(body, more, contentStart, Len(body))
    BY <1>2, <1>3, FlushSection
  <1> HIDE DEF more
  <1>5. /\ ListOK(body, sections \o more, Len(body))
        /\ \A k \in 1 .. Len(sections \o more) : Plain((sections \o more)[k])
    BY <1>2, <1>3, <1>4, FlushStep
  <1>6. Len(sections') \in Nat
    BY <1>1, <1>5 DEF ListOK, Listed
  <1>7. ScanInv'
    BY <1>1, <1>5 DEF ScanInv
  <1>8. MergeInv'
    <2>1. i' \in 1 .. Len(sections') + 1 /\ Before(sections', i') = 0
      BY <1>1, <1>2, <1>6 DEF Before
    <2> QED BY <2>1, <1>1, <1>2, EmptyLists, EmptySeq DEF MergeInv
  <1>9. OutputInv'
    BY <1>1, <1>2 DEF OutputInv
  <1> QED BY <1>7, <1>8, <1>9 DEF ListsInv

\* What the merge relies on: the lists, and the section it looks at.
LEMMA MergeFacts ==
    ASSUME ChunkInv, phase \in {"merge", "group"}
    PROVE  /\ body \in Seq(Line) /\ Len(body) \in Nat /\ Len(sections) \in Nat
           /\ ListOK(body, sections, Len(body))
           /\ \A k \in 1 .. Len(sections) :
                 /\ SectionOK(body, sections[k]) /\ Plain(sections[k])
                 /\ sections[k].start \in Nat /\ sections[k].end \in Nat
                 /\ Before(sections, k) \in Nat
                 /\ Before(sections, k) < sections[k].start
                 /\ \A l \in Before(sections, k) + 1 .. sections[k].start - 1 :
                       ~TextLine(body, l)
           /\ i \in 1 .. Len(sections) + 1
           /\ ListOK(body, merged, Before(sections, i))
           /\ \A k \in 1 .. Len(merged) : Small(body, merged[k])
           /\ raw = << >> /\ at = "idle"
  <1>1. /\ body \in Seq(Line) /\ Len(body) \in Nat
        /\ ListOK(body, sections, Len(body))
        /\ \A k \in 1 .. Len(sections) : Plain(sections[k])
        /\ i \in 1 .. Len(sections) + 1
        /\ ListOK(body, merged, Before(sections, i))
        /\ \A k \in 1 .. Len(merged) : Small(body, merged[k])
        /\ raw = << >> /\ at = "idle"
    BY BodyLines DEF ChunkInv, ScanInv, MergeInv, OutputInv
  <1>2. Len(sections) \in Nat /\ \A k \in 1 .. Len(sections) : SectionOK(body, sections[k])
    BY <1>1 DEF ListOK, Listed
  <1>3. \A k \in 1 .. Len(sections) :
           /\ sections[k].start \in Nat /\ sections[k].end \in Nat
           /\ Before(sections, k) \in Nat
           /\ Before(sections, k) < sections[k].start
           /\ \A l \in Before(sections, k) + 1 .. sections[k].start - 1 : ~TextLine(body, l)
    BY <1>1, <1>2, GapBefore, SectionRange
  <1> QED BY <1>1, <1>2, <1>3

\* A section appended to the merged list, that stands for the sections i .. last.
LEMMA MergedGrows ==
    ASSUME ChunkInv, phase \in {"merge", "group"}, i <= Len(sections),
           NEW last \in i .. Len(sections), NEW s,
           SectionOK(body, s), Small(body, s),
           s.start = sections[i].start, s.end = sections[last].end
    PROVE  /\ ListOK(body, Append(merged, s), Before(sections, last + 1))
           /\ \A k \in 1 .. Len(Append(merged, s)) : Small(body, Append(merged, s)[k])
           /\ last + 1 \in 1 .. Len(sections) + 1
  <1> DEFINE m == Before(sections, i)
             limit == sections[last].end
  <1>1. /\ body \in Seq(Line) /\ Len(sections) \in Nat /\ i \in 1 .. Len(sections) + 1
        /\ ListOK(body, merged, m)
        /\ \A k \in 1 .. Len(merged) : Small(body, merged[k])
    BY MergeFacts
  <1>2. /\ i \in 1 .. Len(sections) /\ last \in 1 .. Len(sections) /\ last + 1 # 1
        /\ last + 1 - 1 = last /\ last + 1 \in 1 .. Len(sections) + 1
    BY <1>1
  <1>3. /\ m \in Nat /\ limit \in Nat /\ m < s.start
        /\ \A l \in m + 1 .. sections[i].start - 1 : ~TextLine(body, l)
    BY <1>2, MergeFacts
  <1>4. s.start \in Nat /\ s.start <= s.end /\ s.end = limit
    BY <1>1, SectionRange
  <1>5. Before(sections, last + 1) = limit
    BY <1>2 DEF Before
  <1> HIDE DEF m, limit
  <1>6. m <= limit
    BY <1>3, <1>4
  <1>7. ASSUME NEW l \in m + 1 .. limit, TextLine(body, l)
        PROVE  s.start <= l /\ l <= s.end
    BY <1>3, <1>4, <1>7
  <1>8. ListOK(body, Append(merged, s), limit)
    BY <1>1, <1>3, <1>4, <1>6, <1>7, AppendSection
  <1>9. ASSUME NEW k \in 1 .. Len(Append(merged, s)) PROVE Small(body, Append(merged, s)[k])
    <2>1. /\ Len(merged) \in Nat /\ Len(Append(merged, s)) = Len(merged) + 1
          /\ \A p \in 1 .. Len(merged) : Append(merged, s)[p] = merged[p]
          /\ Append(merged, s)[Len(merged) + 1] = s
      BY <1>1, ListedAppend DEF ListOK
    <2>2. k \in 1 .. Len(merged) \/ k = Len(merged) + 1
      BY <2>1
    <2> QED BY <2>1, <2>2, <1>1
  <1> QED BY <1>2, <1>5, <1>8, <1>9

LEMMA KeepSectionInv ==
    ASSUME ChunkInv, KeepSection
    PROVE  ListsInv'
  <1>1. /\ phase = "merge" /\ phase' = "merge" /\ i <= Len(sections)
        /\ merged' = Append(merged, sections[i]) /\ i' = i + 1
        /\ UNCHANGED <<body, sections, raw, at>>
    BY DEF KeepSection, splitVars
  <1>2. /\ i \in 1 .. Len(sections) + 1 /\ Len(sections) \in Nat /\ raw = << >> /\ at = "idle"
        /\ \A k \in 1 .. Len(sections) : SectionOK(body, sections[k]) /\ Plain(sections[k])
    BY <1>1, MergeFacts
  <1>3. i \in 1 .. Len(sections) /\ i \in i .. Len(sections)
    BY <1>1, <1>2
  <1>4. SectionOK(body, sections[i]) /\ Small(body, sections[i])
    BY <1>2, <1>3 DEF Small
  <1>5. /\ ListOK(body, merged', Before(sections, i'))
        /\ \A k \in 1 .. Len(merged') : Small(body, merged'[k])
        /\ i' \in 1 .. Len(sections) + 1
    BY <1>1, <1>3, <1>4, MergedGrows
  <1>6. ScanInv'
    BY <1>1 DEF ChunkInv, ScanInv
  <1>7. MergeInv'
    BY <1>1, <1>5 DEF MergeInv
  <1>8. OutputInv'
    BY <1>1, <1>2 DEF OutputInv
  <1> QED BY <1>6, <1>7, <1>8 DEF ListsInv

\* The tokens of a section are no fewer than its lines have.
LEMMA CountedTokens ==
    ASSUME body \in Seq(Line), NEW s, SectionOK(body, s)
    PROVE  /\ CountTokens(s) \in Nat
           /\ SumOf(TokensIn(body, s)) \in Nat
           /\ SumOf(TokensIn(body, s)) <= CountTokens(s)
  <1> DEFINE sum == SumOf(TokensIn(body, s))
             breaks == Len(s.lines) - 1
  <1>1. sum \in Nat
    BY TokensAreNatural
  <1>2. breaks \in Nat
    <2>1. Len(s.lines) \in Nat /\ Len(s.lines) > 0
      BY DEF SectionOK, Exact
    <2> QED BY <2>1
  <1>3. CountTokens(s) = sum + LineBreakTokens * breaks
    BY LineTokensIn DEF CountTokens
  <1> HIDE DEF sum, breaks
  <1>4. LineBreakTokens * breaks \in Nat
    BY <1>2, ChunkerAssumption
  <1>5. CountTokens(s) \in Nat /\ sum <= CountTokens(s)
    BY <1>1, <1>3, <1>4
  <1> QED BY <1>1, <1>5 DEF sum

LEMMA OpenGroupInv ==
    ASSUME ChunkInv, OpenGroup
    PROVE  ListsInv'
  <1>1. /\ phase = "merge" /\ phase' = "group" /\ i <= Len(sections)
        /\ group' = sections[i] /\ groupTokens' = CountTokens(sections[i]) /\ j' = i + 1
        /\ UNCHANGED <<body, sections, merged, i, raw, at>>
    BY DEF OpenGroup, mergeVars, splitVars
  <1>2. /\ i \in 1 .. Len(sections) + 1 /\ Len(sections) \in Nat /\ raw = << >> /\ at = "idle"
        /\ \A k \in 1 .. Len(sections) : SectionOK(body, sections[k])
        /\ body \in Seq(Line)
    BY <1>1, MergeFacts
  <1>3. i \in 1 .. Len(sections) /\ i + 1 \in i + 1 .. Len(sections) + 1 /\ i + 1 - 1 = i
    BY <1>1, <1>2
  <1>4. /\ CountTokens(sections[i]) \in Nat
        /\ SumOf(TokensIn(body, sections[i])) <= CountTokens(sections[i])
    BY <1>2, <1>3, CountedTokens
  <1>5. GroupInv'
    <2>1. i' <= Len(sections') /\ j' \in i' + 1 .. Len(sections') + 1
      BY <1>1, <1>3
    <2>2. SectionOK(body', group')
      BY <1>1, <1>2, <1>3
    <2>3. group'.start = sections'[i'].start /\ group'.end = sections'[j' - 1].end
      BY <1>1, <1>3
    <2>4. groupTokens' \in Nat /\ SumOf(TokensIn(body', group')) <= groupTokens'
      BY <1>1, <1>4
    <2>5. j' = i' + 1 /\ group' = sections'[i'] /\ ~(j' > i' + 1)
      BY <1>1, <1>2
    <2> QED BY <2>1, <2>2, <2>3, <2>4, <2>5 DEF GroupInv
  <1>6. ScanInv'
    BY <1>1 DEF ChunkInv, ScanInv
  <1>7. MergeInv'
    BY <1>1, <1>5 DEF ChunkInv, MergeInv
  <1>8. OutputInv'
    BY <1>1, <1>2 DEF OutputInv
  <1> QED BY <1>6, <1>7, <1>8 DEF ListsInv

LEMMA JoinGroupInv ==
    ASSUME ChunkInv, JoinGroup
    PROVE  ListsInv'
  <1> DEFINE s == sections[j]
  <1>1. /\ phase = "group" /\ phase' = "group" /\ j <= Len(sections)
        /\ groupTokens + CountTokens(s) <= MAX_MERGED_SECTION_TOKENS
        /\ group' = Joined(group, s) /\ groupTokens' = groupTokens + CountTokens(s)
        /\ j' = j + 1
        /\ UNCHANGED <<body, sections, merged, i, raw, at>>
    BY DEF JoinGroup, Joins, Join, Joined, mergeVars, splitVars
  <1>2. /\ body \in Seq(Line) /\ i \in 1 .. Len(sections) + 1 /\ Len(sections) \in Nat
        /\ raw = << >> /\ at = "idle"
        /\ \A k \in 1 .. Len(sections) :
              /\ SectionOK(body, sections[k]) /\ sections[k].end \in Nat
              /\ Before(sections, k) < sections[k].start
              /\ \A l \in Before(sections, k) + 1 .. sections[k].start - 1 : ~TextLine(body, l)
    BY <1>1, MergeFacts
  <1>3. GroupInv
    BY <1>1 DEF ChunkInv, MergeInv
  <1>4. /\ i <= Len(sections) /\ j \in i + 1 .. Len(sections) + 1
        /\ SectionOK(body, group)
        /\ group.start = sections[i].start /\ group.end = sections[j - 1].end
        /\ groupTokens \in Nat /\ SumOf(TokensIn(body, group)) <= groupTokens
    BY <1>3 DEF GroupInv
  <1>5. /\ j \in 1 .. Len(sections) /\ j # 1 /\ j' \in i + 1 .. Len(sections) + 1
        /\ j' - 1 = j /\ j' > i + 1 /\ j' # i + 1
    BY <1>1, <1>2, <1>4
  <1>6. Before(sections, j) = group.end
    BY <1>4, <1>5 DEF Before
  <1>7. /\ SectionOK(body, s) /\ group.end < s.start
        /\ \A l \in group.end + 1 .. s.start - 1 : ~TextLine(body, l)
    BY <1>2, <1>5, <1>6
  <1>8. CountTokens(s) \in Nat /\ SumOf(TokensIn(body, s)) \in Nat
        /\ SumOf(TokensIn(body, s)) <= CountTokens(s)
    BY <1>2, <1>7, CountedTokens
  <1>9. SumOf(TokensIn(body, group)) \in Nat
    BY <1>2, <1>4, TokensAreNatural
  <1>10. /\ SectionOK(body, Joined(group, s))
         /\ Joined(group, s).start = group.start /\ Joined(group, s).end = s.end
         /\ SumOf(TokensIn(body, Joined(group, s)))
              = SumOf(TokensIn(body, group)) + SumOf(TokensIn(body, s))
    BY <1>2, <1>4, <1>7, JoinedSection
  <1>11. GroupInv'
    <2>1. i' <= Len(sections') /\ j' \in i' + 1 .. Len(sections') + 1
      BY <1>1, <1>4, <1>5
    <2>2. SectionOK(body', group')
      BY <1>1, <1>10
    <2>3. group'.start = sections'[i'].start /\ group'.end = sections'[j' - 1].end
      BY <1>1, <1>4, <1>5, <1>10
    <2>4. groupTokens' \in Nat /\ SumOf(TokensIn(body', group')) <= groupTokens'
      <3>1. SumOf(TokensIn(body', group'))
              = SumOf(TokensIn(body, group)) + SumOf(TokensIn(body, s))
        BY <1>1, <1>10
      <3> HIDE DEF s
      <3> QED BY <3>1, <1>1, <1>4, <1>8, <1>9
    <2>5. ~(j' = i' + 1) /\ groupTokens' <= MAX_MERGED_SECTION_TOKENS
      BY <1>1, <1>5
    <2> QED BY <2>1, <2>2, <2>3, <2>4, <2>5 DEF GroupInv
  <1>12. ScanInv'
    BY <1>1 DEF ChunkInv, ScanInv
  <1>13. MergeInv'
    BY <1>1, <1>11 DEF ChunkInv, MergeInv
  <1>14. OutputInv'
    BY <1>1, <1>2 DEF OutputInv
  <1> QED BY <1>12, <1>13, <1>14 DEF ListsInv

LEMMA CloseGroupInv ==
    ASSUME ChunkInv, CloseGroup
    PROVE  ListsInv'
  <1> DEFINE s == Combined
  <1>1. /\ phase = "group" /\ phase' = "merge"
        /\ merged' = Append(merged, s) /\ i' = j
        /\ UNCHANGED <<body, sections, raw, at>>
    BY DEF CloseGroup, splitVars
  <1>2. /\ i \in 1 .. Len(sections) + 1 /\ Len(sections) \in Nat /\ raw = << >> /\ at = "idle"
        /\ \A k \in 1 .. Len(sections) : Plain(sections[k])
        /\ body \in Seq(Line)
    BY <1>1, MergeFacts
  <1>3. GroupInv
    BY <1>1 DEF ChunkInv, MergeInv
  <1>4. /\ i <= Len(sections) /\ j \in i + 1 .. Len(sections) + 1
        /\ SectionOK(body, group)
        /\ group.start = sections[i].start /\ group.end = sections[j - 1].end
        /\ groupTokens \in Nat /\ SumOf(TokensIn(body, group)) <= groupTokens
        /\ j = i + 1 => group = sections[i]
        /\ j > i + 1 => groupTokens <= MAX_MERGED_SECTION_TOKENS
    BY <1>3 DEF GroupInv
  <1>5. /\ s.start = group.start /\ s.end = group.end /\ s.lines = group.lines
        /\ s = [breadcrumb |-> s.breadcrumb, start |-> s.start, end |-> s.end,
                lines |-> s.lines]
        /\ j = i + 1 => s = group
    <2>1. CASE j = i + 1
      BY <2>1, <1>4 DEF Combined, SectionOK
    <2>2. CASE j # i + 1
      BY <2>2 DEF Combined
    <2> QED BY <2>1, <2>2
  <1> HIDE DEF s
  <1>6. SectionOK(body, s)
    <2>1. Exact(body, s)
      BY <1>4, <1>5 DEF SectionOK, Exact
    <2> QED BY <2>1, <1>4, <1>5 DEF SectionOK
  <1>7. Small(body, s)
    <2>1. CASE j = i + 1
      <3>1. i \in 1 .. Len(sections)
        BY <1>2, <1>4
      <3> QED BY <2>1, <3>1, <1>2, <1>4, <1>5 DEF Small
    <2>2. CASE j # i + 1
      <3>1. TokensIn(body, s) = TokensIn(body, group)
        BY <1>5 DEF TokensIn
      <3>2. j > i + 1
        BY <2>2, <1>2, <1>4
      <3>3. SumOf(TokensIn(body, group)) \in Nat
        BY <1>2, <1>4, TokensAreNatural
      <3>4. SumOf(TokensIn(body, group)) <= SECTION_SPLIT_TRIGGER_TOKENS
        BY <3>2, <3>3, <1>4, ChunkerAssumption, SplitAssumption
      <3> QED BY <3>1, <3>4 DEF Small
    <2> QED BY <2>1, <2>2
  <1>8. j - 1 \in i .. Len(sections) /\ j - 1 + 1 = j
    BY <1>2, <1>4
  <1>9. /\ ListOK(body, merged', Before(sections, i'))
        /\ \A k \in 1 .. Len(merged') : Small(body, merged'[k])
        /\ i' \in 1 .. Len(sections) + 1
    BY <1>1, <1>4, <1>5, <1>6, <1>7, <1>8, MergedGrows
  <1>10. ScanInv'
    BY <1>1 DEF ChunkInv, ScanInv
  <1>11. MergeInv'
    BY <1>1, <1>9 DEF MergeInv
  <1>12. OutputInv'
    BY <1>1, <1>2 DEF OutputInv
  <1> QED BY <1>10, <1>11, <1>12 DEF ListsInv

LEMMA MergeEndInv ==
    ASSUME ChunkInv, MergeEnd
    PROVE  ListsInv'
  <1>1. /\ phase = "merge" /\ phase' = "split" /\ i > Len(sections) /\ i' = 1
        /\ UNCHANGED <<body, sections, merged, raw, at>>
    BY DEF MergeEnd, splitVars
  <1>2. /\ i \in 1 .. Len(sections) + 1 /\ Len(sections) \in Nat /\ raw = << >> /\ at = "idle"
        /\ body \in Seq(Line) /\ Len(body) \in Nat
        /\ ListOK(body, sections, Len(body)) /\ ListOK(body, merged, Before(sections, i))
        /\ \A k \in 1 .. Len(merged) : Small(body, merged[k])
    BY <1>1, MergeFacts
  <1>3. i = Len(sections) + 1
    BY <1>1, <1>2
  <1>4. /\ Before(sections, i) \in Nat /\ Before(sections, i) <= Len(body)
        /\ \A l \in Before(sections, i) + 1 .. Len(body) : ~TextLine(body, l)
    BY <1>2, <1>3, GapBehind
  <1>5. ListOK(body, merged, Len(body))
    BY <1>2, <1>4, ExtendList
  <1>6. Len(merged) \in Nat
    BY <1>5 DEF ListOK, Listed
  <1>7. ScanInv'
    BY <1>1 DEF ChunkInv, ScanInv
  <1>8. MergeInv'
    <2>1. i' \in 1 .. Len(merged') + 1
      BY <1>1, <1>6
    <2> QED BY <2>1, <1>1, <1>2, <1>5 DEF MergeInv
  <1>9. OutputInv'
    <2>1. RawOK(body', raw', Before(merged', i'))
      BY <1>1, <1>2, EmptyLists DEF Before
    <2> QED BY <2>1, <1>1, <1>2 DEF OutputInv
  <1> QED BY <1>7, <1>8, <1>9 DEF ListsInv


-----------------------------------------------------------------------------
(* The sections split, one after the other.                                *)

\* What a split step relies on.
LEMMA SplitFacts ==
    ASSUME ChunkInv, phase = "split"
    PROVE  /\ body \in Seq(Line) /\ Len(body) \in Nat /\ Len(merged) \in Nat
           /\ ListOK(body, merged, Len(body)) /\ RawOK(body, raw, Before(merged, i))
           /\ i \in 1 .. Len(merged) + 1
           /\ i <= Len(merged) =>
                 /\ i \in 1 .. Len(merged)
                 /\ SectionOK(body, merged[i]) /\ Small(body, merged[i])
           /\ at # "idle" => i <= Len(merged) /\ lineTokens = TokensIn(body, merged[i])
  <1>1. /\ body \in Seq(Line) /\ Len(body) \in Nat
        /\ ListOK(body, merged, Len(body)) /\ RawOK(body, raw, Before(merged, i))
        /\ i \in 1 .. Len(merged) + 1
        /\ \A k \in 1 .. Len(merged) : Small(body, merged[k])
        /\ at # "idle" => i <= Len(merged) /\ lineTokens = TokensIn(body, merged[i])
    BY BodyLines DEF ChunkInv, MergeInv, OutputInv
  <1>2. Len(merged) \in Nat /\ \A k \in 1 .. Len(merged) : SectionOK(body, merged[k])
    BY <1>1 DEF ListOK, Listed
  <1>3. i <= Len(merged) => i \in 1 .. Len(merged)
    BY <1>1, <1>2
  <1> QED BY <1>1, <1>2, <1>3

LEMMA SplitCallInv ==
    ASSUME ChunkInv, SplitCall
    PROVE  ListsInv'
  <1>1. /\ phase = "split" /\ phase' = "split" /\ i <= Len(merged)
        /\ lineTokens' = TokensIn(body, merged[i])
        /\ UNCHANGED <<body, sections, merged, i, raw>>
    BY LineTokensIn DEF SplitCall, Enter, Locals, mergeVars
  <1>2. ScanInv' /\ MergeInv'
    BY <1>1 DEF ChunkInv, ScanInv, MergeInv
  <1>3. OutputInv'
    BY <1>1 DEF ChunkInv, OutputInv
  <1> QED BY <1>2, <1>3 DEF ListsInv

LEMMA SplitSectionInv ==
    ASSUME ChunkInv, SplitSection
    PROVE  ListsInv'
  <1>1. /\ phase = "split" /\ phase' = "split" /\ at # "idle" /\ lineTokens' = lineTokens
        /\ UNCHANGED <<body, sections, merged, i, raw>>
    BY DEF SplitSection, SplitStep, CountLine, EmitWhole, StartSplit, TakeLine, EmitChunk,
           StepBack, Restart, countVars, mergeVars
  <1>2. ScanInv' /\ MergeInv'
    BY <1>1 DEF ChunkInv, ScanInv, MergeInv
  <1>3. OutputInv'
    BY <1>1 DEF ChunkInv, OutputInv
  <1> QED BY <1>2, <1>3 DEF ListsInv

LEMMA SplitEndInv ==
    ASSUME ChunkInv, SplitEnd
    PROVE  ListsInv'
  <1>1. /\ phase = "split" /\ phase' = "done" /\ i > Len(merged)
        /\ UNCHANGED <<body, sections, merged, i, raw, at>>
    BY DEF SplitEnd, mergeVars, splitVars
  <1>2. /\ body \in Seq(Line) /\ Len(body) \in Nat /\ Len(merged) \in Nat
        /\ ListOK(body, merged, Len(body)) /\ RawOK(body, raw, Before(merged, i))
        /\ i \in 1 .. Len(merged) + 1
        /\ at # "idle" => i <= Len(merged)
    BY <1>1, SplitFacts
  <1>3. i = Len(merged) + 1 /\ at = "idle"
    BY <1>1, <1>2
  <1>4. /\ Before(merged, i) \in Nat /\ Before(merged, i) <= Len(body)
        /\ \A l \in Before(merged, i) + 1 .. Len(body) : ~TextLine(body, l)
    BY <1>2, <1>3, GapBehind
  <1>5. RawOK(body, raw, Len(body))
    BY <1>2, <1>4, ExtendRaw
  <1>6. ScanInv' /\ MergeInv'
    BY <1>1 DEF ChunkInv, ScanInv, MergeInv
  <1>7. OutputInv'
    BY <1>1, <1>3, <1>5 DEF OutputInv
  <1> QED BY <1>6, <1>7 DEF ListsInv

\* What `_split_section` has done for a section when it returns.
LEMMA DoneFacts ==
    ASSUME body \in Bodies, SplitInv, ShapeInv, at = "done",
           NEW s, SectionOK(body, s), lineTokens = TokensIn(body, s)
    PROVE  /\ n = Len(s.lines) /\ n \in Nat /\ n > 0
           /\ Len(chunks) \in Nat /\ DOMAIN chunks = 1 .. Len(chunks)
           /\ totalTokens = SumOf(TokensIn(body, s))
           /\ \A k \in 1 .. Len(chunks) :
                 /\ chunks[k].start \in Nat /\ chunks[k].end \in Nat
                 /\ chunks[k].start < chunks[k].end /\ chunks[k].end <= n
                 /\ chunks[k].tokens > 0
           /\ totalTokens <= SECTION_SPLIT_TRIGGER_TOKENS => chunks = <<Chunk(0, n, totalTokens)>>
           /\ \A k \in 1 .. Len(chunks) - 1 : chunks[k].start < chunks[k + 1].start
           /\ \A l \in 0 .. n - 1 :
                 \E k \in 1 .. Len(chunks) : chunks[k].start <= l /\ l < chunks[k].end
  <1>1. /\ body \in Seq(Line)
        /\ \A l \in 1 .. Len(body) : TextLine(body, l) => body[l].tokens > 0
    BY BodyLines
  <1>2. n = Len(s.lines) /\ DOMAIN s.lines = 1 .. Len(s.lines) /\ n \in Nat /\ n > 0
    <2>1. n = Len(s.lines)
      BY <1>1, TokensAreNatural DEF n
    <2>2. s.lines \in Seq(0 .. Len(body)) /\ Len(s.lines) > 0
      BY DEF SectionOK, Exact
    <2> QED BY <2>1, <2>2
  <1>3. /\ s.lines[1] = s.start /\ s.lines[n] = s.end
        /\ TextLine(body, s.start) /\ TextLine(body, s.end)
        /\ body[s.start].tokens > 0 /\ body[s.end].tokens > 0
        /\ s.start # 0 /\ s.end # 0
    <2>1. /\ s.lines[1] = s.start /\ s.lines[n] = s.end
          /\ TextLine(body, s.start) /\ TextLine(body, s.end)
          /\ s.start \in 1 .. Len(body) /\ s.end \in 1 .. Len(body)
      BY <1>2 DEF SectionOK, Exact
    <2>2. s.start # 0 /\ s.end # 0
      BY <1>1, SectionRange
    <2> QED BY <2>1, <2>2, <1>1
  <1>4. TextAtEnds
    <2>1. 1 \in DOMAIN s.lines /\ n \in DOMAIN s.lines /\ n - 1 + 1 = n /\ 0 + 1 = 1
      BY <1>2
    <2>2. lineTokens[1] = body[s.start].tokens /\ lineTokens[n] = body[s.end].tokens
      BY <2>1, <1>3 DEF TokensIn
    <2> QED BY <2>1, <2>2, <1>2, <1>3 DEF TextAtEnds, TokensAt
  <1>5. TotalInv /\ RangesInv /\ PositiveInv /\ SplitTypeOK /\ ChunksAdvance
    BY <1>4 DEF ShapeInv, SplitInv
  <1>6. Len(chunks) \in Nat /\ DOMAIN chunks = 1 .. Len(chunks)
    BY <1>5 DEF SplitTypeOK
  <1>7. totalTokens = SumOf(TokensIn(body, s))
    BY <1>5 DEF TotalInv, SumOf, n
  <1>8. \A k \in 1 .. Len(chunks) :
           /\ chunks[k].start \in Nat /\ chunks[k].end \in Nat
           /\ chunks[k].start < chunks[k].end /\ chunks[k].end <= n
           /\ chunks[k].tokens > 0
    BY <1>5 DEF RangesInv, PositiveInv
  <1>9. totalTokens <= SECTION_SPLIT_TRIGGER_TOKENS => chunks = <<Chunk(0, n, totalTokens)>>
    BY <1>5 DEF RangesInv
  <1>10. \A l \in 0 .. n - 1 :
            \E k \in 1 .. Len(chunks) : chunks[k].start <= l /\ l < chunks[k].end
    BY DEF SplitInv, IndicesInv, CoveredBefore
  <1> QED BY <1>2, <1>5, <1>6, <1>7, <1>8, <1>9, <1>10 DEF ChunksAdvance

\* The chunks of a section hold its text, in order.
CitesSection(b, s, list) ==
    /\ Listed(list)
    /\ \A k \in 1 .. Len(list) :
          ChunkOK(b, list[k]) /\ s.start <= list[k].start /\ list[k].end <= s.end
    /\ \A k \in 1 .. Len(list) - 1 : list[k].start < list[k + 1].start
    /\ \A l \in s.start .. s.end : TextLine(b, l) => Covered(list, l)

\* The chunks as the caller emits them: c has the lines p .. q-1 of s.
PartOf(s, c, p, q) ==
    c.start = s.start + p /\ c.lines = SubSeq(s.lines, p + 1, q)

RawList(s, whole, list) ==
    /\ Listed(list) /\ Len(list) = Len(chunks)
    /\ \A k \in 1 .. Len(chunks) :
          /\ PartOf(s, list[k], chunks[k].start, chunks[k].end)
          /\ list[k].end = IF whole THEN s.end ELSE s.start + chunks[k].end - 1
          /\ list[k].tokens = chunks[k].tokens

LEMMA RawShape ==
    ASSUME Len(chunks) \in Nat, DOMAIN chunks = 1 .. Len(chunks), NEW s, NEW whole \in BOOLEAN
    PROVE  RawList(s, whole, RawChunks(s, whole))
  <1> DEFINE list == RawChunks(s, whole)
             S == {list[k] : k \in 1 .. Len(chunks)}
  <1>1. list = [k \in 1 .. Len(chunks) |->
                  [breadcrumb |-> s.breadcrumb,
                   start |-> s.start + chunks[k].start,
                   end |-> IF whole THEN s.end ELSE s.start + chunks[k].end - 1,
                   lines |-> SubSeq(s.lines, chunks[k].start + 1, chunks[k].end),
                   tokens |-> chunks[k].tokens]]
    BY DEF RawChunks
  <1> HIDE DEF list
  <1>2. list \in [1 .. Len(chunks) -> S]
    BY <1>1
  <1> HIDE DEF S
  <1>3. list \in Seq(S) /\ Len(list) = Len(chunks)
    BY <1>2, FunctionIsSequence
  <1>4. Listed(list)
    BY <1>3, SeqOfRange DEF Listed
  <1>5. ASSUME NEW k \in 1 .. Len(chunks)
        PROVE  /\ PartOf(s, list[k], chunks[k].start, chunks[k].end)
               /\ list[k].end = IF whole THEN s.end ELSE s.start + chunks[k].end - 1
               /\ list[k].tokens = chunks[k].tokens
    BY <1>1 DEF PartOf
  <1> QED BY <1>3, <1>4, <1>5 DEF RawList, list

\* A section emitted whole: one chunk of all of its lines.
LEMMA WholeSection ==
    ASSUME body \in Bodies, SplitInv, ShapeInv, at = "done",
           NEW s, SectionOK(body, s), lineTokens = TokensIn(body, s),
           totalTokens <= SECTION_SPLIT_TRIGGER_TOKENS
    PROVE  CitesSection(body, s, RawChunks(s, TRUE))
  <1> DEFINE list == RawChunks(s, TRUE)
  <1>1. /\ n = Len(s.lines) /\ n \in Nat /\ n > 0
        /\ Len(chunks) \in Nat /\ DOMAIN chunks = 1 .. Len(chunks)
        /\ chunks = <<Chunk(0, n, totalTokens)>>
        /\ \A k \in 1 .. Len(chunks) : chunks[k].tokens > 0
    BY DoneFacts
  <1>2. /\ Len(chunks) = 1 /\ chunks[1].start = 0 /\ chunks[1].end = n
        /\ chunks[1].tokens > 0
    BY <1>1 DEF Chunk
  <1>3. /\ Listed(list) /\ Len(list) = 1
        /\ list[1].start = s.start + 0 /\ list[1].end = s.end
        /\ list[1].lines = SubSeq(s.lines, 0 + 1, n)
        /\ list[1].tokens > 0
    <2>1. RawList(s, TRUE, list)
      BY <1>1, RawShape
    <2> HIDE DEF list
    <2>2. 1 \in 1 .. Len(chunks) /\ Len(list) = 1 /\ Listed(list)
      BY <2>1, <1>2 DEF RawList
    <2>3. PartOf(s, list[1], 0, n) /\ list[1].end = s.end /\ list[1].tokens = chunks[1].tokens
      BY <2>1, <2>2, <1>2 DEF RawList
    <2> QED BY <2>2, <2>3, <1>2 DEF PartOf
  <1>4. /\ s.start \in Nat /\ s.end \in Nat /\ s.start <= s.end
        /\ s.lines \in Seq(0 .. Len(body))
    BY BodyLines, SectionRange DEF SectionOK, Exact
  <1>5. list[1].start = s.start /\ list[1].lines = s.lines
    <2>1. SubSeq(s.lines, 1, Len(s.lines)) = s.lines
      BY <1>4, SubSeqFull
    <2> HIDE DEF list
    <2> QED BY <2>1, <1>1, <1>3, <1>4
  <1> HIDE DEF list
  <1>6. Exact(body, list[1])
    BY <1>3, <1>5 DEF SectionOK, Exact
  <1>7. ASSUME NEW k \in 1 .. Len(list)
        PROVE  ChunkOK(body, list[k]) /\ s.start <= list[k].start /\ list[k].end <= s.end
    <2>1. k = 1
      BY <1>3
    <2>2. ChunkOK(body, list[1])
      BY <1>3, <1>6 DEF ChunkOK
    <2> QED BY <2>1, <2>2, <1>3, <1>4, <1>5
  <1>8. \A l \in s.start .. s.end : Covered(list, l)
    <2>1. 1 \in 1 .. Len(list)
      BY <1>3
    <2> QED BY <2>1, <1>3, <1>4, <1>5 DEF Covered
  <1>9. \A k \in 1 .. Len(list) - 1 : list[k].start < list[k + 1].start
    BY <1>3
  <1> QED BY <1>3, <1>7, <1>8, <1>9 DEF CitesSection, list

\* A section that is split: every chunk has the lines of its range.
LEMMA LinesOfRange ==
    ASSUME NEW b \in Seq(Line), NEW s, SectionOK(b, s), Plain(s),
           NEW p \in Nat, NEW q \in Nat, p < q, q <= Len(s.lines),
           NEW c, PartOf(s, c, p, q), c.end = s.start + q - 1
    PROVE  /\ Exact(b, c)
           /\ s.start <= c.start /\ c.end <= s.end
  <1>1. /\ s.start \in Nat /\ s.end \in Nat /\ 1 <= s.start /\ s.start <= s.end
        /\ s.end <= Len(b) /\ Len(b) \in Nat
    BY SectionRange
  <1>2. /\ Len(s.lines) = s.end - s.start + 1
        /\ \A k \in 1 .. Len(s.lines) : s.lines[k] = s.start + k - 1
    BY <1>1 DEF Plain
  <1>0. c.start = s.start + p /\ c.lines = SubSeq(s.lines, p + 1, q)
    BY DEF PartOf
  <1>3. ASSUME NEW k \in p + 1 .. q
        PROVE  k \in 1 .. Len(s.lines) /\ s.lines[k] \in 0 .. Len(b)
    <2>1. k \in 1 .. Len(s.lines)
      BY <1>1, <1>2
    <2>2. s.lines[k] = s.start + k - 1
      BY <2>1, <1>2
    <2> QED BY <2>1, <2>2, <1>1, <1>2
  <1>4. /\ c.lines \in Seq(0 .. Len(b)) /\ Len(c.lines) = q - p
        /\ \A k \in 1 .. q - p : c.lines[k] = s.lines[p + k]
    <2>1. p + 1 \in Int /\ q \in Int /\ p + 1 <= q /\ q - (p + 1) + 1 = q - p
      OBVIOUS
    <2>2. /\ SubSeq(s.lines, p + 1, q) \in Seq(0 .. Len(b))
          /\ Len(SubSeq(s.lines, p + 1, q)) = q - (p + 1) + 1
          /\ \A k \in 1 .. q - (p + 1) + 1 :
                SubSeq(s.lines, p + 1, q)[k] = s.lines[p + 1 + k - 1]
      <3>1. \A k \in p + 1 .. q : s.lines[k] \in 0 .. Len(b)
        BY <1>3
      <3> QED BY <2>1, <3>1, SubSeqProperties
    <2>3. \A k \in 1 .. q - p : p + 1 + k - 1 = p + k
      OBVIOUS
    <2>4. c.lines \in Seq(0 .. Len(b)) /\ Len(c.lines) = q - p
      BY <1>0, <2>1, <2>2
    <2>5. ASSUME NEW k \in 1 .. q - p PROVE c.lines[k] = s.lines[p + k]
      <3>1. c.lines[k] = s.lines[p + 1 + k - 1]
        BY <1>0, <2>1, <2>2
      <3> QED BY <3>1, <2>3
    <2> QED BY <2>4, <2>5
  <1>5. ASSUME NEW k \in 1 .. q - p PROVE c.lines[k] = c.start + k - 1
    <2>1. p + k \in 1 .. Len(s.lines)
      BY <1>1, <1>2
    <2>2. s.lines[p + k] = s.start + (p + k) - 1
      BY <2>1, <1>2
    <2>3. c.lines[k] = s.lines[p + k]
      BY <1>4
    <2>4. s.start + (p + k) - 1 = s.start + p + k - 1 /\ c.start = s.start + p
      BY <1>0, <1>1
    <2> QED BY <2>2, <2>3, <2>4
  <1>6. /\ c.start \in Nat /\ c.end \in Nat /\ 1 <= c.start /\ c.start <= c.end
        /\ c.end = c.start + (q - p) - 1 /\ s.start <= c.start /\ c.end <= s.end
    BY <1>0, <1>1, <1>2
  <1>7. ASSUME NEW k \in 1 .. q - p PROVE c.start <= c.lines[k] /\ c.lines[k] <= c.end
    BY <1>5, <1>6
  <1>8. ASSUME NEW l \in c.start .. c.end
        PROVE  \E k \in 1 .. Len(c.lines) : c.lines[k] = l
    <2>1. l - c.start + 1 \in 1 .. q - p /\ c.start + (l - c.start + 1) - 1 = l
      BY <1>6
    <2> QED BY <2>1, <1>4, <1>5
  <1>9. c.start \in 1 .. Len(b) /\ c.end \in 1 .. Len(b)
    BY <1>1, <1>6
  <1> QED BY <1>4, <1>6, <1>7, <1>8, <1>9 DEF Exact

LEMMA SplitUp ==
    ASSUME body \in Bodies, SplitInv, ShapeInv, at = "done",
           NEW s, SectionOK(body, s), Plain(s), lineTokens = TokensIn(body, s)
    PROVE  CitesSection(body, s, RawChunks(s, FALSE))
  <1> DEFINE list == RawChunks(s, FALSE)
             size == Len(chunks)
  <1>1. /\ n = Len(s.lines) /\ n \in Nat /\ n > 0
        /\ size \in Nat /\ DOMAIN chunks = 1 .. size
        /\ \A k \in 1 .. size :
              /\ chunks[k].start \in Nat /\ chunks[k].end \in Nat
              /\ chunks[k].start < chunks[k].end /\ chunks[k].end <= n
              /\ chunks[k].tokens > 0
        /\ \A k \in 1 .. size - 1 : chunks[k].start < chunks[k + 1].start
        /\ \A l \in 0 .. n - 1 :
              \E k \in 1 .. size : chunks[k].start <= l /\ l < chunks[k].end
    BY DoneFacts
  <1>2. /\ Listed(list) /\ Len(list) = size
        /\ \A k \in 1 .. size :
              /\ PartOf(s, list[k], chunks[k].start, chunks[k].end)
              /\ list[k].start = s.start + chunks[k].start
              /\ list[k].end = s.start + chunks[k].end - 1
              /\ list[k].tokens = chunks[k].tokens
    <2>1. RawList(s, FALSE, list)
      BY <1>1, RawShape
    <2> HIDE DEF list
    <2> QED BY <2>1 DEF RawList, PartOf
  <1>3. body \in Seq(Line) /\ s.start \in Nat /\ s.end \in Nat /\ s.end - s.start + 1 = n
    <2>1. body \in Seq(Line) /\ s.start \in Nat /\ s.end \in Nat /\ s.start <= s.end
      BY BodyLines, SectionRange
    <2> QED BY <2>1, <1>1 DEF Plain
  <1> HIDE DEF list, size
  <1>4. ASSUME NEW k \in 1 .. size
        PROVE  ChunkOK(body, list[k]) /\ s.start <= list[k].start /\ list[k].end <= s.end
    <2>1. Exact(body, list[k]) /\ s.start <= list[k].start /\ list[k].end <= s.end
      <3> DEFINE p == chunks[k].start
                 q == chunks[k].end
      <3>1. /\ p \in Nat /\ q \in Nat /\ p < q /\ q <= Len(s.lines)
            /\ PartOf(s, list[k], p, q) /\ list[k].end = s.start + q - 1
        BY <1>1, <1>2
      <3> HIDE DEF p, q
      <3> QED BY <3>1, <1>3, LinesOfRange
    <2> QED BY <2>1, <1>1, <1>2 DEF ChunkOK
  <1>5. ASSUME NEW k \in 1 .. size - 1
        PROVE  list[k].start < list[k + 1].start
    <2>1. k \in 1 .. size /\ k + 1 \in 1 .. size
      BY <1>1
    <2>2. /\ chunks[k].start < chunks[k + 1].start
          /\ chunks[k].start \in Nat /\ chunks[k + 1].start \in Nat
      BY <2>1, <1>1
    <2>3. /\ list[k].start = s.start + chunks[k].start
          /\ list[k + 1].start = s.start + chunks[k + 1].start
      BY <2>1, <1>2
    <2> QED BY <2>2, <2>3, <1>3
  <1>6. ASSUME NEW l \in s.start .. s.end
        PROVE  Covered(list, l)
    <2>1. l - s.start \in 0 .. n - 1
      BY <1>3
    <2>2. PICK k \in 1 .. size : chunks[k].start <= l - s.start /\ l - s.start < chunks[k].end
      BY <2>1, <1>1
    <2>3. list[k].start <= l /\ l <= list[k].end
      BY <2>2, <1>1, <1>2, <1>3
    <2> QED BY <2>3, <1>2 DEF Covered
  <1> QED BY <1>2, <1>4, <1>5, <1>6 DEF CitesSection, list

LEMMA BeforeNext ==
    ASSUME NEW list, NEW k \in Nat, k # 0
    PROVE  Before(list, k + 1) = list[k].end
  <1>1. k + 1 # 1 /\ k + 1 - 1 = k
    OBVIOUS
  <1> QED BY <1>1 DEF Before

LEMMA SplitReturnInv ==
    ASSUME ChunkInv, SplitReturn
    PROVE  ListsInv'
  <1> DEFINE s == merged[i]
             whole == totalTokens <= SECTION_SPLIT_TRIGGER_TOKENS
             more == RawChunks(s, whole)
             m == Before(merged, i)
             limit == s.end
  <1>1. /\ phase = "split" /\ phase' = "split" /\ at = "done" /\ at' = "idle"
        /\ raw' = raw \o more /\ i' = i + 1
        /\ UNCHANGED <<body, sections, merged>>
    BY DEF SplitReturn, Return, Locals
  <1>2. /\ body \in Bodies /\ body \in Seq(Line) /\ Len(body) \in Nat /\ Len(merged) \in Nat
        /\ ListOK(body, merged, Len(body)) /\ RawOK(body, raw, m)
        /\ i \in 1 .. Len(merged)
        /\ SectionOK(body, s) /\ Small(body, s)
        /\ lineTokens = TokensIn(body, s)
        /\ SplitInv /\ ShapeInv
    BY <1>1, SplitFacts DEF ChunkInv
  <1>3. CitesSection(body, s, more)
    <2>1. CASE whole
      BY <2>1, <1>1, <1>2, WholeSection
    <2>2. CASE ~whole
      <3>1. totalTokens = SumOf(TokensIn(body, s))
        BY <1>1, <1>2, DoneFacts
      <3>2. Plain(s)
        BY <2>2, <3>1, <1>2 DEF Small
      <3>3. CitesSection(body, s, RawChunks(s, FALSE))
        BY <3>2, <1>1, <1>2, SplitUp
      <3>4. whole = FALSE
        BY <2>2
      <3> QED BY <3>3, <3>4
    <2> QED BY <2>1, <2>2
  <1>4. /\ m \in Nat /\ m < s.start
        /\ \A l \in m + 1 .. s.start - 1 : ~TextLine(body, l)
    BY <1>2, GapBefore
  <1>5. s.start \in Nat /\ limit \in Nat /\ s.start <= limit
    BY <1>2, SectionRange
  <1>6. Before(merged, i + 1) = limit /\ i + 1 \in 1 .. Len(merged) + 1
    <2>1. i + 1 # 1 /\ i + 1 - 1 = i /\ i + 1 \in 1 .. Len(merged) + 1
      BY <1>2
    <2>2. i \in Nat /\ i # 0
      BY <1>2
    <2>3. Before(merged, i + 1) = merged[i].end
      BY <2>2, BeforeNext
    <2> QED BY <2>1, <2>3
  <1> HIDE DEF s, m, limit, more, whole
  <1>7. RawOK(body, raw \o more, limit)
    <2>1. ASSUME NEW k \in 1 .. Len(more)
          PROVE  ChunkOK(body, more[k]) /\ more[k].end <= limit /\ m < more[k].start
      <3>1. ChunkOK(body, more[k]) /\ s.start <= more[k].start /\ more[k].end <= limit
        BY <1>3 DEF CitesSection, limit
      <3>2. more[k].start \in Nat
        BY <3>1, <1>2, ChunkRange
      <3> QED BY <3>1, <3>2, <1>4, <1>5
    <2>2. ASSUME NEW l \in m + 1 .. limit, TextLine(body, l)
          PROVE  Covered(more, l)
      <3>1. l \in s.start .. limit
        BY <2>2, <1>4, <1>5
      <3> QED BY <3>1, <2>2, <1>3 DEF CitesSection, limit
    <2>3. Listed(more) /\ \A k \in 1 .. Len(more) - 1 : more[k].start < more[k + 1].start
      BY <1>3 DEF CitesSection
    <2>4. m <= limit
      BY <1>4, <1>5
    <2> QED BY <2>1, <2>2, <2>3, <2>4, <1>2, <1>4, <1>5, ConcatRaw
  <1>8. ScanInv'
    BY <1>1 DEF ChunkInv, ScanInv
  <1>9. MergeInv'
    BY <1>1, <1>6 DEF ChunkInv, MergeInv
  <1>10. OutputInv'
    BY <1>1, <1>6, <1>7 DEF OutputInv
  <1> QED BY <1>8, <1>9, <1>10 DEF ListsInv

\* No step changes the document, and each keeps the lists.
LEMMA ListsNext == ChunkInv /\ [Next]_vars => body' = body /\ ListsInv'
  <1> SUFFICES ASSUME ChunkInv, [Next]_vars PROVE body' = body /\ ListsInv'
    OBVIOUS
  <1>1. CASE ScanHeading
    BY <1>1, ScanHeadingInv DEF ScanHeading
  <1>2. CASE ScanContent
    BY <1>2, ScanContentInv DEF ScanContent
  <1>3. CASE ScanEnd
    BY <1>3, ScanEndInv DEF ScanEnd
  <1>4. CASE KeepSection
    BY <1>4, KeepSectionInv DEF KeepSection
  <1>5. CASE OpenGroup
    BY <1>5, OpenGroupInv DEF OpenGroup
  <1>6. CASE JoinGroup
    BY <1>6, JoinGroupInv DEF JoinGroup
  <1>7. CASE CloseGroup
    BY <1>7, CloseGroupInv DEF CloseGroup
  <1>8. CASE MergeEnd
    BY <1>8, MergeEndInv DEF MergeEnd
  <1>9. CASE SplitCall
    BY <1>9, SplitCallInv DEF SplitCall
  <1>10. CASE SplitSection
    BY <1>10, SplitSectionInv DEF SplitSection
  <1>11. CASE SplitReturn
    BY <1>11, SplitReturnInv DEF SplitReturn
  <1>12. CASE SplitEnd
    BY <1>12, SplitEndInv DEF SplitEnd
  <1>13. CASE UNCHANGED vars
    <2>1. UNCHANGED <<body, phase, lineNumber, contentStart, sections, merged, i, group, j,
                      groupTokens, raw, at, lineTokens>>
      BY <1>13 DEF vars, scanVars, mergeVars, groupVars, splitVars, countVars
    <2>2. ScanInv' /\ GroupInv' = GroupInv
      BY <2>1 DEF ChunkInv, ScanInv, GroupInv
    <2>3. MergeInv'
      BY <2>1, <2>2 DEF ChunkInv, MergeInv
    <2>4. OutputInv'
      BY <2>1 DEF ChunkInv, OutputInv
    <2> QED BY <2>1, <2>2, <2>3, <2>4 DEF ListsInv
  <1> QED BY <1>1, <1>2, <1>3, <1>4, <1>5, <1>6, <1>7, <1>8, <1>9, <1>10, <1>11, <1>12, <1>13
          DEF Next

LEMMA ChunkNext == ChunkInv /\ [Next]_vars => ChunkInv'
  <1> SUFFICES ASSUME ChunkInv, [Next]_vars PROVE ChunkInv'
    OBVIOUS
  <1>1. body' = body /\ ListsInv'
    BY ListsNext
  <1>2. SplitInv' /\ ShapeInv'
    BY StepsOfSplit, SplitNextInv, ShapeNext DEF ChunkInv
  <1> QED BY <1>1, <1>2 DEF ChunkInv, ListsInv

LEMMA ChunkInvariance == Spec => []ChunkInv
  BY ChunkInit, ChunkNext, PTL DEF Spec

-----------------------------------------------------------------------------
(* What is cited.                                                          *)

LEMMA FileLines ==
    ASSUME NEW b \in Seq(Line), NEW c, c.start \in 1 .. Len(b), c.end \in 1 .. Len(b),
           NEW l \in 1 .. Len(b)
    PROVE  FileLine(l) \in MdLineRange(c) <=> c.start <= l /\ l <= c.end
  <1>1. /\ Len(b) \in Nat /\ BodyStartLine \in Nat /\ l \in Nat
        /\ c.start \in Nat /\ c.end \in Nat
    BY ChunkerAssumption
  <1> QED BY <1>1 DEF FileLine, MdLineRange

LEMMA TextLines ==
    ASSUME body \in Seq(Line)
    PROVE  /\ ContentLines = {FileLine(l) : l \in {l \in 1 .. Len(body) : TextLine(body, l)}}
           /\ \A l \in 0 .. Len(body) : IsText(l) <=> TextLine(body, l)
  <1>1. DOMAIN body = 1 .. Len(body) /\ Len(body) \in Nat
    OBVIOUS
  <1>2. {l \in DOMAIN body : body[l].kind = "text"}
          = {l \in 1 .. Len(body) : TextLine(body, l)}
    BY <1>1 DEF TextLine
  <1>3. ASSUME NEW l \in 0 .. Len(body) PROVE IsText(l) <=> TextLine(body, l)
    BY <1>1 DEF IsText, TextLine
  <1> QED BY <1>2, <1>3 DEF ContentLines

\* An exact range: the text of the chunk is the text of the lines it cites.
LEMMA ChunkText ==
    ASSUME body \in Seq(Line), NEW c, Exact(body, c)
    PROVE  TextOf(c) = MdLineRange(c) \cap ContentLines
  <1>1. /\ c.start \in 1 .. Len(body) /\ c.end \in 1 .. Len(body)
        /\ c.lines \in Seq(0 .. Len(body)) /\ DOMAIN c.lines = 1 .. Len(c.lines)
        /\ \A k \in 1 .. Len(c.lines) :
              TextLine(body, c.lines[k]) => c.start <= c.lines[k] /\ c.lines[k] <= c.end
        /\ \A l \in c.start .. c.end :
              TextLine(body, l) => \E k \in 1 .. Len(c.lines) : c.lines[k] = l
    BY DEF Exact
  <1> DEFINE shown == {l \in Range(c.lines) : IsText(l)}
  <1>2. ASSUME NEW l \in shown
        PROVE  l \in 1 .. Len(body) /\ TextLine(body, l) /\ c.start <= l /\ l <= c.end
    <2>1. PICK k \in 1 .. Len(c.lines) : c.lines[k] = l
      BY <1>1 DEF Range
    <2>2. l \in 0 .. Len(body) /\ IsText(l)
      BY <1>1, <2>1
    <2>3. TextLine(body, l)
      BY <2>2, TextLines
    <2> QED BY <2>1, <2>3, <1>1 DEF TextLine
  <1>3. ASSUME NEW l \in 1 .. Len(body), TextLine(body, l), c.start <= l, l <= c.end
        PROVE  l \in shown
    <2>1. l \in c.start .. c.end
      BY <1>1, <1>3
    <2>2. PICK k \in 1 .. Len(c.lines) : c.lines[k] = l
      BY <1>1, <1>3, <2>1
    <2>3. l \in Range(c.lines)
      BY <1>1, <2>2 DEF Range
    <2>4. l \in 0 .. Len(body)
      OBVIOUS
    <2> QED BY <1>3, <2>3, <2>4, TextLines
  <1>4. TextOf(c) = {FileLine(l) : l \in shown}
    BY DEF TextOf
  <1> HIDE DEF shown
  <1>5. ASSUME NEW x \in TextOf(c) PROVE x \in MdLineRange(c) \cap ContentLines
    <2>1. PICK l \in shown : x = FileLine(l)
      BY <1>4
    <2>2. l \in 1 .. Len(body) /\ TextLine(body, l) /\ c.start <= l /\ l <= c.end
      BY <1>2
    <2> QED BY <2>1, <2>2, <1>1, FileLines, TextLines
  <1>6. ASSUME NEW x \in MdLineRange(c) \cap ContentLines PROVE x \in TextOf(c)
    <2>1. PICK l \in 1 .. Len(body) : TextLine(body, l) /\ x = FileLine(l)
      BY TextLines
    <2>2. c.start <= l /\ l <= c.end
      BY <2>1, <1>1, FileLines
    <2> QED BY <2>1, <2>2, <1>3, <1>4
  <1> QED BY <1>5, <1>6

\* The chunks, whatever the phase.
LEMMA RawFacts ==
    ASSUME ChunkInv
    PROVE  /\ body \in Seq(Line) /\ Len(raw) \in Nat /\ DOMAIN raw = 1 .. Len(raw)
           /\ \A k \in 1 .. Len(raw) : ChunkOK(body, raw[k])
           /\ \A k \in 1 .. Len(raw) - 1 : raw[k].start < raw[k + 1].start
           /\ phase = "done" => \A l \in 1 .. Len(body) : TextLine(body, l) => Covered(raw, l)
  <1>1. body \in Seq(Line)
    BY BodyLines DEF ChunkInv
  <1>2. \E limit : RawOK(body, raw, limit)
    <2>1. CASE phase \in {"split", "done"}
      BY <2>1 DEF ChunkInv, OutputInv
    <2>2. CASE phase \notin {"split", "done"}
      BY <2>2, EmptyLists DEF ChunkInv, OutputInv
    <2> QED BY <2>1, <2>2
  <1>3. /\ Listed(raw) /\ \A k \in 1 .. Len(raw) : ChunkOK(body, raw[k])
        /\ \A k \in 1 .. Len(raw) - 1 : raw[k].start < raw[k + 1].start
    BY <1>2 DEF RawOK
  <1>4. phase = "done" => RawOK(body, raw, Len(body))
    BY DEF ChunkInv, OutputInv
  <1>5. Len(raw) \in Nat /\ DOMAIN raw = 1 .. Len(raw)
    BY <1>3 DEF Listed
  <1> QED BY <1>1, <1>3, <1>4, <1>5 DEF RawOK

\* A citation is exact for every document and every setting of the sizes: the
\* lines of the file that md_line_range names hold the text of the chunk, all
\* of it and no other, after the trimming, the merging and the splitting.
THEOREM CitationsExact == Spec => []CitationExact
  <1>1. ChunkInv => CitationExact
    <2> SUFFICES ASSUME ChunkInv, NEW k \in DOMAIN raw
                 PROVE  TextOf(raw[k]) = MdLineRange(raw[k]) \cap ContentLines
      BY DEF CitationExact
    <2>1. body \in Seq(Line) /\ Exact(body, raw[k])
      BY RawFacts DEF ChunkOK
    <2> QED BY <2>1, ChunkText
  <1> QED BY <1>1, ChunkInvariance, PTL

\* Ingestion loses no text: when a document is chunked, every line of text of
\* the file is in the text of a chunk; the chunks come in document order, and
\* none is empty.
THEOREM DocumentsCovered == Spec => []DocumentCovered
  <1>1. ChunkInv => DocumentCovered
    <2> SUFFICES ASSUME ChunkInv PROVE DocumentCovered
      OBVIOUS
    <2>1. /\ body \in Seq(Line) /\ DOMAIN raw = 1 .. Len(raw)
          /\ \A k \in 1 .. Len(raw) : Exact(body, raw[k]) /\ raw[k].tokens > 0
          /\ \A k \in 1 .. Len(raw) - 1 : raw[k].start < raw[k + 1].start
          /\ phase = "done" => \A l \in 1 .. Len(body) : TextLine(body, l) => Covered(raw, l)
      BY RawFacts DEF ChunkOK
    <2>2. \A k \in DOMAIN raw : TextOf(raw[k]) = MdLineRange(raw[k]) \cap ContentLines
      BY <2>1, ChunkText
    <2>3. ASSUME phase = "done", NEW x \in ContentLines
          PROVE  \E k \in DOMAIN raw : x \in TextOf(raw[k])
      <3>1. PICK l \in 1 .. Len(body) : TextLine(body, l) /\ x = FileLine(l)
        BY <2>1, TextLines
      <3>2. PICK k \in 1 .. Len(raw) : raw[k].start <= l /\ l <= raw[k].end
        BY <2>1, <2>3, <3>1 DEF Covered
      <3>3. raw[k].start \in 1 .. Len(body) /\ raw[k].end \in 1 .. Len(body)
        BY <2>1 DEF Exact
      <3>4. x \in MdLineRange(raw[k])
        BY <2>1, <3>1, <3>2, <3>3, FileLines
      <3> QED BY <2>1, <2>2, <3>4
    <2>4. phase = "done" => ContentLines = UNION {TextOf(raw[k]) : k \in DOMAIN raw}
      BY <2>2, <2>3
    <2> QED BY <2>1, <2>4 DEF DocumentCovered
  <1> QED BY <1>1, ChunkInvariance, PTL

\* The pipeline calls `_split_section` as its theorems assume: only on sections
\* that have lines, and never while a call is under way.
THEOREM PipelineCallsSplit == Spec => SplitSpec
  <1>1. Init => SplitIdle
    BY DEF Init
  <1> QED BY <1>1, StepsOfSplit, ChunkInvariance, PTL DEF Spec, SplitSpec

\* So the chunks of a document overrun the target by their last line at most.
THEOREM ChunksRespectTarget == Spec => []TargetOverrunByOneLine
  BY PipelineCallsSplit, SplitRespectsTarget, PTL
=============================================================================
