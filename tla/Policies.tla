------------------------------ MODULE Policies ------------------------------
(***************************************************************************)
(* The decision rules of domain/policies.py: the refusal gate over the     *)
(* score of the best semantic hit, and the two fail-closed resolvers that  *)
(* turn what the model cites into citations.                               *)
(*                                                                         *)
(* A retrieved result is a record [chunk, rank, score]: rank is the        *)
(* semantic rank (0 when only the lexical channel found the chunk).  What  *)
(* a chunk's metadata lacks is one of three classes: "complete"; missing a *)
(* field that only citations need (document_id, or a source_type that is   *)
(* neither public nor synthetic); missing a field that the prompt needs.   *)
(***************************************************************************)
EXTENDS Integers, Sequences, FiniteSets, SequencesExt

CONSTANTS
    NoScore,   \* None: there is no semantic hit
    NotFinite  \* NaN or an infinity

MetaClasses == {"complete", "not_citable", "not_promptable"}

Bands == {"hard_refuse", "grounded_review", "confident"}

\* Fields that RefusalPolicy.__init__ accepts together.
PolicySettings == {p \in [mode : {"binary", "grounded_review"}, threshold : Nat, floor : Nat] :
                      p.mode = "grounded_review" => p.floor < p.threshold}

Finite(score) == score \notin {NoScore, NotFinite}

\* The fallback when no result has semantic rank 1: the best of all the scores
\* there are.  One that is not finite is the best, as an infinity or a NaN that
\* comes first is for max(), and then counts as none.
BestScoreOf(results) ==
    LET scores == {r.score : r \in ToSet(results)} \ {NoScore} IN
    IF scores = {} \/ NotFinite \in scores THEN NoScore
    ELSE CHOOSE best \in scores : \A s \in scores : s <= best

\* top1_semantic_score_from_results, then RefusalPolicy.top1_semantic_score:
\* the score of semantic rank 1; without one, the best score there is; a
\* score that is not finite counts as none.
Top1Score(results) ==
    LET first == {r \in ToSet(results) : r.rank = 1} IN
    IF first # {}
    THEN LET s == (CHOOSE r \in first : TRUE).score IN
         IF Finite(s) THEN s ELSE NoScore
    ELSE BestScoreOf(results)

\* A slip: the guard against missing and non-finite scores is gone, and a NaN
\* fails every comparison, so the bands are told apart the other way round.
ClassifyByExclusion(policy, score) ==
    IF policy.mode = "grounded_review" /\ Finite(score) /\ score < policy.floor
    THEN "hard_refuse"
    ELSE IF Finite(score) /\ score < policy.threshold
         THEN IF policy.mode = "binary" THEN "hard_refuse" ELSE "grounded_review"
         ELSE "confident"

ClassifyScore(policy, score) ==
    IF ~Finite(score) THEN "hard_refuse"
    ELSE IF score >= policy.threshold THEN "confident"
    ELSE IF policy.mode = "grounded_review" /\ score >= policy.floor
    THEN "grounded_review" ELSE "hard_refuse"

HardRefuseReason(policy) ==
    IF policy.mode = "grounded_review" THEN "below_review_floor"
                                       ELSE "below_binary_threshold"

----------------------------------------------------------------------------
(* Resolvers.  `meta` gives the metadata class of every chunk.             *)

ChunksOf(results) == {r.chunk : r \in ToSet(results)}

Resolution(citations, failure) == [citations |-> citations, failure |-> failure]

\* CitationResolver.resolve: one citation that names no chunk of the prompt,
\* or one whose metadata is incomplete, rejects the whole set.  An empty set
\* resolves to nothing.
ResolveCitations(cited, prompt, meta) ==
    IF \A c \in ToSet(cited) : c \in ChunksOf(prompt) /\ meta[c] = "complete"
    THEN Resolution(cited, "none")
    ELSE Resolution(<<>>, "unresolved_citation")

\* What is wrong with a quote, by the kind of quote it is.
QuoteFault == [verbatim |-> "none", absent |-> "quote_not_found",
               short |-> "quote_too_short", long |-> "quote_too_long"]
Quotes == DOMAIN QuoteFault

\* What is wrong with one evidence item, in the order of the checks.
EvidenceFault(item, prompt) ==
    IF item.chunk \notin ChunksOf(prompt) THEN "chunk_not_retrieved"
                                          ELSE QuoteFault[item.quote]

\* The items of s, each at the place where it first appears.
WithoutRepeats(s) ==
    LET firsts == {i \in DOMAIN s : \A j \in 1 .. i - 1 : s[j] # s[i]}
        place(k) == CHOOSE i \in firsts : Cardinality({j \in firsts : j <= i}) = k
    IN  [k \in 1 .. Cardinality(firsts) |-> s[place(k)]]

\* A slip: one verbatim quote vouches for the whole answer.
ResolveEvidencePartially(evidence, prompt, meta) ==
    LET sound == SelectSeq(evidence, LAMBDA e : EvidenceFault(e, prompt) = "none")
    IN  IF sound = <<>> THEN Resolution(<<>>, "missing_evidence")
        ELSE ResolveCitations(WithoutRepeats([i \in DOMAIN sound |-> sound[i].chunk]),
                              prompt, meta)

\* GroundedEvidenceResolver.resolve: the first faulty item decides, and only
\* if there is none are the chunks cited, each once, in order.
ResolveEvidence(evidence, prompt, meta) ==
    LET faulty == {i \in DOMAIN evidence : EvidenceFault(evidence[i], prompt) # "none"}
        first == CHOOSE i \in faulty : \A j \in faulty : i <= j
    IN  IF evidence = <<>> THEN Resolution(<<>>, "missing_evidence")
        ELSE IF faulty # {} THEN Resolution(<<>>, EvidenceFault(evidence[first], prompt))
        ELSE ResolveCitations(WithoutRepeats([i \in DOMAIN evidence |-> evidence[i].chunk]),
                              prompt, meta)
============================================================================
