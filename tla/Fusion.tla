------------------------------- MODULE Fusion -------------------------------
(***************************************************************************)
(* Reciprocal rank fusion: rrf_scores and fuse_rankings of                 *)
(* domain/policies.py.                                                     *)
(*                                                                         *)
(* Chunk ids are natural numbers, so that the tie-break by id is an order. *)
(* A score is a sum of fractions 1/(k + rank), kept as a fraction <<over,  *)
(* under>>, so that scores are compared exactly.                           *)
(***************************************************************************)
EXTENDS Integers, Sequences, FiniteSets, SequencesExt

RankIn(list, id) == CHOOSE r \in DOMAIN list : list[r] = id

\* rrf_scores(list, k).get(id, 0.0)
Rrf(list, id, k) == IF Contains(list, id) THEN <<1, k + RankIn(list, id)>> ELSE <<0, 1>>

Plus(s, t) == <<s[1] * t[2] + t[1] * s[2], s[2] * t[2]>>
Exceeds(s, t) == s[1] * t[2] > t[1] * s[2]

\* The members of S in the order R: each has as many before it in the list as
\* are ahead of it.
Sorted(S, R) ==
    [p \in 1 .. Cardinality(S) |->
        CHOOSE id \in S : Cardinality({other \in S : <<other, id>> \in R}) = p - 1]

\* A slip: the better of the two ranks counts, not the sum.
FuseByBestRank(semantic, lexical, k) ==
    LET found == ToSet(semantic) \cup ToSet(lexical)
        best(id) == LET s == Rrf(semantic, id, k)
                        l == Rrf(lexical, id, k)
                    IN  IF Exceeds(l, s) THEN l ELSE s
        ahead == {ab \in found \X found :
                    \/ Exceeds(best(ab[1]), best(ab[2]))
                    \/ ~Exceeds(best(ab[2]), best(ab[1])) /\ ab[1] < ab[2]}
    IN  Sorted(found, ahead)

\* (-fused_score, chunk_id): the larger sum first, the smaller id first among
\* equals.
Score(semantic, lexical, k, id) == Plus(Rrf(semantic, id, k), Rrf(lexical, id, k))

Ahead(semantic, lexical, k) ==
    LET found == ToSet(semantic) \cup ToSet(lexical)
        score(id) == Score(semantic, lexical, k, id)
    IN  {ab \in found \X found :
            \/ Exceeds(score(ab[1]), score(ab[2]))
            \/ ~Exceeds(score(ab[2]), score(ab[1])) /\ ab[1] < ab[2]}

FuseRankings(semantic, lexical, k) ==
    Sorted(ToSet(semantic) \cup ToSet(lexical), Ahead(semantic, lexical, k))

=============================================================================
