----------------------------- MODULE MCServing -----------------------------
(* TLC instance of Serving.                                                  *)
EXTENDS Serving, TLC
\* Tabs differ only in their buckets, which no operator tells apart.
Symmetry == Permutations(Tabs)
=============================================================================
