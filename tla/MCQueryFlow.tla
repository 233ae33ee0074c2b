---------------------------- MODULE MCQueryFlow ----------------------------
(* TLC instance of QueryFlow: three chunks, two of which fit the prompt, one  *)
(* score per band, a binary policy and a grounded one.                        *)
EXTENDS QueryFlow

MCOffered == {[mode |-> "binary", threshold |-> 2, floor |-> 1],
              [mode |-> "grounded_review", threshold |-> 2, floor |-> 1]}

\* No operator tells two chunks apart.
Symmetry == Permutations(Chunks)
============================================================================
