------------------------- MODULE MCIndexLifecycle -------------------------
(* TLC instance of IndexLifecycle: two corpora cut into as many chunks with   *)
(* the same chunk ids, as a wording edit leaves them.  That is the case the   *)
(* startup checks find hardest: ids and counts tell nothing apart.            *)
EXTENDS IndexLifecycle, TLC

CONSTANTS a, b

MCContents == {a, b}
MCRows == [x \in MCContents |-> 2]
MCIds == [x \in MCContents |-> "ids"]

\* Nothing tells the two contents apart.
Symmetry == Permutations(MCContents)
============================================================================
