---------------------------- MODULE MCFloorSweep ----------------------------
(* TLC instance of FloorSweep: two answerable and two unanswerable questions, *)
(* two controls, two floors; scores below, at and between the floors.         *)
EXTENDS FloorSweep

Labelled(cohort, language, answerable) ==
    [cohort |-> cohort, language |-> language, answerable |-> answerable]

MCQuestions ==
    << Labelled("eval_set", "en", TRUE),  Labelled("eval_set", "es", TRUE),
       Labelled("eval_set", "en", FALSE), Labelled("eval_set", "en", FALSE),
       Labelled("regression_controls", "en", TRUE),
       Labelled("regression_controls", "es", FALSE) >>

Channels(shape) ==
    CASE shape = "same"    -> [semantic |-> <<"a", "b">>, bm25 |-> <<"a", "c">>]
      [] shape = "swapped" -> [semantic |-> <<"a", "b">>, bm25 |-> <<"c", "a", "b">>]
      [] shape = "deep"    -> [semantic |-> <<"a", "b">>, bm25 |-> <<"b", "c", "a">>]
      [] shape = "apart"   -> [semantic |-> <<"a", "b">>, bm25 |-> <<"c", "d", "a">>]
      [] shape = "lexical" -> [semantic |-> << >>, bm25 |-> << >>]

Retrieved(scores, shapes) ==
    {[score |-> score, semantic |-> Channels(shape).semantic, bm25 |-> Channels(shape).bm25] :
        score \in scores, shape \in shapes}

MCResults ==
    << Retrieved({1, 2}, {"same", "deep"}),
       Retrieved({1, 2}, {"same", "apart"}),
       Retrieved({1, NotFinite}, {"same", "apart"}) \cup Retrieved({NoScore}, {"lexical"}),
       Retrieved({1, NotFinite}, {"swapped", "apart"}),
       Retrieved({2, NotFinite}, {"same", "apart"}),
       Retrieved({1, NotFinite}, {"swapped", "apart"}) \cup Retrieved({0}, {"same"}) >>

\* The answerable control is pinned to the review band.
MCPinned == [q \in {5} |-> "grounded_review"]
=============================================================================
