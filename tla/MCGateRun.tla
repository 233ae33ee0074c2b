----------------------------- MODULE MCGateRun -----------------------------
(* Three holdout questions, one grey, one unanswerable and one confident,  *)
(* and one canary of each kind; the gates require two repeats of both, the *)
(* command line may ask for one.                                           *)
EXTENDS GateRun

MCOrder == [holdout |-> <<"g1", "g2", "g3">>, canary |-> <<"r1", "r18">>]
MCQuestions == UNION {ToSet(MCOrder[m]) : m \in DOMAIN MCOrder}
MCLanguage == [q \in {"g1", "g2", "g3"} |-> IF q = "g2" THEN "es" ELSE "en"]
MCCells == {<<"en", TRUE>>, <<"es", FALSE>>}

Clean(S) == [says : S, trace : {"clean"}]
Limited(S) == [says : S, trace : {"limited"}]

\* Floor 1, threshold 2.
MCScoresOf ==
    [q \in MCQuestions |->
        CASE q = "g1" -> {1}
          [] q = "g2" -> {0, 1}
          [] q \in {"g3", "r1"} -> {2}
          [] q = "r18" -> {0, NotFinite}]

MCRepliesOf ==
    [q \in MCQuestions |->
        CASE q = "g1" -> Clean({"cites", "declines"})
          [] q = "g2" -> Clean({"declines"}) \cup Limited({"strays"})
          [] q = "g3" -> Clean({"cites", "declines", "fails"})
          [] q = "r1" -> Clean({"cites", "strays"})
          [] q = "r18" -> Clean({"declines"})]
=============================================================================
