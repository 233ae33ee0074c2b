----------------------------- MODULE FloorSweep -----------------------------
(***************************************************************************)
(* features/evaluation/floor_sweep.py: the offline sweep that looks for an *)
(* entry rule of the grounded review better than the one in production.  A *)
(* rule is a floor and a corroborating signal between the two channels;    *)
(* the sweep counts what each rule would do to a labelled question set,    *)
(* holds it against four gates (G1..G4) and publishes the eligible ones.   *)
(* The sweep has its own copy of the gate: production's is in Policies.    *)
(*                                                                         *)
(* A score is an integer; NotFinite stands for NaN, which fails every      *)
(* comparison.                                                             *)
(***************************************************************************)
EXTENDS Integers, Sequences, FiniteSets, FiniteSetsExt, Functions, Policies

CONSTANTS
    Questions,       \* the labelled questions: [cohort, language, answerable] by id
    Results,         \* what retrieval may return for each: a set of [score, semantic, bm25]
    Pinned,          \* the band a control must have, by id
    Floors, Threshold, CurrentFloor,
    SignalTopN,      \* how deep the signals look into a channel
    MaxPooled, MaxPerLanguage    \* what G3 tolerates

ASSUME FloorSweepAssumption ==
    /\ CurrentFloor \in Floors /\ \A f \in Floors : f < Threshold
    /\ {SignalTopN, MaxPooled, MaxPerLanguage} \subseteq Nat
    /\ IsFiniteSet(DOMAIN Questions)

VARIABLES
    stage,      \* "collect", "verify", "write", "done", "failed" or "killed"
    features,   \* the features extracted so far, by question
    partial,    \* the artifacts in the .partial directory, absent or a set of names
    published   \* the artifacts in the final directory

sweepVars == <<stage, features, partial, published>>

Artifacts == <<"report.md", "grid.json", "features.jsonl", "sanitized_summary.md">>
Absent == {"no_directory"}

-----------------------------------------------------------------------------
\* The features of a question.

FirstOf(ids, n) == {ids[i] : i \in {j \in DOMAIN ids : j <= n}}

\* extract_features
Extract(result) ==
    [score |-> result.score,
     agree |-> result.semantic # << >> /\ FirstOf(result.semantic, 1) = FirstOf(result.bm25, 1),
     inTop |-> FirstOf(result.semantic, 1) \cap FirstOf(result.bm25, SignalTopN) # {},
     overlap |-> FirstOf(result.semantic, SignalTopN) \cap FirstOf(result.bm25, SignalTopN) # {}]

Signals == {"none", "overlap", "inTop", "agree"}
Rules == [floor : Floors, signal : Signals]
CurrentRule == [floor |-> CurrentFloor, signal |-> "none"]

SignalPasses(row, signal) == signal = "none" \/ row[signal]

\* classify_candidate.  NaN is neither above the threshold nor below a floor.
Candidate(row, rule) ==
    CASE row.score = NoScore -> "hard_refuse"
      [] Finite(row.score) /\ row.score >= Threshold -> "confident"
      [] Finite(row.score) /\ row.score < rule.floor -> "hard_refuse"
      [] OTHER -> IF SignalPasses(row, rule.signal)
                  THEN "grounded_review" ELSE "hard_refuse"

-----------------------------------------------------------------------------
\* The cells of the grid, and the gates.

Members(cohort, answerable) ==
    {q \in DOMAIN features : Questions[q].cohort = cohort /\ Questions[q].answerable = answerable}
OfLanguage(qs, language) == {q \in qs : Questions[q].language = language}
SetLanguages == {Questions[q].language : q \in DOMAIN Questions}

WronglyRefused(rule, language) ==
    Cardinality({q \in OfLanguage(Members("eval_set", TRUE), language) :
                    Candidate(features[q], rule) = "hard_refuse"})

NewlyReviewed(rule, asked) ==
    Cardinality({q \in asked : /\ Candidate(features[q], CurrentRule) = "hard_refuse"
                               /\ Candidate(features[q], rule) = "grounded_review"})

Production == [mode |-> "grounded_review", threshold |-> Threshold, floor |-> CurrentFloor]
InProduction(row) == ClassifyScore(Production, row.score)

\* A slip: rows without a usable score are not compared.
FidelityOfFinite ==
    \A q \in DOMAIN features :
        Finite(features[q].score) => Candidate(features[q], CurrentRule) = InProduction(features[q])

\* G1: the sweep's copy of the gate agrees with production's.
Fidelity ==
    \A q \in DOMAIN features : Candidate(features[q], CurrentRule) = InProduction(features[q])

\* A slip: what one language gains may be another one's loss.
ReductionPooled(rule) ==
    /\ \E l \in SetLanguages : WronglyRefused(rule, l) < WronglyRefused(CurrentRule, l)
    /\ SumFunction([l \in SetLanguages |-> WronglyRefused(rule, l)])
           <= SumFunction([l \in SetLanguages |-> WronglyRefused(CurrentRule, l)])

\* G2: fewer false refusals in some language, more in none.
Reduction(rule) ==
    /\ \E l \in SetLanguages : WronglyRefused(rule, l) < WronglyRefused(CurrentRule, l)
    /\ \A l \in SetLanguages : WronglyRefused(rule, l) <= WronglyRefused(CurrentRule, l)

\* G3: hardly an unanswerable question gets past the gate anew.
Containment(rule) ==
    LET unanswerable == Members("eval_set", FALSE)
    IN  /\ NewlyReviewed(rule, unanswerable) <= MaxPooled
        /\ \A l \in SetLanguages :
              NewlyReviewed(rule, OfLanguage(unanswerable, l)) <= MaxPerLanguage

Controls == {q \in DOMAIN features : Questions[q].cohort = "regression_controls"}

\* G4: every pinned control is there and in its band, and no control is
\* refused or let through that was not before.
ControlsKept(rule) ==
    /\ DOMAIN Pinned \subseteq Controls
    /\ \A q \in Controls :
          LET now == Candidate(features[q], rule)
              before == Candidate(features[q], CurrentRule)
          IN  /\ Questions[q].answerable => (now = "hard_refuse" => before = "hard_refuse")
              /\ ~Questions[q].answerable => (before = "hard_refuse" => now = "hard_refuse")
              /\ q \in DOMAIN Pinned => now = Pinned[q]

Eligible ==
    {rule \in Rules \ {CurrentRule} :
        Fidelity /\ Reduction(rule) /\ Containment(rule) /\ ControlsKept(rule)}

-----------------------------------------------------------------------------
\* The run.

\* A question is put to the retriever, in the order of the sets.
Collect(q) ==
    /\ stage = "collect"
    /\ LET left == DOMAIN Questions \ DOMAIN features
       IN  q \in left /\ \A p \in left : q <= p
    /\ \E result \in Results[q] :
          features' = [p \in DOMAIN features \cup {q} |-> IF p = q THEN Extract(result) ELSE features[p]]
    /\ UNCHANGED <<stage, partial, published>>

Collected ==
    /\ stage = "collect" /\ DOMAIN features = DOMAIN Questions
    /\ stage' = "verify"
    /\ UNCHANGED <<features, partial, published>>

\* The manifest is verified, and write_run makes its directory.
OpenRun ==
    /\ stage = "verify"
    /\ stage' = "write" /\ partial' = {}
    /\ UNCHANGED <<features, published>>

Written == Cardinality(partial)

WriteNext ==
    /\ stage = "write" /\ Written < Len(Artifacts)
    /\ partial' = partial \cup {Artifacts[Written + 1]}
    /\ UNCHANGED <<stage, features, published>>

Publish ==
    /\ stage = "write" /\ Written = Len(Artifacts)
    /\ published' = partial /\ partial' = Absent /\ stage' = "done"
    /\ UNCHANGED features

\* A set, the index or the retriever is refused before anything is written;
\* an error while writing takes the directory away again.
Fail ==
    /\ stage \in {"collect", "verify", "write"}
    /\ stage' = "failed" /\ partial' = Absent
    /\ UNCHANGED <<features, published>>

\* Ctrl-C is no Exception: the .partial directory stays.
Interrupt ==
    /\ stage = "write"
    /\ stage' = "killed"
    /\ UNCHANGED <<features, partial, published>>

SweepInit ==
    /\ stage = "collect" /\ features = << >>
    /\ partial = Absent /\ published = Absent

SweepNext ==
    \/ \E q \in DOMAIN Questions : Collect(q)
    \/ Collected \/ OpenRun \/ WriteNext \/ Publish \/ Fail \/ Interrupt

SweepSpec == SweepInit /\ [][SweepNext]_sweepVars

-----------------------------------------------------------------------------
\* The variables keep their types.
SweepTypeOK ==
    /\ stage \in {"collect", "verify", "write", "done", "failed", "killed"}
    /\ DOMAIN features \subseteq DOMAIN Questions
    /\ \A q \in DOMAIN features : DOMAIN features[q] = {"score", "agree", "inTop", "overlap"}
    /\ partial = Absent \/ partial \subseteq Range(Artifacts)
    /\ partial # Absent => stage \in {"write", "killed"}

\* Measured against the gate in production, and not against the sweep's copy
\* of it: a rule that is reported eligible lets through no more unanswerable
\* questions than G3 allows, whatever scores the retriever returned.
EligibleIsContained ==
    stage = "write" => \A rule \in Eligible : \A l \in SetLanguages :
        Cardinality({q \in OfLanguage(Members("eval_set", FALSE), l) :
                        /\ InProduction(features[q]) = "hard_refuse"
                        /\ Candidate(features[q], rule) # "hard_refuse"})
            <= Min({MaxPerLanguage, MaxPooled})

\* Nor does it refuse, in either language, more answerable questions than
\* production does.
EligibleHarmsNobody ==
    stage = "write" => \A rule \in Eligible : \A l \in SetLanguages :
        WronglyRefused(rule, l)
            <= Cardinality({q \in OfLanguage(Members("eval_set", TRUE), l) :
                               InProduction(features[q]) = "hard_refuse"})

=============================================================================
