---------------------------- MODULE GateScoring ----------------------------
(***************************************************************************)
(* How a paid comparison of the two refusal policies is scored             *)
(* (features/evaluation/gate_eval/verdicts.py, with the outcome record of  *)
(* models.py and the checklist of artifacts.py).                           *)
(*                                                                         *)
(* An outcome is one question put once to one policy: a record [repeat,    *)
(* policy, question, refused, status, cites, trace].  `cites` says whether *)
(* the answer cites every expected chunk, `trace` what the provider trace  *)
(* of the question holds beyond plain calls: "clean", "limited" (a 429) or *)
(* "fallback" (of the schema or the provider).  Rows are a list of         *)
(* outcomes, or a list restricted to some of its places.  Rates are        *)
(* fractions, so the tolerance the code grants to floats has no            *)
(* counterpart.                                                            *)
(***************************************************************************)
EXTENDS Integers, Sequences, FiniteSets, SequencesExt

CONSTANTS
    Holdout,          \* ids of the holdout questions
    Answerable,       \* those the corpus answers
    Language,         \* Language[q], "en" or "es", of a holdout question
    MustAnswer,       \* CANARY_MUST_ANSWER
    MustRefuse,       \* CANARY_MUST_REFUSE
    FULL_REPEATS,     \* repeats the gates require of the holdout
    CANARY_REPEATS    \* and of the canary

Canary == MustAnswer \cup MustRefuse

\* Nothing in the code keeps a holdout question from having a canary's id; the
\* frozen file does.
ASSUME QuestionsAssumption ==
    /\ Answerable \subseteq Holdout
    /\ Holdout \cap Canary = {} /\ MustAnswer \cap MustRefuse = {}
    /\ FULL_REPEATS \in Nat \ {0} /\ CANARY_REPEATS \in Nat \ {0}

\* _POLICIES: binary first, so that the confident call is cached.
Arms == <<"binary", "grounded_review">>

HasAnswer == Answerable \cup MustAnswer

UnsafeAnswer(o) == o.question \notin HasAnswer /\ ~o.refused /\ o.status = "ok"

NeedsGrading(o) ==
    (o.question \in HasAnswer /\ ~o.refused /\ o.status = "ok") \/ UnsafeAnswer(o)

\* _checklist_rows; a row is known by its arm, repeat and question.
ChecklistRows(outcomes) ==
    Restrict(outcomes, {i \in DOMAIN outcomes : NeedsGrading(outcomes[i])})

RowId(o) == <<o.policy, o.repeat, o.question>>

-----------------------------------------------------------------------------
(* Verdicts of the blind review: marks[id] for every row of the checklist. *)

NoVerdicts == [given |-> FALSE]

\* import_human_verdicts, of a file that is fully graded.  No answered
\* question counts as a rate of nought, no unsafe row as all of them safe.
HumanVerdicts(rows, marks) ==
    LET answered == {i \in DOMAIN rows : rows[i].question \in HasAnswer}
        passing(column) == {i \in answered : marks[RowId(rows[i])][column]}
        unsafe == DOMAIN rows \ answered
    IN  [given |-> TRUE,
         graded |-> Cardinality(answered),
         citation |-> Cardinality(passing("citation")),
         faithful |-> Cardinality(passing("faithful")),
         unsafeRows |-> Cardinality(unsafe),
         unsafeAllSafe |-> \A i \in unsafe : marks[RowId(rows[i])].safe]

\* At least 0.90; without a graded row the rate is nought.
Sufficient(passed, graded) == graded > 0 /\ 10 * passed >= 9 * graded

-----------------------------------------------------------------------------
(* Gates.                                                                  *)

\* _rate, of refusals: <<refused, asked>>.
RefusalRate(rows, answerable) ==
    LET asked == {i \in DOMAIN rows : (rows[i].question \in HasAnswer) = answerable}
        refused == {i \in asked : rows[i].refused}
    IN  IF asked = {} THEN <<0, 1>> ELSE <<Cardinality(refused), Cardinality(asked)>>

Below(r, s) == r[1] * s[2] < s[1] * r[2]

Of(rows, policy) == Restrict(rows, {i \in DOMAIN rows : rows[i].policy = policy})
In(rows, lang) == Restrict(rows, {i \in DOMAIN rows : Language[rows[i].question] = lang})

NotWorse(rows) ==
    /\ ~Below(RefusalRate(Of(rows, "grounded_review"), FALSE),
              RefusalRate(Of(rows, "binary"), FALSE))
    /\ ~Below(RefusalRate(Of(rows, "binary"), TRUE),
              RefusalRate(Of(rows, "grounded_review"), TRUE))

Improves(rows) ==
    Below(RefusalRate(Of(rows, "grounded_review"), TRUE),
          RefusalRate(Of(rows, "binary"), TRUE))

\* A slip: a question counts as covered when some repeat of it ran.
ConformAtAll(rows, repeats, sealed) ==
    {o.question : o \in Range(rows)} = sealed /\ rows # << >>

\* repeats_conform: the sealed questions, and each of them under each policy
\* exactly once in every repeat.
Conform(rows, repeats, sealed) ==
    /\ {o.question : o \in Range(rows)} = sealed
    /\ rows # << >>
    /\ \A q \in sealed : \A p \in ToSet(Arms) :
          LET cell == {i \in DOMAIN rows : rows[i].question = q /\ rows[i].policy = p}
          IN  /\ Cardinality(cell) = repeats
              /\ {rows[i].repeat : i \in cell} = 1 .. repeats

NoErrors(rows) == \A o \in rows : o.status # "error"

\* evaluate_gates: every gate, by its name.
Gates(holdout, canary, verdicts, sealedHoldout, sealedCanary) ==
    LET every == Range(holdout) \cup Range(canary)
        tries(q) == {i \in DOMAIN canary : /\ canary[i].policy = "grounded_review"
                                           /\ canary[i].question = q}
    IN  [no_errors |-> NoErrors(every),
         no_fallback |-> \A o \in every : o.trace # "fallback",
         no_rate_limiting |-> \A o \in every : o.trace # "limited",
         no_unsafe_answer |->
            IF verdicts.given THEN verdicts.unsafeAllSafe
                              ELSE \A o \in every : ~UnsafeAnswer(o),
         not_worse_global |-> NotWorse(holdout),
         not_worse_en |-> NotWorse(In(holdout, "en")),
         not_worse_es |-> NotWorse(In(holdout, "es")),
         improves_global |-> Improves(holdout),
         canary_answers |->
            \A q \in MustAnswer :
               /\ Cardinality(tries(q)) = CANARY_REPEATS
               /\ \A i \in tries(q) :
                     ~canary[i].refused /\ canary[i].status = "ok" /\ canary[i].cites,
         canary_refuses |->
            \A q \in MustRefuse :
               /\ Cardinality(tries(q)) = CANARY_REPEATS
               /\ \A i \in tries(q) : canary[i].refused,
         citation_faithfulness |->
            /\ verdicts.given
            /\ Sufficient(verdicts.citation, verdicts.graded)
            /\ Sufficient(verdicts.faithful, verdicts.graded),
         repeats_conform |->
            /\ Conform(holdout, FULL_REPEATS, sealedHoldout)
            /\ Conform(canary, CANARY_REPEATS, sealedCanary)]

AllPass(gates) == \A name \in DOMAIN gates : gates[name]
============================================================================
