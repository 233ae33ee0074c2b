------------------------------ MODULE GateRun ------------------------------
(***************************************************************************)
(* A paid comparison of the two refusal policies: `run` of                 *)
(* features/evaluation/gate_generation_eval.py with capture_snapshots and  *)
(* run_matrix (gate_eval/runner.py), the cache and the trace collector of  *)
(* models.py, and the import of the graded checklist.                      *)
(*                                                                         *)
(* Retrieval is captured once.  Then every repeat opens a client, puts     *)
(* every question to both policies and closes the client; a cache shares   *)
(* the identical prompts of one repeat.  First the holdout, then the       *)
(* canary.  What becomes of the files is in GateImport; what one question  *)
(* does between gate and answer is in QueryFlow, of which only the model's *)
(* say is left here.                                                       *)
(***************************************************************************)
EXTENDS Policies, GateScoring, Functions

CONSTANTS
    Order,          \* Order.holdout and Order.canary: the questions as their files have them
    ScoresOf,       \* ScoresOf[q]: the scores retrieval may give question q
    RepliesOf,      \* RepliesOf[q]: what the model may make of it
    Floor,          \* PINNED_REVIEW_FLOOR
    Threshold,      \* PINNED_THRESHOLD
    Cells,          \* <<language, answerable>> cells of the preflight: in the code, all four
    MinGrey,        \* MIN_GREY_PER_CELL
    MaxRepeats      \* bound on the repeats asked for on the command line

Questions == Holdout \cup Canary

\* What a logical call comes to: an answer that cites the expected chunks or
\* others, a refusal (of the model, or for its citations), or an exception.
Says == {"cites", "strays", "declines", "fails"}

Matrices == {"holdout", "canary"}

QuestionsIn(m) == IF m = "holdout" THEN Holdout ELSE Canary

ASSUME RunAssumption ==
    /\ \A m \in Matrices :
          /\ Len(Order[m]) \in Nat \ {0} /\ DOMAIN Order[m] = 1 .. Len(Order[m])
          /\ IsInjective(Order[m]) /\ Range(Order[m]) = QuestionsIn(m)
    /\ \A q \in Questions : \A s \in ScoresOf[q] : Finite(s) => s \in Nat
    /\ Floor \in Nat /\ Threshold \in Nat /\ Floor < Threshold
    /\ MaxRepeats \in Nat
    /\ RepliesOf \in [Questions -> SUBSET [says : Says, trace : {"clean", "limited", "fallback"}]]

VARIABLES
    phase,     \* "capture", "preflight", "running", "unwinding", "written", and the ends
    score,     \* the captured score of each question's first semantic hit
    asked,     \* the repeats asked for, of the holdout and of the canary
    matrix,    \* which run_matrix is at work
    repeat,
    arm,       \* index into Arms
    turn,      \* index into the questions of the matrix
    client,    \* the client of the repeat is "open" or "closed"
    cache,     \* WithinRepeatCache: from prompts to [reply, made]
    collector, \* TraceCollector: the trace events since its last reset
    outcomes,  \* the outcomes, with what was forwarded and when the reply was made
    report     \* the gates of the last comparison written

runVars == <<phase, score, asked, matrix, repeat, arm, turn, client, cache,
          collector, outcomes, report>>

place == <<matrix, repeat, arm, turn>>

QuestionsOf(m) == Order[m]

RowsOf(m) == Restrict(outcomes, {i \in DOMAIN outcomes : outcomes[i].question \in QuestionsIn(m)})

NoReport == [gates |-> << >>, verdicts |-> NoVerdicts]

-----------------------------------------------------------------------------
(* The gate, as the product applies it and as the runner does.             *)

Setting(policy) == [mode |-> policy, threshold |-> Threshold, floor |-> Floor]

BandUnder(policy, q) ==
    ClassifyScore(Setting(policy), IF Finite(score[q]) THEN score[q] ELSE NoScore)

\* _band, of the captured score: there is no finite check, and a NaN is below
\* nothing.
Band(s) ==
    IF s = NoScore THEN "hard_refuse"
    ELSE IF s = NotFinite THEN "confident"
    ELSE IF s < Floor THEN "hard_refuse"
    ELSE IF s < Threshold THEN "grounded_review"
    ELSE "confident"

Grey(lang, answerable) ==
    {q \in Holdout : /\ Band(score[q]) = "grounded_review"
                     /\ Language[q] = lang /\ (q \in Answerable) = answerable}

-----------------------------------------------------------------------------

RunInit ==
    /\ phase = "capture"
    /\ score = [q \in Questions |-> NoScore]
    /\ asked \in [holdout : 1 .. MaxRepeats, canary : 1 .. MaxRepeats]
    /\ matrix = "holdout" /\ repeat = 1 /\ arm = 1 /\ turn = 1
    /\ client = "closed" /\ cache = << >> /\ collector = "clean"
    /\ outcomes = << >> /\ report = NoReport

Capture ==
    /\ phase = "capture"
    /\ score' \in {s \in [Questions -> UNION Range(ScoresOf)] :
                     \A q \in Questions : s[q] \in ScoresOf[q]}
    /\ phase' = "preflight"
    /\ UNCHANGED <<asked, place, client, cache, collector, outcomes, report>>

Covered == \A c \in Cells : Cardinality(Grey(c[1], c[2])) >= MinGrey

\* _assert_profile_coverage
PreflightFails ==
    /\ phase = "preflight" /\ ~Covered
    /\ phase' = "refused"
    /\ UNCHANGED <<score, asked, place, client, cache, collector, outcomes, report>>

PreflightPasses ==
    /\ phase = "preflight" /\ Covered
    /\ phase' = "running"
    /\ UNCHANGED <<score, asked, place, client, cache, collector, outcomes, report>>

\* A repeat begins: a trace, a client and a cache of its own.
OpenClient ==
    /\ phase = "running" /\ client = "closed" /\ repeat <= asked[matrix]
    /\ client' = "open"
    /\ cache' = << >> /\ collector' = "clean"
    /\ arm' = 1 /\ turn' = 1
    /\ UNCHANGED <<phase, score, asked, matrix, repeat, outcomes, report>>

question == QuestionsOf(matrix)[turn]
band == BandUnder(Arms[arm], question)

AtQuestion == phase = "running" /\ client = "open" /\ arm <= Len(Arms)

\* A slip: the policy is part of what identifies a call.
KeyPerArm == <<question, band, Arms[arm]>>

\* The prompts and the schema follow from the question and the band.
Key == <<question, band>>

Outcome(refused, status, cites, trace, forwarded, made) ==
    [repeat |-> repeat, policy |-> Arms[arm], question |-> question,
     refused |-> refused, status |-> status, cites |-> cites, trace |-> trace,
     band |-> band, forwarded |-> forwarded, made |-> made]

\* What _run_question records of a reply.
Recorded(reply, forwarded, made) ==
    LET trace == IF forwarded THEN reply.trace ELSE "clean" IN
    IF reply.says = "fails"
    THEN Outcome(FALSE, "error", FALSE, trace, forwarded, made)
    ELSE Outcome(reply.says = "declines", "ok", reply.says = "cites", trace, forwarded, made)

\* On to the next question, or to the other policy.
Advance ==
    IF turn < Len(QuestionsOf(matrix))
    THEN turn' = turn + 1 /\ UNCHANGED arm
    ELSE turn' = 1 /\ arm' = arm + 1

Record(o) ==
    /\ outcomes' = Append(outcomes, o)
    /\ Advance
    /\ UNCHANGED <<phase, score, asked, matrix, repeat, client, report>>

RefuseWithoutCall ==
    /\ AtQuestion /\ band = "hard_refuse"
    /\ collector' = "clean"
    /\ Record(Outcome(TRUE, "ok", FALSE, "clean", FALSE, 0))
    /\ UNCHANGED cache

AnswerFromCache ==
    /\ AtQuestion /\ band # "hard_refuse" /\ Key \in DOMAIN cache
    /\ collector' = "clean"
    /\ Record(Recorded(cache[Key].reply, FALSE, cache[Key].made))
    /\ UNCHANGED cache

\* A call that raises leaves nothing in the cache.
AnswerFromModel ==
    /\ AtQuestion /\ band # "hard_refuse" /\ Key \notin DOMAIN cache
    /\ \E reply \in RepliesOf[question] :
          /\ collector' = reply.trace
          /\ Record(Recorded(reply, TRUE, repeat))
          /\ cache' = IF reply.says = "fails" THEN cache
                      ELSE [k \in DOMAIN cache \cup {Key} |->
                              IF k = Key THEN [reply |-> reply, made |-> repeat] ELSE cache[k]]

\* KeyboardInterrupt is no Exception: it leaves the matrix, through `finally`.
Interrupt ==
    /\ AtQuestion
    /\ phase' = "unwinding"
    /\ UNCHANGED <<score, asked, place, client, cache, collector, outcomes, report>>

\* aclose(); when it raises, or an exception is under way, the run is over.
CloseClient ==
    /\ client = "open"
    /\ phase = "unwinding" \/ arm > Len(Arms)
    /\ client' = "closed"
    /\ \/ phase' = "aborted" /\ UNCHANGED repeat
       \/ phase = "running" /\ phase' = "running" /\ repeat' = repeat + 1
    /\ UNCHANGED <<score, asked, matrix, arm, turn, cache, collector, outcomes, report>>

MatrixDone == phase = "running" /\ client = "closed" /\ repeat > asked[matrix]

StartCanary ==
    /\ MatrixDone /\ matrix = "holdout"
    /\ matrix' = "canary" /\ repeat' = 1
    /\ UNCHANGED <<phase, score, asked, arm, turn, client, cache, collector, outcomes, report>>

Scored(verdicts) ==
    [gates |-> Gates(RowsOf("holdout"), RowsOf("canary"), verdicts, Holdout, Canary),
     verdicts |-> verdicts]

\* The run directory, in one: GateImport has its steps.
WriteRun ==
    /\ MatrixDone /\ matrix = "canary"
    /\ report' = Scored(NoVerdicts)
    /\ phase' = "written"
    /\ UNCHANGED <<score, asked, place, client, cache, collector, outcomes>>

\* The grades tried: all rows pass, or one row fails in one column.
Grades(rows) ==
    LET ids == {RowId(o) : o \in Range(rows)}
        good == [citation |-> TRUE, faithful |-> TRUE, safe |-> TRUE]
        all == [i \in ids |-> good]
    IN  {all} \cup {[all EXCEPT ![i] = [good EXCEPT ![c] = FALSE]] :
                      i \in ids, c \in {"citation", "faithful", "safe"}}

\* import_verdicts_into_run, once; an empty checklist is refused.
ImportVerdicts ==
    /\ phase = "written" /\ ~report.verdicts.given
    /\ ChecklistRows(outcomes) # << >>
    /\ \E marks \in Grades(ChecklistRows(outcomes)) :
          report' = Scored(HumanVerdicts(ChecklistRows(outcomes), marks))
    /\ UNCHANGED <<phase, score, asked, place, client, cache, collector, outcomes>>

RunStep ==
    \/ Capture \/ PreflightFails \/ PreflightPasses
    \/ OpenClient \/ CloseClient
    \/ RefuseWithoutCall \/ AnswerFromCache \/ AnswerFromModel
    \/ StartCanary \/ WriteRun

RunNext == RunStep \/ Interrupt \/ ImportVerdicts

RunSpec == RunInit /\ [][RunNext]_runVars

-----------------------------------------------------------------------------
(* Properties.                                                             *)

\* The variables keep their types.
RunTypeOK ==
    /\ phase \in {"capture", "preflight", "running", "unwinding", "written", "refused", "aborted"}
    /\ score \in [Questions -> (UNION Range(ScoresOf)) \cup {NoScore}]
    /\ matrix \in Matrices
    /\ repeat \in 1 .. MaxRepeats + 1 /\ arm \in 1 .. Len(Arms) + 1 /\ turn \in DOMAIN QuestionsOf(matrix)
    /\ client \in {"open", "closed"}
    /\ DOMAIN cache \subseteq Questions \X {"grounded_review", "confident"}
    /\ \A o \in ToSet(outcomes) :
          /\ o.status = "error" => ~o.refused
          /\ o.forwarded => o.band # "hard_refuse"
    /\ report.verdicts.given => phase = "written"

Errored(o) == o.status = "error"

\* ALL PASS is said only of a comparison that took place: its checklist was
\* graded, every question met both policies in each of the repeats the gates
\* require, and none of these outcomes is an error or was bent by a rate limit
\* or a fallback, whatever repeats the command line asked for.
ShipOnlyOnFullEvidence ==
    report # NoReport /\ AllPass(report.gates) =>
        /\ report.verdicts.given
        /\ \A q \in Questions, p \in ToSet(Arms) :
              \A r \in 1 .. (IF q \in Holdout THEN FULL_REPEATS ELSE CANARY_REPEATS) :
                 \E o \in ToSet(outcomes) :
                    /\ RowId(o) = <<p, r, q>>
                    /\ ~Errored(o) /\ o.trace = "clean"
        /\ \A o \in ToSet(outcomes) : o.repeat <= (IF o.question \in Holdout THEN FULL_REPEATS
                                                                           ELSE CANARY_REPEATS)

\* When fewer false refusals are reported and nothing errored, the policy did
\* it: an answerable question of the grey band was refused by the one and
\* answered by the other.  Two samples of the model for one prompt never make
\* the difference, because the arms of a repeat share the confident answers.
ImprovementIsCausal ==
    report # NoReport /\ report.gates.improves_global /\ report.gates.no_errors =>
        \E o, b \in ToSet(outcomes) :
           /\ o.question \in Answerable /\ o.band = "grounded_review" /\ ~o.refused
           /\ b.question = o.question /\ b.policy = "binary" /\ b.refused

\* What docs/adr/009-phase3-grounded-review-gate.md says of the confident
\* band: its call "is issued once and shared within a repeat".
ConfidentIssuedOnce ==
    \A i, j \in DOMAIN outcomes :
       /\ outcomes[i].band = "confident" /\ outcomes[i].forwarded
       /\ outcomes[j].forwarded
       /\ outcomes[i].question = outcomes[j].question
       /\ outcomes[i].repeat = outcomes[j].repeat
       => i = j
=============================================================================
