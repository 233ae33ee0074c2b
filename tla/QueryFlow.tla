----------------------------- MODULE QueryFlow -----------------------------
(***************************************************************************)
(* One question through QueryUseCase.answer_question                       *)
(* (features/query/use_cases.py): retrieve, gate, at most one logical      *)
(* model call, and a decision on what the model said.                      *)
(*                                                                         *)
(* The retriever and the model are the environment.  The model is the      *)
(* abstract LlmPort, whose `ValidReplies` are the replies the schema of    *)
(* the band admits; any other exception, of either, ends in HTTP 500.      *)
(***************************************************************************)
EXTENDS Policies

CONSTANTS
    Chunks,      \* chunk ids of the index
    Fabricated,  \* a chunk id the model makes up
    NoReply,     \* no reply of the model yet
    PromptK,     \* PROMPT_CONTEXT_K: results that go into the prompt
    Scores,      \* finite scores tried
    MaxCited,    \* bound on the citations or evidence items of a reply
    Offered      \* the policies tried

ASSUME ChunksAssumption == IsFiniteSet(Chunks)
ASSUME ScoresAssumption == Scores \subseteq Nat /\ NoScore \notin Nat \cup {NotFinite}
ASSUME PromptAssumption == PromptK \in Nat \ {0}
ASSUME MaxCitedAssumption == MaxCited \in Nat
ASSUME OfferedAssumption == Offered \subseteq PolicySettings
ASSUME FabricatedAssumption == Fabricated \notin Chunks

VARIABLES
    policy,   \* RefusalPolicy of the settings
    meta,     \* metadata class of each chunk
    pc,       \* where answer_question is
    results,  \* what the retriever returned, best fused rank first
    outcome,  \* the model call, as LlmPort has it ...
    value,    \* ... and its reply
    calls,    \* history: logical model calls made
    answer    \* the QueryAnswer, once there is one

llm == <<outcome, value>>
vars == <<policy, meta, pc, results, outcome, value, calls, answer>>

NoAnswer == [given |-> FALSE]

prompt == SubSeq(results, 1, IF Len(results) < PromptK THEN Len(results) ELSE PromptK)
score == Top1Score(results)
band == ClassifyScore(policy, score)

\* Fused lists: any order of any set of chunks, at least one of them found by
\* the semantic channel, with one score for all of these (only that of rank 1
\* is ever read).
FusedList(order, found, top, s) ==
    [i \in DOMAIN order |->
        [chunk |-> order[i],
         rank |-> IF order[i] = top THEN 1 ELSE IF order[i] \in found THEN 2 ELSE 0,
         score |-> IF order[i] \in found THEN s ELSE NoScore]]

ListsOf(S) ==
    {FusedList(order, found, top, s) :
        order \in SetToSeqs(S), found \in SUBSET S, top \in S,
        s \in Scores \cup {NotFinite}}

Retrievals ==
    {<<>>} \cup {list \in UNION {ListsOf(S) : S \in SUBSET Chunks} :
                   \E i \in DOMAIN list : list[i].rank = 1 /\ list[i].score # NoScore}

Citable == Chunks \cup {Fabricated}

\* JSON_SCHEMA and GROUNDED_REVIEW_SCHEMA: both have `answer` and `refused`.
Replies(b) ==
    [refused : BOOLEAN,
     text : {"worded", "whitespace", "empty"},
     cited : IF b = "grounded_review"
             THEN BoundedSeq([chunk : Citable, quote : Quotes], MaxCited)
             ELSE BoundedSeq(Citable, MaxCited)]

ConfidentCall == INSTANCE LlmPort WITH ValidReplies <- Replies("confident")
GroundedCall == INSTANCE LlmPort WITH ValidReplies <- Replies("grounded_review")

----------------------------------------------------------------------------

Init ==
    /\ policy \in Offered
    /\ meta \in [Chunks -> MetaClasses]
    /\ pc = "asked"
    /\ results = <<>>
    /\ outcome = "idle" /\ value = NoReply
    /\ calls = 0
    /\ answer = NoAnswer

\* retrieve() in a worker thread; k is wide enough to hold every hit.
Retrieve ==
    /\ pc = "asked"
    /\ results' \in Retrievals
    /\ pc' = "gate"
    /\ UNCHANGED <<policy, meta, llm, calls, answer>>

\* A KeyError for a chunk the vector store does not have, a Chroma error, a
\* reranker that broke its contract: nothing catches it but the HTTP layer.
RetrieveFails ==
    /\ pc = "asked"
    /\ pc' = "http_500"
    /\ UNCHANGED <<policy, meta, results, llm, calls, answer>>

\* _answer: the answer is the last thing a question gets.
Answer(text, citations, refused, status, reason) ==
    /\ answer' = [given |-> TRUE, text |-> text, citations |-> citations,
                  refused |-> refused, status |-> status, reason |-> reason,
                  band |-> band]
    /\ pc' = "answered"
    /\ UNCHANGED <<policy, meta, results, llm, calls>>

\* _refusal_answer
Refuse(text, reason) == Answer(text, <<>>, TRUE, "ok", reason)

HardRefuse ==
    /\ pc = "gate" /\ band = "hard_refuse"
    /\ Refuse("canonical", HardRefuseReason(policy))

PromptComplete == \A c \in ChunksOf(prompt) : meta[c] # "not_promptable"

RefuseIncompletePrompt ==
    /\ pc = "gate" /\ band # "hard_refuse"
    /\ ~PromptComplete
    /\ Refuse("canonical", "incomplete_retrieved_metadata")

CallModel ==
    /\ pc = "gate" /\ band # "hard_refuse"
    /\ PromptComplete
    /\ outcome' = "pending" /\ value' = NoReply
    /\ calls' = calls + 1
    /\ pc' = "model"
    /\ UNCHANGED <<policy, meta, results, answer>>

ModelStep ==
    /\ pc = "model"
    /\ IF band = "grounded_review" THEN GroundedCall!Next ELSE ConfidentCall!Next
    /\ UNCHANGED <<policy, meta, pc, results, calls, answer>>

----------------------------------------------------------------------------
(* What becomes of the call.                                               *)

GenerationFailed ==
    /\ pc = "model" /\ outcome = "raised"
    /\ Answer("error", <<>>, FALSE, "error", "generation_error")

\* Only GenerationError is caught.
ModelCallEscapes ==
    /\ pc = "model" /\ outcome = "escaped"
    /\ pc' = "http_500"
    /\ UNCHANGED <<policy, meta, results, llm, calls, answer>>

Replied == pc = "model" /\ outcome = "returned"

\* A slip: the model's own refusal text is served in every band.
SelfRefusalEchoed ==
    /\ Replied /\ value.refused
    /\ Refuse(IF value.text # "empty" THEN "model" ELSE "canonical", "llm_self_refusal")

\* In the grey band the model's refusal text is not trusted.
SelfRefusal ==
    /\ Replied /\ value.refused
    /\ Refuse(IF band # "grounded_review" /\ value.text # "empty"
              THEN "model" ELSE "canonical",
              "llm_self_refusal")

EmptyAnswer ==
    /\ Replied /\ ~value.refused
    /\ value.text # "worded"
    /\ Refuse("canonical", "empty_answer")

HasText == Replied /\ ~value.refused /\ value.text = "worded"

grounding == ResolveEvidence(value.cited, prompt, meta)

EvidenceRejected ==
    /\ HasText /\ band = "grounded_review"
    /\ grounding.failure # "none"
    /\ Refuse("canonical", grounding.failure)

AcceptGrounded ==
    /\ HasText /\ band = "grounded_review"
    /\ grounding.failure = "none"
    /\ Answer("model", grounding.citations, FALSE, "ok", "accepted_grounded")

resolution == ResolveCitations(value.cited, prompt, meta)

CitationsRejected ==
    /\ HasText /\ band = "confident"
    /\ resolution.failure # "none" \/ resolution.citations = <<>>
    /\ Refuse("canonical", "unresolved_citation")

AcceptConfident ==
    /\ HasText /\ band = "confident"
    /\ resolution.failure = "none" /\ resolution.citations # <<>>
    /\ Answer("model", resolution.citations, FALSE, "ok", "accepted_confident")

Next ==
    \/ Retrieve \/ RetrieveFails
    \/ HardRefuse \/ RefuseIncompletePrompt \/ CallModel \/ ModelStep
    \/ GenerationFailed \/ ModelCallEscapes
    \/ SelfRefusal \/ EmptyAnswer
    \/ EvidenceRejected \/ AcceptGrounded
    \/ CitationsRejected \/ AcceptConfident

Spec == Init /\ [][Next]_vars

----------------------------------------------------------------------------
(* Properties.                                                             *)

\* The variables keep their types.
TypeOK ==
    /\ policy \in Offered
    /\ meta \in [Chunks -> MetaClasses]
    /\ pc \in {"asked", "gate", "model", "answered", "http_500"}
    /\ \A i \in DOMAIN results :
          results[i] \in [chunk : Chunks, rank : 0 .. 2,
                          score : Scores \cup {NoScore, NotFinite}]
    /\ outcome \in {"idle", "pending", "returned", "raised", "escaped"}
    /\ calls \in Nat
    /\ answer # NoAnswer =>
          /\ answer.text \in {"canonical", "model", "error"}
          /\ ToSet(answer.citations) \subseteq Chunks
          /\ answer.band \in Bands

Served == pc = "answered" /\ ~answer.refused /\ answer.status = "ok"

\* Nothing is served uncited, and no citation is taken on the model's word:
\* every citation of a served answer is a chunk that was in the prompt and
\* carries complete metadata, and no item the model cited was left out.  In
\* the grey band every cited chunk is backed by a verbatim quote.
ServedAnswersAreGrounded ==
    Served =>
        /\ answer.citations # <<>>
        /\ \A c \in ToSet(answer.citations) :
              c \in ChunksOf(prompt) /\ meta[c] = "complete"
        /\ IF band = "grounded_review"
           THEN /\ \A e \in ToSet(value.cited) :
                      e.quote = "verbatim" /\ e.chunk \in ToSet(answer.citations)
                /\ \A i, j \in DOMAIN answer.citations :
                      answer.citations[i] = answer.citations[j] => i = j
           ELSE answer.citations = value.cited

\* The model is consulted at most once, only when the first semantic hit has
\* a finite score that reaches the policy's lower bound, and only with a
\* prompt whose every chunk can be identified.
ModelOnlyBehindGate ==
    calls > 0 =>
        /\ calls = 1
        /\ \E i \in DOMAIN results :
              /\ results[i].rank = 1
              /\ Finite(results[i].score)
              /\ results[i].score >= (IF policy.mode = "binary" THEN policy.threshold
                                                                ELSE policy.floor)
        /\ \A i \in DOMAIN prompt : meta[prompt[i].chunk] # "not_promptable"

\* Text the model wrote reaches the user only in an answer that was resolved,
\* or as a refusal of the confident band; the grey band never passes through
\* a refusal the model worded, and a failed call never looks like a refusal.
ModelTextIsVetted ==
    answer # NoAnswer =>
        /\ answer.text = "model" => Served \/ answer.band = "confident"
        /\ answer.refused => answer.citations = <<>> /\ answer.status = "ok"
        /\ answer.status = "error" <=> outcome = "raised"
============================================================================
