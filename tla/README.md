# Formal models of the manufacturing RAG assistant

TLA+ models, TLC runs and TLAPS proofs about the Manufacturing Knowledge RAG
Assistant: a FastAPI service that answers questions over a small corpus by
hybrid retrieval and one model call, with a refusal gate in front of the model
and fail-closed checks behind it, the offline programs that cut the corpus into
chunks and build the index, and the evaluation programs that decide whether a
change of policy ships. `PROJECT.json` lists components, runs, findings,
hazards and theorems and maps every definition to the lines it models.

Paths below are relative to `src/` of the repository unless they start with
`docs/`.

## 1. The system

    corpus/*.md --ingestion--> chunks.jsonl --index build--> Chroma collection
                  (chunker)         |                        bm25_index.json
                                    |                        index_manifest.json
                                    v                             |
    browser -> nginx -> Streamlit -> FastAPI: boot checks  <------+
                                       |  API key, session, RateLimiter
                                       v
                                     QueryUseCase -> HybridRetriever (worker thread)
                                       |-> RefusalPolicy (gate)
                                       |-> GroqOpenAiLlmClient -> ProviderTransport -> Groq / OpenAI
                                       '-> CitationResolver / GroundedEvidenceResolver

    eval/*.json --integrity stamps--> paid runs, reports, sweeps (over the same parts)
                                       '-> run directory -> grader -> verdict import

| component | state it keeps | operations | talks to | what is hard | what makes it correct |
|---|---|---|---|---|---|
| rate limiter (`adapters/primary/http/rate_limit.py`) | map key -> deque of times, time of the last sweep | `allow`, `prune` | called by `POST /query` on the event loop | two clock readings in one call, comparisons at the window's edge, a map that must not grow | never more than N admissions per window; refuses only who used up the allowance; forgets idle keys |
| LLM client (`adapters/secondary/llm/groq_openai_client.py`) | none between calls | `generate_structured` | transport, trace hook | four nested kinds of retry, keys that may be missing, malformed replies | bounded cost, ends, returns only valid replies, every request accounted for |
| provider transport (`adapters/secondary/llm/transport.py`) | SDK client per provider, a lock | `call_provider`, `sdk_client`, `aclose` | SDKs | schema fallback; a lock held across an await; closing and cancellation while in use | no client leaked or handed out closed, no lock held for good |
| query use case (`features/query/use_cases.py`) | none (per question only) | `answer_question` | retriever in a thread, policies, LLM port | nine ways to end, three bands, partially valid evidence | no model call below the gate; no uncited or partially verified answer |
| policies (`domain/policies.py`) | none | gate, resolvers, RRF, expansion | pure | NaN and infinity, ties, all-or-nothing resolution | fail-closed gate and resolvers; fusion prefers what both channels found |
| retriever (`features/retrieval/use_cases.py`) | none | `retrieve`, reranking | vector store, lexical index | truncation, a reranker that misbehaves, an index replaced under a call | semantic rank 1 is in the list; every chunk with its own metadata, whatever builds the two indexes are of |
| chunker and ingestion (`features/ingestion/`) | `chunks.jsonl` | `run`, `chunk_document` | corpus files | line numbers through trimming, merging and splitting; an index that moves backwards; output rewritten in place | citations are exact, nothing is dropped, the splitter advances |
| index build (`features/retrieval/cli.py`) | three artifacts | `run` | vector store, BM25 file, manifest | crash between any two writes, rename dance, inputs read several times | the manifest vouches only for a finished build; a rebuild always recovers |
| API start-up (`adapters/primary/http/app.py`) | adapters in `app.state` | `lifespan` | all artifacts | artifacts of different builds | serves only what agrees |
| HTTP endpoints and UI (`routes.py`, `web/`) | session id, what a tab shows | `/query`, submit | limiter, use case | order of the guards, one peer address for all visitors, time-out against late answers | a rejected request costs nothing; visitors do not disturb one another |
| paid evaluation (`features/evaluation/gate_generation_eval.py`, `gate_eval/`) | cache, trace collector, run directory | run, import | LLM client, use case, a human grader | failing calls, shared cache, partial data at every gate, crash in a run or an import | ALL PASS means all the evidence; an import is whole and happens once |
| question sets (`gate_holdout_integrity.py`, ...) | stamped JSON files | `--write`, `--verify` | the two frozen sets | properties nobody counts that must follow from those that are | green means balanced and unseen |
| reports and sweeps (`retrieval_eval.py`, `floor_sweep.py`, ...) | `eval/reports`, run directories | one command each | live index | inputs and an index that change while they are measured; gates on partial sums | names and headers are true; an eligible rule is harmless |

## 2. Modules

| module | models | kind |
|---|---|---|
| `SlidingWindow` | what the limiter promises: admissions per client, no deques, no sweep | abstract specification |
| `RateLimiter` | `RateLimiter.allow` / `prune` | detailed, refines `SlidingWindow` |
| `Serving` | tabs, guards of `POST /query` | composes `RateLimiter` (EXTENDS) |
| `LlmPort` | `LLMClientPort.generate_structured`: one logical call | abstract specification |
| `LlmClient` | `GroqOpenAiLlmClient` over `ProviderTransport` and `validation.py` | detailed, refines `LlmPort` |
| `SdkClients` | SDK client cache, lock, round trips, `aclose`, as asyncio tasks | concurrent state machine |
| `Policies` | `RefusalPolicy`, `CitationResolver`, `GroundedEvidenceResolver` | pure operators |
| `QueryFlow` | `QueryUseCase.answer_question` | composes `Policies` and `LlmPort` |
| `Fusion` | `rrf_scores`, `fuse_rankings` | pure operators |
| `Retriever` | `HybridRetriever.retrieve` beside a rebuild | composes `Fusion` |
| `SectionSplit` | `_split_section`: three nested loops | state machine |
| `Chunker` | `chunk_document` and `md_line_range` | composes `SectionSplit` (EXTENDS) |
| `IndexLifecycle` | ingestion, index build and server start over the files they share | state machine with crashes |
| `GateScoring` | outcomes, checklist, verdicts and the twelve gates | pure operators |
| `GateRun` | the paid comparison: repeats, arms, cache, trace, client | composes `GateScoring` and `Policies` |
| `GateImport` | run directory and verdict import | state machine with crashes |
| `GateHoldout` | authoring, stamping and verifying the holdout | state machine with crashes |
| `FloorSweep` | the floor sweep and its four gates | composes `Policies` |
| `EvalReports` | four report commands over one live index | state machine with crashes |
| `ServingProofs` | theorems about `RateLimiter` and `Serving` | proofs |
| `LlmClientProofs`, `SdkClientsProofs`, `IndexLifecycleProofs` | theorems about the module each is named after | proofs |
| `ChunkerProofs` | theorems about `SectionSplit` and `Chunker` | proofs |
| `QueryFlowProofs` | theorems about `QueryFlow`, `Retriever` and the two together | proofs |
| `GateImportProofs` | theorems about `GateImport` and `GateRun` | proofs |
| `EvaluationProofs` | theorems about `GateHoldout`, `EvalReports` and `FloorSweep` | proofs |
| `MC*` | TLC instances | model checking |

Definitions that end a comment with "A slip:" (`HasRoomOffByOne`,
`RollBackNothing`, ...) are wrong variants of the definition that follows them.
No specification uses them; putting one in the place of the right definition
breaks the property PROJECT.json names, which shows that the property is able
to fail.

### RateLimiter and Serving

The limiter is synchronous and runs on the event loop, so one `allow` is one
step: `AllowWithoutSweep` or `AllowWithSweep`. `hits` is a function whose
domain is the set of keys in the dict, so deleting a key is visible. The code
reads the clock once for the decision and again in `prune`; the second reading
is any time up to `MaxSkew` later, and the clock keeps that value. `log` and
`answer` are history variables: all admissions of each key, and the latest
verdict. The refinement to `SlidingWindow` keeps `clock`, `log` and `answer`,
and drops the data structures. The sweep evicts by the *later* reading while
the admission is decided and stored under the *earlier* one. So the honest
bound is not "window" but "window less the skew", in `WindowBound` as in
`SlidingWindow!Admit`; with `MaxSkew = 0` it is the plain window.

`Serving` puts the limiter where it stands: behind the API key and the session
header, in front of the use case, called by tabs that block in `client.query`
until a response or the HTTP time-out. A request that was given up stays with
the API and finishes there. The guards up to the first await are one action,
because nothing can run in between. `open` says that the connection of a
request is still there. `answer_question` itself is one step here.

### LlmClient

One behaviour is one logical call. `pc` is where `_generate_structured_impl`
(`choose`, `parse`), `_get_provider_response` (`send`, `sleep`) or the awaited
round trip (`wire`) stands. The constructor's choices are a constant-like
variable `config`, so one run covers every primary provider, fallback flag, set
of keys and length of schedule. The provider is unconstrained. Replies are
members of two small sets: whether text satisfies the schema is all the client
looks at. `trace` counts the events of `tracing.py`, and `sent` the requests.

`LlmPort` is what `QueryFlow` sees of it. The refinement says that only replies
in `ValidReplies` come out, repaired ones included, and that every call ends.

### SdkClients

Asyncio tasks interleave only at awaits, so everything between two awaits is
one action: taking a free lock and finding, making or marking a client
(`Hit`, `Miss`, `CloseStale`), the end of the `close()` of a stale client
(`ReplaceStale`, `StaleCloseFails`), the round trip (`Send`, `End`), and each
`close()` of the teardown. `Cancel` hits a task at any await and `CancelTeardown`
the teardown, as `asyncio.run` does to the main task on Ctrl-C. `made` holds
every SDK client that ever existed with its state, `cache` the one of each
provider, and `owner` the clients that a teardown has taken out of the cache to
close. `aclose` catches `Exception`, which `CancelledError` is not: cancelled in
one `close()` it leaves the rest of its list, and those clients are `abandoned`,
a history variable.

### QueryFlow and Policies

`Retrieve` gives any list of up to three chunks in any order, each found by the
semantic channel, the lexical channel or both, with a score for the semantic
hits that can be NaN. `meta` says which chunks have metadata that the prompt or
a citation lacks. The model returns any reply that its schema admits: any
subset of real and made-up chunk ids up to `MaxCited`, any of four kinds of
quote, worded, blank or empty text, refused or not. The two calls of the model
are instances of `LlmPort`, one per schema. `Policies` keeps the rules as
operators: `Top1Score`, `ClassifyScore`, `ResolveCitations` and
`ResolveEvidence`, each all-or-nothing as in the code.

### Fusion and Retriever

Scores of the channels are numerics, so the channels return any ranking of the
chunks the index they look at holds; fusion is computed with exact fractions,
and the sorted list is given by how many chunks are ahead of each. Chroma is
opened again by every query and every metadata fetch, the BM25 index is the one
loaded at start-up: `collection` and `bm25Cache` are the builds behind them, and
a rebuild moves the first while a call is between two steps. `Holds[b]` is the
chunk ids of build `b`.

A rebuild may stop at any of its own steps, which leaves collection, BM25 file
and manifest of different builds. `Bootable` is what the start-up cross-check
makes of that: it compares the lexical index with the manifest by digest and
ids, and the collection by its number of rows (and its profile, of which a server
has one). So a server can boot on vectors of one build and a lexical index of
another, if they have as many chunks; finding 3 is how an operator gets there.
`swapped` is history: the collection was renamed since the call began. A
reranker is absent, honest (any permutation of its window) or faulty (it returns
other ids, which the code must refuse).

### SectionSplit and Chunker

A document is a sequence of lines: headings of a level, blanks, text with a
token count. One step is an iteration of a loop: of the scan a line, of the merge
a section of the document (`KeepSection`, `OpenGroup`) or of the group it has
opened (`JoinGroup`, `CloseGroup`), of `_split_section` a line. The text of
a chunk is the sequence of body lines it holds, with 0 for the blank line that
joins two merged texts, so "cites exactly where its text is" is a comparison of
two sets of lines. A text of several lines has the tokens of its lines and
`LineBreakTokens` for every line break, which is a natural number: the model, and
the theorems on merged sections, take it that joining lines saves no token. Indices are those of the code: 0-based and end-exclusive in
`SectionSplit`, 1-based and inclusive for sections. A chunk may lie wholly
inside its predecessor when a single line exceeds the overlap; the code means
that, and no property forbids it.

### IndexLifecycle

Three programs over the same files. Each step is one durable effect (a delete,
a create, a rename, a file replaced, a file truncated), and `IngestStops`,
`BuildStops`, `ServerStops` can end a program before any of them. A SHA-256
digest is modelled by the file it digests, which is exact as long as SHA-256
has no collisions. `chunks.jsonl` is `whole`, `cut` at a line boundary, `torn`
within a line or `empty`, because the file is rewritten in place. The
collections are `live`, `candidate` and `previous`; `RollBack` is the `except`
branch of `_promote`. `promoted`, `dirty` and `fresh` are history: a promotion
happened; live was replaced by a build that has not written its manifest since;
nothing changed since a build finished. `Overlap = FALSE` means that the
operator runs one program at a time.

### GateScoring, GateRun and GateImport

`GateRun` puts every question to both policies in every repeat, first over the
holdout, then over the canary. One question is one step (what happens inside it
is `QueryFlow`): refused without a call, answered from the confident-call cache,
or answered by the model, which may cite, stray, decline or fail, with a clean
trace, a rate limit or a fallback. `Interrupt` stops the run anywhere.
`Order` has the questions of either file as the file lists them. `GateScoring`
has the record of an outcome, the checklist drawn from it, the verdicts read
back, and the gates over both; a selection of rows is the outcomes restricted to
some of their places, and rates are exact fractions. In a
report an answerable question whose call failed counts as "not refused"
(`verdicts.py:107-113`); `no_errors` is what keeps that from shipping.

`GateImport` has the files. Two runs of one second share a `run_id`: checks,
`mkdir`, the seven files and the rename of both interleave. (The rename fails
when the other run is there already, because the directory is not empty.) The
content of a file is the run it is of; a checklist is a sequence of rows, and an
editor may lose, double, reorder, add or alter rows. An import is four steps,
and a kill comes between or inside them. The csv is read at line 379 and its
digest taken at 405; the states in between are in the model, but no program
compares that digest.

### GateHoldout, FloorSweep and EvalReports

`GateHoldout`: an author edits the questions and the status, `--write` stamps
(atomically for the holdout, in place for the frozen sets, so a crash can tear
those), `--verify` decides. A hash is the set of questions it was computed over.
Nobody edits while `--write` runs, and ids are assumed distinct.

`FloorSweep` keeps the sweep's own copy of the gate (`Candidate`) beside
production's (`Policies!ClassifyScore`), because the copy lacks the finiteness
check; the gates G1 to G4 are computed as in the code, pooled and per language.

`EvalReports` has four commands over the files on disk: the inputs (`chunks.jsonl`
and the corpus), the live collection, the BM25 file and the manifest. Beside a
command, at any moment, the inputs change, and a rebuild promotes its collection,
saves its lexicon and writes its manifest, or stops before either (all steps of a
build are in `IndexLifecycle`; here it embeds any content, and its manifest
describes the inputs as they are at its end, as in the code). `CheckLive` and
`Build` are the two checks; `Build` compares the collection by profile and rows
and loads the lexical index, and each question opens the collection anew. The
header (`Provenance`) is the inputs on disk at that moment and the commit of the
manifest, or of the checkout if there is none. `regression_eval` resolves it (60)
before the checks (69), the others after measuring. Reading `chunks.jsonl` twice
within `Build`, for the digest and for the ids, is one step.

`moved` and `swapped` are history, and file what the run lived through: inputs or
manifest changed between header and retriever, in whichever order these came; the
collection was replaced between two questions. A rerun of `generation_eval`
replaces the checklist of the run before, graded or not; the model has that and
nothing in the repository forbids it.

## 3. Runs

Each run passes; PROJECT.json gives its module, configuration and properties.

| run | question | instance |
|---|---|---|
| `serving` | does the limiter limit and forget, behind the guards and under tabs that give up? | 2 tabs, 3 requests of which 1 comes from no tab, limit 1, window 2, skew 1, time-out 1, clock to 5 |
| `llm_client` | cost, accounting, failover, giving up, port | all configurations, schedules of 0 to 2 sleeps |
| `sdk_clients` | who closes an SDK client, and is the lock released? | 3 tasks, 2 providers, 2 keys, 1 teardown |
| `query_flow` | gate, grounding, vetting of text | 3 chunks, 2 in the prompt, 2 policies |
| `retriever` | what the gate reads, what fusion prefers, which build answers | builds {1,2,3}, {2,3,4} and {4,5}, top_n 2, k 4, window 3, 3 kinds of reranker |
| `chunker` | are citations exact and complete? | 1839 documents of up to 8 lines |
| `index_lifecycle` | crash safety of build and boot | 2 contents of 2 chunks with equal ids, 2 profiles |
| `gate_run` | what do ALL PASS and an improvement mean? | 3 holdout and 2 canary questions, up to 2 repeats |
| `gate_import` | is a run directory whole, an import complete and single? | 2 runs, 1 importer, 3 rows, 2 edits, 2 kills, 2 imports |
| `gate_holdout` | what does green mean? | 2 pairs, 5 texts, 2 edits, 3 drafts |
| `floor_sweep` | what does eligible mean? | 6 questions, 2 floors, 5 shapes of retrieval |
| `eval_reports` | do names and headers tell the truth? | one of 4 commands, 2 questions, 2 contents, 2 corpora, 2 builds |

**Bounds and why they are enough.** Every bound is a constant of its module.

- *serving*: `MaxClock` is more than two windows, so a client is admitted,
  refused, expires, is swept and comes back; it is in the guard of `Tick` and a
  sweep may push the clock `MaxSkew` past it. With a limit of 1 the second
  question inside a window is refused; with 3 requests (`MaxSent`) one tab can
  give up, ask again and be answered late, while another sender (`MaxDirect`)
  comes in between. `UiTimeout` is shorter than the window, as it is in the
  deployed settings only for a time-out of the same size: the case that a retry
  falls into the window of the question it repeats is the one that matters.
  Tabs are interchangeable, hence the symmetry; both temporal properties of the
  run are action properties.
- *llm_client*: two providers are all there are; a schedule of two
  (`MaxBackoffs`) tells "first", "next" and "last" sleep, and `attempt` restarts
  with the repair round.
- *sdk_clients*: three tasks let one hold the lock, one wait for it and one use
  the client; a second key makes a cached client stale.
- *query_flow*: three chunks are one more than fits the prompt, so a retrieved
  chunk outside the prompt exists; scores 0, 1, 2 fall in the three bands; two
  citations (`MaxCited`) are enough for one good and one bad, and for a repeat.
- *retriever*: the first two builds have as many chunks, and the start-up check
  cannot tell them apart; the third has fewer, and it can. Each holds a chunk
  that another does not, so either channel can know one that the other index
  lacks. `K = 2 * TopN` as in the code, with a window shorter than the longest
  list; the cut then takes nothing off, which is the point (the theorem is for
  every larger `K` as well).
- *chunker*: `Sizes` are below the merge threshold, between it and the target,
  and above the trigger; documents have every order of up to five lines under a
  heading, and runs of three siblings whose merged text has fewer lines than its
  range.
- *index_lifecycle*: two contents with the same ids and number of chunks are the
  case in which the start-up checks have least to go by; there is no bound on
  the number of builds, crashes or edits, because the state stays finite.
- *gate_run*: one question of each kind and band (grey, unanswerable, confident,
  the two canaries, one with a NaN score); `MaxRepeats` is what the gates
  require, so the command line can ask for fewer or for as many.
- *gate_import*: `Csvs` has one checklist for each way to damage one; two kills
  (`MaxKills`) stop a run and an import, or an import twice (`MaxAttempts`).
- *gate_holdout*: `Drafts` are one edit away from a sound set, `MaxEdits` allows
  to repair one and to break it again.
- *floor_sweep*: the evaluation set has an answerable question in each language
  and two unanswerable ones in English, the controls an answerable one in English
  and an unanswerable one in Spanish, so that a count can be right pooled and
  wrong per language; the shapes of retrieval switch each signal on and off; what
  G3 tolerates is 1 (`MaxPooled`, `MaxPerLanguage`).
- *eval_reports*: one command (`MaxRuns`): a second one shares nothing with it but
  file names, and `AliasStaysBaseline` and `HeadersAreTrue` are for any number.
  Two builds (`MaxBuilds`) are the one that is measured and one beside it, or one
  killed halfway and the next; the two contents have as many chunks, the case in
  which the checks have least to go by. Inputs change without a bound.

**What the properties say.** Each is stated in words above its definition. In
short:

- `WindowBound`, `ImplementsSlidingWindow`, `IdleEntriesReclaimed`: section 2.
  `ChargedForWhatRan`: a bucket has exactly the admissions of the questions that
  ran. `VisitorsIndependent`: a tab is refused only for its own questions.
  `LateAnswersDropped`: a tab never shows the outcome of a question it gave up
  once it has asked another.
- `CallBudget`: at most `2 * 2 * (backoffs + 1)` requests to Groq and
  `2 * (backoffs + 1)` to OpenAI for one question. `AttemptsAccounted`: each
  physical request is counted once and ended once. `FailoverVisible`: the
  fallback event is emitted exactly when both providers were contacted.
  `GiveUpOnlyWhenExhausted`: `GenerationError` means that each configured
  provider was asked. `ImplementsPort`: refinement of `LlmPort`, its liveness
  included.
- `NoClientLost`: an open SDK client is in the cache or in the list of a teardown
  that will close it, whatever is cancelled and whatever `close()` raises; but for
  the rest of the list of a teardown that is itself cancelled (finding 13).
  `ClosedIsOutOfCache`, `LockIsReleased`: without exception.
- `ModelOnlyBehindGate`, `ServedAnswersAreGrounded`, `ModelTextIsVetted`: the
  promises of ADR-009, over every reply a schema-valid model can give.
- `RankOneSurvives`: the result the gate reads is in the returned list.
  `BothChannelsWin`: fusion puts what both channels found first.
  `CoherentUnlessSwapped`: what is left of coherence when the two indexes may be
  of different builds: a chunk is returned with metadata of a build that holds it
  or the call raises; a call during which nothing was renamed has metadata of one
  build only, and if the two indexes agree it never fails for want of a chunk.
- `CitationExact`, `DocumentCovered`, `TargetOverrunByOneLine`,
  `DocumentChunked`: a chunk cites the lines it holds, no line of text is lost,
  only the last line of a chunk carries it over the target, chunking ends.
- `CommitMarker`: whenever no build was cut short after its promotion, the
  manifest, the lexical index and the collection are of one `chunks.jsonl`.
  `LiveLeavesTwoCopies`: at the moment live disappears, its replacement is
  complete and the old one is kept. `RebuildRecovers`: after a finished build
  with nothing changed since, every start-up check passes, whatever crashes came
  before. `ServedIndexChecked`: what a booted server has verified.
- `ShipOnlyOnFullEvidence`: ALL PASS needs grades, both arms of every question in
  every required repeat, no error and no degraded trace. `ImprovementIsCausal`:
  fewer false refusals without errors come from a grey question that one policy
  refused and the other answered, never from sampling the model twice.
- `OneWholeRun`, `EveryBaselineRowGraded`, `MarkerMeansOneImport`, `SingleUse`:
  with runs of the same second, a mangled checklist, kills and repeats. With one
  importer at a time; see finding 11 for two.
- `CellsBalanced`: the four cells nobody counts follow from the pairs and two
  counts. `GreenIsUnseen`: also when a frozen set was tampered with.
- `EligibleIsContained`, `EligibleHarmsNobody`: measured with the gate of
  production, not the sweep's copy.
- `AliasIsBaseline`: the canonical names hold what a raw-v1/off run measured, on a
  raw-v1 collection unless it was replaced between two questions.
  `HeaderNamesTheIndex`: a header, early or late, names the chunks of the lexical
  index that was asked and the corpus and build it was checked against, unless
  inputs or manifest changed between the header and the last check. The code does
  not look a second time, so in that case the header is wrong; before and after
  it anything may change.

Type invariants (`TypeOK`, `ServingTypeOK`, `SplitTypeOK`) are stated in every
stateful module. The configurations do not list them; they hold on the same
instances. All but those of `Chunker` and `GateImport` are proved.

**Counterexamples.** The following configurations are not among the runs. Each
makes TLC print a behaviour of the code that contradicts a sentence of the
repository, quoted under `findings` in PROJECT.json. Numbers 8, 10, 12 and
13 need no configuration of their own: put the property in the place of the properties of
the run's configuration.

| configuration | module | property | what happens |
|---|---|---|---|
| `MCLlmFailFast` | `LlmClient` | `OneAttemptPerProvider` | 1. fail-fast is not one attempt per provider: schema fallback and repair are not part of the schedule |
| `MCLlmNullReply` | `LlmClient` | `OnlyGenerationErrorComesOut` | 2. a null `message.content` raises a `TypeError` past repair, failover and `GenerationError`: an HTTP 500 |
| `MCIndexMixed` | `MCIndexLifecycle` | `MixedIndexNotServable` | 3. an index with the vectors of another content can boot: rows are counted, not compared |
| `MCIndexDigests` | `MCIndexLifecycle` | `DigestsNeverDisagree` | 4. the BM25 payload and the manifest disagree when an ingestion falls between the two digests |
| `MCIndexVectors` | `MCIndexLifecycle` | `VectorsNeverLost` | 5. two builds killed in promotion leave the last complete collection where the third deletes it |
| `MCChunkerMerge` | `MCChunker` | `MergesOnlySmallSections` | 6. a section above the merge threshold is merged, if it follows a small one |
| `MCRetrieverLive` | `MCRetriever` | `OneCorpusServed` | 7. after a rebuild a running server mixes two corpora |
| `MCSdkClients`, with this invariant | `SdkClients` | `EveryAttemptEnds` | 8. a cancelled round trip leaves an attempt without an end |
| `MCGateIssuedOnce` | `MCGateRun` | `ConfidentIssuedOnce` | 9. a confident call that raised is issued again for the other policy |
| `MCGateImport`, with this invariant | `MCGateImport` | `CrashLeavesNoMarker` | 10. a kill inside the marker's write leaves a torn marker, which blocks the retry |
| `MCGateImportTwice` | `MCGateImport` | `SingleUse` | 11. two imports at a time both complete |
| `MCEvalReports`, with this invariant | `MCEvalReports` | `NamesAreTruthful` | 12. a rebuild under the other profile while measuring: a report named after an index it did not measure |
| `MCSdkClients`, with this invariant | `SdkClients` | `EveryClientAttempted` | 13. a teardown cancelled in one `close()` leaves the rest of its clients open and in nobody's hands |

Smaller disagreements that no run is about: ADR-009 says that the import
rewrites `comparison.md`, the code writes `comparison.import.md`; a failing
`aclose` at the end of `generation_eval` (281) discards the rows that were paid
for; `eval_set_integrity --write` rewrites a frozen set in place, while the
holdout's writer is atomic.

**Fairness.** Stated where a liveness property needs it, and only for code that
goes on by itself. `LlmClient`, `LlmPort`: weak fairness of the next step; a
call is either running on the event loop or awaiting a round trip, which the
SDK ends with a time-out, or an `asyncio.sleep`. `Chunker`: weak fairness of the
next step of one synchronous function. `SdkClients`: weak fairness of each task
and of the teardown, because the event loop runs every task that is ready and a
`close()` comes back or raises; nothing obliges a task or a teardown to be
cancelled. The
others are safety specifications: nothing obliges a client to ask, an operator
to rebuild, a grader to grade.

**Deadlock** is checked for `IndexLifecycle`. The other instances end by design:
a call returns, a document is chunked, the bounds on requests, edits, kills and
runs are used up.

## 4. Proofs

TLAPS checks the theorems for every value of the constants that satisfies the
named assumptions of the modules. Of the 40 properties the runs check, 35
invariants, action properties and refinements and the safety half of another are
proved. The assumptions are of four kinds: a bound is a natural number, a set or
a list that stands for a directory, a chunk set or a question file is finite
(and no index or question file empty), a placeholder ("no such chunk", "no
score") is not a member of the set it is outside of, and a setting passes the
checks of `load_settings` (a positive limit, a positive window, thresholds in
order). Where a theorem needs more, it says so in its statement, and section 3
has the counterexample without it.

### The limiter and `/query` (`ServingProofs`)

The limiter alone, for every finite or infinite set of keys, every limit,
window, skew up to the window, and clock:

| theorem | statement |
|---|---|
| `LimiterInvariant` | `Spec => []IInv` |
| `TypeCorrect` | `Spec => []TypeOK` |
| `AdmissionsSpread` | `Spec => []WindowBound` |
| `ForgetsOnlyTheExpired` | `Spec => []NothingLiveForgotten` |
| `LimiterImplementsWindow` | `Spec => ImplementsSlidingWindow` |
| `IdleKeysGo` | `Spec => IdleEntriesReclaimed` |

These use the limiter's own assumptions only: a positive limit and window, and a
call that takes no longer than a window. `Spec` is the limiter under any calls.

The endpoint, for any number of tabs, other callers, requests and time-outs:

| theorem | statement |
|---|---|
| `ServingInvariant` | `ServingSpec => []ServingInv` |
| `ServingTypes` | `ServingSpec => []ServingTypeOK` |
| `LimiterInService` | `ServingSpec => []WindowBound /\ IdleEntriesReclaimed /\ ImplementsSlidingWindow` |
| `ChargedForService` | `ServingSpec => []ChargedForWhatRan` |
| `QuotaOfOnesOwn` | `ServingSpec => []VisitorsIndependent` |
| `LatestIsShown` | `ServingSpec => []LateAnswersDropped` |

None of the safety properties is inductive. `WindowBound` speaks of `log` only,
and a step of `allow` looks at `hits`; so the invariant `IInv` relates the two.
For each key: the deque is a suffix of the key's admissions (`hits` lost only a
prefix), all admissions are in order and not in the future, and everything
missing from the deque is older than the window. From this the argument is: if
`allow` finds room, then fewer than `MaxRequests` admissions are young, so the
admission that lies `MaxRequests` back is expired, by the time the sweep used,
hence older than the window less the skew (`RoomMeansUnused`); that is both the
guard of `Admit` and what keeps `WindowBound`. If it finds none, the deque
itself shows that the allowance is used up (`NoRoomMeansUsed`), the guard of
`Reject`. The lemmas on `Live` (`EvictionStops`, `LiveIsTail`,
`EvictionKeeps`) say that `while hits and ...: popleft()` drops exactly the
expired prefix; `LeastNatural` gives the point where the loop stops.
`IdleKeysGo` needs a second invariant: every key in the map has a hit younger
than two windows at the time of the latest call.

In service the guards call `allow` exactly as `Next` of the limiter does
(`AllowSound` is the lemma both layers cite), so `IInv` and the refinement carry
over. `ServingInv` adds three things. `Watched`: a tab waits for, or shows, the
newest of its requests, and no other request of it has its connection open;
that is what drops late answers. `Books`: there is a bijection between the
admissions of a bucket and the forwarded requests charged to it that keeps the
times; that gives `ChargedForWhatRan`, and with `LogsOrdered` the counting
argument of `VisitorsIndependent`: a full window of a bucket no two senders share
is a full window of one tab's own requests.

### One logical call (`LlmClientProofs`)

`LlmClientProofs` proves, for all sets of replies and every bound on the
backoff schedule:

| theorem | statement |
|---|---|
| `CallTyped` | `Spec => []TypeOK` |
| `RequestsAccounted` | `Spec => []AttemptsAccounted` |
| `CallCostBounded` | `Spec => []CallBudget` |
| `NothingLeftToTry` | `Spec => []GiveUpOnlyWhenExhausted` |
| `FailoverIsTraced` | `Spec => []FailoverVisible` |
| `CallStepsImplementPort` | `Spec => Port!Init /\ [][Port!Next]_(Port!vars)` |

The only assumption used is that the bound on the schedule is a natural number;
all of the argument rests on `ChainOfTwo`, that a chain has at most two
providers and none twice. `AttemptsAccounted` is inductive given the types.
`CallBudget` is not: that a provider may get one more request depends on where
the loop is. `SentWithinBudget` bounds each provider's requests by its place: a
provider that was left has at most its whole budget, one that lies ahead has
nothing, and the current one at most `TripsPerAttempt` for each attempt it has
behind it (`AttemptsBehind`, the first phase's whole schedule included once the
repair started), plus what the attempt on the wire has used. Each step keeps it
through one of three lemmas: the step stays with its provider (`StayWithin`),
stays and sends nothing (`WaitWithin`), or leaves it (`MoveOnWithin`).
`SleptWithinBudget` does the same for the sleeps, and `ContactedBehind` says of
each provider that was left that it was contacted if it has a key.
`FailoverCounted` ties the fallback event to the provider the loop has reached:
the event is out once the second provider is taken after the first was contacted
(`Reach`, `Taken`), and a skipped provider leaves neither requests nor event.
`CallStepsImplementPort` needs no invariant: no action but the three that end a
call touches what the port sees.

### SDK clients (`SdkClientsProofs`)

For any number of tasks, providers, keys and teardowns, all cancelled at any
await:

| theorem | statement |
|---|---|
| `SdkTypes` | `Spec => []TypeOK` |
| `ClientsAreKept` | `Spec => []NoClientLost` |
| `CacheIsOpen` | `Spec => []ClosedIsOutOfCache` |

Neither invariant is inductive alone. `SdkInv` adds where the lock is
(`LockHeld`: a task inside the `close()` of a stale client is the one that holds
it, so the entry it is about to replace is still cached when `close()` returns)
and that a cached client is of the provider it is cached for (`CacheSound`), so
that taking out one entry loses no other. `CancelTeardown` is the one step that
moves an open client out of every list but `abandoned`.

### One question (`QueryFlowProofs`)

For every finite set of chunks, every prompt size, threshold, floor and score:

| theorem | statement |
|---|---|
| `QueryTypes` | `Spec => []TypeOK` |
| `AnswersAreGrounded` | `Spec => []ServedAnswersAreGrounded` |
| `GateGuardsModel` | `Spec => []ModelOnlyBehindGate` |
| `ModelTextVetted` | `Spec => []ModelTextIsVetted` |

The weight is in the lemmas on the resolvers, which `QueryFlow` calls in one
step: what `ResolveCitations` and `ResolveEvidence` accept is complete and from
the prompt (`Vouched`), through `WithoutRepeats`, whose result has the members of
its argument, each once. `QueryInv` then carries what was accepted to the answer
(`AnswerSound`), and that the gate has let the question through to every call
(`Consulted`).

### Retrieval (`QueryFlowProofs`, second half)

For any builds, any lists the channels may return from them, any lengths of
window and answer, and any restarts and rebuilds:

| theorem | statement |
|---|---|
| `RetrieveTypes` | `RetrieveSpec => []RetrieveTypeOK` |
| `RankOneReturned` | `K >= 2 * TopN` gives `RetrieveSpec => []RankOneSurvives` |
| `BothChannelsAhead` | `RetrieveSpec => []BothChannelsWin` |
| `CoherentServing` | `RetrieveSpec => []CoherentUnlessSwapped` |
| `ReturnedIsRetrieval` | `K >= 2 * TopN` gives `RetrieveSpec => [](at = "returned" => Handed(s) \in Retrievals)` |

`K >= 2 * TopN` is what the comment at `use_cases.py:12` demands, and its reason:
`RetrieveInv` says that the fused list has every chunk either channel found once,
at most `TopN` from each, so a cut at twice that loses none, and the reranker
permutes. That `FuseRankings` returns such a list is a lemma of its own: an order
that is total on a finite set is sorted by counting who is ahead. That order
compares sums of fractions (`FractionsCompare`, `ScoreIsFraction`), and
`BothChannelsWin` is an inequality between one such sum and a single fraction.
`CoherentInv` is about where the parts of a list come from, with no word on how
the two indexes came to be of these builds: metadata is of a build that holds the
chunk (`Described`), and as long as nothing was renamed all of it is of the
collection as it is (`Coherent`). A chunk that lacks metadata came from the
lexical index alone, so the fetch finds it if that index is of the same build
(`FetchedIsHeld`), and it is the only step that can fail for want of one; a list
that is reranked or returned lacks nothing (`NothingLacks`). The last theorem joins the two models: `Handed` is the list as
`QueryUseCase` reads it, and it is among the retrievals the theorems above
range over, so they hold of a question over a real index.

### The chunker (`ChunkerProofs`)

The splitter alone, for sections of any number of lines of any size and every
target, trigger and overlap:

| theorem | statement |
|---|---|
| `SplitTypeCorrect` | `SplitSpec => []SplitTypeOK` |
| `SplitAdvances` | `SplitSpec => []ChunksAdvance` |
| `SplitCovers` | `SplitSpec => []EveryLineCited` |
| `SplitRespectsTarget` | `SplitSpec => []TargetOverrunByOneLine` |

`SplitSpec` is the function called again and again on arbitrary sections. The
only assumption is that the three parameters are natural numbers and the target
positive. The invariant `SplitInv` says what the indices mean in each loop
(`IndicesInv`): while filling, the next chunk starts at or before the end of the
last one (`Frontier`) and after its start; while walking back, the index stays
between the two. Progress comes from `NextStart` alone:
`max(back_idx, start_idx + 1)` is past the start and, as no chunk is empty, not
past the end. Coverage follows because the lines before the frontier are covered
and the next chunk starts no later.

The pipeline, for documents of any lines:

| theorem | statement |
|---|---|
| `CitationsExact` | `Spec => []CitationExact` |
| `DocumentsCovered` | `Spec => []DocumentCovered` |
| `PipelineCallsSplit` | `Spec => SplitSpec` |
| `ChunksRespectTarget` | `Spec => []TargetOverrunByOneLine` |

Neither property is inductive: both speak of the chunks, which exist only at the
end. `ChunkInv` follows the document through the phases. Of each list it says
that the range of every member and the lines it holds are the same lines of text
(`Exact`), that the members come in order, and that they hold all the text up to
some line: the one before the content at hand while scanning (`ScanInv`), the
end of the last section looked at while merging (`MergeInv`), the end of the last
section split (`OutputInv`). A section begins and ends with text, so two that
follow one another have only blanks and headings between them (`GapBefore`);
joined, they are exact again (`JoinedSection`).

The one place where this could go wrong is a merged section. Its lines are not
those of its range: headings are missing, and a blank line was put in between. If
it were split, `section.start_line + start_idx` would name the wrong lines. It
never is, because `_split_section` sums over its lines what the merge has counted
section by section: `GroupInv` bounds that sum by `groupTokens`, hence by
`MAX_MERGED_SECTION_TOKENS`, which is no more than `SECTION_SPLIT_TRIGGER_TOKENS`
(both are 600 in the code). `Small` is the invariant: a section of the merged
list holds the very lines of its range, or is under the trigger. A configuration
with a larger ceiling than trigger breaks `CitationExact`; that the two are in
order is an assumption the code does not check.

Sums are recursive functions, and what is needed of them (`SumsStep`,
`SumsAreNatural`, `JoinedSum`) is proved by looking at the least index where it
fails (`LeastLine`), with the library's induction out of reach. That no chunk is
empty takes `ShapeInv`: a chunk that ends the section has its last line, which is
text, and any other has reached the target.

### The index (`IndexLifecycleProofs`)

For every corpus, chunking, set of ids and profile, any number of builds,
ingestions, edits and kills:

| theorem | statement |
|---|---|
| `IndexTypes` | `Spec => []TypeOK` |
| `SwapKeepsTwoCopies` | `Spec => LiveLeavesTwoCopies` |
| `ManifestCommits` | `~Overlap /\ Spec => []CommitMarker` |
| `BuildsRecover` | `~Overlap /\ Spec => []RebuildRecovers` |
| `BootChecksTheIndex` | `~Overlap /\ Spec => []ServedIndexChecked` |

`Replacing` says where the three collections are at each step of a build. It
holds whatever runs beside the build, and `SwapKeepsTwoCopies` follows. The other
three need that the operator runs one program at a time: with two, a digest may
be of another file than the one that was loaded (`MCIndexDigests`). Under
`~Overlap` the invariant is `Alone`: what a build loaded and digested is
`chunks.jsonl` (`OneDigest`); `CommitMarker` with what a failed rename brings
back (`Committed`); after a finished build all artifacts agree, the collection
being `previous` between the two renames (`Recoverable`); and what the server has
checked so far still holds (`Checked`).

### Run directories and imports (`GateImportProofs`)

For any number of runs of one second, any checklist, and any edits and kills:

| theorem | statement |
|---|---|
| `RunsAreWriteOnce` | `Spec => []OneWholeRun` |
| `ImportsAreGraded` | `Spec => []EveryBaselineRowGraded` |
| `MarkerVouches` | `OneImporter /\ Spec => []MarkerMeansOneImport` |
| `ImportsOnce` | `OneImporter /\ Spec => SingleUse` |

`Owned`: whoever writes owns the `.partial` directory alone, because `mkdir`
refuses a second time. `Graded`: what an import has read it has matched with the
sealed checklist, and it writes what it has read; both hold for any number of
importers. `Marked`: no import is at work while the marker exists, and what the
importer has written so far is its own. That takes `OneImporter`, which the code
does not see to (`MCGateImportTwice`, finding 11).

### The comparison (`GateImportProofs`, second half)

For any matrices, any captured scores, any replies of the model, any sealed
number of repeats and any number asked for:

| theorem | statement |
|---|---|
| `RunTypes` | `RunSpec => []RunTypeOK` |
| `ShipFullEvidence` | `RunSpec => []ShipOnlyOnFullEvidence` |
| `GainIsCausal` | `RunSpec => []ImprovementIsCausal` |

`CompareInv` says which rows there are: one for every question, arm and repeat
that the run is past, and no other (`RowsInPlace`); that a row has the band of
its question under its arm (`Banded`); that while a repeat lasts the reply a
confident question had is in the cache (`Cached`), and so two confident rows of
one repeat agree between the arms (`Shared`); and that a report is scored from
the outcomes as they are (`Reported`). `GainIsCausal` is then a counting argument
(`TwinsCount`): every row has a twin in the other arm, so both arms were asked
equally often, and if no grey question was answered, each refusal of `binary`
has a refusal of `grounded_review` as its twin, by its band or by `Shared`; an
injection bounds the one number by the other. Without the cache
(`KeyPerArm`) the invariant fails at `Cached`, which is where the argument needs it.

### The holdout and the reports (`EvaluationProofs`)

For any even number of pairs and any drafts, and for any number of commands,
questions, builds and kills:

| theorem | statement |
|---|---|
| `HoldoutInvariant`, `HoldoutTypes` | `Spec => []HoldoutInv`, `Spec => []TypeOK` |
| `GreenAsksTheUnseen` | `Spec => []GreenIsUnseen` |
| `GreenIsBalanced` | `Spec => []CellsBalanced` |
| `ReportsInvariant`, `ReportsTypes` | `ReportsSpec => []ReportsInv`, `ReportsSpec => []ReportsTypeOK` |
| `AliasStaysBaseline` | `ReportsSpec => []AliasIsBaseline` |
| `HeadersAreTrue` | `ReportsSpec => []HeaderNamesTheIndex` |

A green verdict describes the files as they are (`GreenHolds`). `CellsBalanced`
is then a fact about sequences of questions: mapping a question to the other half
of its pair is an injection from the English questions of either kind into the
Spanish ones, and back (`CellFitsInTheOther`), so the two languages have equally
many answerable ones; half of all are answerable and half are English, which
leaves a quarter in each cell.

`ReportsInv` follows a run from its checks to its files. A canonical run is of the
baseline (`BaselineOnly`); unless the collection is replaced while it measures,
collection and rows have the profile of its label (`Labelled`). Header and
retriever are each taken from the disk at one moment; whichever is first is what
is on disk until the other is taken or something moves (`FirstIsOnDisk`), and
`Verified` makes the lexical index, the manifest and the inputs one at the moment
of `Build`. From then on all rows are of that retriever (`InHand`), whatever
happens to the index. There is no hypothesis on edits and rebuilds.

### The floor sweep (`EvaluationProofs`, second half)

For any finite set of questions, any signals, floors and limits, and whatever
the retriever returned:

| theorem | statement |
|---|---|
| `SweepTypes` | `SweepSpec => []SweepTypeOK` |
| `EligibleContains` | `SweepSpec => []EligibleIsContained` |
| `EligibleHarmless` | `SweepSpec => []EligibleHarmsNobody` |

Both rest on what the fidelity check is worth: where it passed, the sweep's copy
under the current rule refuses the questions that production refuses, NaN scores
included; and a rule that lets one of them through can only review it
(`LetThroughIsReviewed`), so what G2 and G3 count by the copy bounds what
production would do.

### What stays with TLC

Liveness (`LockIsReleased`, `DocumentChunked`, that every call ends in
`ImplementsPort`) and `ENABLED`, which are out of this prover's reach, and the
type invariants named in section 3. The induction theorems of the library take an
operator as a parameter, which no installed prover instantiates; where a proof
needs induction over a number, it takes the least counterexample instead.

## 5. What is not modelled

- **Container supervision** (`start.sh`): what it does depends on the semantics
  of bash more than on its own text. nginx and the Dockerfile are configuration.
- **Settings**: one pure read; its checks justify assumptions on constants.
- **Adapters of embedder, reranker and tokenizer**: numerics. What they may
  return is left open in `Retriever`.
- **Offline diagnostics** (`ablation_eval`, `failure_classification`, `metrics`),
  the fusion sweep, `gate_holdout_profile` and `gate_score_guard`: pure functions
  from stored rows to tables.
- Query expansion, embedding text, prompt wording, rendering, labels, logging,
  telemetry, the statistics inside the reports.
- A chunk's text is modelled as the lines it holds (`Chunker`) or as whether a
  quote is verbatim in it (`QueryFlow`), never as characters. Frontmatter and
  tables are not parsed.
- `GET /health`, `GET /ready` and `ping()` only read.

Exposures that the models contain and no property is about, because nothing in
the repository promises otherwise: `chunks.jsonl` cut at a line boundary is
embedded and certified (`IndexLifecycle`); the manifest stamps the corpus as it is
at the end of a build (same); a rerun of `generation_eval` overwrites a graded
checklist (`EvalReports`); the digest of an imported checklist may be of another
state than the one imported (`GateImport`).

## 6. Plan

*Done*: all modules of section 2 and the theorems of section 4; every invariant
and every action property that a run checks is a theorem.

## 7. Running

    tlc -workers 2 -config MCServing.cfg MCServing
    tlapm ChunkerProofs.tla

PROJECT.json names the module and configuration of each run; a counterexample
configuration is run the same way. The longest runs are `sdk_clients` (two
minutes), `serving`, `index_lifecycle` and `eval_reports` (about a minute each); the proofs take
some ten minutes in all.
