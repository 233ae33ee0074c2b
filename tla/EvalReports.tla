---------------------------- MODULE EvalReports ----------------------------
(***************************************************************************)
(* The commands that measure the live index and file a report about it     *)
(* under eval/reports: retrieval_eval, generation_eval, threshold_analysis *)
(* and regression_eval, with what they share (artifacts, _eval_retriever). *)
(*                                                                         *)
(* Names say what was measured: index profile and expansion mode, or the   *)
(* canonical name of the frozen baseline; a header says which inputs and   *)
(* which build.  At any moment somebody may ingest or edit the corpus, or  *)
(* rebuild the index under either profile and be killed halfway, and a     *)
(* command may be killed.  IndexLifecycle has the single steps of          *)
(* ingestion, of a rebuild and of the checks.                              *)
(***************************************************************************)
EXTENDS Integers, Sequences, FiniteSets

CONSTANTS
    Modes,         \* expansion modes, "off" among them
    NumQuestions,  \* questions of the verified set
    Rows,          \* Rows[c]: the number of chunks in content c of chunks.jsonl
    Corpora,       \* contents of the corpus
    MaxRuns, MaxBuilds      \* bounds on the commands run and on the builds

Profiles == {"raw-v1", "contextual-v1"}
Commands == {"retrieval", "generation", "threshold", "regression"}
Contents == DOMAIN Rows
None == [none |-> TRUE]

ASSUME EvalReportsAssumption ==
    /\ "off" \in Modes /\ {NumQuestions, MaxRuns, MaxBuilds} \subseteq Nat \ {0}
    /\ Rows \in Seq(Nat) /\ Rows # << >> /\ Corpora # {}

VARIABLES
    inputs,    \* what is on disk: [chunks, corpus]
    vectors,   \* the live collection: [profile, chunks], None before the first build
    lexicon,   \* the content the BM25 file was built from, 0 before the first build
    manifest,  \* [profile, chunks, corpus, rows, build], None before the first build
    rebuild,   \* the rebuild at work: "idle", "promoted" or "saved"
    builds,    \* rebuilds so far
    runs,      \* commands started so far
    pc,        \* "idle", "verify", "checked", "measure", "header" or "write"
    run,       \* the command at work: [command, profile, mode, alias]
    retriever, \* what its retriever was built on, [chunks, corpus, build], or None
    rows,      \* what it recorded: [ok, semantic, lexical]
    header,    \* what its provenance header names, [chunks, corpus, build], or None
    next,      \* the artifact it writes next
    moved,     \* history: inputs or manifest changed between its header and its retriever
    swapped,   \* history: the collection was replaced while it asked
    files      \* the reports directory, by name

disk == <<inputs, vectors, lexicon, manifest, rebuild, builds>>
reportsVars == <<disk, runs, pc, run, retriever, rows, header, next, moved, swapped, files>>

-----------------------------------------------------------------------------
\* Names and artifacts.

Suffixed(kind, r) == [kind |-> kind, profile |-> r.profile, mode |-> r.mode]
Canonical(kind) == [kind |-> kind, profile |-> "canonical", mode |-> "canonical"]
ReportKind == [retrieval |-> "retrieval_report", generation |-> "generation_eval",
           threshold |-> "threshold_analysis", regression |-> "regression_eval"]
Details(command) == IF command = "retrieval" THEN << "retrieval_details" >>
                    ELSE IF command = "generation" THEN << "manual_review_checklist" >>
                    ELSE << >>

\* The files a command writes, in order.
Outputs(r) ==
    LET report == ReportKind[r.command]
        own == << report >> \o Details(r.command)
        aliased == IF r.command = "retrieval" THEN << report >> ELSE own
    IN  [i \in DOMAIN own |-> Suffixed(own[i], r)]
            \o IF r.alias THEN [i \in DOMAIN aliased |-> Canonical(aliased[i])] ELSE << >>

\* Kinds that are written to a temporary file and renamed.
Atomic == {"retrieval_details"}

Report(whole) == [whole |-> whole, mode |-> run.mode, rows |-> rows, header |-> header,
                  moved |-> moved, swapped |-> swapped]
Store(name, report) ==
    files' = [n \in DOMAIN files \cup {name} |-> IF n = name THEN report ELSE files[n]]

Baseline == [profile |-> "raw-v1", mode |-> "off"]

\* Only regression_eval resolves its header before it looks at the index.
HeaderFirst(command) == command = "regression"

-----------------------------------------------------------------------------
\* The operator.

\* The command has one of the two and not yet the other.
Between == (header = None) # (retriever = None)

\* Ingestion, or a corpus edit: the files the index is made from change.
ChangeInputs(content, corpus) ==
    /\ inputs' = [chunks |-> content, corpus |-> corpus]
    /\ moved' = (moved \/ Between)
    /\ UNCHANGED <<vectors, lexicon, manifest, rebuild, builds, runs, pc, run, retriever, rows,
                   header, next, swapped, files>>

\* A rebuild has embedded what it read a while ago and renames it in ...
Promote(profile, content) ==
    /\ rebuild = "idle" /\ builds < MaxBuilds
    /\ rebuild' = "promoted" /\ builds' = builds + 1
    /\ vectors' = [profile |-> profile, chunks |-> content]
    /\ swapped' = (swapped \/ pc = "measure")
    /\ UNCHANGED <<inputs, lexicon, manifest, runs, pc, run, retriever, rows, header, next,
                   moved, files>>

\* ... replaces the BM25 file with that of the same chunks ...
SaveLexicon ==
    /\ rebuild = "promoted"
    /\ rebuild' = "saved"
    /\ lexicon' = vectors.chunks
    /\ UNCHANGED <<inputs, vectors, manifest, builds, runs, pc, run, retriever, rows, header,
                   next, moved, swapped, files>>

\* ... and describes them by the inputs as they are now.
WriteManifest ==
    /\ rebuild = "saved"
    /\ rebuild' = "idle"
    /\ manifest' = [profile |-> vectors.profile, chunks |-> inputs.chunks,
                    corpus |-> inputs.corpus, rows |-> Rows[vectors.chunks], build |-> builds]
    /\ moved' = (moved \/ Between)
    /\ UNCHANGED <<inputs, vectors, lexicon, builds, runs, pc, run, retriever, rows, header,
                   next, swapped, files>>

\* Killed, or failed.
RebuildStops ==
    /\ rebuild # "idle"
    /\ rebuild' = "idle"
    /\ UNCHANGED <<inputs, vectors, lexicon, manifest, builds, runs, pc, run, retriever, rows,
                   header, next, moved, swapped, files>>

-----------------------------------------------------------------------------
\* The command.

NoRun == [command |-> "none", profile |-> "raw-v1", mode |-> "off", alias |-> FALSE]

\* A run starts with nothing, and what it held is gone with it.
Blank ==
    /\ retriever' = None /\ rows' = << >> /\ header' = None /\ next' = 1
    /\ moved' = FALSE /\ swapped' = FALSE

Ends == pc' = "idle" /\ run' = NoRun /\ Blank

\* A slip: any run may write the canonical names.
StartUnchecked(command, profile, mode, alias) ==
    /\ pc = "idle" /\ runs < MaxRuns
    /\ runs' = runs + 1 /\ pc' = "verify"
    /\ run' = [command |-> command, profile |-> profile, mode |-> mode, alias |-> alias]
    /\ Blank
    /\ UNCHANGED <<disk, files>>

\* run(), past ensure_canonical_alias_allowed.
Start(command, profile, mode, alias) ==
    /\ pc = "idle" /\ runs < MaxRuns
    /\ alias => [profile |-> profile, mode |-> mode] = Baseline
    /\ runs' = runs + 1 /\ pc' = "verify"
    /\ run' = [command |-> command, profile |-> profile, mode |-> mode, alias |-> alias]
    /\ Blank
    /\ UNCHANGED <<disk, files>>

\* An exception, or a kill before anything is written.
Abort ==
    /\ pc \notin {"idle", "write"}
    /\ Ends
    /\ UNCHANGED <<disk, runs, files>>

\* The chunks and the corpus on disk, and the commit of the manifest; 0, the
\* commit that is checked out, when there is no manifest.
Provenance == [chunks |-> inputs.chunks, corpus |-> inputs.corpus,
               build |-> IF manifest = None THEN 0 ELSE manifest.build]

\* resolve_provenance
ResolveHeader ==
    /\ header = None
    /\ \/ pc = "verify" /\ HeaderFirst(run.command)
       \/ pc = "header" /\ ~HeaderFirst(run.command)
    /\ header' = Provenance
    /\ UNCHANGED <<disk, runs, pc, run, retriever, rows, next, moved, swapped, files>>

\* index_manifest.verify: there is a manifest, of this profile and of the
\* inputs on disk.
Verified(profile) ==
    /\ manifest # None
    /\ manifest.profile = profile
    /\ manifest.chunks = inputs.chunks /\ manifest.corpus = inputs.corpus
    /\ manifest.rows = Rows[inputs.chunks]

\* assert_live_index_profile; when it does not hold the command aborts.
CheckLive ==
    /\ pc = "verify"
    /\ HeaderFirst(run.command) => header # None
    /\ Verified(run.profile)
    /\ pc' = "checked"
    /\ UNCHANGED <<disk, runs, run, retriever, rows, header, next, moved, swapped, files>>

LoadedIndex == [chunks |-> lexicon, corpus |-> manifest.corpus, build |-> manifest.build]

\* A slip: verify_physical_coherence is off, as if the first check were enough.
BuildUnchecked ==
    /\ pc = "checked"
    /\ vectors # None /\ lexicon # 0
    /\ pc' = "measure" /\ retriever' = LoadedIndex
    /\ UNCHANGED <<disk, runs, run, rows, header, next, moved, swapped, files>>

\* build_retriever: the manifest is verified again, the collection is compared
\* with it by profile and rows and the BM25 index by the chunks, and loaded.
Build ==
    /\ pc = "checked"
    /\ Verified(run.profile)
    /\ vectors # None /\ vectors.profile = run.profile
    /\ Rows[vectors.chunks] = manifest.rows
    /\ lexicon = manifest.chunks
    /\ pc' = "measure" /\ retriever' = LoadedIndex
    /\ UNCHANGED <<disk, runs, run, rows, header, next, moved, swapped, files>>

\* The collection is opened again for every question.
Row(ok) == [ok |-> ok, semantic |-> vectors, lexical |-> retriever]

Ask ==
    /\ pc = "measure" /\ Len(rows) < NumQuestions
    /\ rows' = Append(rows, Row(TRUE))
    /\ UNCHANGED <<disk, runs, pc, run, retriever, header, next, moved, swapped, files>>

\* _error_row: generation_eval records the failure and goes on; in the other
\* commands the exception is the end of the run (Abort).
AskFails ==
    /\ pc = "measure" /\ Len(rows) < NumQuestions /\ run.command = "generation"
    /\ rows' = Append(rows, Row(FALSE))
    /\ UNCHANGED <<disk, runs, pc, run, retriever, header, next, moved, swapped, files>>

\* generation_eval closes its LLM client; if that fails, the run aborts.
Measured ==
    /\ pc = "measure" /\ Len(rows) = NumQuestions
    /\ pc' = "header"
    /\ UNCHANGED <<disk, runs, run, retriever, rows, header, next, moved, swapped, files>>

BeginWriting ==
    /\ pc = "header" /\ header # None
    /\ pc' = "write"
    /\ UNCHANGED <<disk, runs, run, retriever, rows, header, next, moved, swapped, files>>

Write ==
    /\ pc = "write" /\ next <= Len(Outputs(run))
    /\ Store(Outputs(run)[next], Report(TRUE))
    /\ next' = next + 1
    /\ UNCHANGED <<disk, runs, pc, run, retriever, rows, header, moved, swapped>>

\* Killed, or the disk is full: what is written in place is torn, what is
\* renamed into place is as it was.
WriteTorn ==
    /\ pc = "write" /\ next <= Len(Outputs(run))
    /\ LET name == Outputs(run)[next] IN
       IF name.kind \in Atomic THEN UNCHANGED files ELSE Store(name, Report(FALSE))
    /\ Ends
    /\ UNCHANGED <<disk, runs>>

Finish ==
    /\ pc = "write" /\ next > Len(Outputs(run))
    /\ Ends
    /\ UNCHANGED <<disk, runs, files>>

-----------------------------------------------------------------------------
\* Nothing is built, or an index of the inputs as they are.
ReportsInit ==
    /\ \E content \in Contents, corpus \in Corpora :
          inputs = [chunks |-> content, corpus |-> corpus]
    /\ \/ vectors = None /\ lexicon = 0 /\ manifest = None /\ builds = 0
       \/ /\ \E profile \in Profiles :
                /\ vectors = [profile |-> profile, chunks |-> inputs.chunks]
                /\ manifest = [profile |-> profile, chunks |-> inputs.chunks,
                               corpus |-> inputs.corpus, rows |-> Rows[inputs.chunks],
                               build |-> 1]
          /\ lexicon = inputs.chunks /\ builds = 1
    /\ rebuild = "idle"
    /\ runs = 0 /\ pc = "idle"
    /\ run = NoRun
    /\ retriever = None /\ rows = << >> /\ header = None /\ next = 1
    /\ moved = FALSE /\ swapped = FALSE
    /\ files = << >>

Operator ==
    \/ \E content \in Contents, corpus \in Corpora : ChangeInputs(content, corpus)
    \/ \E profile \in Profiles, content \in Contents : Promote(profile, content)
    \/ SaveLexicon \/ WriteManifest \/ RebuildStops

ReportsNext ==
    \/ \E command \in Commands, profile \in Profiles, mode \in Modes, alias \in BOOLEAN :
          Start(command, profile, mode, alias)
    \/ Abort \/ ResolveHeader \/ CheckLive \/ Build \/ Ask \/ AskFails \/ Measured
    \/ BeginWriting \/ Write \/ WriteTorn \/ Finish
    \/ Operator

ReportsSpec == ReportsInit /\ [][ReportsNext]_reportsVars

-----------------------------------------------------------------------------
Measurements(name) == {files[name].rows[i] : i \in DOMAIN files[name].rows}
Sources == [chunks : Contents, corpus : Corpora, build : 0 .. MaxBuilds]

\* The variables keep their types.
ReportsTypeOK ==
    /\ inputs \in [chunks : Contents, corpus : Corpora]
    /\ vectors \in {None} \cup [profile : Profiles, chunks : Contents]
    /\ lexicon \in {0} \cup Contents /\ builds \in 0 .. MaxBuilds
    /\ manifest \in {None} \cup [profile : Profiles, chunks : Contents, corpus : Corpora,
                                 rows : Nat, build : 1 .. MaxBuilds]
    /\ rebuild \in {"idle", "promoted", "saved"}
    /\ pc \in {"idle", "verify", "checked", "measure", "header", "write"}
    /\ Len(rows) <= NumQuestions
    /\ {header, retriever} \subseteq {None} \cup Sources
    /\ pc = "write" => header # None /\ Len(rows) = NumQuestions
    /\ {moved, swapped} \subseteq BOOLEAN

\* The canonical names are the frozen baseline's (artifacts.py:34-35): whatever
\* is run, built and killed in whatever order, they only ever hold what a
\* raw-v1/off run measured, on a raw-v1 collection unless it was replaced while
\* the run asked its questions.
AliasIsBaseline ==
    \A name \in DOMAIN files : name.profile = "canonical" =>
        /\ files[name].mode = Baseline.mode
        /\ files[name].swapped
              \/ \A row \in Measurements(name) : row.semantic.profile = Baseline.profile

\* "filenames state dataset + index + query configuration truthfully" (the
\* phase-2 plan of 2026-08-30, line 135): a name tells the profile of the index
\* its rows were measured on.  The collection is opened again for each question,
\* so it may change profile after the last check.
NamesAreTruthful ==
    \A name \in DOMAIN files : name.profile # "canonical" =>
        /\ files[name].mode = name.mode
        /\ \A row \in Measurements(name) : row.semantic.profile = name.profile

\* The header, resolved long before or after the index was checked, from what
\* is on disk at that moment, names the chunks the lexical index of every row
\* was built from and the corpus and build it was checked against: unless the
\* inputs or the manifest changed between the two moments, whatever changed
\* before or after and however far a rebuild has got.
HeaderNamesTheIndex ==
    \A name \in DOMAIN files :
        files[name].moved \/ \A row \in Measurements(name) : row.lexical = files[name].header

=============================================================================
