-------------------------- MODULE IndexLifecycle --------------------------
(***************************************************************************)
(* The files behind retrieval and the three programs that touch them:      *)
(*                                                                         *)
(*   ingestion    features/ingestion/cli.py: corpus -> chunks.jsonl        *)
(*   index build  features/retrieval/cli.py: chunks.jsonl -> a Chroma      *)
(*                collection, a BM25 file and, last, a manifest            *)
(*   server       adapters/primary/http/app.py: checks that the four agree *)
(*                and serves, or refuses to boot                           *)
(*                                                                         *)
(* Each program can be killed between any two of its steps; what it has    *)
(* put on disk stays.  A digest is as good as the bytes it digests, so     *)
(* the model stores the file itself where the code stores its sha256.      *)
(***************************************************************************)
EXTENDS Naturals

CONSTANTS
    Contents,  \* contents the corpus directory can have
    Rows,      \* Rows[c]: number of chunks that content c is cut into
    Ids,       \* Ids[c]: the list of their chunk ids
    Profiles,  \* INDEX_PROFILE values
    Overlap    \* may the corpus and chunks.jsonl change while another program runs?

ASSUME ContentsAssumption == Contents # {}
ASSUME RowsAssumption == Rows \in [Contents -> Nat \ {0, 1}]
ASSUME IdsAssumption == DOMAIN Ids = Contents
ASSUME SameIdsSameRows ==
    \A c, d \in Contents : Ids[c] = Ids[d] => Rows[c] = Rows[d]
ASSUME OverlapAssumption == Overlap \in BOOLEAN

None == [none |-> TRUE]

\* A chunks.jsonl: complete, cut off at a line boundary (it still parses), still
\* empty (it parses, too), or torn in the middle of a line.
Partial == {"cut", "empty", "torn"}
ChunkFiles == [of : Contents, state : {"whole"} \cup Partial]

RowCount(f) ==
    IF f.state = "whole" THEN Rows[f.of]
    ELSE IF f.state = "empty" THEN 0 ELSE Rows[f.of] - 1

IdList(f) == <<Ids[f.of], f.state>>

Collections == [chunks : ChunkFiles \cup {None}, profile : Profiles]
Lexicons == [chunks : ChunkFiles, digest : ChunkFiles]
Manifests == [chunks : ChunkFiles, corpus : Contents, profile : Profiles,
              rows : Nat]

VARIABLES
    \* on disk
    corpus,     \* the corpus directory
    chunks,     \* chunks.jsonl, or None
    colls,      \* Chroma's live, candidate and previous collections
    bm25,       \* bm25_index.json
    manifest,   \* index_manifest.json
    profile,    \* the INDEX_PROFILE the next program is started with
    \* the programs
    ipc,        \* ingestion: where it is ...
    icontent,   \* ... and the corpus it has read
    bpc,        \* build: where it is ...
    bchunks,    \* ... load_chunks()
    bdigest,    \* ... the digest meant for both artifacts
    bstamp,     \* ... the digest build_manifest computes
    spc,        \* server: where it is ...
    smanifest,  \* ... the manifest verify() returned
    schunks,    \* ... load_chunks()
    \* history
    promoted,   \* a collection has been promoted at least once
    dirty,      \* live was replaced by a build that has not written its manifest
    fresh       \* since the last finished build nothing it depends on changed

inputs == <<corpus, chunks, profile>>
ingestion == <<ipc, icontent>>
artifacts == <<colls, bm25, manifest>>
build == <<bpc, bchunks, bdigest, bstamp>>
server == <<spc, smanifest, schunks>>
history == <<promoted, dirty, fresh>>
vars == <<inputs, artifacts, ingestion, build, server, history>>

\* The retrieval CLI is an offline build that never runs beside a server.
\* Without Overlap no two programs run at once, and nobody edits meanwhile.
IngestIdle == ipc = "idle"
BuildIdle == bpc = "idle"
ServerIdle == spc = "down"
InputsFree == Overlap \/ (IngestIdle /\ BuildIdle /\ ServerIdle)
ToolsFree == BuildIdle /\ ServerIdle /\ (Overlap \/ IngestIdle)

Init ==
    /\ corpus \in Contents
    /\ chunks = None
    /\ colls = [n \in {"live", "candidate", "previous"} |-> None]
    /\ bm25 = None
    /\ manifest = None
    /\ profile \in Profiles
    /\ ipc = "idle" /\ icontent = None
    /\ bpc = "idle" /\ bchunks = None /\ bdigest = None /\ bstamp = None
    /\ spc = "down" /\ smanifest = None /\ schunks = None
    /\ promoted = FALSE /\ dirty = FALSE /\ fresh = FALSE

----------------------------------------------------------------------------
(* The operator: edits the corpus, chooses the profile.                    *)

EditCorpus ==
    /\ InputsFree
    /\ corpus' \in Contents \ {corpus}
    /\ fresh' = FALSE
    /\ UNCHANGED <<chunks, profile, artifacts, ingestion, build, server,
                   promoted, dirty>>

\* An environment variable: every program reads it once, when it starts.
ChooseProfile ==
    /\ IngestIdle /\ BuildIdle /\ ServerIdle
    /\ profile' \in Profiles \ {profile}
    /\ fresh' = FALSE
    /\ UNCHANGED <<corpus, chunks, artifacts, ingestion, build, server,
                   promoted, dirty>>

----------------------------------------------------------------------------
(* Ingestion.                                                              *)

\* load_corpus() and the chunker: all in memory.
ReadCorpus ==
    /\ IngestIdle /\ InputsFree
    /\ ipc' = "open"
    /\ icontent' = corpus
    /\ UNCHANGED <<inputs, artifacts, build, server, history>>

\* open("w") truncates the file in place, without a temporary file: until the
\* last flush it holds a part of its lines.
OpenChunks ==
    /\ ipc = "open"
    /\ \E s \in Partial : chunks' = [of |-> icontent, state |-> s]
    /\ fresh' = FALSE
    /\ ipc' = "write"
    /\ UNCHANGED <<corpus, profile, artifacts, icontent, build, server,
                   promoted, dirty>>

FinishChunks ==
    /\ ipc = "write"
    /\ chunks' = [of |-> icontent, state |-> "whole"]
    /\ ipc' = "idle" /\ icontent' = None
    /\ UNCHANGED <<corpus, profile, artifacts, build, server, history>>

\* Killed, or an exception: the file keeps whatever was flushed.
IngestStops ==
    /\ ~IngestIdle
    /\ ipc' = "idle" /\ icontent' = None
    /\ UNCHANGED <<inputs, artifacts, build, server, history>>

Ingest == ReadCorpus \/ OpenChunks \/ FinishChunks \/ IngestStops

----------------------------------------------------------------------------
(* The index build.                                                        *)

Loadable(f) == f # None /\ f.state # "torn"

LoadForBuild ==
    /\ BuildIdle /\ ToolsFree
    /\ Loadable(chunks)
    /\ bchunks' = chunks
    /\ bpc' = "digest"
    /\ UNCHANGED <<inputs, artifacts, ingestion, bdigest, bstamp, server, history>>

\* digest = index_manifest.chunks_sha256(): a second read of the file.
DigestChunks ==
    /\ bpc = "digest"
    /\ bdigest' = chunks
    /\ bpc' = "clear"
    /\ UNCHANGED <<inputs, artifacts, ingestion, bchunks, bstamp, server, history>>

\* A step of the build that changes collections only.
InChroma(from, to) ==
    /\ bpc = from /\ bpc' = to
    /\ UNCHANGED <<inputs, bm25, manifest, ingestion, bchunks, bdigest, bstamp,
                   server>>

\* Everything is embedded before the first collection is touched; then a
\* stale candidate goes.
DropCandidate ==
    /\ InChroma("clear", "create")
    /\ colls' = [colls EXCEPT !["candidate"] = None]
    /\ UNCHANGED history

CreateCandidate ==
    /\ InChroma("create", "fill")
    /\ colls' = [colls EXCEPT !["candidate"] =
                    [chunks |-> None, profile |-> profile]]
    /\ UNCHANGED history

\* Chroma refuses to add an empty list.
FillCandidate ==
    /\ InChroma("fill", "promote")
    /\ RowCount(bchunks) > 0
    /\ colls' = [colls EXCEPT !["candidate"].chunks = bchunks]
    /\ UNCHANGED history

\* A slip: promotion makes room by deleting the live collection too.
DropPreviousAndLive ==
    /\ InChroma("promote", "demote")
    /\ colls' = [colls EXCEPT !["previous"] = None, !["live"] = None]
    /\ UNCHANGED history

DropPrevious ==
    /\ InChroma("promote", "demote")
    /\ colls' = [colls EXCEPT !["previous"] = None]
    /\ UNCHANGED history

DemoteLive ==
    /\ InChroma("demote", "raise")
    /\ colls' = IF colls["live"] = None THEN colls
                ELSE [colls EXCEPT !["previous"] = colls["live"],
                                   !["live"] = None]
    /\ UNCHANGED history

RaiseCandidate ==
    /\ InChroma("raise", "confirm")
    /\ colls' = [colls EXCEPT !["live"] = colls["candidate"],
                              !["candidate"] = None]
    /\ promoted' = TRUE /\ dirty' = TRUE /\ fresh' = FALSE

\* A slip: the exception is re-raised without renaming previous back.
RollBackNothing ==
    /\ bpc = "raise" /\ bpc' = "idle"
    /\ bchunks' = None /\ bdigest' = None
    /\ UNCHANGED <<inputs, artifacts, ingestion, bstamp, server, history>>

\* The rename raises: the previous collection gets its name back, and the
\* exception ends the build.
RollBack ==
    /\ bpc = "raise" /\ bpc' = "idle"
    /\ bchunks' = None /\ bdigest' = None
    /\ colls' = IF colls["previous"] = None THEN colls
                ELSE [colls EXCEPT !["live"] = colls["previous"],
                                   !["previous"] = None]
    /\ UNCHANGED <<inputs, bm25, manifest, ingestion, bstamp, server, history>>

\* A slip: the manifest is written before the lexical index.
StampBeforeLexicon ==
    /\ InChroma("confirm", "stamp")
    /\ colls' = [colls EXCEPT !["previous"] = None]
    /\ UNCHANGED history

DropReplaced ==
    /\ InChroma("confirm", "lexical")
    /\ colls' = [colls EXCEPT !["previous"] = None]
    /\ UNCHANGED history

\* Written to a temporary file and renamed, so never half there.
WriteLexicon ==
    /\ bpc = "lexical" /\ bpc' = "stamp"
    /\ bm25' = [chunks |-> bchunks, digest |-> bdigest]
    /\ UNCHANGED <<inputs, colls, manifest, ingestion, bchunks, bdigest, bstamp,
                   server, history>>

\* build_manifest digests chunks.jsonl again instead of taking `digest`.
DigestForManifest ==
    /\ bpc = "stamp" /\ bpc' = "manifest"
    /\ bstamp' = chunks
    /\ UNCHANGED <<inputs, artifacts, ingestion, bchunks, bdigest, server, history>>

\* The commit marker.
WriteManifest ==
    /\ bpc = "manifest" /\ bpc' = "idle"
    /\ manifest' = [chunks |-> bstamp, corpus |-> corpus, profile |-> profile,
                    rows |-> RowCount(bchunks)]
    /\ bchunks' = None /\ bdigest' = None /\ bstamp' = None
    /\ dirty' = FALSE /\ fresh' = TRUE
    /\ UNCHANGED <<inputs, colls, bm25, ingestion, server, promoted>>

\* Killed, or an exception from any other step.
BuildStops ==
    /\ ~BuildIdle
    /\ bpc' = "idle"
    /\ bchunks' = None /\ bdigest' = None /\ bstamp' = None
    /\ fresh' = (fresh /\ bpc # "raise")
    /\ UNCHANGED <<inputs, artifacts, ingestion, server, promoted, dirty>>

Build ==
    \/ LoadForBuild \/ DigestChunks
    \/ DropCandidate \/ CreateCandidate \/ FillCandidate
    \/ DropPrevious \/ DemoteLive \/ RaiseCandidate \/ RollBack \/ DropReplaced
    \/ WriteLexicon \/ DigestForManifest \/ WriteManifest
    \/ BuildStops

----------------------------------------------------------------------------
(* The server: app.lifespan().                                             *)

\* index_manifest.verify(expected_profile=profile)
ManifestVerifies(m) ==
    /\ m # None /\ chunks # None
    /\ m.chunks = chunks
    /\ m.corpus = corpus
    /\ m.rows = RowCount(chunks)
    /\ m.profile = profile

\* ChromaVectorStore.validate_collection: the profile and the row count.
CollectionValidates(m) ==
    LET live == colls["live"] IN
    /\ live # None
    /\ live.profile = profile
    /\ live.chunks # None
    /\ RowCount(live.chunks) = m.rows

\* A slip: the digest of the lexical index is not compared.
LexiconValidatesIdsOnly(f, m) ==
    /\ bm25 # None
    /\ IdList(bm25.chunks) = IdList(f)

\* Bm25LexicalIndex.validate: the chunk ids, then the digest.
LexiconValidates(f, m) ==
    /\ bm25 # None
    /\ IdList(bm25.chunks) = IdList(f)
    /\ bm25.digest = m.chunks

OnDisk == <<inputs, artifacts, ingestion, build, history>>

StartServer ==
    /\ ServerIdle /\ ToolsFree
    /\ spc' = "verify"
    /\ UNCHANGED <<smanifest, schunks, OnDisk>>

VerifyManifest ==
    /\ spc = "verify" /\ ManifestVerifies(manifest)
    /\ smanifest' = manifest
    /\ spc' = "load"
    /\ UNCHANGED <<schunks, OnDisk>>

LoadForServer ==
    /\ spc = "load" /\ Loadable(chunks)
    /\ schunks' = chunks
    /\ spc' = "vectors"
    /\ UNCHANGED <<smanifest, OnDisk>>

ValidateCollection ==
    /\ spc = "vectors" /\ CollectionValidates(smanifest)
    /\ spc' = "lexical"
    /\ UNCHANGED <<smanifest, schunks, OnDisk>>

ValidateLexicon ==
    /\ spc = "lexical" /\ LexiconValidates(schunks, smanifest)
    /\ spc' = "up"
    /\ UNCHANGED <<smanifest, schunks, OnDisk>>

\* A failed check ends the process, and so does a kill.
ServerStops ==
    /\ ~ServerIdle
    /\ spc' = "down" /\ smanifest' = None /\ schunks' = None
    /\ UNCHANGED OnDisk

Serve ==
    \/ StartServer \/ VerifyManifest \/ LoadForServer
    \/ ValidateCollection \/ ValidateLexicon \/ ServerStops

Next == EditCorpus \/ ChooseProfile \/ Ingest \/ Build \/ Serve

Spec == Init /\ [][Next]_vars

----------------------------------------------------------------------------
(* Properties.                                                             *)

FilesTyped ==
    /\ corpus \in Contents
    /\ chunks \in ChunkFiles \cup {None}
    /\ colls \in [{"live", "candidate", "previous"} -> Collections \cup {None}]
    /\ bm25 \in Lexicons \cup {None}
    /\ manifest \in Manifests \cup {None}
    /\ profile \in Profiles

ProgramsTyped ==
    /\ ipc \in {"idle", "open", "write"}
    /\ icontent \in Contents \cup {None}
    /\ bpc \in {"idle", "digest", "clear", "create", "fill", "promote", "demote",
               "raise", "confirm", "lexical", "stamp", "manifest"}
    /\ bchunks \in ChunkFiles \cup {None}
    /\ bdigest \in ChunkFiles \cup {None}
    /\ bstamp \in ChunkFiles \cup {None}
    /\ spc \in {"down", "verify", "load", "vectors", "lexical", "up"}
    /\ smanifest \in Manifests \cup {None}
    /\ schunks \in ChunkFiles \cup {None}

HistoryTyped == promoted \in BOOLEAN /\ dirty \in BOOLEAN /\ fresh \in BOOLEAN

\* The variables keep their types.
TypeOK == FilesTyped /\ ProgramsTyped /\ HistoryTyped

Filled(c) == c # None /\ c.chunks # None

\* The live collection goes only when its replacement is complete, and at
\* that moment the old one is kept: a build that dies between the renames
\* leaves two complete collections behind, not none.
LiveLeavesTwoCopies ==
    [][Filled(colls["live"]) /\ ~Filled(colls'["live"]) =>
         /\ Filled(colls'["candidate"])
         /\ colls'["previous"] = colls["live"]]_vars

\* The manifest is a commit marker: unless a later build was cut short after
\* its promotion, both artifacts were built from the very chunks.jsonl that
\* the manifest names, under the profile it names (live may be missing, when
\* a build died between its two renames: then nothing boots).
CommitMarker ==
    manifest # None /\ ~dirty =>
        /\ bm25 = [chunks |-> manifest.chunks, digest |-> manifest.chunks]
        /\ colls["live"] \in
              {None, [chunks |-> manifest.chunks, profile |-> manifest.profile]}

\* Whatever crashes came before, a finished build boots, as long as nothing
\* it was built from has changed: no leftover of an earlier build, and no
\* failed promotion since, can keep the server down.
RebuildRecovers ==
    fresh /\ BuildIdle =>
        /\ ManifestVerifies(manifest)
        /\ Loadable(chunks)
        /\ CollectionValidates(manifest)
        /\ LexiconValidates(chunks, manifest)

\* A server that booted serves a lexical index of the chunks.jsonl it loaded
\* and its manifest names, and a collection of the same profile and size; the
\* same content, too, unless a build was cut short after its promotion.
ServedIndexChecked ==
    spc = "up" =>
        LET live == colls["live"] IN
        /\ smanifest = manifest /\ schunks = chunks
        /\ bm25 = [chunks |-> schunks, digest |-> schunks]
        /\ smanifest.chunks = schunks
        /\ live # None /\ live.profile = profile
        /\ Filled(live) /\ RowCount(live.chunks) = RowCount(schunks)
        /\ ~dirty => live.chunks = schunks

\* app.py: "an index whose three artifacts physically disagree on profile,
\* count, model OR content must not be servable or measurable".
MixedIndexNotServable ==
    spc = "up" => /\ bm25.chunks = smanifest.chunks
                  /\ colls["live"].chunks = smanifest.chunks

\* cli.py: "the BM25 payload and the manifest can never disagree about which
\* chunks.jsonl this index was built from".
DigestsNeverDisagree ==
    manifest # None /\ ~dirty => bm25.digest = manifest.chunks

\* ADR-008: promotion removes "only a known-stale" previous collection, and
\* deletes previous "only after the new live collection is confirmed".  So once
\* a collection has been promoted, a complete one survives under some name.
VectorsNeverLost ==
    promoted => \E n \in {"live", "candidate", "previous"} : Filled(colls[n])
============================================================================
