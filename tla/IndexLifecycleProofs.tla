------------------------ MODULE IndexLifecycleProofs ------------------------
(***************************************************************************)
(* What the index build, its crashes and the server's start-up checks      *)
(* guarantee for every corpus, chunking and profile.                       *)
(*                                                                         *)
(* Two layers.  `Replacing` says where the collections are at each step of *)
(* a build; it holds whatever runs beside it, and gives that the live      *)
(* collection never goes before its replacement is complete.  The rest     *)
(* needs that no two programs run at once (~Overlap): then what a build    *)
(* loaded, what it digested and what is in chunks.jsonl are one file, and  *)
(* the manifest is a commit marker.                                        *)
(***************************************************************************)
EXTENDS IndexLifecycle, TLAPS

\* A complete collection of file f under profile p.
Of(f, p) == [chunks |-> f, profile |-> p]

Promoting == {"promote", "demote", "raise"}
Finishing == {"confirm", "lexical", "stamp", "manifest"}

\* Where the collections are at each step of a build, and what it has read.
Replacing ==
    /\ ipc # "idle" => icontent \in Contents
    /\ bpc # "idle" => bchunks # None /\ chunks # None
    /\ bpc \notin {"idle", "digest"} => bdigest # None
    /\ bpc = "manifest" => bstamp # None
    /\ bpc = "fill" => colls["candidate"] = Of(None, profile)
    /\ bpc \in Promoting => colls["candidate"] = Of(bchunks, profile)
    /\ bpc = "demote" => colls["previous"] = None
    /\ bpc = "raise" => colls["live"] = None
    /\ bpc \in Finishing => colls["live"] = Of(bchunks, profile)

OneAtATime ==
    /\ IngestIdle \/ (BuildIdle /\ ServerIdle)
    /\ BuildIdle \/ ServerIdle

\* One chunks.jsonl under all the reads of a build.
OneDigest ==
    /\ bpc # "idle" => bchunks = chunks /\ Loadable(chunks)
    /\ bpc \notin {"idle", "digest"} => bdigest = chunks
    /\ bpc = "manifest" => bstamp = chunks
    /\ bpc \in {"stamp", "manifest"} => bm25 = [chunks |-> chunks, digest |-> chunks]
    /\ bm25 # None => bm25.chunks = bm25.digest

\* CommitMarker, and between the two renames the collection that a failed
\* rename brings back.
Committed ==
    /\ bpc \in Finishing => dirty
    /\ CommitMarker
    /\ manifest # None /\ ~dirty /\ bpc = "raise" =>
          colls["previous"] \in {None, Of(manifest.chunks, manifest.profile)}

Recoverable ==
    fresh =>
        /\ ~dirty /\ ipc # "write" /\ bpc \notin Finishing
        /\ manifest = [chunks |-> chunks, corpus |-> corpus, profile |-> profile,
                       rows |-> RowCount(chunks)]
        /\ Loadable(chunks)
        /\ bm25 = [chunks |-> chunks, digest |-> chunks]
        /\ colls[IF bpc = "raise" THEN "previous" ELSE "live"] = Of(chunks, profile)

\* What the server has checked still holds at its next check.
Checked ==
    /\ spc \in {"load", "vectors", "lexical", "up"} =>
          smanifest = manifest /\ ManifestVerifies(manifest)
    /\ spc \in {"vectors", "lexical", "up"} => schunks = chunks
    /\ spc \in {"lexical", "up"} => CollectionValidates(manifest)
    /\ spc = "up" => LexiconValidates(chunks, manifest)

Alone == OneAtATime /\ OneDigest /\ Committed /\ Recoverable /\ Checked

-----------------------------------------------------------------------------
(* The values that stand for "no file" and "no collection".                *)

LEMMA NoneDistinct ==
    /\ None \notin Collections /\ None \notin ChunkFiles
    /\ None \notin Lexicons /\ None \notin Manifests
    /\ \A f, p : Of(f, p) # None
<1>1. DOMAIN None = {"none"}
    BY DEF None
<1>2. \A c \in Collections : DOMAIN c = {"chunks", "profile"}
    BY DEF Collections
<1>3. \A f \in ChunkFiles : DOMAIN f = {"of", "state"}
    BY DEF ChunkFiles
<1>4. \A f \in Lexicons : DOMAIN f = {"chunks", "digest"}
    BY DEF Lexicons
<1>5. \A m \in Manifests : DOMAIN m = {"chunks", "corpus", "profile", "rows"}
    BY DEF Manifests
<1>6. \A f, p : DOMAIN Of(f, p) = {"chunks", "profile"}
    BY DEF Of
<1>7. /\ {"none"} # {"chunks", "profile"} /\ {"none"} # {"of", "state"}
      /\ {"none"} # {"chunks", "digest"}
      /\ {"none"} # {"chunks", "corpus", "profile", "rows"}
    OBVIOUS
<1> HIDE DEF None
<1> QED
    BY <1>1, <1>2, <1>3, <1>4, <1>5, <1>6, <1>7

LEMMA RowCountIsNat == \A f \in ChunkFiles : RowCount(f) \in Nat
BY RowsAssumption DEF ChunkFiles, Partial, RowCount

-----------------------------------------------------------------------------
(* First layer: types, and the collections during a build.                 *)

LEMMA StartsReplacing == Init => TypeOK /\ Replacing
BY DEF Init, TypeOK, FilesTyped, ProgramsTyped, HistoryTyped, Replacing, Promoting, Finishing

\* Each action keeps the types of the files, of the programs and of the
\* history, and leaves the collections where the build's next step needs them.
LEMMA KeepsReplacing == TypeOK /\ Replacing /\ [Next]_vars => TypeOK' /\ Replacing'
<1> SUFFICES ASSUME TypeOK, Replacing, [Next]_vars PROVE TypeOK' /\ Replacing'
    OBVIOUS
<1> USE NoneDistinct DEF TypeOK, IngestIdle, BuildIdle, ServerIdle, Promoting, Finishing,
        inputs, artifacts, ingestion, build, server, history
<1>1. CASE UNCHANGED vars
    <2>1. FilesTyped'
        BY <1>1 DEF vars, FilesTyped
    <2>2. ProgramsTyped' /\ HistoryTyped'
        BY <1>1 DEF vars, FilesTyped, ProgramsTyped, HistoryTyped
    <2>3. Replacing'
        BY <1>1 DEF vars, FilesTyped, ProgramsTyped, Replacing
    <2> QED
        BY <2>1, <2>2, <2>3
<1>2. CASE EditCorpus
    <2>1. FilesTyped'
        BY <1>2 DEF EditCorpus, FilesTyped
    <2>2. ProgramsTyped' /\ HistoryTyped'
        <3>1. ProgramsTyped'
            BY <1>2 DEF EditCorpus, ProgramsTyped
        <3>2. HistoryTyped'
            BY <1>2 DEF EditCorpus, HistoryTyped
        <3> QED
            BY <3>1, <3>2
    <2>3. Replacing'
        BY <1>2 DEF EditCorpus, FilesTyped, ProgramsTyped, Replacing
    <2> QED
        BY <2>1, <2>2, <2>3
<1>3. CASE ChooseProfile
    <2>1. FilesTyped'
        BY <1>3 DEF ChooseProfile, FilesTyped
    <2>2. ProgramsTyped' /\ HistoryTyped'
        BY <1>3 DEF ChooseProfile, FilesTyped, ProgramsTyped, HistoryTyped
    <2>3. Replacing'
        BY <1>3 DEF ChooseProfile, FilesTyped, ProgramsTyped, Replacing
    <2> QED
        BY <2>1, <2>2, <2>3
<1>4. CASE ReadCorpus \/ IngestStops
    <2>1. FilesTyped'
        BY <1>4 DEF ReadCorpus, IngestStops, FilesTyped
    <2>2. ProgramsTyped' /\ HistoryTyped'
        BY <1>4 DEF ReadCorpus, IngestStops, FilesTyped, ProgramsTyped, HistoryTyped
    <2>3. Replacing'
        BY <1>4 DEF ReadCorpus, IngestStops, FilesTyped, ProgramsTyped, Replacing
    <2> QED
        BY <2>1, <2>2, <2>3
<1>5. CASE OpenChunks
    <2>1. FilesTyped'
        BY <1>5 DEF OpenChunks, FilesTyped, Replacing, ProgramsTyped, ChunkFiles, Partial
    <2>2. ProgramsTyped' /\ HistoryTyped'
        <3>1. ProgramsTyped'
            BY <1>5 DEF OpenChunks, ProgramsTyped
        <3>2. HistoryTyped'
            BY <1>5 DEF OpenChunks, HistoryTyped
        <3> QED
            BY <3>1, <3>2
    <2>3. Replacing'
        BY <1>5 DEF OpenChunks, FilesTyped, ProgramsTyped, Replacing, ChunkFiles, Partial
    <2> QED
        BY <2>1, <2>2, <2>3
<1>6. CASE FinishChunks
    <2>1. FilesTyped'
        BY <1>6 DEF FinishChunks, FilesTyped, Replacing, ProgramsTyped, ChunkFiles, Partial
    <2>2. ProgramsTyped' /\ HistoryTyped'
        BY <1>6 DEF FinishChunks, FilesTyped, ProgramsTyped, HistoryTyped
    <2>3. Replacing'
        BY <1>6 DEF FinishChunks, FilesTyped, ProgramsTyped, Replacing, ChunkFiles, Partial
    <2> QED
        BY <2>1, <2>2, <2>3
<1>7. CASE Serve
    <2>1. FilesTyped'
        BY <1>7 DEF Serve, StartServer, VerifyManifest, LoadForServer, ValidateCollection,
                ValidateLexicon, ServerStops, OnDisk, FilesTyped
    <2>2. ProgramsTyped' /\ HistoryTyped'
        BY <1>7 DEF Serve, StartServer, VerifyManifest, LoadForServer, ValidateCollection,
                ValidateLexicon, ServerStops, OnDisk, FilesTyped, ProgramsTyped, HistoryTyped
    <2>3. Replacing'
        BY <1>7 DEF Serve, StartServer, VerifyManifest, LoadForServer, ValidateCollection,
                ValidateLexicon, ServerStops, OnDisk, FilesTyped, ProgramsTyped, Replacing
    <2> QED
        BY <2>1, <2>2, <2>3
<1>8. CASE LoadForBuild \/ DigestChunks \/ DigestForManifest
    <2>1. FilesTyped'
        BY <1>8 DEF LoadForBuild, Loadable, DigestChunks, DigestForManifest, FilesTyped
    <2>2. ProgramsTyped' /\ HistoryTyped'
        BY <1>8 DEF LoadForBuild, Loadable, DigestChunks, DigestForManifest, FilesTyped, ProgramsTyped, HistoryTyped
    <2>3. Replacing'
        BY <1>8 DEF LoadForBuild, Loadable, DigestChunks, DigestForManifest, FilesTyped, ProgramsTyped, Replacing
    <2> QED
        BY <2>1, <2>2, <2>3
<1>9. CASE DropCandidate
    <2>1. FilesTyped'
        BY <1>9 DEF DropCandidate, InChroma, FilesTyped
    <2>2. ProgramsTyped' /\ HistoryTyped'
        BY <1>9 DEF DropCandidate, InChroma, FilesTyped, ProgramsTyped, HistoryTyped
    <2>3. Replacing'
        BY <1>9 DEF DropCandidate, InChroma, FilesTyped, ProgramsTyped, Replacing
    <2> QED
        BY <2>1, <2>2, <2>3
<1>10. CASE CreateCandidate
    <2>1. FilesTyped'
        BY <1>10 DEF CreateCandidate, InChroma, FilesTyped, Replacing, Collections
    <2>2. ProgramsTyped' /\ HistoryTyped'
        BY <1>10 DEF CreateCandidate, InChroma, FilesTyped, ProgramsTyped, HistoryTyped
    <2>3. Replacing'
        BY <1>10 DEF CreateCandidate, InChroma, FilesTyped, ProgramsTyped, Replacing, Of
    <2> QED
        BY <2>1, <2>2, <2>3
<1>11. CASE FillCandidate
    <2>1. FilesTyped'
        BY <1>11 DEF FillCandidate, InChroma, FilesTyped, Replacing, ProgramsTyped, Collections, Of
    <2>2. ProgramsTyped' /\ HistoryTyped'
        BY <1>11 DEF FillCandidate, InChroma, FilesTyped, ProgramsTyped, HistoryTyped
    <2>3. Replacing'
        BY <1>11 DEF FillCandidate, InChroma, FilesTyped, ProgramsTyped, Replacing, Of
    <2> QED
        BY <2>1, <2>2, <2>3
<1>12. CASE DropPrevious
    <2>1. FilesTyped'
        BY <1>12 DEF DropPrevious, InChroma, FilesTyped
    <2>2. ProgramsTyped' /\ HistoryTyped'
        BY <1>12 DEF DropPrevious, InChroma, FilesTyped, ProgramsTyped, HistoryTyped
    <2>3. Replacing'
        BY <1>12 DEF DropPrevious, InChroma, FilesTyped, ProgramsTyped, Replacing
    <2> QED
        BY <2>1, <2>2, <2>3
<1>13. CASE DemoteLive
    <2>1. FilesTyped'
        BY <1>13 DEF DemoteLive, InChroma, FilesTyped
    <2>2. ProgramsTyped' /\ HistoryTyped'
        BY <1>13 DEF DemoteLive, InChroma, FilesTyped, ProgramsTyped, HistoryTyped
    <2>3. Replacing'
        BY <1>13 DEF DemoteLive, InChroma, FilesTyped, ProgramsTyped, Replacing
    <2> QED
        BY <2>1, <2>2, <2>3
<1>14. CASE RaiseCandidate
    <2>1. FilesTyped'
        BY <1>14 DEF RaiseCandidate, InChroma, FilesTyped
    <2>2. ProgramsTyped' /\ HistoryTyped'
        BY <1>14 DEF RaiseCandidate, InChroma, FilesTyped, ProgramsTyped, HistoryTyped
    <2>3. Replacing'
        BY <1>14 DEF RaiseCandidate, InChroma, FilesTyped, ProgramsTyped, Replacing
    <2> QED
        BY <2>1, <2>2, <2>3
<1>15. CASE RollBack
    <2>1. FilesTyped'
        BY <1>15 DEF RollBack, FilesTyped
    <2>2. ProgramsTyped' /\ HistoryTyped'
        BY <1>15 DEF RollBack, FilesTyped, ProgramsTyped, HistoryTyped
    <2>3. Replacing'
        BY <1>15 DEF RollBack, FilesTyped, ProgramsTyped, Replacing
    <2> QED
        BY <2>1, <2>2, <2>3
<1>16. CASE DropReplaced
    <2>1. FilesTyped'
        BY <1>16 DEF DropReplaced, InChroma, FilesTyped
    <2>2. ProgramsTyped' /\ HistoryTyped'
        BY <1>16 DEF DropReplaced, InChroma, FilesTyped, ProgramsTyped, HistoryTyped
    <2>3. Replacing'
        BY <1>16 DEF DropReplaced, InChroma, FilesTyped, ProgramsTyped, Replacing
    <2> QED
        BY <2>1, <2>2, <2>3
<1>17. CASE WriteLexicon
    <2>1. FilesTyped'
        BY <1>17 DEF WriteLexicon, FilesTyped, Replacing, ProgramsTyped, Lexicons
    <2>2. ProgramsTyped' /\ HistoryTyped'
        BY <1>17 DEF WriteLexicon, FilesTyped, ProgramsTyped, HistoryTyped
    <2>3. Replacing'
        BY <1>17 DEF WriteLexicon, FilesTyped, ProgramsTyped, Replacing
    <2> QED
        BY <2>1, <2>2, <2>3
<1>18. CASE WriteManifest
    <2>1. FilesTyped'
        BY <1>18, RowCountIsNat DEF WriteManifest, FilesTyped, Replacing, ProgramsTyped, Manifests
    <2>2. ProgramsTyped' /\ HistoryTyped'
        BY <1>18 DEF WriteManifest, FilesTyped, ProgramsTyped, HistoryTyped
    <2>3. Replacing'
        BY <1>18 DEF WriteManifest, FilesTyped, ProgramsTyped, Replacing
    <2> QED
        BY <2>1, <2>2, <2>3
<1>19. CASE BuildStops
    <2>1. FilesTyped'
        BY <1>19 DEF BuildStops, FilesTyped
    <2>2. ProgramsTyped' /\ HistoryTyped'
        BY <1>19 DEF BuildStops, FilesTyped, ProgramsTyped, HistoryTyped
    <2>3. Replacing'
        BY <1>19 DEF BuildStops, FilesTyped, ProgramsTyped, Replacing
    <2> QED
        BY <2>1, <2>2, <2>3
<1> QED
    BY <1>1, <1>2, <1>3, <1>4, <1>5, <1>6, <1>7, <1>8, <1>9, <1>10, <1>11, <1>12,
       <1>13, <1>14, <1>15, <1>16, <1>17, <1>18, <1>19 DEF Next, Ingest, Build

LEMMA AlwaysReplacing == Spec => [](TypeOK /\ Replacing)
BY StartsReplacing, KeepsReplacing, PTL DEF Spec

-----------------------------------------------------------------------------
(* Second layer: one program at a time.                                    *)

LEMMA StartsAlone == Init => Alone
BY DEF Init, Alone, OneAtATime, OneDigest, Committed, CommitMarker, Recoverable, Checked,
       IngestIdle, BuildIdle, ServerIdle, Finishing

\* Where each program may move: never while another one is under way.
LEMMA KeepsOneAtATime ==
    ASSUME ~Overlap, OneAtATime, [Next]_vars
    PROVE  OneAtATime'
<1> USE DEF OneAtATime, IngestIdle, BuildIdle, ServerIdle, InputsFree, ToolsFree
<1>1. CASE UNCHANGED vars
    BY <1>1 DEF vars, ingestion, build, server
<1>2. CASE EditCorpus \/ ChooseProfile
    BY <1>2 DEF EditCorpus, ChooseProfile, ingestion, build, server
<1>3. CASE Ingest
    BY <1>3 DEF Ingest, ReadCorpus, OpenChunks, FinishChunks, IngestStops, build, server
<1>4. CASE Build
    BY <1>4 DEF Build, LoadForBuild, DigestChunks, DropCandidate, CreateCandidate,
                FillCandidate, DropPrevious, DemoteLive, RaiseCandidate, RollBack,
                DropReplaced, WriteLexicon, DigestForManifest, WriteManifest, BuildStops,
                InChroma, ingestion, server
<1>5. CASE Serve
    BY <1>5 DEF Serve, StartServer, VerifyManifest, LoadForServer, ValidateCollection,
                ValidateLexicon, ServerStops, OnDisk, ingestion, build
<1> QED
    BY <1>1, <1>2, <1>3, <1>4, <1>5 DEF Next

\* While the server is up or starting, nothing else moves.
LEMMA OthersWait ==
    ASSUME ~Overlap, OneAtATime, EditCorpus \/ ChooseProfile \/ Ingest \/ Build
    PROVE  spc = "down" /\ spc' = "down"
<1> USE DEF OneAtATime, IngestIdle, BuildIdle, ServerIdle, InputsFree, ToolsFree
<1>1. CASE EditCorpus \/ ChooseProfile
    BY <1>1 DEF EditCorpus, ChooseProfile, server
<1>2. CASE Ingest
    BY <1>2 DEF Ingest, ReadCorpus, OpenChunks, FinishChunks, IngestStops, server
<1>3. CASE Build
    BY <1>3 DEF Build, LoadForBuild, DigestChunks, DropCandidate, CreateCandidate,
                FillCandidate, DropPrevious, DemoteLive, RaiseCandidate, RollBack,
                DropReplaced, WriteLexicon, DigestForManifest, WriteManifest, BuildStops,
                InChroma, server
<1> QED
    BY <1>1, <1>2, <1>3

\* While a build is under way, its inputs do not move.
LEMMA InputsWait ==
    ASSUME ~Overlap, OneAtATime, EditCorpus \/ ChooseProfile \/ Ingest
    PROVE  bpc = "idle" /\ UNCHANGED build
BY DEF OneAtATime, IngestIdle, BuildIdle, ServerIdle, InputsFree, EditCorpus, ChooseProfile,
       Ingest, ReadCorpus, OpenChunks, FinishChunks, IngestStops, build

LEMMA KeepsOneDigest ==
    ASSUME ~Overlap, TypeOK, Replacing, OneAtATime, OneDigest, [Next]_vars
    PROVE  OneDigest'
<1>1. CASE EditCorpus \/ ChooseProfile \/ Ingest
    <2>1. bm25' = bm25
        BY <1>1 DEF EditCorpus, ChooseProfile, Ingest, ReadCorpus, OpenChunks, FinishChunks,
                    IngestStops, artifacts
    <2> QED
        BY <1>1, <2>1, InputsWait DEF OneDigest, build
<1>2. CASE UNCHANGED vars \/ Serve
    BY <1>2 DEF vars, Serve, StartServer, VerifyManifest, LoadForServer, ValidateCollection,
                ValidateLexicon, ServerStops, OnDisk, OneDigest, Loadable, inputs, artifacts,
                build
<1>3. CASE LoadForBuild \/ DigestChunks
    BY <1>3 DEF LoadForBuild, DigestChunks, BuildIdle, OneDigest, Loadable, inputs, artifacts
<1>4. CASE DropCandidate \/ CreateCandidate \/ FillCandidate \/ DropPrevious \/ DemoteLive
           \/ RaiseCandidate \/ DropReplaced
    BY <1>4 DEF DropCandidate, CreateCandidate, FillCandidate, DropPrevious, DemoteLive,
                RaiseCandidate, DropReplaced, InChroma, OneDigest, Loadable, inputs
<1>5. CASE RollBack \/ WriteManifest \/ BuildStops
    BY <1>5 DEF RollBack, WriteManifest, BuildStops, OneDigest, inputs, artifacts
<1>6. CASE WriteLexicon
    BY <1>6 DEF WriteLexicon, OneDigest, Loadable, inputs
<1>7. CASE DigestForManifest
    BY <1>7 DEF DigestForManifest, OneDigest, Loadable, inputs, artifacts
<1> QED
    BY <1>1, <1>2, <1>3, <1>4, <1>5, <1>6, <1>7 DEF Next, Build

LEMMA KeepsCommitted ==
    ASSUME ~Overlap, TypeOK, Replacing, OneAtATime, OneDigest, Committed, [Next]_vars
    PROVE  Committed'
<1> USE DEF Committed, CommitMarker, Finishing, artifacts, history
<1>1. CASE EditCorpus \/ ChooseProfile \/ Ingest
    <2>1. UNCHANGED <<artifacts, dirty>>
        BY <1>1 DEF EditCorpus, ChooseProfile, Ingest, ReadCorpus, OpenChunks, FinishChunks,
                    IngestStops
    <2> QED
        BY <1>1, <2>1, InputsWait DEF build
<1>2. CASE UNCHANGED vars \/ Serve
    BY <1>2 DEF vars, Serve, StartServer, VerifyManifest, LoadForServer, ValidateCollection,
                ValidateLexicon, ServerStops, OnDisk, build
<1>3. CASE LoadForBuild \/ DigestChunks
    BY <1>3 DEF LoadForBuild, DigestChunks
<1>4. CASE DropCandidate \/ CreateCandidate \/ FillCandidate \/ DropPrevious
    BY <1>4 DEF DropCandidate, CreateCandidate, FillCandidate, DropPrevious, InChroma, TypeOK,
                FilesTyped
<1>5. CASE DemoteLive
    BY <1>5, NoneDistinct DEF DemoteLive, InChroma, TypeOK, FilesTyped, Replacing, Of
<1>6. CASE RaiseCandidate
    BY <1>6 DEF RaiseCandidate, InChroma
<1>7. CASE RollBack
    BY <1>7, NoneDistinct DEF RollBack, TypeOK, FilesTyped, Replacing, Of
<1>8. CASE DropReplaced \/ WriteLexicon \/ DigestForManifest
    BY <1>8 DEF DropReplaced, WriteLexicon, DigestForManifest, InChroma, TypeOK, FilesTyped
<1>9. CASE WriteManifest
    BY <1>9, NoneDistinct DEF WriteManifest, OneDigest, Replacing, Of
<1>10. CASE BuildStops
    BY <1>10 DEF BuildStops
<1> QED
    BY <1>1, <1>2, <1>3, <1>4, <1>5, <1>6, <1>7, <1>8, <1>9, <1>10 DEF Next, Build

LEMMA KeepsRecoverable ==
    ASSUME ~Overlap, TypeOK, Replacing, OneAtATime, OneDigest, Committed, Recoverable,
           [Next]_vars
    PROVE  Recoverable'
<1> USE DEF Recoverable, Finishing, artifacts, history, inputs
<1>1. CASE EditCorpus \/ ChooseProfile \/ OpenChunks
    BY <1>1 DEF EditCorpus, ChooseProfile, OpenChunks
<1>2. CASE ReadCorpus \/ IngestStops
    BY <1>2 DEF ReadCorpus, IngestStops, Loadable, build
<1>3. CASE FinishChunks
    BY <1>3 DEF FinishChunks
<1>4. CASE UNCHANGED vars \/ Serve
    BY <1>4 DEF vars, Serve, StartServer, VerifyManifest, LoadForServer, ValidateCollection,
                ValidateLexicon, ServerStops, OnDisk, Loadable, build, ingestion
<1>5. CASE LoadForBuild \/ DigestChunks
    BY <1>5 DEF LoadForBuild, DigestChunks, BuildIdle, Loadable, ingestion
<1>6. CASE DropCandidate \/ CreateCandidate \/ FillCandidate \/ DropPrevious
    BY <1>6 DEF DropCandidate, CreateCandidate, FillCandidate, DropPrevious, InChroma,
                Loadable, TypeOK, FilesTyped, ingestion
<1>7. CASE DemoteLive
    BY <1>7, NoneDistinct DEF DemoteLive, InChroma, Loadable, TypeOK, FilesTyped, ingestion
<1>8. CASE RaiseCandidate
    BY <1>8 DEF RaiseCandidate
<1>9. CASE RollBack
    BY <1>9, NoneDistinct DEF RollBack, Loadable, TypeOK, FilesTyped, ingestion
<1>10. CASE DropReplaced \/ WriteLexicon \/ DigestForManifest
    BY <1>10 DEF DropReplaced, WriteLexicon, DigestForManifest, InChroma
<1>11. CASE WriteManifest
    BY <1>11, NoneDistinct DEF WriteManifest, OneDigest, OneAtATime, IngestIdle, BuildIdle,
                Replacing, Loadable, ingestion
<1>12. CASE BuildStops
    BY <1>12 DEF BuildStops, BuildIdle, Loadable, ingestion
<1> QED
    BY <1>1, <1>2, <1>3, <1>4, <1>5, <1>6, <1>7, <1>8, <1>9, <1>10, <1>11, <1>12
       DEF Next, Ingest, Build

LEMMA KeepsChecked ==
    ASSUME ~Overlap, TypeOK, OneAtATime, Checked, [Next]_vars
    PROVE  Checked'
<1> USE DEF Checked
<1>1. CASE EditCorpus \/ ChooseProfile \/ Ingest \/ Build
    BY <1>1, OthersWait
<1>2. CASE UNCHANGED vars \/ Serve
    <2>1. UNCHANGED <<corpus, chunks, profile, colls, bm25, manifest>>
        BY <1>2 DEF vars, Serve, StartServer, VerifyManifest, LoadForServer,
                    ValidateCollection, ValidateLexicon, ServerStops, OnDisk, inputs, artifacts
    <2>2. /\ ManifestVerifies(manifest)' <=> ManifestVerifies(manifest)
          /\ CollectionValidates(manifest)' <=> CollectionValidates(manifest)
          /\ LexiconValidates(chunks, manifest)' <=> LexiconValidates(chunks, manifest)
        BY <2>1 DEF ManifestVerifies, CollectionValidates, LexiconValidates
    <2> QED
        BY <1>2, <2>1, <2>2 DEF vars, server, Serve, StartServer, VerifyManifest,
           LoadForServer, ValidateCollection, ValidateLexicon, ServerStops
<1> QED
    BY <1>1, <1>2 DEF Next

LEMMA AlwaysAlone == ~Overlap /\ Spec => [](TypeOK /\ Replacing /\ Alone)
<1> SUFFICES ASSUME ~Overlap PROVE Spec => [](TypeOK /\ Replacing /\ Alone)
    OBVIOUS
<1>1. TypeOK /\ Replacing /\ Alone /\ [Next]_vars => Alone'
    BY KeepsOneAtATime, KeepsOneDigest, KeepsCommitted, KeepsRecoverable, KeepsChecked DEF Alone
<1> QED
    BY <1>1, StartsReplacing, KeepsReplacing, StartsAlone, PTL DEF Spec

-----------------------------------------------------------------------------
(* What holds of every history of builds, crashes and boots.               *)

\* The variables keep their types.
THEOREM IndexTypes == Spec => []TypeOK
BY AlwaysReplacing, PTL

\* Whatever runs beside the build, the live collection goes only when its
\* replacement is complete and the old one is kept under another name.
THEOREM SwapKeepsTwoCopies == Spec => LiveLeavesTwoCopies
<1>1. TypeOK /\ Replacing /\ [Next]_vars =>
         [Filled(colls["live"]) /\ ~Filled(colls'["live"]) =>
             /\ Filled(colls'["candidate"])
             /\ colls'["previous"] = colls["live"]]_vars
    <2> SUFFICES ASSUME TypeOK, Replacing, [Next]_vars, Filled(colls["live"]),
                        ~Filled(colls'["live"])
                 PROVE  Filled(colls'["candidate"]) /\ colls'["previous"] = colls["live"]
        OBVIOUS
    <2>1. DemoteLive \/ RaiseCandidate \/ RollBack
        BY DEF TypeOK, FilesTyped, vars, artifacts, history, EditCorpus, ChooseProfile, Ingest,
               ReadCorpus, OpenChunks, FinishChunks, IngestStops, Build, LoadForBuild,
               DigestChunks, DropCandidate, CreateCandidate, FillCandidate, DropPrevious,
               DropReplaced, WriteLexicon, DigestForManifest, WriteManifest, BuildStops,
               InChroma, Next, Serve, StartServer, VerifyManifest, LoadForServer,
               ValidateCollection, ValidateLexicon, ServerStops, OnDisk
    <2>2. CASE DemoteLive
        BY <2>2, NoneDistinct DEF DemoteLive, InChroma, TypeOK, FilesTyped, Replacing,
                                  Promoting, Filled, Of
    <2>3. CASE RaiseCandidate
        BY <2>3 DEF RaiseCandidate, InChroma, Replacing, Filled
    <2>4. CASE RollBack
        BY <2>4 DEF RollBack, Replacing, Filled
    <2> QED
        BY <2>1, <2>2, <2>3, <2>4
<1> QED
    BY <1>1, AlwaysReplacing, PTL DEF Spec, LiveLeavesTwoCopies

\* The manifest is a commit marker as long as no two programs run at once.
THEOREM ManifestCommits == ~Overlap /\ Spec => []CommitMarker
<1>1. Alone => CommitMarker
    BY DEF Alone, Committed
<1> QED
    BY <1>1, AlwaysAlone, PTL

\* What a finished build has written boots, whatever crashes came before it and
\* whatever builds have failed since.
THEOREM BuildsRecover == ~Overlap /\ Spec => []RebuildRecovers
<1>1. TypeOK /\ Alone => RebuildRecovers
    <2> SUFFICES ASSUME TypeOK, Alone, fresh, BuildIdle
                 PROVE  /\ ManifestVerifies(manifest) /\ Loadable(chunks)
                        /\ CollectionValidates(manifest) /\ LexiconValidates(chunks, manifest)
        BY DEF RebuildRecovers
    <2>1. /\ manifest = [chunks |-> chunks, corpus |-> corpus, profile |-> profile,
                         rows |-> RowCount(chunks)]
          /\ Loadable(chunks)
          /\ bm25 = [chunks |-> chunks, digest |-> chunks]
          /\ colls["live"] = Of(chunks, profile)
        BY DEF Alone, Recoverable, BuildIdle
    <2>2. chunks \in ChunkFiles /\ chunks # None
        BY <2>1, NoneDistinct DEF TypeOK, FilesTyped, Loadable
    <2>3. manifest \in Manifests /\ bm25 \in Lexicons
        BY <2>1, <2>2, RowCountIsNat DEF TypeOK, FilesTyped, Manifests, Lexicons
    <2>4. manifest # None /\ bm25 # None /\ colls["live"] # None
        BY <2>1, <2>3, NoneDistinct
    <2> QED
        BY <2>1, <2>2, <2>4 DEF ManifestVerifies, CollectionValidates, LexiconValidates, Of
<1> QED
    BY <1>1, AlwaysAlone, PTL

\* What a server that booted has checked holds while it is up, and its index is
\* of one content unless a build was cut short after its promotion.
THEOREM BootChecksTheIndex == ~Overlap /\ Spec => []ServedIndexChecked
<1>1. TypeOK /\ Alone => ServedIndexChecked
    BY NoneDistinct DEF TypeOK, FilesTyped, Alone, Checked, OneDigest, Committed, CommitMarker,
       ServedIndexChecked, ManifestVerifies, CollectionValidates, LexiconValidates, Filled,
       Lexicons
<1> QED
    BY <1>1, AlwaysAlone, PTL
=============================================================================
