----------------------------- MODULE Retriever -----------------------------
(***************************************************************************)
(* HybridRetriever.retrieve (features/retrieval/use_cases.py) inside a     *)
(* running server, beside an index rebuild.                                *)
(*                                                                         *)
(* One call asks the vector store and the lexical index, fuses the two     *)
(* rankings, fetches the metadata of the chunks only the lexical channel   *)
(* found, may rerank the head of the list, and cuts it at k.  The server   *)
(* keeps the BM25 index it loaded at start-up, while the Chroma adapter    *)
(* opens the live collection again on every query and on every fetch; a    *)
(* rebuild (features/retrieval/cli.py) replaces the one and the other on   *)
(* disk.  What is found and how it ranks is the channels' choice.          *)
(***************************************************************************)
EXTENDS Fusion, FiniteSets

CONSTANTS
    Holds,         \* Holds[b]: the chunk ids of the b-th build of the index
    TopN,          \* top_n: hits asked of each channel
    K,             \* k: length the result is cut at
    RerankWindow,  \* rerank_window
    RrfK,          \* RRF_K
    Rerankers      \* the rerankers tried: "none", "honest", "faulty"

Builds == DOMAIN Holds
AllChunks == UNION {Holds[b] : b \in Builds}
NoBuild == 0

\* No build is empty: Chroma refuses to add no ids, before the promotion.
ASSUME RetrieverAssumption ==
    /\ Holds \in Seq(SUBSET Nat) /\ Holds # << >>
    /\ \A b \in Builds : Holds[b] # {} /\ IsFiniteSet(Holds[b])
    /\ TopN \in Nat \ {0} /\ K \in Nat /\ RerankWindow \in Nat /\ RrfK \in Nat

VARIABLES
    collection,  \* build of the live Chroma collection; NoBuild between the renames
    previous,    \* build a rebuild renamed away, to put back if it fails
    bm25File,    \* build of the BM25 file
    manifest,    \* build the manifest describes
    bm25Cache,   \* build of the BM25 index the server holds
    rebuild,     \* the rebuild at work: "idle", "renaming", "swapped" or "saved"
    swapped,     \* history: the live collection was renamed since the call began
    reranker,    \* the reranker the retriever was made with
    at,          \* where the call is
    semantic,    \* semantic_hits: chunk ids, best first
    semanticOf,  \* history: the build they came from
    lexical,     \* bm25_hits
    fused        \* RetrievalResults: [chunk, rank, bm25Rank, build]

disk == <<collection, previous, bm25File, manifest, rebuild>>
store == <<disk, bm25Cache, swapped>>
call == <<at, semantic, semanticOf, lexical, fused>>
retrieveVars == <<store, reranker, call>>

-----------------------------------------------------------------------------
\* The rebuild, as the server sees it.  IndexLifecycle has its every step.

\* The live collection, when there is one, is renamed away ...
RenameAway ==
    /\ rebuild = "idle"
    /\ rebuild' = "renaming"
    /\ previous' = collection
    /\ collection' = NoBuild
    /\ swapped' = TRUE
    /\ UNCHANGED <<bm25File, manifest, bm25Cache, reranker, call>>

\* ... and the candidate renamed in, or the old one back when that fails.
RenameIn ==
    /\ rebuild = "renaming"
    /\ \/ collection' \in Builds /\ rebuild' = "swapped"
       \/ collection' = previous /\ rebuild' = "idle"
    /\ previous' = NoBuild
    /\ swapped' = TRUE
    /\ UNCHANGED <<bm25File, manifest, bm25Cache, reranker, call>>

\* A slip: the index notices that its file has changed and loads it again,
\* in the middle of a call as well.
ReplaceBm25Reloaded ==
    /\ rebuild = "swapped"
    /\ rebuild' = "saved"
    /\ bm25File' = collection /\ bm25Cache' = collection
    /\ UNCHANGED <<collection, previous, manifest, swapped, reranker, call>>

\* The BM25 file is replaced; the server does not read it again ...
ReplaceBm25 ==
    /\ rebuild = "swapped"
    /\ rebuild' = "saved"
    /\ bm25File' = collection
    /\ UNCHANGED <<collection, previous, manifest, bm25Cache, swapped, reranker, call>>

\* ... and last the manifest.
WriteManifest ==
    /\ rebuild = "saved"
    /\ rebuild' = "idle"
    /\ manifest' = collection
    /\ UNCHANGED <<collection, previous, bm25File, bm25Cache, swapped, reranker, call>>

\* The rebuild is killed, or fails, and leaves everything as it is.
RebuildStops ==
    /\ rebuild # "idle"
    /\ rebuild' = "idle"
    /\ previous' = NoBuild
    /\ UNCHANGED <<collection, bm25File, manifest, bm25Cache, swapped, reranker, call>>

\* What the cross-check of app.lifespan compares: the collection with the
\* manifest by the number of rows, the BM25 index by its digest and ids.  That
\* chunks.jsonl and the corpus are those of the manifest is up to the operator,
\* who can bring them back, so it excludes nothing here.
Bootable ==
    /\ collection # NoBuild
    /\ Cardinality(Holds[collection]) = Cardinality(Holds[manifest])
    /\ bm25File = manifest

\* A restart loads the BM25 file.
Restart ==
    /\ Bootable
    /\ bm25Cache' = bm25File
    /\ at' = "idle" /\ semantic' = << >> /\ semanticOf' = NoBuild
    /\ lexical' = << >> /\ fused' = << >>
    /\ UNCHANGED <<disk, swapped, reranker>>

-----------------------------------------------------------------------------
\* The call.

Smaller(a, b) == IF a <= b THEN a ELSE b

\* A channel returns its best hits, all its chunks when they are fewer.
HitLists(build) ==
    LET size == Smaller(TopN, Cardinality(Holds[build]))
    IN  {hits \in [1 .. size -> Holds[build]] : IsInjective(hits)}

Call ==
    /\ at = "idle"
    /\ at' = "semantic"
    /\ swapped' = FALSE
    /\ UNCHANGED <<disk, bm25Cache, reranker, semantic, semanticOf, lexical, fused>>

\* vector_store.query: the collection is opened here.
QuerySemantic ==
    /\ at = "semantic"
    /\ collection # NoBuild
    /\ semantic' \in HitLists(collection)
    /\ semanticOf' = collection
    /\ at' = "lexical"
    /\ UNCHANGED <<store, reranker, lexical, fused>>

\* lexical_index.query, then the fusion; a result found by both channels, or
\* by the semantic one, has its metadata already.
QueryLexical ==
    /\ at = "lexical"
    /\ \E hits \in HitLists(bm25Cache) :
          /\ lexical' = hits
          /\ LET order == FuseRankings(semantic, hits, RrfK)
                 rankIn(list, id) == IF Contains(list, id) THEN RankIn(list, id) ELSE 0
             IN  fused' = [p \in DOMAIN order |->
                              [chunk |-> order[p],
                               rank |-> rankIn(semantic, order[p]),
                               bm25Rank |-> rankIn(hits, order[p]),
                               build |-> IF Contains(semantic, order[p])
                                         THEN semanticOf ELSE NoBuild]]
    /\ at' = "metadata"
    /\ UNCHANGED <<store, reranker, semantic, semanticOf>>

\* Fused results whose metadata is still to be fetched, best first.
Lacking == {p \in DOMAIN fused : fused[p].build = NoBuild}
NextLacking == CHOOSE p \in Lacking : \A q \in Lacking : p <= q

\* The chunk is in the collection, when there is one.
Held(id) == IF collection = NoBuild THEN FALSE ELSE id \in Holds[collection]

\* vector_store.get_metadata: the collection is opened again.
FetchMetadata ==
    /\ at = "metadata" /\ Lacking # {}
    /\ Held(fused[NextLacking].chunk)
    /\ fused' = [fused EXCEPT ![NextLacking].build = collection]
    /\ UNCHANGED <<store, reranker, at, semantic, semanticOf, lexical>>

\* No live collection, or one without the chunk (KeyError): the call raises.
ChannelFails ==
    /\ \/ at = "semantic" /\ collection = NoBuild
       \/ at = "metadata" /\ Lacking # {} /\ ~Held(fused[NextLacking].chunk)
    /\ at' = "raised"
    /\ UNCHANGED <<store, reranker, semantic, semanticOf, lexical, fused>>

window == SubSeq(fused, 1, Smaller(RerankWindow, Len(fused)))
tail == SubSeq(fused, Smaller(RerankWindow, Len(fused)) + 1, Len(fused))
Reranks == reranker # "none" /\ Len(window) >= 2

\* A slip: the reranker's window is all that is left of the list.
RerankTruncating ==
    /\ at = "metadata" /\ Lacking = {}
    /\ Reranks /\ reranker = "honest"
    /\ fused' \in SetToSeqs(ToSet(window))
    /\ at' = "cut"
    /\ UNCHANGED <<store, reranker, semantic, semanticOf, lexical>>

\* _apply_reranker: the window in any order, then the tail.
Rerank ==
    /\ at = "metadata" /\ Lacking = {}
    /\ Reranks /\ reranker = "honest"
    /\ \E order \in SetToSeqs(ToSet(window)) : fused' = order \o tail
    /\ at' = "cut"
    /\ UNCHANGED <<store, reranker, semantic, semanticOf, lexical>>

\* A reranker that adds, drops or repeats an id is refused.
RerankRefused ==
    /\ at = "metadata" /\ Lacking = {}
    /\ Reranks /\ reranker = "faulty"
    /\ at' = "raised"
    /\ UNCHANGED <<store, reranker, semantic, semanticOf, lexical, fused>>

KeepOrder ==
    /\ at = "metadata" /\ Lacking = {}
    /\ ~Reranks
    /\ at' = "cut"
    /\ UNCHANGED <<store, reranker, semantic, semanticOf, lexical, fused>>

\* fused[:k]
Return ==
    /\ at = "cut"
    /\ fused' = SubSeq(fused, 1, Smaller(K, Len(fused)))
    /\ at' = "returned"
    /\ UNCHANGED <<store, reranker, semantic, semanticOf, lexical>>

CallStep ==
    \/ QuerySemantic \/ QueryLexical \/ FetchMetadata \/ ChannelFails
    \/ Rerank \/ RerankRefused \/ KeepOrder \/ Return

RetrieveInit ==
    /\ collection = 1 /\ previous = NoBuild
    /\ bm25File = 1 /\ manifest = 1 /\ bm25Cache = 1
    /\ rebuild = "idle" /\ swapped = FALSE
    /\ reranker \in Rerankers
    /\ at = "idle" /\ semantic = << >> /\ semanticOf = NoBuild
    /\ lexical = << >> /\ fused = << >>

RetrieveNext ==
    \/ RenameAway \/ RenameIn \/ ReplaceBm25 \/ WriteManifest \/ RebuildStops \/ Restart
    \/ Call \/ CallStep

RetrieveSpec == RetrieveInit /\ [][RetrieveNext]_retrieveVars

-----------------------------------------------------------------------------
Results == [chunk : AllChunks, rank : 0 .. TopN, bm25Rank : 0 .. TopN, build : {NoBuild} \cup Builds]

\* The variables keep their types.
RetrieveTypeOK ==
    /\ {collection, previous} \subseteq {NoBuild} \cup Builds
    /\ {bm25File, manifest, bm25Cache} \subseteq Builds
    /\ rebuild \in {"idle", "renaming", "swapped", "saved"} /\ swapped \in BOOLEAN
    /\ at \in {"idle", "semantic", "lexical", "metadata", "cut", "returned", "raised"}
    /\ ToSet(fused) \subseteq Results

\* The guarantee the gate rests on (the comment at use_cases.py:12): with k at
\* twice top_n the result of semantic rank 1 is in the returned list, whatever
\* the lexical channel found, however the fused order and the reranker moved it
\* and whatever a rebuild did meanwhile; and no chunk is lost or repeated.
RankOneSurvives ==
    at = "returned" =>
        /\ fused # << >> => \E p \in DOMAIN fused : fused[p].rank = 1
        /\ {fused[p].chunk : p \in DOMAIN fused} = ToSet(semantic) \cup ToSet(lexical)
        /\ Len(fused) = Cardinality(ToSet(semantic) \cup ToSet(lexical))

\* The claim the fusion sweep starts from (fusion_sweep.py:9-15): a chunk that
\* both channels found is ahead of every chunk that only one found, however
\* good its rank there; and each channel's own order is kept among the chunks
\* it alone found.
BothChannelsWin ==
    at = "metadata" /\ RrfK + 2 > TopN =>
        \A p, q \in DOMAIN fused :
            LET both(r) == r.rank > 0 /\ r.bm25Rank > 0
                a == fused[p]
                b == fused[q]
            IN  /\ both(a) /\ ~both(b) => p < q
                /\ ~both(a) /\ ~both(b) /\ a.rank > 0 /\ b.rank > 0 /\ a.rank < b.rank => p < q

\* What is left of coherence in a server whose two indexes may be of different
\* builds, by a rebuild beside it or by a boot that counted rows only.  No chunk
\* is returned without metadata, or with that of a build that does not hold it.
\* In a call that saw no rename all metadata is of one build; and such a call
\* fails for want of a chunk only while the BM25 index is of another build than
\* the collection.
CoherentUnlessSwapped ==
    /\ \A p \in DOMAIN fused :
          /\ at = "returned" => fused[p].build # NoBuild
          /\ fused[p].build # NoBuild => fused[p].chunk \in Holds[fused[p].build]
          /\ ~swapped => fused[p].build \in {NoBuild, collection}
    /\ at = "raised" /\ ~swapped => reranker = "faulty" \/ collection # bm25Cache

\* The comment of app.lifespan (app.py:51-53): "an index whose three artifacts
\* physically disagree on profile, count, model OR content must not be servable
\* or measurable".
OneCorpusServed ==
    at = "returned" => semanticOf = bm25Cache

=============================================================================
