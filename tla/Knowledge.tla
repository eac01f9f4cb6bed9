------------------------------ MODULE Knowledge ------------------------------
(***************************************************************************)
(* Synchronisation of the knowledge files after a parse:                   *)
(* KnowledgeIndexService.synchronize_after_parse rebuilds the catalogue,   *)
(* the chunk projection, the BM25 index, the paper projection with its     *)
(* BM25 index, the dense index of the chunks, the dense index of the       *)
(* papers and the default scope, one file after another.  Each write is    *)
(* atomic, the sequence is not: a document, the embedding model or the     *)
(* process can fail between any two, and the next call starts from the     *)
(* files as they were left.  Searches and the readiness view read those    *)
(* files meanwhile and trust the digests in them.                          *)
(*                                                                         *)
(* A document's content is its text, which the digests of the chunk        *)
(* indexes cover, and its metadata (authors, year, DOI), which they do not *)
(* although the fingerprint that decides on a rebuild does.  Both are      *)
(* revision numbers; text 0 has no searchable block, in metadata 0 the     *)
(* fields are empty.  File mode (MySQL off), a shared Qdrant server.       *)
(***************************************************************************)
EXTENDS Naturals

CONSTANTS
  Papers,          \* paper ids; one document and one work each
  Syncs,           \* jobs of the API process that may synchronise at once
  NONE,            \* an absent file or entry
  MaxEdits,        \* bound on parses and metadata corrections
  MaxFaults        \* bound on unreadable documents, embedding errors and crashes

\* What the input fingerprint of a document covers: its text and its metadata, as
\* revision numbers.
Content == [text : Nat, meta : Nat]

ASSUME BoundsAssumption == MaxEdits \in Nat /\ MaxFaults \in Nat
ASSUME AbsentAssumption ==
  NONE \notin Content /\ NONE \notin Nat /\ NONE \notin [Papers -> Nat \cup {NONE}]

VARIABLES
  canonical,       \* data/canonical/<id>/paper.json: content or NONE
  catalog,         \* papers.jsonl
  docChunks,       \* structures/ and chunks/ of a document: the content they were built from
  chunks,          \* chunks.jsonl
  bm25,            \* bm25.json: the chunks_digest it was built for, or NONE
  records,         \* paper_records.jsonl: the metadata recorded per paper, or NONE
  paperIndex,      \* paper_bm25.json: the papers_digest, or NONE
  points,          \* the content Qdrant holds for the chunks of a paper, or NONE
  manifest,        \* dense_manifest.json: paper_digests, or NONE
  paperPoints,     \* the metadata Qdrant holds per paper, or NONE
  paperManifest,   \* paper_dense_manifest.json, or NONE
  sync,            \* sync[s]: local state of one synchronize_after_parse
  version, scopes, members, call, planned,   \* the default workspace (Workspaces)
  holed,           \* history: papers whose points were deleted by a call that then failed or died
  overlapped,      \* history: two synchronisations have run at once
  edits, faults

fileVars == <<catalog, docChunks, chunks, bm25, records, paperIndex>>
denseVars == <<points, manifest>>
paperDenseVars == <<paperPoints, paperManifest>>
scopeVars == <<version, scopes, members, call, planned>>
history == <<holed, overlapped>>
vars == <<canonical, fileVars, denseVars, paperDenseVars, sync, scopeVars, history, edits, faults>>

Corpus == {p \in Papers : canonical[p] # NONE}

\* The workspace service works on the documents of the canonical corpus.
Workspace == INSTANCE Workspaces WITH Documents <- Papers, corpus <- Corpus

Nothing == [p \in Papers |-> NONE]

Text(projection) == [p \in Papers |-> IF projection[p] = NONE THEN NONE ELSE projection[p].text]
Meta(projection) == [p \in Papers |-> IF projection[p] = NONE THEN NONE ELSE projection[p].meta]
Present(projection) == {p \in Papers : projection[p] # NONE}

\* A document has chunks when it has searchable blocks.
Chunked(content) == IF content # NONE /\ content.text = 0 THEN NONE ELSE content

Idle == [pc |-> "idle", todo |-> {}, seen |-> {}, projection |-> Nothing, issues |-> FALSE,
         changed |-> {}, snapshot |-> Nothing, delta |-> {}, papers |-> Nothing]

Init ==
  /\ canonical = Nothing /\ catalog = Nothing /\ docChunks = Nothing /\ chunks = Nothing
  /\ bm25 = NONE /\ records = Nothing /\ paperIndex = NONE
  /\ points = Nothing /\ manifest = NONE
  /\ paperPoints = Nothing /\ paperManifest = NONE
  /\ sync = [s \in Syncs |-> Idle]
  /\ Workspace!Init
  /\ holed = {} /\ overlapped = FALSE
  /\ edits = 0 /\ faults = 0

Running(s) == sync[s].pc \notin {"idle", "completed"}
At(s, pc) == sync[s].pc = pc
Set(s, r) == sync' = [sync EXCEPT ![s] = r]
Goto(s, pc) == Set(s, [sync[s] EXCEPT !.pc = pc])

-----------------------------------------------------------------------------
(* The corpus: parses and metadata corrections                             *)

\* A parse writes a new text, or finds none that can be searched; verified metadata
\* survive it.
Edited(p) ==
  IF canonical[p] = NONE THEN [text : {0, edits + 1}, meta : {0, 1}]
  ELSE {[canonical[p] EXCEPT !.text = text] : text \in {0, edits + 1}}
       \cup {[canonical[p] EXCEPT !.meta = @ + 1]}

\* parse_paper writes a new document or parses one again; enrich_paper_metadata
\* completes or corrects its metadata.  Either may happen while a synchronisation runs.
EditPaper ==
  /\ edits < MaxEdits
  /\ \E p \in Papers : \E content \in Edited(p) : canonical' = [canonical EXCEPT ![p] = content]
  /\ edits' = edits + 1
  /\ UNCHANGED <<fileVars, denseVars, paperDenseVars, sync, scopeVars, history, faults>>

-----------------------------------------------------------------------------
(* synchronize_after_parse                                                 *)

\* Nothing keeps the other thread of the JobManager from synchronising too.  What was
\* completed before is forgotten here.
Start(s) ==
  /\ ~Running(s) /\ Corpus # {}
  /\ sync' = [t \in Syncs |-> IF t = s THEN [Idle EXCEPT !.pc = "catalog"]
                              ELSE IF Running(t) THEN sync[t] ELSE Idle]
  /\ overlapped' = (overlapped \/ \E t \in Syncs \ {s} : Running(t))
  /\ UNCHANGED <<canonical, fileVars, denseVars, paperDenseVars, scopeVars, holed, edits, faults>>

RebuildCatalog(s) ==
  /\ At(s, "catalog")
  /\ catalog' = canonical
  /\ Set(s, [sync[s] EXCEPT !.pc = "documents", !.todo = Corpus, !.seen = Corpus])
  /\ UNCHANGED <<canonical, docChunks, chunks, bm25, records, paperIndex, denseVars,
                 paperDenseVars, scopeVars, history, edits, faults>>

\* One document of the loop of build_knowledge_base: its structure and chunks are
\* reused when the fingerprint of its content is the one they were built from.  A
\* document without chunks is built like any other.
BuildDocument(s, p) ==
  /\ At(s, "documents") /\ p \in sync[s].todo
  /\ docChunks' = [docChunks EXCEPT ![p] = canonical[p]]
  /\ Set(s, [sync[s] EXCEPT
               !.todo = @ \ {p},
               !.projection = [@ EXCEPT ![p] = Chunked(canonical[p])],
               !.changed = IF docChunks[p] = canonical[p] THEN @ ELSE @ \cup {p}])
  /\ UNCHANGED <<canonical, catalog, chunks, bm25, records, paperIndex, denseVars,
                 paperDenseVars, scopeVars, history, edits, faults>>

\* A document that cannot be read or built is an issue and leaves the projection.
DocumentIssue(s, p) ==
  /\ At(s, "documents") /\ p \in sync[s].todo /\ faults < MaxFaults
  /\ Set(s, [sync[s] EXCEPT !.todo = @ \ {p}, !.issues = TRUE])
  /\ faults' = faults + 1
  /\ UNCHANGED <<canonical, fileVars, denseVars, paperDenseVars, scopeVars, history, edits>>

PublishChunks(s) ==
  /\ At(s, "documents") /\ sync[s].todo = {}
  /\ chunks' = sync[s].projection
  /\ Goto(s, "bm25")
  /\ UNCHANGED <<canonical, catalog, docChunks, bm25, records, paperIndex, denseVars,
                 paperDenseVars, scopeVars, history, edits, faults>>

PublishBM25(s) ==
  /\ At(s, "bm25")
  /\ bm25' = Text(sync[s].projection)
  /\ Goto(s, "papers")
  /\ UNCHANGED <<canonical, catalog, docChunks, chunks, records, paperIndex, denseVars,
                 paperDenseVars, scopeVars, history, edits, faults>>

\* _record_from_mapping: empty fields of a record are read from its document.
WithFields(mapping) ==
  [p \in Papers |-> IF mapping[p] = 0 /\ canonical[p] # NONE THEN canonical[p].meta ELSE mapping[p]]

\* load_paper_records: the paper projection when it has records, else the
\* catalogue, else the chunks.
LoadPaperRecords ==
  WithFields(IF Present(records) # {} THEN records
         ELSE IF Present(catalog) # {} THEN Meta(catalog)
         ELSE Meta(chunks))

\* mutant: the issues are only reported.
PublishPapersDespiteIssues(s) ==
  /\ At(s, "papers")
  /\ records' = LoadPaperRecords
  /\ paperIndex' = records'
  /\ Goto(s, "dense")
  /\ UNCHANGED <<canonical, catalog, docChunks, chunks, bm25, denseVars, paperDenseVars,
                 scopeVars, history, edits, faults>>

\* build_paper_bm25_index writes the projection back and indexes it; after it the
\* issues of the documents end the call.
PublishPapers(s) ==
  /\ At(s, "papers")
  /\ records' = LoadPaperRecords
  /\ paperIndex' = records'
  /\ Goto(s, IF sync[s].issues THEN "failed" ELSE "dense")
  /\ UNCHANGED <<canonical, catalog, docChunks, chunks, bm25, denseVars, paperDenseVars,
                 scopeVars, history, edits, faults>>

-----------------------------------------------------------------------------
(* build_dense_index                                                       *)

\* mutant: only the papers this call built.
ChangedThisCall(s, loaded) == sync[s].changed

\* The papers whose points are replaced: those whose digest is not the manifest's
\* and those whose chunks this call built.
ChangedPapers(s, loaded) ==
  {p \in Papers : manifest[p] # Text(loaded)[p]} \cup sync[s].changed

\* Without a manifest everything is embedded; with one, the changed papers.  An
\* empty projection is an error.
BeginDense(s) ==
  /\ At(s, "dense")
  /\ IF Present(chunks) = {}
       THEN Goto(s, "failed")
       ELSE Set(s, [sync[s] EXCEPT
              !.pc = IF manifest = NONE THEN "embed_all" ELSE "delete",
              !.snapshot = chunks,
              !.delta = IF manifest = NONE THEN Papers ELSE ChangedPapers(s, chunks)])
  /\ UNCHANGED <<canonical, fileVars, denseVars, paperDenseVars, scopeVars, history, edits, faults>>

\* The incremental update deletes the old points before it embeds the new texts.
DeletePoints(s) ==
  /\ At(s, "delete")
  /\ points' = [p \in Papers |-> IF p \in sync[s].delta THEN NONE ELSE points[p]]
  /\ Goto(s, "embed")
  /\ UNCHANGED <<canonical, fileVars, manifest, paperDenseVars, scopeVars, history, edits, faults>>

\* The new points are added.
UpsertPoints(s) ==
  /\ At(s, "embed")
  /\ points' = [p \in Papers |-> IF p \in sync[s].delta THEN sync[s].snapshot[p] ELSE points[p]]
  /\ holed' = holed \ sync[s].delta
  /\ Goto(s, "manifest")
  /\ UNCHANGED <<canonical, fileVars, manifest, paperDenseVars, scopeVars, overlapped, edits, faults>>

\* The full build creates the shared collection anew once every text is embedded.
RecreateCollection(s) ==
  /\ At(s, "embed_all")
  /\ points' = Nothing
  /\ Goto(s, "fill")
  /\ UNCHANGED <<canonical, fileVars, manifest, paperDenseVars, scopeVars, history, edits, faults>>

FillCollection(s) ==
  /\ At(s, "fill")
  /\ points' = [p \in Papers |-> IF sync[s].snapshot[p] = NONE THEN points[p] ELSE sync[s].snapshot[p]]
  /\ holed' = {}
  /\ Goto(s, "manifest")
  /\ UNCHANGED <<canonical, fileVars, manifest, paperDenseVars, scopeVars, overlapped, edits, faults>>

\* The papers whose points a call has deleted and not put back, while the manifest
\* may still have them.
Deleted(s) ==
  IF At(s, "embed") THEN sync[s].delta
  ELSE IF At(s, "manifest") THEN sync[s].delta \ Present(sync[s].snapshot)
  ELSE {}

EmbeddingFails(s) ==
  /\ \/ At(s, "embed") /\ sync[s].delta \cap Present(sync[s].snapshot) # {}
     \/ At(s, "embed_all")
     \/ At(s, "paper_dense") /\ paperManifest # LoadPaperRecords
  /\ faults < MaxFaults
  /\ holed' = holed \cup Deleted(s)
  /\ Goto(s, "failed")
  /\ faults' = faults + 1
  /\ UNCHANGED <<canonical, fileVars, denseVars, paperDenseVars, scopeVars, overlapped, edits>>

WriteManifest(s) ==
  /\ At(s, "manifest")
  /\ manifest' = Text(sync[s].snapshot)
  /\ Goto(s, "paper_dense")
  /\ UNCHANGED <<canonical, fileVars, points, paperDenseVars, scopeVars, history, edits, faults>>

-----------------------------------------------------------------------------
(* build_paper_dense_index: all papers at once, or nothing when the        *)
(* manifest has their digest                                               *)

BuildPaperDense(s) ==
  /\ At(s, "paper_dense")
  /\ LET papers == LoadPaperRecords
     IN  IF paperManifest = papers
           THEN Goto(s, "workspace") /\ UNCHANGED paperPoints
           ELSE /\ Set(s, [sync[s] EXCEPT !.pc = "paper_manifest", !.papers = papers])
                /\ paperPoints' = papers
  /\ UNCHANGED <<canonical, fileVars, denseVars, paperManifest, scopeVars, history, edits, faults>>

WritePaperManifest(s) ==
  /\ At(s, "paper_manifest")
  /\ paperManifest' = sync[s].papers
  /\ Goto(s, "workspace")
  /\ UNCHANGED <<canonical, fileVars, denseVars, paperPoints, scopeVars, history, edits, faults>>

-----------------------------------------------------------------------------
(* The scope, and the end of the call                                      *)

\* Another caller's workspace call is between two of its puts.
ScopeFree(s) == call = "none" \/ At(s, "scope")

SynchronizeScope(s) ==
  /\ At(s, "workspace") \/ At(s, "scope")
  /\ ScopeFree(s)
  /\ UNCHANGED <<canonical, fileVars, denseVars, paperDenseVars, history, edits, faults>>
  /\ Workspace!ServiceStep
  /\ Goto(s, IF call' # "none" THEN "scope" ELSE IF version' > version THEN "scoped" ELSE "workspace")

\* The published scope was the corpus, or now is what the corpus was: the operation
\* is recorded COMPLETED.
Complete(s) ==
  /\ \/ At(s, "scoped")
     \/ At(s, "workspace") /\ call = "none" /\ version > 0
        /\ Workspace!HasScope(version) /\ ~Workspace!OutOfDate
  /\ Goto(s, "completed")
  /\ UNCHANGED <<canonical, fileVars, denseVars, paperDenseVars, scopeVars, history, edits, faults>>

\* require_scope finds no snapshot of the published version.
ScopeMissing(s) ==
  /\ At(s, "workspace") /\ call = "none"
  /\ version > 0 /\ ~Workspace!HasScope(version)
  /\ Goto(s, "failed")
  /\ UNCHANGED <<canonical, fileVars, denseVars, paperDenseVars, scopeVars, history, edits, faults>>

\* The error is recorded as FAILED and raised; the user may submit the PDF again,
\* which finds the document in the corpus and synchronises at once.
Fail(s) ==
  /\ At(s, "failed")
  /\ Set(s, Idle)
  /\ UNCHANGED <<canonical, fileVars, denseVars, paperDenseVars, scopeVars, history, edits, faults>>

\* The API process dies: every running call is gone, the files stay.
Crash ==
  /\ \E s \in Syncs : Running(s)
  /\ faults < MaxFaults
  /\ sync' = [s \in Syncs |-> IF Running(s) THEN Idle ELSE sync[s]]
  /\ call' = "none" /\ planned' = {}
  /\ holed' = holed \cup UNION {Deleted(s) : s \in Syncs}
  /\ faults' = faults + 1
  /\ UNCHANGED <<canonical, fileVars, denseVars, paperDenseVars, version, scopes, members,
                 overlapped, edits>>

SyncStep(s) ==
  \/ Start(s) \/ RebuildCatalog(s)
  \/ \E p \in Papers : BuildDocument(s, p) \/ DocumentIssue(s, p)
  \/ PublishChunks(s) \/ PublishBM25(s) \/ PublishPapers(s)
  \/ BeginDense(s) \/ DeletePoints(s) \/ UpsertPoints(s) \/ RecreateCollection(s) \/ FillCollection(s)
  \/ EmbeddingFails(s) \/ WriteManifest(s)
  \/ BuildPaperDense(s) \/ WritePaperManifest(s)
  \/ SynchronizeScope(s) \/ Complete(s) \/ ScopeMissing(s) \/ Fail(s)

Next == EditPaper \/ Crash \/ \E s \in Syncs : SyncStep(s)

Spec == Init /\ [][Next]_vars

-----------------------------------------------------------------------------
(* What readers see                                                        *)

\* search_dense_evidence answers when the manifest has the digest of the chunks.
DenseAnswers == manifest # NONE /\ manifest = Text(chunks)

\* search_evidence answers when the BM25 index has it.
BM25Answers == bm25 # NONE /\ bm25 = Text(chunks)

\* corpus_summary: there are chunks, all of documents of the corpus; the counts it
\* takes from the four indexes are those of their sources when IndexReady holds.
Consistent == Present(chunks) # {} /\ Present(chunks) \subseteq Corpus

\* _index_projection_status: an index was built for what its source holds now.
IndexReady(index, source) == index # NONE /\ index = source /\ Present(source) # {}

\* knowledge_index_readiness compares digests and counts of the files, never the
\* points of the collections.
Ready ==
  /\ Consistent
  /\ IndexReady(bm25, Text(chunks)) /\ IndexReady(manifest, Text(chunks))
  /\ IndexReady(paperIndex, LoadPaperRecords) /\ IndexReady(paperManifest, LoadPaperRecords)

-----------------------------------------------------------------------------
(* Properties                                                              *)

\* A record of the paper projection has empty fields that its document no longer has:
\* the next call fills them, until then the paper indexes are out of date.
Refillable == \E p \in Papers : records[p] = 0 /\ canonical[p] # NONE /\ canonical[p].meta # 0

\* A dense search that passes its digest check never answers from an older text of
\* a paper, unless synchronisations have overlapped: whatever failed before, the points
\* of a paper that has chunks are those of its current text or are missing.  (Points
\* of a paper that lost its chunks may still be found; the evidence pipeline drops
\* what it cannot locate in the chunks.)
NoStaleText ==
  ~overlapped /\ DenseAnswers =>
    \A p \in Papers : chunks[p] # NONE /\ points[p] # NONE => points[p].text = chunks[p].text

\* A synchronisation recorded COMPLETED covered every document it found, unless
\* synchronisations have overlapped: its chunks are published, in both indexes and in
\* the published scope, and the readiness view calls the indexes ready but for empty
\* fields filled meanwhile.  The exception is a paper whose points a failed or dead
\* call left deleted: when its text is the one of the manifest no later call embeds it
\* again, and readiness, which does not see the points, does not tell.
CompletedIsSearchable ==
  \A s \in Syncs : At(s, "completed") /\ ~overlapped =>
    /\ \A p \in sync[s].seen : docChunks[p] # NONE /\ chunks[p] = Chunked(docChunks[p])
    /\ \A p \in Present(chunks) \ holed : points[p] # NONE
    /\ BM25Answers /\ DenseAnswers
    /\ Ready \/ Refillable
    /\ sync[s].seen \subseteq scopes[version]

\* A completed synchronisation put every document it found into the paper level,
\* from which the hierarchical search takes its candidates.  It does not hold: once
\* the paper projection has a record, it is its own source.
PapersReachable ==
  \A s \in Syncs : At(s, "completed") => sync[s].seen \subseteq Present(records)

\* A published scope can be used as a whole (Workspaces).
ScopeWhole == Workspace!ScopeWhole

\* A published scope version never changes (Workspaces).
ScopeStable == Workspace!ScopeStable
=============================================================================
