------------------------------ MODULE Ingestion ------------------------------
(***************************************************************************)
(* From a PDF to the catalogue: parse_paper (raw file, MinerU under the    *)
(* parse lock, OCR retry, canonical document), the verification of its     *)
(* metadata against the academic sources (enrich_paper_metadata,           *)
(* normalize_verified_paper) under another lock, and rebuild_catalog after *)
(* each of them.  Uploads of the web process, batches of the command line  *)
(* and curators run at once on the same files; the locks are FileLocks, so *)
(* a process that dies lets go of them, and the files stay as they are.    *)
(* MinerU is a process of its own and may outlive the one that started it. *)
(*                                                                         *)
(* A document keeps what the steps decide on: the text layer it was built  *)
(* from, the state of its metadata, its work and the raw file it names.    *)
(* Its blocks are in Normalization.                                        *)
(***************************************************************************)
EXTENDS Naturals, Sequences, FiniteSets

CONSTANTS
  Papers,          \* P_<sha256>: one PDF content each
  Uploads,         \* parse jobs of the web process
  Batches,         \* runs of `parse` or `batch` of the command line
  Curators,        \* enrichments and normalisations of the command line
  Garbled,         \* papers whose text layer makes should_retry_with_ocr ask for a second
                   \* run; a definite scan starts with OCR and is not among them
  DoiOf,           \* DoiOf[p]: the DOI the academic sources know p by, or NONE
  NONE,
  MaxFaults        \* bound on failed steps and killed processes

Parses == Uploads \cup Batches
Tasks == Parses \cup Curators

VARIABLES
  raw,             \* raw[p]: the PDF under data/raw/<p>, NONE or [file, whole]
  artifacts,       \* artifacts[p]: whole MinerU outputs, the newest last
  paper,           \* paper[p]: data/canonical/<p>/paper.json
  catalog,         \* papers.jsonl: the record of each paper
  works,           \* works.jsonl: the papers of each work and the preferred one
  task,            \* task[t]: local state of one call
  orphan,          \* orphan[t]: what a MinerU works on that outlived its call t, or NONE
  outlived,        \* the papers a MinerU ever outlived its call on
  disturbed,       \* a rebuild overlapped another one, or a call ended before its rebuild
  faults

childVars == <<orphan, outlived>>
libraryVars == <<raw, artifacts, paper>>
catalogVars == <<catalog, works>>
ingestionVars == <<libraryVars, catalogVars, task, childVars, disturbed, faults>>

Idle == [pc |-> "idle", paper |-> NONE, todo |-> {}, force |-> FALSE, source |-> NONE,
         seen |-> NONE, layer |-> "auto", records |-> NONE]

IngestionInit ==
  /\ raw = [p \in Papers |-> NONE]
  /\ artifacts = [p \in Papers |-> <<>>]
  /\ paper = [p \in Papers |-> NONE]
  /\ catalog = [p \in Papers |-> NONE]
  /\ works = {}
  /\ task = [t \in Tasks |-> Idle]
  /\ orphan = [t \in Parses |-> NONE] /\ outlived = {}
  /\ disturbed = FALSE /\ faults = 0

At(t, pc) == task[t].pc = pc
Set(t, r) == task' = [task EXCEPT ![t] = r]
Goto(t, pc) == Set(t, [task[t] EXCEPT !.pc = pc])
PaperOf(t) == task[t].paper

Working(t) == task[t].pc \notin {"idle", "returned", "raised"}
Verified(document) == document # NONE /\ document.state \in {"verified", "selected"}

\* The holder of the parse lock and of the metadata lock of a paper.
ParseLocked(p) == \E t \in Parses : At(t, "mineru") /\ PaperOf(t) = p
MetadataLocked(p) == \E t \in Curators : At(t, "renamed") /\ PaperOf(t) = p

-----------------------------------------------------------------------------
(* The catalogues                                                          *)

\* build_identity: verified metadata with a DOI names the work; otherwise a parse
\* gives the paper a work of its own, a curator none.
WorkFor(p, state, provisional) ==
  IF state # "parsed" /\ DoiOf[p] # NONE THEN <<"doi", DoiOf[p]>>
  ELSE IF provisional THEN <<"document", p>> ELSE NONE

\* works.jsonl: one record per work; a verified document is preferred.
MembersOf(documents, w) == {p \in Papers : documents[p] # NONE /\ documents[p].work = w}

Preferred(documents, w) ==
  LET members == MembersOf(documents, w)
      verified == {p \in members : documents[p].state = "verified"}
  IN CHOOSE p \in members : verified # {} => p \in verified

WorkCatalog(documents) ==
  {[work |-> w, papers |-> MembersOf(documents, w), preferred |-> Preferred(documents, w)] :
     w \in {documents[p].work : p \in {q \in Papers : documents[q] # NONE /\ documents[q].work # NONE}}}

\* library_status: what the catalogue lacks, keeps too long or has in an old form.
Stale == {p \in Papers : catalog[p] # paper[p]}

\* rebuild_catalog: scan_canonical_documents, then papers.jsonl, then the works,
\* which are scanned again.
Scan(t) ==
  /\ At(t, "scan")
  /\ Set(t, [task[t] EXCEPT !.pc = "publish", !.records = paper])
  /\ disturbed' = (disturbed \/ \E u \in Tasks : task[u].pc \in {"publish", "publish_works"})
  /\ UNCHANGED <<libraryVars, catalogVars, faults, childVars>>

PublishCatalog(t) ==
  /\ At(t, "publish")
  /\ catalog' = task[t].records
  /\ Set(t, [task[t] EXCEPT !.pc = "publish_works", !.records = paper])
  /\ UNCHANGED <<libraryVars, works, disturbed, faults, childVars>>

PublishWorks(t) ==
  /\ At(t, "publish_works")
  /\ works' = WorkCatalog(task[t].records)
  /\ Set(t, [Idle EXCEPT !.pc = "returned"])
  /\ UNCHANGED <<libraryVars, catalog, disturbed, faults, childVars>>

-----------------------------------------------------------------------------
(* parse_paper                                                             *)

\* An upload is one PDF; a hash the corpus knows skips the parse.
StartUpload(t) ==
  /\ t \in Uploads /\ At(t, "idle")
  /\ \E p \in Papers, force \in BOOLEAN :
       Set(t, [Idle EXCEPT !.paper = p, !.force = force,
                           !.pc = IF paper[p] # NONE THEN "scan" ELSE "ingest"])
  /\ UNCHANGED <<libraryVars, catalogVars, disturbed, faults, childVars>>

\* A batch parses its files one after another, whatever the corpus knows.
StartBatch(t) ==
  /\ t \in Batches /\ At(t, "idle")
  /\ \E files \in SUBSET Papers \ {{}}, force \in BOOLEAN :
       Set(t, [Idle EXCEPT !.pc = "next", !.todo = files, !.force = force])
  /\ UNCHANGED <<libraryVars, catalogVars, disturbed, faults, childVars>>

NextFile(t) ==
  /\ At(t, "next")
  /\ IF task[t].todo = {}
       THEN Goto(t, "scan")
       ELSE \E p \in task[t].todo :
              Set(t, [task[t] EXCEPT !.pc = "ingest", !.paper = p, !.todo = @ \ {p}, !.layer = "auto"])
  /\ UNCHANGED <<libraryVars, catalogVars, disturbed, faults, childVars>>

\* ingest_paper: a PDF that is already in the paper's directory is taken as it is,
\* otherwise the copy begins.
Ingest(t) ==
  LET p == PaperOf(t) IN
  /\ At(t, "ingest")
  /\ IF raw[p] # NONE
       THEN /\ Set(t, [task[t] EXCEPT !.pc = "precheck", !.source = raw[p].file])
            /\ UNCHANGED raw
       ELSE /\ Goto(t, "copy")
            /\ raw' = [raw EXCEPT ![p] = [file |-> "uploaded", whole |-> FALSE]]
  /\ UNCHANGED <<artifacts, paper, catalogVars, disturbed, faults, childVars>>

CopyDone(t) ==
  /\ At(t, "copy")
  /\ raw' = [raw EXCEPT ![PaperOf(t)].whole = TRUE]
  /\ Set(t, [task[t] EXCEPT !.pc = "precheck", !.source = "uploaded"])
  /\ UNCHANGED <<artifacts, paper, catalogVars, disturbed, faults, childVars>>

SourceExists(t) == raw[PaperOf(t)].file = task[t].source

\* precheck_pdf opens the file (one that was renamed is missing); then the document
\* of an earlier parse is read, long before this parse writes.
Precheck(t) ==
  /\ At(t, "precheck") /\ SourceExists(t)
  /\ Set(t, [task[t] EXCEPT !.pc = "lock", !.seen = paper[PaperOf(t)]])
  /\ UNCHANGED <<libraryVars, catalogVars, disturbed, faults, childVars>>

\* find_mineru_artifacts searches below its directory: the OCR output lies below
\* the first one, and the newest counts.
Found(p, layer) ==
  IF layer = "auto"
    THEN IF artifacts[p] = <<>> THEN NONE ELSE artifacts[p][Len(artifacts[p])]
    ELSE IF \E i \in DOMAIN artifacts[p] : artifacts[p][i] = "ocr" THEN "ocr" ELSE NONE

\* mutant: the lock of another process is not seen.
LockIgnored(p) == TRUE

LockFree(p) == ~ParseLocked(p)

\* Under the parse lock: artifacts are reused unless the call forces a new run.
TakeParseLock(t) ==
  LET p == PaperOf(t)
      found == Found(p, task[t].layer)
  IN
  /\ At(t, "lock") /\ LockFree(p)
  /\ IF found # NONE /\ ~task[t].force
       THEN Set(t, [task[t] EXCEPT !.pc = "normalize", !.layer = found])
       ELSE Goto(t, "mineru")
  /\ UNCHANGED <<libraryVars, catalogVars, disturbed, faults, childVars>>

MineruDone(t) ==
  LET p == PaperOf(t) IN
  /\ At(t, "mineru") /\ SourceExists(t)
  /\ artifacts' = [artifacts EXCEPT ![p] =
                     Append(SelectSeq(@, LAMBDA layer : layer # task[t].layer), task[t].layer)]
  /\ Goto(t, "normalize")
  /\ UNCHANGED <<raw, paper, catalogVars, disturbed, faults, childVars>>

\* should_retry_with_ocr, and parse_paper's test that the run was not OCR already.
NeedsOcr(p, layer) == layer = "auto" /\ p \in Garbled

\* build_canonical_document; a garbled first text layer takes the lock again and
\* has the OCR output made or reused.
Normalize(t) ==
  LET retry == NeedsOcr(PaperOf(t), task[t].layer) IN
  /\ At(t, "normalize")
  /\ Set(t, [task[t] EXCEPT !.pc = IF retry THEN "lock" ELSE "write",
                            !.layer = IF retry THEN "ocr" ELSE @])
  /\ UNCHANGED <<libraryVars, catalogVars, disturbed, faults, childVars>>

\* Verified or selected metadata of the document that was read is kept.
Metadata(t) == IF Verified(task[t].seen) THEN task[t].seen.state ELSE "parsed"

WriteDocument(t) ==
  LET p == PaperOf(t) IN
  /\ At(t, "write")
  /\ paper' = [paper EXCEPT ![p] =
       [layer |-> task[t].layer, state |-> Metadata(t), work |-> WorkFor(p, Metadata(t), TRUE),
        file |-> task[t].source]]
  /\ Goto(t, IF t \in Uploads THEN "scan" ELSE "next")
  /\ UNCHANGED <<raw, artifacts, catalogVars, disturbed, faults, childVars>>

-----------------------------------------------------------------------------
(* enrich_paper_metadata and normalize_verified_paper                      *)

\* The academic sources are asked about the title; no or a doubtful answer ends
\* the call after the review is written.
StartEnrichment(t) ==
  /\ t \in Curators /\ At(t, "idle")
  /\ \E p \in Papers, state \in {"verified", "selected"} :
       /\ paper[p] # NONE /\ (state = "verified" => DoiOf[p] # NONE)
       /\ Set(t, [Idle EXCEPT !.pc = "resolved", !.paper = p,
                              !.seen = [paper[p] EXCEPT !.state = state]])
  /\ UNCHANGED <<libraryVars, catalogVars, disturbed, faults, childVars>>

\* Under the metadata lock the document is read again: another title ends the call;
\* then the raw PDF, which must exist and have its hash, is renamed to the title.
Rename(t, document) ==
  LET p == PaperOf(t) IN
  /\ ~MetadataLocked(p) /\ raw[p].file = document.file /\ raw[p].whole
  /\ raw' = [raw EXCEPT ![p].file = "titled"]
  /\ Set(t, [task[t] EXCEPT !.pc = "renamed", !.source = document.file,
                            !.seen = [document EXCEPT !.file = "titled",
                                                      !.work = WorkFor(p, document.state, FALSE)]])
  /\ UNCHANGED <<artifacts, paper, catalogVars, disturbed, faults, childVars>>

Enrich(t) ==
  LET p == PaperOf(t) IN
  /\ At(t, "resolved") /\ paper[p].layer = task[t].seen.layer
  /\ Rename(t, [paper[p] EXCEPT !.state = task[t].seen.state])

NormalizeVerified(t) ==
  /\ t \in Curators /\ At(t, "idle")
  /\ \E p \in Papers :
       /\ Verified(paper[p])
       /\ Set(t, [Idle EXCEPT !.pc = "verified", !.paper = p])
  /\ UNCHANGED <<libraryVars, catalogVars, disturbed, faults, childVars>>

\* normalize_verified_paper wants verified metadata that names a work.
Normalizable(p) == Verified(paper[p]) /\ DoiOf[p] # NONE

RenameVerified(t) == At(t, "verified") /\ Normalizable(PaperOf(t)) /\ Rename(t, paper[PaperOf(t)])

\* mutant: the catalogue is left to the next parse.
WriteWithoutRebuild(t) ==
  /\ At(t, "renamed")
  /\ paper' = [paper EXCEPT ![PaperOf(t)] = task[t].seen]
  /\ Set(t, [Idle EXCEPT !.pc = "returned"])
  /\ UNCHANGED <<raw, artifacts, catalogVars, disturbed, faults, childVars>>

\* The document goes back as it was read under the lock, with the new metadata.
WriteVerified(t) ==
  /\ At(t, "renamed")
  /\ paper' = [paper EXCEPT ![PaperOf(t)] = task[t].seen]
  /\ Goto(t, "scan")
  /\ UNCHANGED <<raw, artifacts, catalogVars, disturbed, faults, childVars>>

\* The document cannot be written: the raw PDF gets its name back.
RollBackRename(t) ==
  /\ At(t, "renamed") /\ faults < MaxFaults
  /\ raw' = [raw EXCEPT ![PaperOf(t)].file = task[t].source]
  /\ Set(t, [Idle EXCEPT !.pc = "raised"])
  /\ faults' = faults + 1
  /\ UNCHANGED <<artifacts, paper, catalogVars, disturbed, childVars>>

-----------------------------------------------------------------------------
(* Failures and the end of a call                                          *)

\* A parse ends with an exception.  Its locks are released; a batch notes it and
\* goes on with the next file, an upload ends without the rebuild of the catalogue.
ParseRaises(t) ==
  /\ Set(t, IF t \in Batches THEN [task[t] EXCEPT !.pc = "next"] ELSE [Idle EXCEPT !.pc = "raised"])
  /\ disturbed' = (disturbed \/ task[t].pc \in {"scan", "publish", "publish_works"})
  /\ UNCHANGED <<libraryVars, catalogVars, childVars>>

\* The raw PDF was renamed since it was looked up.
SourceMissing(t) ==
  /\ task[t].pc \in {"precheck", "mineru"} /\ ~SourceExists(t)
  /\ ParseRaises(t) /\ UNCHANGED faults

\* MinerU or the PDF reader fails.
ToolFails(t) ==
  /\ task[t].pc \in {"precheck", "mineru"} /\ faults < MaxFaults
  /\ ParseRaises(t) /\ faults' = faults + 1

\* A curator's checks fail: another title, a raw PDF that is missing or torn.
CheckFails(t) ==
  LET document == paper[PaperOf(t)] IN
  /\ \/ At(t, "resolved") /\ document.layer # task[t].seen.layer
     \/ At(t, "verified") /\ ~Normalizable(PaperOf(t))
     \/ /\ task[t].pc \in {"resolved", "verified"}
        /\ raw[PaperOf(t)].file # document.file \/ ~raw[PaperOf(t)].whole
  /\ ~MetadataLocked(PaperOf(t))
  /\ Set(t, [Idle EXCEPT !.pc = "raised"])
  /\ UNCHANGED <<libraryVars, catalogVars, disturbed, faults, childVars>>

\* Processes end at any point of their calls.  A MinerU they started ends with them or
\* goes on without them, and without the lock.
Killed(ts) ==
  \E left \in SUBSET {t \in ts \cap Parses : At(t, "mineru")} :
    /\ task' = [t \in Tasks |-> IF t \in ts THEN [Idle EXCEPT !.pc = "raised"] ELSE task[t]]
    /\ orphan' = [t \in Parses |->
         IF t \in left THEN [paper |-> PaperOf(t), layer |-> task[t].layer] ELSE orphan[t]]
    /\ outlived' = outlived \cup {PaperOf(t) : t \in left}
    /\ disturbed' = (disturbed \/ \E t \in ts : Working(t))
    /\ UNCHANGED <<libraryVars, catalogVars>>

\* It writes its output, or fails.
OrphanEnds(t) ==
  LET child == orphan[t] IN
  /\ child # NONE
  /\ \/ artifacts' = [artifacts EXCEPT ![child.paper] =
                         Append(SelectSeq(@, LAMBDA layer : layer # child.layer), child.layer)]
     \/ UNCHANGED artifacts
  /\ orphan' = [orphan EXCEPT ![t] = NONE]
  /\ UNCHANGED <<raw, paper, catalogVars, task, outlived, disturbed, faults>>

\* Steps that report a stage first; the report of a web job may raise instead.
Reports(t) ==
  \/ task[t].pc \in {"ingest", "precheck", "normalize", "write", "scan"}
  \/ At(t, "lock") /\ task[t].layer = "auto"

ParseStep(t) ==
  \/ Ingest(t) \/ CopyDone(t) \/ Precheck(t) \/ TakeParseLock(t) \/ MineruDone(t)
  \/ Normalize(t) \/ WriteDocument(t) \/ SourceMissing(t) \/ ToolFails(t)
  \/ Scan(t) \/ PublishCatalog(t) \/ PublishWorks(t)

BatchStep(t) == StartBatch(t) \/ NextFile(t) \/ ParseStep(t)

CuratorStep(t) ==
  \/ StartEnrichment(t) \/ Enrich(t) \/ NormalizeVerified(t) \/ RenameVerified(t)
  \/ WriteVerified(t) \/ RollBackRename(t) \/ CheckFails(t)
  \/ Scan(t) \/ PublishCatalog(t) \/ PublishWorks(t)

-----------------------------------------------------------------------------
(* Properties                                                              *)

\* MinerU never works for two calls in the directory of one paper, and never does
\* again what lies there whole, unless it is told to (parse_paper's lock and the
\* check under it) or one has outlived its call there.
MineruOnce ==
  \A t \in Parses : At(t, "mineru") =>
    /\ \A u \in Parses \ {t} : At(u, "mineru") => PaperOf(u) # PaperOf(t)
    /\ ~task[t].force /\ PaperOf(t) \notin outlived => Found(PaperOf(t), task[t].layer) = NONE

\* A call has the directory of its paper for itself while it runs MinerU (the comment
\* on the parse lock in parse_paper).
MineruAlone ==
  \A t, u \in Parses : At(t, "mineru") /\ orphan[u] # NONE => orphan[u].paper # PaperOf(t)

\* When no call is at work, both catalogues describe the documents as they are,
\* unless a rebuild overlapped another one or a call died before its rebuild.
CatalogFollowsPapers ==
  (~disturbed /\ \A t \in Tasks : ~Working(t)) => Stale = {} /\ works = WorkCatalog(paper)
=============================================================================
