# LEO Research Agent in TLA+

The LEO research agent keeps a corpus of papers, answers questions from it, and
turns a user's request into a bounded run of four CrewAI agents (manager,
research, writer, reviewer) whose only lasting product is a *patch proposal* for
a LaTeX manuscript, which a human accepts or rejects.  What the language models
say is outside any model checker's reach.  Everything around it - the durable
queue, the run and session stores, recovery and resumption, approval and the
guarded write to the manuscript, the research and writing services with what
they check, the event stream, and the corpus with its catalogues, indexes,
scopes and downloads - is state-machine code spread over processes, threads,
files and SQLite databases.  This directory specifies it, model-checks it on
small instances and proves its core for every instance.

## 1. The system

```text
 browser / CLI                    worker processes (1..n, restarted by Docker)
      |                                  |
 ScholarRunManager  --submit-->   jobs table (PersistentJobRepository)
   create/cancel/resume           claim, lease, heartbeat, settle, recover
      |                                  |
 SessionManager + SessionRuntime   ScholarRunWorker -> Harness
   (session.db per session:          -> ScholarOrchestrationService
    runs, goal, checkpoint)            -> CrewAIOrchestrationFlow
      |                                  |      -> research -> corpus, literature
 RunEventStore --SSE--> browser          |      -> writing  -> citations
                                   ScholarProjectStore (.scholar/project.db)
                                         |
              human  -->  PatchApprovalService  -->  sections/*.tex, references.bib

 browser --PDF--> JobManager (web jobs, threads of the API process)
 CLI: parse, batch, enrich  \        |
 academic MCP server: inbox  -> parse_paper -> canonical documents -> catalogues
                                        -> synchronize_after_parse
                                           chunks, BM25, dense, papers, scope
                                        -> retrieval -> evidence -> context -> answer
```

### Inventory

| Component | State it keeps | Operations | What is hard about it |
|---|---|---|---|
| Job queue, `app/jobs/repository.py` | the `jobs` table: status, attempt, worker, lease token, heartbeat, available_at, result; job events | submit, claim_next, claim, heartbeat, set_status, request_cancel, mark_interrupted, recover_interrupted, requeue_failed, append_event | several processes; stale reads between two transactions; leases; retry budgets; scope limits |
| Job worker, `app/jobs/worker.py` | the job in hand, its token, the heartbeat thread | recover_after_restart, run_once, checkpoint, heartbeat loop | crash at any point, stalls longer than the heartbeat window, cancellation racing completion |
| Run manager and Scholar worker, `app/scholar/runs.py` | none of its own; joins the jobs table with the session stores | create, cancel, reconcile_job, reconcile_durable_state, enqueue_resume, execute, _resume | two databases without a common transaction; reconciliation from stale snapshots |
| Session manager and runtime, `app/session/` | catalog, per-session runs, goal, checkpoint, messages | create_run, start_run, queue_run, bind_job, save/load/clear_checkpoint, complete_run | who may overwrite a terminal run; one active run per session |
| Orchestration service, `app/orchestration/service.py` | run counters, capability budget, checkpoint | run, resume, persist_result, persist_checkpoint | order of checkpoint, result, event and session pointer; failure in the middle |
| CrewAI flow and validator, `app/orchestration/crewai/flow.py`, `manager.py` | phase, counters, pending action | the manager decision loop | budgets, no-progress detection, review gate, replay of the pending action |
| Patch approval, `app/scholar/approval/`, `manuscript.py`, `citation/bibliography.py` | patches, audits, manuscript projection; the `.tex` and `.bib` files | register, approve, reject, apply, report_build | three durable places written in sequence, an editor that takes no lock, crashes between writes |
| Run events, `app/scholar/events.py`, `console.py`, the stream of `app/web/api.py` | append-only events with a cursor per run; a client's last cursor | append, append_trace, list_after, projection, stream, reconnect | concurrent appends, idempotent sources, a source of events that changes under the client |
| Research capability, `app/scholar/research/` | `literature_cache.json`; the evidence pipeline's last diagnostics | retrieve, search_papers, read_evidence, build_evidence_pack, research | threads over one pipeline, a cache file written as a whole, a corpus edited during a web call |
| Writing runtime, `app/scholar/writing/`, `app/scholar/citation/` | the registered patch | write_introduction, write_synthesis, review, support_claim, resolve | needs researched in parallel, keys chosen while the bibliography is edited, a bounded revise loop, replay after a crash |
| Web jobs, `app/web/jobs.py` | the same jobs table, a thread pool, result files | submit, the thread of a job, cancel, restart recovery | blind writes of a row from two threads; a restart that forgets the closure |
| Ingestion and catalogues, `app/ingestion`, `app/parsing/pipeline.py`, `app/knowledge/` | raw PDFs, MinerU artifacts, canonical documents, `papers.jsonl`, `works.jsonl` | parse_paper, batch, enrich, normalize, rename, rebuild_catalog | two locks, minutes between a read and the write after it, killed processes |
| Index synchronisation, `app/knowledge/index_service.py`, `app/indexing/` | chunks, BM25, two dense collections with manifests, paper projection | synchronize_after_parse, readiness, searches | nine files and two collections published one by one; partial failure |
| Workspaces, `app/workspaces/` | workspace, scope versions, memberships | ensure_default, replace_scope_documents | three writes that publish one version |
| Blocks of a document, `app/normalization/`, `app/parsing/*_recovery.py`, `quality.py` | MinerU's output, results of the OCR workers, by image | build_canonical_document, augment_native_pdf_text, recover_*, validate_canonical_document | four passes over one document; workers that die, fail or are missing; results kept across parses |
| Chunking, `app/chunking/` | pure: blocks to sections to chunks | build_structure, build_chunks | splits, absorption and overlap at token limits |
| Retrieval, evidence, context, generation | pure over one question, but the corpus moves | retrieve, govern, assemble, answer | filters, deduplication and budgets applied in several stages |
| Academic MCP server, `app/academic_mcp/` | tokens of a session, `data/inbox` | search_papers, find_fulltext, download_open_pdf | answers that overlap or fail; downloads that interleave at every await |
| UI, console views, evaluation, observability, MySQL projection, OCR scripts | none, or projections | request handlers, read views | I/O around the components above |

### How the parts interact

* **Calls.** The API process calls `ScholarRunManager`; a worker process calls
  `ScholarRunWorker`, which calls the orchestration service, which calls the
  domain services.  The API's `JobManager` runs uploads in threads of its own.
* **Shared state.** API and worker processes share the jobs database, one
  session database per session, the catalog, the event database and the project
  database; command line, API and workers share the corpus files.  Each SQLite
  transaction and each `os.replace` is atomic; nothing is atomic across two.
* **Messages.** The only message between processes is a row of the jobs table;
  cancellation is a status of that row that handlers poll at checkpoints.  To
  the browser, events flow over a stream that it resumes from its last cursor.
* **Time.** A heartbeat older than a threshold makes a row stale; retries wait
  for `available_at`; the project lock is waited for 30 s; cached literature
  answers have a time to live.

### What makes each component correct

| Component | Must hold |
|---|---|
| Job queue and worker | a lease fences every earlier claimant; a result is published only by the last attempt; attempts stay within budget; the scope limit; a terminal row stays, but for a replay or a late cancellation; a job ends unless it is stranded |
| Run manager, sessions, orchestration | one Run per idempotency key; no Run completes past its human; a RUNNING Run has somebody who will close it; a Run that has its Job ends or asks its user, unless its Job is stranded |
| CrewAI flow and validator | a human is asked only for a registered draft that passed its review and rests on verified evidence; budgets survive crashes; an interrupted capability may be replayed; every flow ends |
| Patch approval | a text is applied at most once; a patch is APPLIED only when everything about it is on record; no text of another patch is lost; citations resolve; a decision gets its outcome, unless its call dies or an exception leaves it |
| Run events | no event is lost, doubled or reordered for a client, whoever appends and however often its connection breaks |
| Research | evidence is the corpus's text of the time; freshness is claimed only on an answer of a provider; every claim of a pack is backed or listed as open |
| Writing | an approved text rests each claim on the evidence of its need, covers the papers it must, and is never replaced under the human |
| Web jobs, ingestion, catalogues | a succeeded job is complete; one call at a time runs MinerU on a paper; the catalogues follow the documents |
| Index synchronisation, workspaces | while synchronisations do not overlap, no search answers from an old text and COMPLETED means searchable; a published scope is whole and never changes |
| Blocks and chunks | what can be read of a paper is searchable and nothing else is; no text is lost or doubled; no chunk mixes sections or zones |
| Retrieval to answer | evidence keeps the filters of its search and the scope version of the request; claims cite what was packed |
| Academic discovery | sources share a limit fairly; a returned download stays what it was |

## 2. Plan

Done, in this order: `JobQueue` and its proofs, `PatchApproval`, `FlowContract`,
`ScholarRun`, `ManagerFlow` and its proofs, `Research`, `Writing`, `Workspaces`,
`Knowledge`, `Chunking`, `WebJobs`, `Ingestion`, `Uploads`, `Retrieval`,
`Discovery`, `RunEvents`, `Normalization`, `PatchApprovalProofs`,
`ScholarRunProofs`, `KnowledgeProofs` (with the scopes of `Workspaces`, the
chunks of `Chunking` and the parses of `Normalization`, which `KnowledgeBase` puts
beside `Knowledge`),
`ResearchProofs`, `WritingProofs`, `Services` and `ServicesProofs` (uploads,
downloads, events, evidence, answers, searches).  What is left:

| What | Why it is worth it | What it takes |
|---|---|---|
| liveness | four properties | a prover that handles ENABLED |

Abstract specifications still worth stating: the queue as a set of jobs each
executed at most `MaxAttempts` times with one published result, and an approval
as one atomic compare-and-replace (which `PatchApproval` implements only while
no process dies and no editor saves between test and replacement).

## 3. The modules and the code

All modules follow one rule: every SQL transaction and every file operation
that takes effect on its own is one action, and a method that reads, lets go
and writes later is split exactly there, keeping what it read in its process's
record.  `PROJECT.json` maps each definition to its lines.

**`JobQueue`** - `job` is the jobs table (a row's status, attempt, owner, lease,
result, and time as the two facts `fresh` and `due`), `worker` the worker
processes with the job and lease they hold and what their recovery has read,
`caller` the calls of `request_cancel` between their SELECT and UPDATE.
`Submit`, `ClaimNext`, `CheckCancel`/`Checkpoint`, `HeartbeatLoop`,
`HandlerEnds`, `StillOwned`/`StillCancellable`, `Settle` are the statements of
`submit`, `claim_next`, `checkpoint`, the heartbeat thread and `run_once`;
`Restart`, `RecoverSelect`, `MarkInterrupted`, `RecoverUpdate` are
`recover_after_restart`, which a process runs once, when it starts, on the rows
that are stale by then.  The process may start at any moment, so it may be too
early for the row of its predecessor.  `RequeueFailed` is the dead-letter replay.
`issued` and `resets` are history.

**`PatchApproval`** - tables `patch`, `audits`, `projection`, `registry`; the two
files `tex` and `bib`; the write `lock`; `request`, the calls of `approve()`,
each with its location inside `_approve_unlocked` and `_apply`.  One action per
step: take the lock or time out, refuse or block, APPROVED, APPLYING, scan,
reconcile and replace the bibliography, check and replace the section, rescan,
save the projection, audit, persist the bindings, APPLIED.  The editor
(`SaveSection`, `SaveBibliography`) takes no lock.  `Crash` ends a call anywhere
and frees the lock, as the operating system does.  The first scan of an apply
and the save of the projection raise outside any handler (a file error, or
ProjectRevisionConflict): the call ends, the process lives, and the row stays
APPLYING; `left` has the patches whose call ended so or died.

**`ScholarRun`** - composes what several parts do to one Run: `run` (agent_runs,
with its checkpoint and patch), `job` (the Run's job and its resume jobs, with
the parts of `JobQueue` a Run depends on), `call` (where each `create()` is),
`user` (a cancel, resume or decision between its statements), `worker` (where a
worker is in `execute`, `_resume`, `run_once` or the restart's sweep, with what
it last read).  The flow itself is three actions, `SaveCheckpoint`, `Propose`,
`FlowEnds`.  `Restart` may come at any moment and finds any part of the leased
rows stale, the rows of live workers only where stalls are possible.

**`FlowContract`** states those three actions as a specification of their own;
**`ManagerFlow`** is the flow in full and implements it.  `fs` is FlowState in
memory, `checkpoint` its copy in the session store, `writer` and `evidence` the
specialists' outputs, which no restart brings back, `patch` the registered
draft.  `ManagerDecides` is one turn of the manager: any proposal the validator lets
through is counted and written to the checkpoint with the capability to replay.
`Research`, `Write`+`Written` (the patch is stored one model call before the
flow takes the answer over), `Review`, `CompleteFlow` and `Fails` are the
capabilities and ends; `Interrupt` and `Restart` the death of the process and
`_run_impl` on the same Run.  The manager and the specialists are arbitrary.
Checks of a proposal's wording (target, goal alignment, completion status), the
tool and token budgets and every exception are the action `Fails`, because they
end the flow in the same way; `review_round`, `stage`, `current_agent` and the
histories are read by no decision.

**`Research`** - one `req[r]` per research request, with the place it has
reached and what it read on the way: `SearchPapers`, `SearchSections`,
`Backfill`, `ReadEvidence`, `CheckCandidates`, `VerifyNext`, `ReadConflicts`,
`MapEvidence` are the stages of the local evidence pipeline, `Decide` the
FreshnessPolicy, `LookUp` to `WriteCache` the discovery with retries, timeouts
and the cache, `WebCandidates`, `FreshnessChecked` and `JudgePack` the merge and the
verdict.  `corpus` gives each chunk its revision; `Edit` publishes or removes
a document at any moment.  `cache` is the JSON file: a call loads all of it and
later writes all of it.  `Keep(s, good)` is every filter over a ranked list: what
is good, in the order it was in.

**`Writing`** - one `call[r]` per skill request: `Start`, `ScanManuscript`,
`ReadSection`, `FinishNeed` for every need in any order, `CollectPacks`,
`Handoff`, `Resolve` (one citation at a time, each against the bibliography of
that moment), `CheckSources`, `Judge`, `Generate`, `ReviewDraft`, `Revise`,
`Rescan`, `Register`.  A writer's draft may have any of the defects `Slips`
names; the review is what the code checks.  `EditSection`, `EditBib`, `Retract`
are the user's, `Crash` executes the Run again under the same request id.

**`Workspaces`** is the abstract promise of the versioned scopes, put by put.
**`Knowledge`** is `synchronize_after_parse`: one variable per file or
collection, each with the content or digest it was built from, one action per
publication, an issue, an embedding error or a crash between any two.  Several
synchronisations may run at once; `overlapped` remembers that they did, `holed`
whose points a call deleted before it failed or died.  A document may have no
chunks, and a record of the paper projection takes its empty fields from the
document each time it is loaded (`WithFields`).  The scope
is moved by the actions of `Workspaces`, which it instantiates with the corpus
computed from the documents.  A document is a pair of revisions, text and
metadata, because the digests cover the first and the fingerprints both.

**`Normalization`** - `stage` is the pass of `parse_paper` over the document:
`BuildDocument`, `AugmentNativeText`, `RecoverTable` (one table, one worker),
`RecoverFormulas` (one worker for all formulas, which may stop after any of
them), `ValidateDocument`; `ParseDies` between any two.  MinerU's output and
`cache`, the files of the workers, outlive a parse; `host` says whether recovery
is enabled and its environment there.  Words and LaTeX are what the gates tell
apart.

**`Chunking`** - `ReadBlock` is one iteration of `build_structure` (zone and section
stack), and `Chunks` is `build_chunks` as a fold over what was read: split, pack,
absorb, overlap, each a recursive function along its list.  A text is a sequence of
sentences and a sentence one of words, each with its number of tokens: sentences and
words are packed up to the maximum, a word beyond it stays one part, and only a
sentence of one word is cut into windows of characters (`Cut`).  The properties
compare chunks with blocks, not with the algorithm.  **`KnowledgeBase`** puts
`Normalization`, `Chunking` and `Knowledge` side by side for a run and for the
theorems.

**`WebJobs`** is the thread pool of the web process over rows of the jobs table,
**`Ingestion`** `parse_paper`, enrichment, normalisation and `rebuild_catalog`
under their two locks, and **`Uploads`** puts one under the other: the task of a
web job is an upload, its progress events are where a cancellation reaches it,
and a restart of the web process ends its uploads and not the command line's.  A
killed call lets go of its locks and its MinerU may go on: `orphan` is what such a
process still writes (`OrphanEnds`), `outlived` the papers it ever happened on.

**`Retrieval`** - one question, `stage` by stage: `Ask` (which fixes mode and
filters, of which the hierarchical path takes neither work nor document),
`RankPapers`, `SearchChunks`, `Rank`, `Govern`, `Assemble`, `Answer`.
The indexes return any ranking of what is eligible; fusion, the paper gate, the
reranker's blend, the selection and the packing are the code's.  Chunks and
scopes may change in between.

**`Discovery`** - `SearchFiltered` merges, interleaves, filters and cuts the
sources' answers; `StartDownload`, `Stream`, `PublishDownload` are a download
between its awaits, `Cancel` and `EndSession` what may end it.

**`RunEvents`** - `writer` holds, per process, the transactions it still has to
make (row, queue, event), `transaction` the open append of a process, `store`
the events, `client` the browser with its last cursor and where its stream is.

**`Services`** extends `Uploads` and instantiates `Retrieval`, `Discovery` and
`RunEvents` beside it, with the properties of all four, so that the run that
checks them and the proofs about them speak of the same definitions.

`MC*` modules define the values of an instance, which the `.cfg` gives to the
constants.  Most put several small instances into one run: the initial state
chooses which of them a behaviour is about, and only that one moves.  So
`MCDeployed` has a service from outside (`ScholarRun`) and a flow from inside
(`ManagerFlow`), `MCSpecialists` research calls and a writing request.

## 4. The runs

| Run | Instance | Shows |
|---|---|---|
| `JobQueue` | 2 workers that may stall past the window, die and be restarted at any time; either 1 job, 1 canceller, 2 crashes and 1 reset, or 2 jobs of one scope and 1 crash | LeasesFence, PublishedByLastAttempt, RetryBudget, ScopeLimitKept, TerminalFrozen, JobsSettle |
| `JobQueueFence` (violation) | 1 job, 1 worker, 1 canceller | `request_cancel` ends a leased row without the token: TerminalWritesFenced fails |
| `JobQueueRecovery` (violation) | 1 job, 1 worker, 1 crash | a worker restarted at once passes the row of its predecessor over for good: LostJobsRecovered fails |
| `PatchApproval` | 2 patches; either 2 requests and 1 edit of the section, or 1 request at a time, 1 work that the patches cite and a user who edits the bibliography; 1 crash, failing file operations | AppliedExactlyOnce, AppliedIsRecorded, PatchesSeeEachOther, CitationsResolve, ApprovalConcludesOrRaised |
| `ScholarRunSafety` | 1 Run, 2 workers of which one may die, a user who cancels, resumes and decides | HumanGate, RunningIsWatched |
| `Deployed` | either 2 calls with one key in two sessions, 1 worker (docker-compose.yml) restarted at any time, decisions, 2 faults of any kind; or 1 flow on 4 routes, 2 texts, 8 steps, 3 research rounds, 3 reviews, 2 process deaths | OneRunPerKey, RunsSettle; ApprovalEarned, WorkBounded, ReplayAllowed, FlowTerminates, ImplementsContract |
| `Specialists` | either 2 research requests of one process and one cache key in three mixes of policies, 3 documents (one out of scope), 4 chunks, 2 works, 1 edit, a cache entry that expires, 2 attempts per lookup; or 1 writing request of each of ten profiles, 2 needs, 2 works whose keys collide, four kinds of defects, 1 edit, 2 executions | EvidenceCurrent, FreshnessHonest, ClaimsBacked; PapersCovered, ApprovedIsGrounded, ProposalKept |
| `Knowledge` | 2 papers, 2 synchronising jobs, 3 parses or corrections, 2 faults; 2 parses of a paper of 2 blocks on 2 pages; documents of up to 6 blocks with nesting sections and 4 with zones | NoStaleText, CompletedIsSearchable, ScopeWhole, ScopeStable; NothingLost, ChunksCoherent |
| `KnowledgePapers` (violation) | the same papers, 1 job | a paper parsed after the first build never enters the paper projection: PapersReachable fails |
| `Services` | two uploads, or one with a curator or a batch, or a batch with two curators, on two PDFs of one work, 1 restart, 1 fault; one question over 3 documents and 4 chunks, 1 edit; answers of 3 sources; 2 downloads of one name in 2 sessions; a Run with a decision, a retry with a death, or from before the store | SucceededIsComplete, MineruOnce, CatalogFollowsPapers; EvidenceKeepsFilters, AnswerGrounded; FairShare, DownloadsKept; EventsReplay |
| `ServicesOrphan` (violation) | the same uploads | the MinerU of a killed call works in the directory in which the next call runs its own: MineruAlone fails |
| `ServicesTarget` (violation) | the same question | asked for one document, the hierarchical path answers from others: EvidenceIsOfTarget fails |

The type invariants are part of the inductive invariants of section 5, which are
proved rather than run.

### Bounds, and why they are enough

* *Processes.* Every guard that protects a row compares one process with the
  row, so two of a kind (two workers, two requests, two creates, two uploads,
  two downloads) meet every pairwise interleaving; a third adds no new pair.
* *Crashes and faults.* One where two jobs or two processes are already
  interleaved, two where one is (a fault during the recovery from a fault).
* *Attempts.* `MaxAttempts` 2: a first, a last.  One reset replays a dead letter.
* *Edits, texts, works.* The code compares contents for equality only; two
  texts and the original are all that a comparison can tell apart.  Two works
  that share a key stem are needed for a collision, three documents for one
  that is out of scope next to two that compete.
* *Flow budgets.* The product runs with 12 steps, 2 research rounds and 3
  reviews.  8 steps reach draft, revision, further research and a second review
  with two replays in between; 3 research rounds because with the default of 2
  NO_PROGRESS_LOOP can never fire; WRITE_ABSTRACT takes the same guards as
  WRITE_CONCLUSION and SUPPORT_CLAIM those of RESEARCH.
* *Research and writing.* Two requests of one key share one cache entry and can
  both find it missing; one edit can fall before, in or after the web call.
  The product revises at most twice; one round meets a draft that is accepted at
  once, after a revision, and never.  With one edit every key of a draft has a
  binding; that one loses it takes two edits of `references.bib` (section 6).
* *Knowledge.* Three edits let both papers be parsed and one be changed once
  more; two faults let the call that repairs a failure fail as well.  A text may
  go back to having no chunks, the only way to a text the manifest has had.  Two
  jobs may run one after another or at once; from the moment they overlap,
  `WithinOverlap` allows no fault and no edit past the first, because only the
  two facts about scopes speak of what follows.  Papers and jobs are symmetric.
* *Blocks.* The passes look at one block at a time, but for lengths added per
  page and results shared by image: two blocks on two pages meet each of these.
  Of two parses the second finds what the first, dead or not, left.
* *Chunks.* A chunk limit of 4 tokens with a minimum of 3 and an overlap of 2
  puts splits, absorption and overlap within six blocks; the sections nest
  three deep, which is the least that absorbs twice in a row.
* *Retrieval.* `Limit` and `PaperLimit` 2 over 3 documents cut something at
  every stage; the context budget holds two of four chunks with their context.
* *MinerU that outlived its call.* A kill leaves at most one per paper; it may
  end, with or without output, at every later moment.
* Symmetry is used only in runs without liveness properties, over workers,
  papers or jobs that no constant tells apart.

CHECK_DEADLOCK is off because the modelled systems may rightly stop: all jobs
terminal or stranded, all Runs over, a patch decided, a flow ended, a question
answered, a client at the end of its stream, and all bounded edits and faults used up.

### Fairness

Weak fairness on the steps of a process that is up (its own code goes on), on a
restart (`restart: unless-stopped` in docker-compose.yml) and on the passing of
time.  A restart does not wait for a lease to grow old: it may come before, and
then nobody looks at the row again while all workers stay up.  `JobsSettle` and
`RunsSettle` therefore allow a job or Run that stays blocked for ever, and name
behind what.  Strong fairness only on the end of a handler in `JobQueue`: heartbeats
and polls may interleave with it for ever, but its work is bounded - which
`FlowTerminates` of `ManagerFlow` shows for the flow.  Users, cancellations,
decisions, crashes, stalls and store failures are never forced.  `ManagerFlow`
needs only that *some* step of the flow is taken.  `Research`, `Writing`, `Knowledge`
and `Services` check safety only and state no fairness.

## 5. What is proved

Checked by TLAPS for every value of the constants and every bound:

| Theorem | Says |
|---|---|
| `JobQueueProofs!TypeCorrect` | `Spec => []TypeOK` |
| `JobQueueProofs!Fencing` | a lease is never shared, however many claims, recoveries and replays |
| `JobQueueProofs!Publication` | a result belongs to the last attempt |
| `JobQueueProofs!AttemptsAccounted` | claims = attempt counter + one budget per reset |
| `JobQueueProofs!LimitHolds` | a scope never runs more jobs than its limit |
| `JobQueueProofs!TerminalRowsStay` | only an operator's replay, or a `request_cancel` that read the row before it ended, moves a terminal row |
| `PatchApprovalProofs!ExactlyOnce` | a patch replaces the section at most once, and its row says so truthfully |
| `PatchApprovalProofs!Recorded` | APPLIED has its audit entry and its bindings on record |
| `PatchApprovalProofs!SeenBeforeReplaced` | a patch replaces the text of another only if it was drafted on it |
| `PatchApprovalProofs!EveryCitationResolves` | what a written patch cites is in `references.bib`, while no user removes entries |
| `ScholarRunProofs!NoRunPassesItsHuman` | a writing Run is COMPLETED only after its patch was applied or rejected |
| `ScholarRunProofs!OneRunOfAKey` | of the Runs of one idempotency key only the one the Job names is worked on |
| `ScholarRunProofs!RunningRunsAreWatched` | a RUNNING Run has somebody who will close it, while no live worker stalls past the window |
| `ManagerFlowProofs!TypeCorrect` | no counter leaves its budget, whatever the manager proposes |
| `ManagerFlowProofs!EarnedApproval` | the human is asked only for a registered, passed, grounded draft |
| `ManagerFlowProofs!BoundedWork` | an interruption costs at most the capability it interrupted |
| `ManagerFlowProofs!ReplaysPass` | the validator lets the replay of an interrupted capability through |
| `ManagerFlowProofs!Refinement` | `ManagerFlow` implements `FlowContract` |
| `KnowledgeProofs!WorkspaceInvariant` | what the corpus, the scope file and a running call know of each other |
| `KnowledgeProofs!PublishedScopesAreWhole` | every published snapshot is stored and graded, whatever put the process died after |
| `KnowledgeProofs!PublishedScopesAreStable` | a published version never changes |
| `KnowledgeProofs!ImplementsWorkspaces` | the synchronisation of the knowledge files implements `Workspaces` |
| `KnowledgeProofs!ScopesStayWhole`, `ScopesStayFixed` | so both facts hold of it, with its failures, edits and crashes |
| `KnowledgeProofs!DenseSearchIsCurrent` | a dense search that passes its digest check answers from no older text of a chunked paper, unless synchronisations have overlapped |
| `KnowledgeProofs!CompletedCallsAreSearchable` | what a COMPLETED synchronisation saw is in the chunks, both indexes and the scope, with the same exception and that of points a failed call deleted |
| `KnowledgeProofs!ChunksRespectSections` | a chunk keeps to one section, one zone and, unless it is a single word, the maximum; its contexts are small texts of the sections above it, and its overlap ends the chunk before, whatever the document |
| `KnowledgeProofs!NothingIsLost` | what can be read of a paper is in the document each parse of it writes, what an OCR worker read counts, nothing unreadable is searchable, and no text of it is lost in the chunks, whatever fails or dies |
| `KnowledgeProofs!NoTextIsLost` | each part of each searchable block is in the chunks once and in document order, whatever the document, when no heading is repeated on one path and two small chunks of one section would fit in one |
| `ServicesProofs!OneMineruRun` | MinerU never works for two calls at once on one paper, and never repeats work that lies whole, unless told to or a MinerU outlived its call there |
| `ServicesProofs!CatalogKeepsUp` | with no call at work the catalogues are those of the documents, unless rebuilds were disturbed |
| `ServicesProofs!SucceededStaysComplete` | a SUCCEEDED job has its terminal event, its result and a document |
| `ServicesProofs!EvidenceFollowsItsSearch` | evidence keeps the filters of the search it comes from (a hierarchical one has none for work and document), each chunk once and no work beyond its share, in the scope version of the request, whatever indexes and cross encoder return |
| `ServicesProofs!AnswersAreGrounded` | an accepted answer cites its context, which comes from the results, keeps its budget and repeats nothing, whatever the model drafts |
| `ServicesProofs!SourcesShareTheLimit` | of k sources that answered a search, the first limit/k records of each that pass are in the result |
| `ServicesProofs!DownloadsStay` | a returned download stays what it was |
| `ServicesProofs!ReplayIsSafe` | a client gets the events of a Run in order, each once, whatever breaks |
| `ResearchProofs!ClaimsAreBacked` | each claim of a pack is backed by an item of it or listed as open |
| `ResearchProofs!FreshnessIsHonest` | freshness rests on a provider's answer to the same question, less than one TTL old |
| `ResearchProofs!EvidenceIsCurrent` | local evidence is in the request's scope, with a text the corpus held while it was validated |
| `WritingProofs!IntroductionsAreGrounded` | each claim of an approved text rests on evidence of its own need |
| `WritingProofs!IntroductionsAreCovered` | a registered introduction with a minimum cites that many works, by keys that stand for one work each |
| `WritingProofs!ProposalsAreKept` | a registered proposal is never replaced |

*Queue.* `IInv == TypeOK /\ LeasesFence /\ PublishedByLastAttempt /\ RetryBudget`.
The four are inductive only together: fencing needs that a process that holds a
job holds an issued lease (typing of the process), publication needs fencing
(the process that settles is the last claimant), the budget needs the typing of
attempts.  `StepInv` is the common step: a step that is not a claim or a replay
changes rows and processes only by `RowChanged` and by letting go; the claim and
the replay are proved apart.  The limit adds that a row which is over has no
owner (`OwnersGone`) and that the running rows of a scope are a finite set no
larger than its limit (`CountOK`): only a claim adds to it, after it has
counted.  The same `OwnersGone` makes every write that is guarded by an owner
spare the terminal rows.  `request_cancel` writes without one; that is why
`TerminalFrozen` names it, and why a call that writes must hold the row it read.

*Approval.* A call that is past the lock holds it (`PhaseOK`), so at most one is
between `StartApply` and `Commit`, and what it knows of its row, the file and the
audit at each place stays true although an editor saves and calls die.  The
citations add what the holder has read of `references.bib` (`BibliographyOK`).

*Runs.* `IInv` says what each process knows at its place: a worker past the
flow's end carries an outcome that is COMPLETED only for an approved Run, a Run
that its Job does not name has no checkpoint, no patch and an end in sight, and
a resume Job exists before it is queued.  `WatchInv` says who answers for a
RUNNING Run: a leased Job whose worker has not closed the Run, and after that a
sweep that has the Job on its list or will have it.

*Flow.* `IInv` adds to the three properties: what is true of the state in memory
*and* of the one in the checkpoint (`Sound`: a PASS is about the registered patch),
what the validator asked and still holds when the capability runs (`Granted`), that
memory knows no other draft than the registered one (`Drafted`), that only an
opening state is without a checkpoint (`Saved`), and that every call is a counted
step or an interrupted one (`Accounted`, `Rounds`).  `ApprovalEarned` is not
inductive without them because a restart brings the verdict back and not the draft.
`Replayable` is what a pending capability needs of the checkpoint it is stored in;
it holds because the checkpoint is written in the state in which the validator let
the capability through.

*Scopes.* `ScopeWhole` is not inductive: the version about to be published must
have its snapshot (`CallShape`) and its grades (`PlannedGraded`) before it is
published, and the retry of a lost call must not close memberships, which
follows from the corpus only growing (`FileShape`: no snapshot names a document
outside the corpus, no membership is closed).  That nothing is stored beyond the
version in preparation makes `ScopeStable` a fact about `PutScope` alone.  The
refinement needs two facts about `Knowledge`: a canonical document, once
written, stays one, and a call that is over plans nothing.

*Indexes.* `TextInv` orders what exists of a paper: points are never newer than
chunks, nor a manifest entry than either, nor anything than the corpus; at each
place of a synchronisation it says which of them are already equal.
`CompletedInv` carries, place by place, the documents the call saw through the
files it has published; a deleted point is known as a hole from the moment its call
fails or dies (`HolesKnown`).  Both speak of behaviours in which no two calls have
overlapped: `overlapped`, once true, stays true and ends the claim.

*Chunks.* `StructureInv` says what the loop over the blocks has built: sections are
numbered as they are opened, so an id stands for one path.  Then each pass of
`build_chunks` keeps a set closed: units of one block and of bounded size
(`Splits`), chunks whose units have their place (`PackingOf`, `ChunkOf`), contexts
whose place is above that of the chunk - which an absorption hands on because to be
a prefix is transitive - (`ScanOf`), and an overlap within what is left of its limit
(`TakenOf`).  Each pass is a recursive function; it exists by `StepByStep`, and the
set holds along it by `UpTo`.

That no text is lost (`NoTextIsLost`) needs the order of the sections too: with
`StructureInv`, `OrderInv` says that sections come in the order they were opened and
that the entry of a section has one for each section above it, opened before.
Packing then keeps all units in order (`PackedKeeps`), and leaves chunks each of
which comes after the one before (`InOrder`): of a later section or, in its place,
because the next text did not fit.  The scan of `_absorb_small_parent_chunks` hands
texts on from chunk to chunk, and would lose those of a context only where it gives a
chunk contexts for the second time.  `Scanned` says that it does not: no chunk below
the index goes into the next one, and chunks beyond the one after it were given
nothing.  After an absorption it looks at the chunk before again, and there
`NoSecond` is the point: a chunk that did not go into the one just absorbed does not
go into what follows that one either - it is of a section in between, or of the same
one, and then both were small and would have been packed together.

*Parses.* `ParsingInv` says, stage by stage, what `parse_paper` has left of each block.
Blocks are counted on their pages (`BuildOK`), and a page gets at most one native
block, one past the greatest order there, so names stay apart; a page that fell back
then has at least its whole text layer, and its gap cannot be more than half again
(`Longer`, `LongerCovers`).  Tables, formulas and the validation leave page, order,
type and the length of words alone (`Keeps`), so both facts stay.  `Unjudged` - enabled
unless furniture or empty - holds of every block up to the validation, which is what
makes enabled the same as legible after it (`ValidateOK`).  `CacheOK` types the files
of the workers, and a turn of the recovery writes only under the keys of the images it
tried (`TurnIs`, `AnswersAre`); so nothing is added for a table whose turn is over,
unless a later block shares its image, which the property leaves out for that reason.

*Uploads.* MinerU's directory is written only under the parse lock, with what
was seen in it (`MineruInv`), or by a process that outlived its call, and then its
paper is in `outlived` (`OrphansKnown`).  For the catalogues a step either touches none of
documents and catalogues, or writes a document and then owes a scan, or is a
rebuild, and rebuilds do not overlap unless `disturbed` (`CatalogInv`).
`SucceededInv` puts what each place of a web thread has behind it on top of the
documents, which stay.

*Research.* `EvidenceInv` gives every request the span of corpora, `since` to
`until`, during which its evidence was validated; an edit appends to what was
held and can falsify nothing said about the past.  `FreshInv` says that whatever
the cache file holds, or a call has loaded of it, is an answer some provider
gave under that key, so a write that puts older entries back stays honest.
`KeepIsGood`, that a filter over a ranking returns good members of it, is
induction over the rank in the form of a least counterexample (`LeastNat`).

*Writing.* `CallInv` says what a call has in its hands at each place: packs of its
own needs, in their order; citations and bindings of known evidence and works; and,
when it is about to be registered, a draft that passed the review with the very
packs, catalog and bindings it is registered with, and that has its papers
(`DraftOK`).  `Register` spares a row that is there, and nothing else writes rows.
Coverage counts papers where the property counts works, and keys of the draft where
it reads bindings: `CoverageCountsWorks` is the bridge.

*Evidence and answers.* `EvidenceInv` follows one question through its stages: the
request is what `Ask` fixed (`RequestInv`), the fused list has each eligible chunk
at most once (`ListsInv`), the results are within it, within the limit, and within
the share of a work (`ResultsInv`), the context within the results and its budget
(`AnswerInv`).  What the stages compute - shares, packing, the sum of sizes - are
recursive functions over lists: each is shown to exist (`PacksExists` and the
like), and its result by `UpTo`, induction along the list.

*Searches.* When k lists take turns, the j-th item of each comes within the first
j * k (`TurnsAre`, twice `FlattenIs`); merging puts a key no further back than its
first record (`MergedIs`), and the filter no further back than that (`KeptAtIs`).

*Downloads.* `InboxInv`: a file named after a content holds that content or is not
there, and what a returned call named holds what it returned; a name is looked at
and taken without an await in between.

*Events.* `EventsInv`: a process that has read the last cursor holds the open
transaction, no event came since and what it will insert is not there
(`WritersInv`); events are each stored once and no append is refused (`StoreInv`);
event i of the client is event i of the store, or came before the store had any
(`ClientOK`).

Assumptions are the named ASSUMEs of the modules: bounds are naturals, model
nulls are outside the sets they stand beside, `ScopeOf` is a function, in
`Research` the constants have their types and the time to live is positive
(cache.py:38).  These theorems have a hypothesis besides, each true of the
run that checks the property:

* `UserRemoves = FALSE` (EveryCitationResolves): the user may delete the entry a
  text cites, and no code looks after that.
* `StallsPossible = FALSE` (RunningRunsAreWatched): a recovered worker that goes on
  can close or restart a Run somebody else has; fencing protects rows of the queue,
  not Runs.
* `AbsentIsNothing` and `Jobs \cap Batches = {}` (SucceededStaysComplete): the
  model's null is no document, place or status, and a job is no batch; about the
  model, not about the code.  So is `NONE \notin Pdfs` (DownloadsStay).
* `ParsingAssumption` (NothingIsLost): words have a length and LaTeX a kind, and
  MinerU gives an image to figures, tables and formulas only.  An empty paragraph
  with an image would not count as empty (mineru_adapter.py:408) and be searchable
  without text.
* `SameIdentity` (IntroductionsAreCovered): a paper is bound under the identity it
  is counted by (section 6, *Writing*).
* `DocumentAssumption` (ChunksRespectSections, NoTextIsLost, NothingIsLost): texts
  are lists of sentences, these of words with a number of tokens, and the limits are
  positive; build_chunks refuses a maximum below 50 and a negative overlap
  (chunker.py:342).
* `SmallJoin` (NoTextIsLost, NothingIsLost): twice the minimum is at most the
  maximum and 2. build_chunks does not ask for it, the defaults, 80 and 700, are far
  within, and beyond it text is lost (section 6, *Chunking*).
* `EventsGiven`, `CorpusGiven`, `AnswersGiven` (ReplayIsSafe;
  EvidenceFollowsItsSearch and AnswersAreGrounded; SourcesShareTheLimit): the types
  of the constants - histories are lists and old rows are rows, the corpus is finite
  and its chunks have documents and sizes, answers are lists of records, limits are
  numbers.

Only model-checked: all liveness (the prover does not do ENABLED): JobsSettle,
ApprovalConcludesOrRaised, RunsSettle, FlowTerminates.  Every safety property of a
passing run has a theorem.

## 6. Where the code and its documentation differ

`JobQueueFence`, `JobQueueRecovery`, `KnowledgePapers`, `ServicesOrphan` and
`ServicesTarget` are runs (section 4) with an entry under "findings". The others
were met while modelling; the passing runs have them among their behaviours, or
the model leaves the place out as said.

*Queue.* A worker restarted inside the heartbeat window skips the fresh row of its
predecessor, and no later pass looks again (multi_user_concurrency.md:25 promises
recovery; the run `JobQueueRecovery`). A heartbeat that read the checkpoint before
the handler stored a new one writes the old one back (worker.py:123); a cancellation
after the handler's last checkpoint leaves CANCEL_REQUESTED until the row is
recovered (worker.py:263). A recovery that stalls between its two statements can
give a row back as RETRY_PENDING whose attempts are used up (repository.py:718).
`requeue_failed` without `reset_attempts` (repository.py:340) leaves a RETRY_PENDING
row whose attempts are used up and that no claim takes, though
multi_user_concurrency.md:23 calls it a replay. `mark_interrupted` (675) and
`recover_interrupted` (718) write by job id what they decided on an earlier read;
`request_cancel` (634) writes without a lease or an expected status
(multi_user_concurrency.md:22): it ends a row that a worker has claimed (the run
`JobQueueFence`), and takes a SUCCEEDED row back to CANCEL_REQUESTED without its
result.

*Approval.* A patch whose process died in APPROVED or APPLYING stays there:
approve() refuses what is decided, and nothing retries it
(human-approval-latex-loop.md:13, recovery.md:20). So does one whose first scan
raised (approval/service.py:185 is outside any try, and ProjectRevisionConflict,
project.py:797, is one way) or whose projection could not be saved. The hash check
and `os.replace` are two steps, and a save in between is overwritten
(human-approval-latex-loop.md:32); the model has that behaviour, and no property
denies it. A failing reread of the bibliography after it
was replaced is recorded as a conflict, not as PARTIAL_APPLY
(citation-lifecycle.md:56).

*Runs.* A reconciliation that read Job and Run before can overwrite a terminal
Run (production_architecture.md:114): `RunningIsWatched` is about Runs left
RUNNING and does not deny it. A Run stays RUNNING for ever when its worker was
restarted before the lease was old; a decision taken before the Run is
WAITING_USER never reaches it (run_lifecycle.md:22). `create()` counts PENDING,
QUEUED, RUNNING and WAITING_USER as active (runs.py:188): while a first Run is
INTERRUPTED and its job RETRY_PENDING a second is let in, the retry takes the
first back to RUNNING, and both run (multi_user_concurrency.md:8 says one active
Run per session). A user's resume of a RUNNING research Run queues a job that
later turns the COMPLETED Run into INTERRUPTED and FAILED; an approval's resume
can turn a FAILED Run into COMPLETED when the decision came during a retry;
`_resume` calls `start_run` before `backend.resume` (runs.py:890), so the
INTERRUPTED branch of service.py:1379 is only reached for a Run that start_run
did not move. A cancellation of a Run whose job is just claimed is overwritten
by INTERRUPTED; at the checkpoint after completion it overwrites COMPLETED; of
an INTERRUPTED Run it ends only the job. `queue_run` behind a fast worker moves
WAITING_USER back to QUEUED. An API process that dies between create_run and
submit leaves the session busy, and one that dies between APPLIED and the resume
leaves the Run waiting. `set_active_run(None)` (service.py:1292, 1540) may clear
a newer Run's pointer; archive and delete (manager.py:325, 371) do not count
QUEUED as active.

*Flow.* `deterministic_patch_id` does not contain the revision, so the redraft
after a REVISE verdict is refused by the store as PATCH_IMMUTABLE unless the
text is the same (tests/test_goal_persistence_e2e.py:273 gives every draft an id
of its own). An interrupted Introduction whose checkpoint says CALL_WRITER
cannot be resumed: the evidence was in memory, write() answers VERIFIED_EVIDENCE
and the Run fails (recovery.md:15). REQUEST_REVISION twice in a row: after a
crash CALL_WRITER is refused as a STATE_REGRESSION, which is why ReplayAllowed
has an exception. Completed research sets `writer_ready`, so CALL_REVIEWER is
let through without a draft (WRITER_STATE_UNAVAILABLE). After a crash past a
PASS, COMPLETE answers DRAFT_PATCH_INVALID because the draft is only read back
for a review; the patch stays AWAITING_APPROVAL beside a FAILED Run. The tool
budget is counted per process, a replayed decision spends a manager step again,
and `tool_calls > max_tools` (manager.py:212) is never true because consumption
stops at the limit.

*Research.* The requests of a process read `last_diagnostics` of their one
pipeline after they let go of its lock: the conflicts a pack reports may be
another request's (research/service.py:510). `freshness_checked` may take the
date from one work and the verification from another
(web-literature-freshness.md:32). A lookup's time is counted over all retries of
the gateway, and an answer from the cache may come back without abstracts.

*Writing.* UPSTREAM_SECTION_STALE cannot fire: `ensure_initialized` scans without
the previous state, so nothing in its result is stale (skill-runtime.md:48).
`main.tex` is created first: after a crash the missing sections of the skeleton are
never created (manuscript.py:128). `support_claim` calls a claim SUPPORTED when one
piece is supported and another contradicted (support.py:247). A bibliography edited
while citations are resolved can leave a patch that cites a proposed key whose entry
is skipped. A paper is counted by `paper_identity` and bound by citation identity,
which may differ; the instance has them equal.  Two works that first resolved to
other keys, whose entries the user then removed, can both be given the same proposed
key when their next evidence is resolved, while their bindings keep the old ones
(service.py:451); the review skips a key without binding (reviewer.py:109), so an
approved draft may use one key for two works. ApprovedIsGrounded therefore speaks of
the keys that have a binding.

*Knowledge.* Points are deleted before the new texts are embedded, and readiness
compares files and digests only, so a collection with a hole is called ready
(knowledge/corpus.py). When the text of such a paper goes back to the one of the
manifest no later call embeds it again: the exception `holed` of
CompletedIsSearchable. Metadata that is changed and changed back around a crash
leaves points with the old metadata. Two overlapping synchronisations
(JobManager has two threads, web/api.py:153) take no lock: the chunks of the
older one can be published last, under a manifest that matches the newer, and a
point of an old text survives that every later search accepts. NoStaleText and
CompletedIsSearchable end with the first overlap. Points of a paper that lost
all its chunks may still be found; the evidence pipeline drops them.
`write_json_atomic` uses one temporary name per target, so two writers can
publish a torn file. A crash inside `ensure_default` after its first write is
never repaired; a document that leaves the corpus would make the retry of a
replacement that died after the memberships raise KeyError. The generation
registry, which has no caller outside its service, makes three saves per
activation, can have two active generations after a rollback, and marks a
generation validating before its validator ran.

*Ingestion.* A re-parse that overlaps an enrichment loses the verification
(pipeline.py:558), one that overlaps the rename of the raw file writes a
document that names a missing file, and a crash between that rename and the
write makes every later enrichment fail until the next parse. A raw PDF
truncated by a crash of its copy is accepted. Overlapping rebuilds may publish
the older catalogue, and a cancelled job leaves its document out of it. A killed
process leaves its MinerU child running while the lock is free, and the next
call starts a second one in the directory (the run `ServicesOrphan`).

*Blocks.* Without the PaddleOCR environment a parse takes no result of an
earlier one (formula_recovery.py:233, table_recovery.py:193), so its document
may have fewer tables and formulas than the one it replaces. A table worker that
ends without cells leaves `done: true`, and no later parse tries again. A
well-formed but complex formula is replaced by any LaTeX the worker returns
(formula_recovery.py:341); if that is malformed, the validation disables a
formula that was sound. U+FFFD is no hard error of a formula, so such a formula
is not read again, and one in `latex_raw` disables it even when it was.
`missing_latex` stays among the issues of a recovered formula. Garbled text
counts as text in augment_native_pdf_text, so its page gets no fallback and is
disabled afterwards.

*Chunking.* Two headings with the same path lose text
(`following["parent_contexts"]` is overwritten), hence the premise of NothingLost.
So do two small chunks of one section above a subsection, which build_chunks allows:
it only asks that `minimum_chunk_tokens` be below the maximum (chunker.py:345), and
when twice the minimum exceeds the maximum by more than 2 both may be absorbed, the
second over the first. The defaults, 80 of 700, are far from that; the run has the
largest minimum for which NothingLost holds. A single word beyond `maximum_tokens`,
such as a Chinese sentence without spaces, is a part of its own inside a longer
sentence, and is cut by characters, not tokens, when it is alone. The token count of
Chinese text is not additive: it counts pairs, also across the word boundary that a
join makes, so a chunk of such words may exceed the maximum by them.

*Retrieval.* On the hierarchical path, the default once its index is there, the
filters by work and document are dropped (the run `ServicesTarget`); `main.py`
offers a context in mode hierarchical and `assemble_context_bundle` refuses it;
without a reranker `_govern` reorders the cross encoder's results; the paper gate is
said to let a lexical hit through but computes the overlap from dense results only
(hierarchical.py:42); given `paper_ids` replace all other filters.

*Web jobs.* A restart fails running web jobs with the advice to submit again
with the same key, and submit answers with the FAILED row (web/jobs.py:83). The
Scholar worker's recovery may fail a silent web job whose thread later writes
SUCCEEDED without a lease (227). The web claim ignores the scope limit. The
first `running` and the last `completed` event are emitted outside the try, so a
cancellation there leaves CANCEL_REQUESTED until a restart; `cancel` can undo
SUCCEEDED and drop the result's reference; a row QUEUED at a restart stays
QUEUED (the docstring at jobs.py:68 says otherwise).

*Events.* The terminal status of a Run is committed before its terminal event
and the stream reads the status last, so a stream can end without it. A second
WAITING_USER, a second terminal event or a second reconciliation has the
event_id of the first and is not appended. A projected RUN_STARTED hides a
stored event with the same cursor. A failed step of any kind but a tool becomes
RUN_FAILED. EventsReplay is about the events that are stored or were projected
before any was.

*Discovery.* Two server processes can overwrite each other's file of one name, a
cancelled download leaves its `.part` file, and tokens end with their session.

## 7. Not modelled

Listed with reasons under "components": the language models, their prompts,
schemas and tools; scores, vectors, postings, PDF geometry, BibTeX parsing and
the wording of anything; projections nothing decides on (metrics, MySQL, the
worker registry, `active_run_id`); read views, argument parsing and the front
ends but for the client of the event stream; HTTP clients and the parsing of
what sources answer; offline evaluation.  Of modelled components, the notes
under "components" say which operations are left out: mostly single-row
upserts, templates and read views, and code without a caller in the program
(generations, archive and delete of sessions, `retrieve_multi`).

`Knowledge` serialises the calls of the workspace service, also when two
synchronisations overlap (`ScopeFree`): two of them at once are two unlocked
load-and-saves of one JSON file, of which the last wins.
