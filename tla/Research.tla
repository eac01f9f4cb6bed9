------------------------------ MODULE Research ------------------------------
(* The research capability of app/scholar/research: a ResearchRequest is      *)
(* answered from the local corpus, the FreshnessPolicy decides whether the   *)
(* web is asked too, and what both found is validated against the canonical  *)
(* corpus before it becomes an EvidencePack.  Several requests run at once:   *)
(* the threads of one process share the evidence pipeline, all processes     *)
(* share the corpus files and the discovery cache, and the corpus may be      *)
(* edited under a request.                                                   *)
(*                                                                         *)
(* A chunk is a model value and its text a version number (0: the chunk is    *)
(* not in chunks.jsonl).  A work is what a canonical identity names.  Titles, *)
(* scores, page numbers and diagnostics no property reads are left out.      *)
EXTENDS Naturals, Sequences, FiniteSets

CONSTANTS
    Searches,          \* research calls, one request id each
    Processes,         \* processes with a ResearchCapabilityService
    ProcessOf,         \* the process a request runs in
    Keys, KeyOf,       \* literature_request_fingerprint of a request
    SearchMixes,             \* the combinations of request parameters that are tried
    Docs, Chunks, DocOf,
    Edited,            \* documents other processes publish again or remove
    ScopeDocs,         \* active_document_ids of the (immutable) scope version
    PaperRanking,      \* what paper retrieval returns, best first
    ChunkRanking,      \* what chunk retrieval returns, best first
    WebWorks, WorkRanking,
    TwinOf,            \* the canonical identity of a local document
    Recent,            \* works dated inside the requested window
    Texts,             \* works with an abstract or full text and a locator
    MergedTexts,       \* those whose text came with a second provider record
    DatedDocs,         \* local documents whose publication date is known
    Claims, Supports,  \* claim -> the chunks and works that share its tokens
    Counter,           \* items marked as counter evidence
    Conflicting,       \* pairs of items that contradict each other
    MaxPapers, MaxSections, MaxEvidence,
    CoverageTarget,    \* claims that must be supported for local sufficiency
    TTL,               \* LiteratureDiscoveryCache.ttl_seconds, in clock ticks
    MaxTime, MaxCorpusEdits, \* bounds on the clock and on corpus edits
    MaxWebAttempts,       \* RetryPolicy of literature.search
    NoEntry, NoPack, Nobody

\* LiteratureDiscoveryCache refuses a ttl_seconds below one.
ASSUME ResearchAssumption ==
    /\ DocOf \in [Chunks -> Docs] /\ KeyOf \in [Searches -> Keys]
    /\ PaperRanking \in Seq(Docs)
    /\ ChunkRanking \in Seq(Chunks) /\ WorkRanking \in Seq(WebWorks)
    /\ Chunks \cap WebWorks = {}
    /\ MaxPapers \in Nat /\ MaxSections \in Nat /\ MaxEvidence \in Nat
    /\ TTL \in Nat \ {0}
    /\ \A mix \in SearchMixes : \A r \in Searches : mix[r].minPapers \in Nat

Fresh == "FRESH_REQUIRED"

VARIABLES
    corpus,    \* chunk -> version of its canonical text
    held,      \* every corpus there has been, oldest first
    now,
    cache,     \* literature_cache.json
    answers,   \* every answer a provider gave, with its time
    diag,      \* EvidenceIntelligencePipeline.last_diagnostics["conflicts"]
    lock,      \* holder of a process's _evidence_lock
    req        \* the research calls

researchVars == <<corpus, held, now, cache, answers, diag, lock, req>>

-----------------------------------------------------------------------------
(* Helpers *)

Take(s, n) == SubSeq(s, 1, IF Len(s) < n THEN Len(s) ELSE n)
ItemsOf(s) == {s[i] : i \in DOMAIN s}

\* The elements of s that are good, in their order: the n-th is the one with
\* n - 1 good elements before it.
Keep(s, good) ==
    LET at == {i \in DOMAIN s : s[i] \in good}
    IN [n \in 1..Cardinality(at) |->
           s[CHOOSE i \in at : Cardinality({j \in at : j < i}) = n - 1]]

Present(d) == \E c \in Chunks : DocOf[c] = d /\ corpus[c] # 0
Conflicts(items) == {p \in SUBSET items : p \in Conflicting}

\* What knowledge.retrieve returns for a paper filter: the governed chunks,
\* those of the scope that the corpus still holds.  An empty filter is none.
Governed(papers) ==
    Keep(ChunkRanking, {c \in Chunks : /\ DocOf[c] \in ScopeDocs
                                       /\ corpus[c] # 0
                                       /\ papers = {} \/ DocOf[c] \in papers})

\* search_papers: the ranking is cut to the limit before the scope filter.
PapersFound ==
    Keep(Take(PaperRanking, MaxPapers), ScopeDocs)

\* search_sections for one paper filter and limit.
SectionsFound(papers, limit) == Take(Governed(papers), limit)

\* The papers _local_candidates searches again, in rank order.
Missing(papers, sections, target) ==
    LET seen == {DocOf[c] : c \in ItemsOf(sections)}
        left == Keep(papers, Docs \ seen)
        short == IF target > Cardinality(seen)
                 THEN target - Cardinality(seen) ELSE 0
    IN Take(left, short)

\* canonical_identity of every document of the corpus, in scope or not.
LocalWorks == {TwinOf[d] : d \in {e \in Docs : Present(e)}}

\* The text a search result still carries: an entry of the cache keeps each
\* candidate's metadata, where the first record's empty abstract hides the
\* abstract that was merged in from a later one.
TextsOf(hit) == IF hit THEN Texts \ MergedTexts ELSE Texts

\* EvidenceIntelligencePipeline.select: local evidence by rank, then the web
\* evidence, which has no rerank score; at most top_k items.
Selected(verified) ==
    Take([i \in DOMAIN verified |-> verified[i].item], MaxEvidence)

\* The claims an item list supports, and the rest.
SupportedBy(items, claims) ==
    {k \in claims : \E i \in items \ Counter : i \in Supports[k]}

IsFresh(p) == p.latest \/ p.mode = Fresh

\* FreshnessPolicy.decide
WebRequired(p, pack) ==
    LET covered == /\ pack.unresolved = {}
                   /\ pack.conflicts = {}
                   /\ \/ p.claims = {}
                      \/ Cardinality(pack.supported) >= CoverageTarget
        dated == \E i \in ItemsOf(pack.items) : i \in Chunks /\ DocOf[i] \in DatedDocs
    IN \/ IsFresh(p)
       \/ p.mode # "LOCAL_ONLY" /\ (~covered \/ (p.evolving /\ ~dated))

\* The error code of a research that needs the web and may not use it.
Refusal(p) ==
    IF ~p.allowWeb THEN IF IsFresh(p) THEN "FRESHNESS_UNAVAILABLE"
                        ELSE "CAPABILITY_DENIED"
    ELSE IF p.webQueries < 1 THEN "WEB_BUDGET_EXHAUSTED"
    ELSE IF ~p.web THEN "WEB_UNAVAILABLE" ELSE "none"

ValidAtExpiry(entry) ==              \* mutant: < became <=
    entry # NoEntry /\ now <= entry.at + TTL

Unexpired(entry) == entry # NoEntry /\ now < entry.at + TTL

-----------------------------------------------------------------------------
(* State *)

NewSearch(p) ==
    [pc |-> "papers", profile |-> p, cancelled |-> FALSE, papers |-> <<>>,
     sections |-> <<>>, sources |-> <<>>, web |-> <<>>, verified |-> <<>>,
     conflicts |-> {}, final |-> FALSE, since |-> 1, until |-> 1,
     answer |-> {}, hit |-> FALSE, asked |-> 0, attempt |-> 0, over |-> FALSE,
     reused |-> FALSE, loaded |-> NoEntry, pack |-> NoPack]

ResearchInit ==
    /\ corpus = [c \in Chunks |-> 1]
    /\ held = <<corpus>>
    /\ now = 0
    /\ cache = [k \in Keys |-> NoEntry]
    /\ answers = {}
    /\ diag = [p \in Processes |-> {}]
    /\ lock = [p \in Processes |-> Nobody]
    /\ \E choice \in SearchMixes :
          req = [r \in Searches |-> NewSearch(choice[r])]

AtStage(r, pc) == req[r].pc = pc
P(r) == ProcessOf[r]

Others == <<corpus, held, now, cache, answers, diag, lock>>

-----------------------------------------------------------------------------
(* research(), LOCAL_RESEARCH: _local_candidates                             *)

\* check_cancelled raises between the stages of the local research only.
CancelChecked == {"papers", "sections", "backfill", "read"}
Runs(r, pc) == AtStage(r, pc) /\ ~(pc \in CancelChecked /\ req[r].cancelled)

StopCancelled(r) ==
    /\ req[r].pc \in CancelChecked /\ req[r].cancelled
    /\ req' = [req EXCEPT ![r].pc = "failed"]
    /\ UNCHANGED Others

\* knowledge.retrieve verifies what it found with the evidence pipeline that
\* all requests of the process share, and does not take _evidence_lock.
Retrieve(r, found) ==
    /\ diag' = [diag EXCEPT ![P(r)] = Conflicts(ItemsOf(found))]
    /\ UNCHANGED <<corpus, held, now, cache, answers, lock>>

SearchPapers(r) ==
    /\ Runs(r, "papers")
    /\ req' = [req EXCEPT ![r].pc = "sections", ![r].papers = PapersFound]
    /\ Retrieve(r, Take(Governed({}), MaxPapers))

SearchSections(r) ==
    LET papers == ItemsOf(req[r].papers)
        found == SectionsFound(papers, MaxSections)
    IN /\ Runs(r, "sections")
       /\ req' = [req EXCEPT ![r].sections = found,
                             ![r].pc = IF papers # {} /\ req[r].profile.minPapers > 0
                                       THEN "backfill" ELSE "read"]
       /\ Retrieve(r, Take(Governed(papers), 5 * MaxSections))

\* One focused search per missing paper, the best chunk of each in rank order.
Backfill(r) ==
    LET target == IF req[r].profile.minPapers < MaxPapers
                  THEN req[r].profile.minPapers ELSE MaxPapers
        missing == Missing(req[r].papers, req[r].sections, target)
        best(d) == SectionsFound({d}, 1)
        hits == Keep(missing, {d \in Docs : best(d) # <<>>})
    IN /\ Runs(r, "backfill")
       /\ req' = [req EXCEPT ![r].pc = "read",
                             ![r].sections =
                                 @ \o [i \in DOMAIN hits |-> best(hits[i])[1]]]
       /\ IF missing = <<>> THEN UNCHANGED Others
          ELSE Retrieve(r, best(missing[Len(missing)]))

\* read_evidence: one chunk that is gone ends the whole research.
ReadEvidence(r) ==
    LET chunks == req[r].sections
    IN /\ Runs(r, "read")
       /\ IF \E i \in DOMAIN chunks : corpus[chunks[i]] = 0
          THEN req' = [req EXCEPT ![r].pc = "failed"]
          ELSE req' = [req EXCEPT
                        ![r].pc = "check",
                        ![r].sources = [i \in DOMAIN chunks |->
                            [item |-> chunks[i], text |-> corpus[chunks[i]]]]]
       /\ UNCHANGED Others

-----------------------------------------------------------------------------
(* build_evidence_pack, for the local candidates and again for all            *)

Fail(r) ==
    /\ req' = [req EXCEPT ![r].pc = "failed"]
    /\ lock' = [lock EXCEPT ![P(r)] = IF @ = r THEN Nobody ELSE @]
    /\ UNCHANGED <<corpus, held, now, cache, answers, diag>>

\* mutant: the second pack takes over the local evidence the first validated
CheckOnlyWeb(r) ==
    /\ AtStage(r, "check") /\ lock[P(r)] = Nobody
    /\ lock' = [lock EXCEPT ![P(r)] = r]
    /\ req' = [req EXCEPT
                ![r].pc = "verify", ![r].since = Len(held),
                ![r].verified = IF req[r].final THEN req[r].sources ELSE <<>>]
    /\ UNCHANGED <<corpus, held, now, cache, answers, diag>>

\* Under _evidence_lock every candidate must still be the canonical text.
CheckCandidates(r) ==
    /\ AtStage(r, "check") /\ lock[P(r)] = Nobody
    /\ IF \E i \in DOMAIN req[r].sources :
             corpus[req[r].sources[i].item] # req[r].sources[i].text
       THEN Fail(r)
       ELSE /\ lock' = [lock EXCEPT ![P(r)] = r]
            /\ req' = [req EXCEPT ![r].pc = "verify", ![r].verified = <<>>,
                                  ![r].since = Len(held)]
            /\ UNCHANGED <<corpus, held, now, cache, answers, diag>>

\* EvidenceIntelligencePipeline.verify looks each chunk up again; what is
\* verified is the text found now.
VerifyNext(r) ==
    LET next == req[r].sources[Len(req[r].verified) + 1].item
    IN /\ AtStage(r, "verify")
       /\ Len(req[r].verified) < Len(req[r].sources)
       /\ IF corpus[next] = 0 THEN Fail(r)
          ELSE /\ req' = [req EXCEPT ![r].verified =
                      Append(@, [item |-> next, text |-> corpus[next]])]
               /\ UNCHANGED Others

\* The web candidates resolve to this request's snapshots; the diagnostics
\* are replaced as a whole.
VerifyEnds(r) ==
    LET local == req[r].verified
        all == local \o [i \in DOMAIN req[r].web |->
                            [item |-> req[r].web[i], text |-> 0]]
    IN /\ AtStage(r, "verify")
       /\ Len(local) = Len(req[r].sources)
       /\ req' = [req EXCEPT ![r].pc = "conflicts", ![r].verified = all,
                             ![r].until = Len(held)]
       /\ diag' = [diag EXCEPT ![P(r)] =
                      Conflicts({all[i].item : i \in DOMAIN all})]
       /\ UNCHANGED <<corpus, held, now, cache, answers, lock>>

\* last_diagnostics is read back after select, and the lock released.
ReadConflicts(r) ==
    /\ AtStage(r, "conflicts")
    /\ req' = [req EXCEPT ![r].pc = "map", ![r].conflicts = diag[P(r)]]
    /\ lock' = [lock EXCEPT ![P(r)] = Nobody]
    /\ UNCHANGED <<corpus, held, now, cache, answers, diag>>

PackFromVerified(r) ==               \* mutant: claims before the selection
    LET call == req[r]
        verified == {v.item : v \in ItemsOf(call.verified)}
        supported == SupportedBy(verified, call.profile.claims)
    IN [items |-> Selected(call.verified), texts |-> ItemsOf(call.verified),
        supported |-> supported,
        unresolved |-> call.profile.claims \ supported,
        conflicts |-> call.conflicts, error |-> "none"]

PackOf(r) ==
    LET call == req[r]
        chosen == Selected(call.verified)
        supported == SupportedBy(ItemsOf(chosen), call.profile.claims)
    IN [items |-> chosen,
        texts |-> {v \in ItemsOf(call.verified) : v.item \in ItemsOf(chosen)},
        supported |-> supported,
        unresolved |-> call.profile.claims \ supported,
        conflicts |-> call.conflicts,
        error |-> "none"]

\* _evidence_mapping requires the document of each local item once more.
MapEvidence(r) ==
    /\ AtStage(r, "map")
    /\ IF \E i \in ItemsOf(Selected(req[r].verified)) \cap Chunks : ~Present(DocOf[i])
       THEN req' = [req EXCEPT ![r].pc = "failed"]
       ELSE req' = [req EXCEPT
                     ![r].pack = PackOf(r),
                     ![r].pc = IF req[r].final THEN "judge" ELSE "decide"]
    /\ UNCHANGED Others

-----------------------------------------------------------------------------
(* The freshness decision and the web                                        *)

\* An error pack leaves every target claim unresolved.
Refused(pack, p, code) ==
    [pack EXCEPT !.error = code, !.unresolved = p.claims]

Decide(r) ==
    LET p == req[r].profile
        pack == req[r].pack
    IN /\ AtStage(r, "decide")
       /\ req' = CASE ~WebRequired(p, pack) -> [req EXCEPT ![r].pc = "done"]
                   [] WebRequired(p, pack) /\ Refusal(p) # "none" ->
                        [req EXCEPT ![r].pc = "done",
                                    ![r].pack = Refused(@, p, Refusal(p))]
                   [] OTHER -> [req EXCEPT ![r].pc = "cache"]
       /\ UNCHANGED Others

\* WebLiteratureAdapter.search: a cached answer that has not expired.
LookUp(r) ==
    LET entry == cache[KeyOf[r]]
    IN /\ AtStage(r, "cache")
       /\ req' = [req EXCEPT
                   ![r].asked = now,
                   ![r].hit = Unexpired(entry),
                   ![r].answer = IF Unexpired(entry) THEN entry.works ELSE {},
                   ![r].attempt = 1,
                   ![r].over = FALSE,
                   ![r].pc = IF Unexpired(entry) THEN "candidates" ELSE "call"]
       /\ UNCHANGED Others

\* ToolGateway.invoke: the handler answers within the time left of the call.
Answer(r) ==
    \E works \in SUBSET WebWorks :
        /\ AtStage(r, "call") /\ ~req[r].over
        /\ req' = [req EXCEPT ![r].pc = "store", ![r].answer = works]
        /\ answers' = answers \cup {[key |-> KeyOf[r], works |-> works, at |-> now]}
        /\ UNCHANGED <<corpus, held, now, cache, diag, lock>>

\* A provider failure ends the search; the pack keeps the local evidence.
GiveUpWeb(r) ==
    req' = [req EXCEPT
             ![r].pc = "done",
             ![r].pack = Refused(@, req[r].profile,
                                 IF IsFresh(req[r].profile)
                                 THEN "FRESHNESS_UNAVAILABLE"
                                 ELSE "WEB_PROVIDER_UNAVAILABLE")]

\* A timeout, raised by the handler or because its answer came late, is tried
\* again; the clock of the gateway runs on over all attempts.
TimesOut(r) ==
    \E late \in {req[r].over, TRUE} :
        /\ AtStage(r, "call")
        /\ IF req[r].attempt < MaxWebAttempts
           THEN req' = [req EXCEPT ![r].attempt = @ + 1, ![r].over = late]
           ELSE GiveUpWeb(r)
        /\ UNCHANGED Others

ProviderFails(r) ==
    /\ AtStage(r, "call")
    /\ GiveUpWeb(r)
    /\ UNCHANGED Others

\* LiteratureDiscoveryCache.put loads the file, changes its entry and writes
\* the whole file back, with no lock over the two.
LoadCache(r) ==
    /\ AtStage(r, "store")
    /\ req' = [req EXCEPT ![r].pc = "write", ![r].loaded =
                 [cache EXCEPT ![KeyOf[r]] =
                    [works |-> req[r].answer, at |-> now]]]
    /\ UNCHANGED Others

WriteCache(r) ==
    /\ AtStage(r, "write")
    /\ cache' = req[r].loaded
    /\ req' = [req EXCEPT ![r].pc = "candidates",
                          ![r].loaded = NoEntry]
    /\ UNCHANGED <<corpus, held, now, answers, diag, lock>>

\* WEB_DEDUPLICATE and evidence_candidates: works the corpus has are left
\* out, and so are works without a text; then everything is validated.
WebCandidates(r) ==
    LET new == (req[r].answer \ LocalWorks) \cap TextsOf(req[r].hit)
    IN /\ AtStage(r, "candidates")
       /\ req' = [req EXCEPT
                   ![r].web = Keep(WorkRanking, new),
                   ![r].reused = req[r].answer \cap LocalWorks # {},
                   ![r].final = TRUE,
                   ![r].pc = "check"]
       /\ UNCHANGED Others

\* freshness_checked: some answer lies in the window, and some web evidence
\* was verified or some answer is a work of the corpus.
FreshnessChecked(r) ==
    /\ req[r].answer \cap Recent # {}
    /\ ItemsOf(req[r].pack.items) \cap WebWorks # {} \/ req[r].reused

JudgePack(r) ==
    /\ AtStage(r, "judge")
    /\ req' = [req EXCEPT
                ![r].pc = "done",
                ![r].pack = IF IsFresh(req[r].profile) /\ ~FreshnessChecked(r)
                            THEN Refused(@, req[r].profile, "FRESHNESS_UNAVAILABLE")
                            ELSE @]
    /\ UNCHANGED Others

-----------------------------------------------------------------------------
(* The world around the requests                                             *)

\* A caller's cancellation_checker starts to raise; after the local stages
\* nothing calls it any more.
Cancel(r) ==
    /\ ~req[r].cancelled /\ req[r].pc \in CancelChecked
    /\ req' = [req EXCEPT ![r].cancelled = TRUE]
    /\ UNCHANGED Others

\* Another process publishes a document again, or removes it.
Edit(d) ==
    LET next == Len(held) + 1
    IN /\ Len(held) <= MaxCorpusEdits
       /\ \E text \in {0, next} :
             corpus' = [c \in Chunks |-> IF DocOf[c] = d THEN text ELSE corpus[c]]
       /\ held' = Append(held, corpus')
       /\ UNCHANGED <<now, cache, answers, diag, lock, req>>

\* A tick is hours and a search seconds: none falls between a provider's
\* answer and its time stamp, or between a look-up and the call after it.
Tick ==
    /\ now < MaxTime
    /\ \A r \in Searches : req[r].pc \notin {"call", "store"}
    /\ now' = now + 1
    /\ UNCHANGED <<corpus, held, cache, answers, diag, lock, req>>

Step(r) ==
    \/ StopCancelled(r) \/ SearchPapers(r) \/ SearchSections(r) \/ Backfill(r)
    \/ ReadEvidence(r)
    \/ CheckCandidates(r) \/ VerifyNext(r) \/ VerifyEnds(r) \/ ReadConflicts(r)
    \/ MapEvidence(r) \/ Decide(r)
    \/ LookUp(r) \/ Answer(r) \/ TimesOut(r) \/ ProviderFails(r)
    \/ LoadCache(r) \/ WriteCache(r) \/ WebCandidates(r) \/ JudgePack(r)

ResearchNext ==
    \/ \E r \in Searches : Step(r) \/ Cancel(r)
    \/ \E d \in Edited : Edit(d)
    \/ Tick

ResearchSpec == ResearchInit /\ [][ResearchNext]_researchVars

-----------------------------------------------------------------------------
(* Properties *)

Answered(r) == AtStage(r, "done")

\* Every local item of a pack carries a text the canonical corpus held while
\* the pack was being validated, also when the document was published again
\* during the search or during the long web call (build_evidence_pack).
EvidenceCurrent ==
    \A r \in Searches : Answered(r) =>
        \A v \in req[r].pack.texts : v.item \in Chunks =>
            /\ DocOf[v.item] \in ScopeDocs
            /\ \E i \in req[r].since .. req[r].until : held[i][v.item] = v.text

\* A FRESH_REQUIRED pack without an error code rests on an answer a provider
\* gave to this very request's fingerprint less than one TTL before it asked,
\* whatever other requests put into the cache file at the same time; and that
\* answer named a work of the requested window (research, cache.get and put).
FreshnessHonest ==
    \A r \in Searches :
        Answered(r) /\ IsFresh(req[r].profile) /\ req[r].pack.error = "none" =>
            \E a \in answers :
                /\ a.key = KeyOf[r]
                /\ a.works \cap Recent # {}
                /\ a.works = req[r].answer
                /\ req[r].asked < a.at + TTL

\* A pack accounts for every target claim: one it does not list as unresolved
\* is supported by an item of this pack that is no counter evidence, and a
\* pack with an error code resolves nothing (build_evidence_pack, research).
ClaimsBacked ==
    \A r \in Searches : Answered(r) =>
        LET pack == req[r].pack
        IN \A k \in req[r].profile.claims :
              k \notin pack.unresolved =>
                  /\ pack.error = "none"
                  /\ (ItemsOf(pack.items) \cap Supports[k]) \ Counter # {}
=============================================================================
