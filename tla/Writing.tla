------------------------------ MODULE Writing ------------------------------
(* The writing skills of app/scholar/writing: write_introduction turns        *)
(* research needs into a reviewed DraftPatch, SynthesisWritingService writes  *)
(* the conclusion and the abstract from the manuscript, support_claim judges  *)
(* a claim.  Citations are resolved against references.bib by                 *)
(* app/scholar/citation, and app/scholar/manuscript.py reads the LaTeX files. *)
(* While a request runs, the user edits sections and references.bib, and a    *)
(* Run that died is executed again under the same request id.                 *)
(*                                                                         *)
(* A section's text and a BibTeX key are small values, an evidence item is a  *)
(* model value with the work it is about.  Prose, prompts, warnings and       *)
(* metadata that no check reads are left out.                                 *)
EXTENDS Naturals, Sequences, FiniteSets

CONSTANTS
    Requests,
    Mixes,            \* assignments of a profile to every request
    Needs,            \* a skill's research needs, or a claim's pieces: 1..Needs
    PackChoices,      \* what the research of need n may return
    Evidence, WorkOf, \* citation identity of an evidence item
    PaperOf,          \* its paper_identity: local papers by paper_id
    Unlocated,        \* evidence without section or chunk provenance
    Stem,             \* work -> author, year and title token of its BibKey
    Complete,         \* works with title, authors and year
    Contributions,    \* ids the store lists as confirmed at the start
    Slips,            \* defects a writer's draft may have
    IntroductionMinimum,  \* INTRODUCTION_MINIMUM_UNIQUE_PAPERS
    MaxRevisionRounds,
    MaxParallelism,
    InitialBib,       \* the entries references.bib may hold at the start
    SavedStates,      \* stored manuscript states a request may find
    MaxEdits, MaxAttempts,  \* bounds: the user's edits, executions of a Run
    Nothing

ASSUME WritingAssumption ==
    /\ Needs \in Nat /\ IntroductionMinimum \in Nat /\ IsFiniteSet(Evidence)
    /\ Nothing \notin {WorkOf[e] : e \in Evidence}
    /\ \A n \in 1..Needs : \A pack \in PackChoices[n] : pack.items \in Seq(Evidence)
    /\ \A mix \in Mixes : \A r \in Requests : mix[r].minimum \in Nat

Sections == {"introduction", "method", "results", "conclusion", "abstract"}

VARIABLES
    root,        \* main.tex exists
    tex,         \* section -> text
    saved,       \* manuscript_state of the project store
    bib,         \* entries [key, work] of references.bib
    bound,       \* citation_bindings of the project store
    confirmed,   \* confirmed contributions
    patches,     \* request -> its registered DraftPatch
    edits, attempts,
    call         \* the running requests

vars == <<root, tex, saved, bib, bound, confirmed, patches, edits, attempts, call>>

-----------------------------------------------------------------------------
(* ManuscriptSynchronizer *)

Template == <<"abstract", "introduction", "method", "results", "conclusion">>

Dependents(s) ==
    CASE s \in {"method", "results"} -> {"conclusion", "abstract"}
      [] s = "conclusion" -> {"abstract"}
      [] OTHER -> {}

Reachable == IF root THEN {s \in Sections : tex[s] # 0} ELSE {}

Changed(previous, now) ==
    {s \in DOMAIN now : \/ previous = Nothing
                        \/ s \notin DOMAIN previous.hash
                        \/ previous.hash[s] # now[s]}

\* The stale_sections of scan(previous): nothing is stale without a previous.
StaleNames(previous, now) ==
    LET changed == Changed(previous, now)
        below == UNION {Dependents(s) : s \in changed}
    IN IF previous = Nothing THEN {}
       ELSE (previous.stale \ changed) \cup changed
            \cup ((below \cup UNION {Dependents(s) : s \in below}) \cap DOMAIN now)

Scan(previous) ==
    LET now == [s \in Reachable |-> tex[s]]
    IN [hash |-> now, stale |-> StaleNames(previous, now)]

\* ensure_initialized creates what is missing only when there is no root file;
\* it returns a scan without a previous state.
Initialized == Scan(Nothing)

-----------------------------------------------------------------------------
(* Citations *)

Works == {WorkOf[e] : e \in Evidence}
BibKeys == {entry.key : entry \in bib}

\* BibKeyGenerator.propose: the first free suffix of the work's stem.
Propose(w, occupied) ==
    <<Stem[w], CHOOSE n \in 0..Cardinality(occupied) :
                  /\ <<Stem[w], n>> \notin occupied
                  /\ \A m \in 0..(n - 1) : <<Stem[w], m>> \in occupied>>

Matches(w) == {entry \in bib : entry.work = w}

\* CitationResolutionService.sync: the stored bindings against the file.
Synced ==
    [w \in Works |->
        IF bound[w] = Nothing \/ bound[w].status \notin {"RESOLVED_EXISTING", "STALE"}
        THEN bound[w]
        ELSE CASE Cardinality(Matches(w)) > 1 -> [bound[w] EXCEPT !.status = "BIB_CONFLICT"]
               [] Matches(w) = {} -> [bound[w] EXCEPT !.status = "STALE"]
               [] OTHER -> [key |-> (CHOOSE entry \in Matches(w) : TRUE).key,
                            status |-> "RESOLVED_EXISTING"]]

\* CitationResolutionService.resolve for one verified evidence item.
Resolution(e) ==
    LET w == WorkOf[e]
        found == Matches(w)
    IN CASE Cardinality(found) > 1 -> [status |-> "BIB_CONFLICT", key |-> Nothing]
         [] Cardinality(found) = 1 ->
                [status |-> "RESOLVED_EXISTING", key |-> (CHOOSE x \in found : TRUE).key]
         [] found = {} /\ w \notin Complete -> [status |-> "INSUFFICIENT_METADATA", key |-> Nothing]
         [] OTHER -> [status |-> "PROPOSED_NEW_ENTRY", key |-> Propose(w, BibKeys)]

\* citation_coverage: a key counts when all its evidence is of one paper.
PapersOfKey(catalog, k) == {PaperOf[p[2]] : p \in {q \in catalog : q[1] = k}}

CoverageOfKeys(catalog, keys) ==    \* mutant: every key counts
    keys \cap {p[1] : p \in catalog}

Coverage(catalog, keys) ==
    UNION {PapersOfKey(catalog, k) :
             k \in {x \in keys : Cardinality(PapersOfKey(catalog, x)) = 1}}

-----------------------------------------------------------------------------
(* The draft and its review *)

SetOf(s) == {s[i] : i \in DOMAIN s}

\* The evidence of a need's claim in the ClaimPlan.
PlannedEvidence(pack) ==
    CASE pack.status \in {"supported", "partially_supported"} -> pack.ids
      [] pack.status = "none" -> SetOf(pack.items)
      [] OTHER -> {}

InFinishOrder(finished) ==    \* mutant: futures gathered as they complete
    [n \in 1..Needs |-> finished[n].pack]

\* ResearchDelegate.research_needs collects the futures in input order.
InNeedOrder(finished) ==
    [n \in 1..Needs |-> (CHOOSE f \in SetOf(finished) : f.need = n).pack]

EvidenceOf(packs) == UNION {SetOf(packs[n].items) : n \in DOMAIN packs}
Plan(packs) == [n \in DOMAIN packs |-> PlannedEvidence(packs[n])]
Catalogued(catalog) == {p[1] : p \in catalog}
Invented == <<"invented", 0>>

\* What a writer can return: any of the catalog's keys, and at most one slip.
Drafts(c) ==
    LET plan == Plan(c.packs)
        good == {n \in DOMAIN plan : plan[n] # {}}
    IN {[claims |-> IF slip = "unsupported" THEN DOMAIN plan
                    ELSE IF slip = "unknown claim" THEN good \cup {0} ELSE good,
         evidence |-> IF slip = "evidence" THEN {} ELSE EvidenceOf(c.packs),
         keys |-> IF slip = "key" THEN keys \cup {Invented} ELSE keys,
         contribs |-> IF slip = "contribution" THEN c.contribs \cup {Nothing}
                      ELSE c.contribs,
         contradicts |-> slip = "fact",
         base |-> IF slip = "base" THEN Nothing ELSE c.base] :
           slip \in Slips, keys \in SUBSET Catalogued(c.catalog)}

\* The key the reviewer finds under a BibKey is that of the last binding.
BoundWork(c, k) ==
    LET at == {i \in DOMAIN c.bindings : c.bindings[i].key = k}
    IN IF at = {} THEN Nothing
       ELSE c.bindings[CHOOSE i \in at : \A j \in at : j <= i].work

WrongIdentity(c, k) ==
    /\ BoundWork(c, k) # Nothing
    /\ \E p \in c.catalog : p[1] = k /\ WorkOf[p[2]] # BoundWork(c, k)

Minimum(c) == IF c.prof.minimum > IntroductionMinimum THEN c.prof.minimum
              ELSE IntroductionMinimum

Sufficient(c, keys) ==
    c.prof.minimum = 0 \/ Cardinality(Coverage(c.catalog, keys)) >= Minimum(c)

ClaimGrounded(c, draft, n) ==
    /\ Plan(c.packs)[n] # {}
    /\ Plan(c.packs)[n] \subseteq draft.evidence
    /\ \E p \in c.catalog : p[1] \in draft.keys /\ p[2] \in Plan(c.packs)[n]

\* IntroductionReviewer.review finds no BLOCKER and no HIGH issue.
Review(c, draft) ==
    /\ draft.claims \subseteq DOMAIN c.packs
    /\ draft.evidence \subseteq EvidenceOf(c.packs)
    /\ draft.contribs \subseteq c.contribs
    /\ \A n \in draft.claims : ClaimGrounded(c, draft, n)
    /\ draft.keys \subseteq Catalogued(c.catalog)
    /\ Sufficient(c, draft.keys)
    /\ \A k \in draft.keys : ~WrongIdentity(c, k)
    /\ ~draft.contradicts

SynthesisDrafts(c) ==
    {[claims |-> {}, keys |-> IF slip = "key" THEN {Invented} ELSE {},
      evidence |-> IF slip = "evidence" THEN Evidence ELSE {},
      contribs |-> IF slip = "contribution" THEN c.contribs \cup {Nothing} ELSE c.contribs,
      contradicts |-> slip = "fact",
      base |-> IF slip = "base" THEN Nothing ELSE c.base] : slip \in Slips}

\* SharedManuscriptReviewer.review_synthesis
ReviewSynthesis(c, draft) ==
    /\ draft.contribs \subseteq c.contribs
    /\ draft.evidence = {} /\ draft.keys = {}
    /\ ~draft.contradicts

-----------------------------------------------------------------------------
(* support_claim *)

SubclaimStatus(pack) ==
    LET own == CASE pack.status = "supported" -> "SUPPORTED"
                 [] pack.status \in {"partially_supported", "qualifies"} -> "PARTIALLY_SUPPORTED"
                 [] pack.status = "contradicted" -> "CONTRADICTED"
                 [] OTHER -> "INSUFFICIENT_EVIDENCE"
    IN IF pack.counter = {} THEN own
       ELSE CASE own = "SUPPORTED" -> "PARTIALLY_SUPPORTED"
              [] own = "INSUFFICIENT_EVIDENCE" -> "CONTRADICTED"
              [] OTHER -> own

OverallStatus(statuses) ==
    IF /\ "CONTRADICTED" \in statuses
       /\ statuses \cap {"SUPPORTED", "PARTIALLY_SUPPORTED"} = {} THEN "CONTRADICTED"
    ELSE IF statuses = {"INSUFFICIENT_EVIDENCE"} THEN "INSUFFICIENT_EVIDENCE"
    ELSE IF statuses \cap {"PARTIALLY_SUPPORTED", "INSUFFICIENT_EVIDENCE"} # {}
         THEN "PARTIALLY_SUPPORTED" ELSE "SUPPORTED"

-----------------------------------------------------------------------------
(* State *)

NewCall(p) ==
    [pc |-> "idle", prof |-> p, previous |-> Nothing, state |-> Nothing,
     base |-> 0, current |-> 0, contribs |-> {}, finished |-> <<>>,
     packs |-> <<>>, queue |-> <<>>, catalog |-> {}, bindings |-> <<>>,
     changes |-> {}, bibAt |-> Nothing, draft |-> Nothing, round |-> 0,
     valid |-> FALSE, code |-> "none"]

Target(p) == CASE p.task = "WRITE_CONCLUSION" -> "conclusion"
               [] p.task = "WRITE_ABSTRACT" -> "abstract"
               [] OTHER -> "introduction"

RequiredSections(p) ==
    IF p.task = "WRITE_CONCLUSION" THEN {"method", "results", "conclusion"} ELSE Sections

Writes(p) == p.task # "SUPPORT_CLAIM"
Introduction(p) == p.task = "WRITE_INTRODUCTION"
Synthesis(p) == p.task \in {"WRITE_CONCLUSION", "WRITE_ABSTRACT"}

Init ==
    /\ root \in BOOLEAN
    /\ tex = [s \in Sections |-> IF root THEN 1 ELSE 0]
    /\ saved \in IF root THEN SavedStates ELSE {Nothing}
    /\ bib \in IF root THEN InitialBib ELSE {{}}
    /\ bound = [w \in Works |-> Nothing]
    /\ confirmed = Contributions
    /\ patches = [r \in Requests |-> Nothing]
    /\ edits = 0
    /\ attempts = [r \in Requests |-> 1]
    /\ \E mix \in Mixes : call = [r \in Requests |-> NewCall(mix[r])]

At(r, pc) == call[r].pc = pc
Moves(r, change) == call' = [call EXCEPT ![r] = change]
\* The result of a call; what only its steps needed is forgotten.
Ends(r, code) ==
    Moves(r, [NewCall(call[r].prof) EXCEPT !.pc = "done", !.code = code,
                 !.previous = call[r].previous, !.state = call[r].state,
                 !.packs = call[r].packs])
Goes(r, pc) == Moves(r, [call[r] EXCEPT !.pc = pc])
Files == <<root, tex, saved, bib>>
Store == <<bound, confirmed, patches>>
Bounds == <<edits, attempts>>
OnlyCall == UNCHANGED <<Files, Store, Bounds>>

-----------------------------------------------------------------------------
(* The context of a request *)

Start(r) ==
    /\ At(r, "idle")
    /\ LET p == call[r].prof IN
         IF ~p.project THEN Ends(r, "PROJECT_CONFLICT")
         ELSE IF ~p.capable THEN Ends(r, "CAPABILITY_DENIED")
         ELSE IF ~Writes(p) THEN Goes(r, "research")
         ELSE Moves(r, [call[r] EXCEPT !.pc = "init",
                                    !.previous = IF Synthesis(p) THEN saved ELSE Nothing])
    /\ OnlyCall

\* ensure_initialized of a project without a root file: main.tex first.
CreateFile(r) ==
    /\ At(r, "init") /\ ~root
    /\ root' = TRUE
    /\ Goes(r, "create")
    /\ UNCHANGED <<tex, saved, bib, Store, Bounds>>

CreateSection(r) ==
    /\ At(r, "create")
    /\ LET missing == {i \in DOMAIN Template : tex[Template[i]] = 0} IN
         IF missing = {} THEN Goes(r, "init") /\ UNCHANGED tex
         ELSE LET first == CHOOSE i \in missing : \A j \in missing : i <= j
              IN tex' = [tex EXCEPT ![Template[first]] = 1] /\ UNCHANGED call
    /\ UNCHANGED <<root, saved, bib, Store, Bounds>>

\* The sections that are stale by the scan, without those just changed.
UpstreamStale(p, previous, state) ==
    (RequiredSections(p) \ {Target(p)})
        \cap (state.stale \ Changed(previous, state.hash))

ScanManuscript(r) ==
    /\ At(r, "init") /\ root
    /\ LET p == call[r].prof
           state == Initialized
       IN IF Introduction(p) /\ Target(p) \notin DOMAIN state.hash
          THEN Ends(r, "MANUSCRIPT_CONFLICT")
          ELSE IF Synthesis(p) /\ ~(RequiredSections(p) \subseteq DOMAIN state.hash)
          THEN Ends(r, "INSUFFICIENT_MANUSCRIPT_STATE")
          ELSE IF Synthesis(p) /\ UpstreamStale(p, call[r].previous, state) # {}
          THEN Ends(r, "UPSTREAM_SECTION_STALE")
          ELSE Moves(r, [call[r] EXCEPT !.pc = "read", !.state = state,
                                     !.base = state.hash[Target(p)]])
    /\ OnlyCall

\* read_section opens the file again: its text may be newer than the hash.
ReadSection(r) ==
    /\ At(r, "read")
    /\ Moves(r, [call[r] EXCEPT !.pc = "registry", !.current = tex[Target(call[r].prof)]])
    /\ OnlyCall

\* Facts and confirmed contributions are read once and never again.
ReadRegistry(r) ==
    /\ At(r, "registry")
    /\ LET p == call[r].prof
           next == IF Synthesis(p) THEN "draft" ELSE "research"
       IN IF ~(p.selected \subseteq confirmed) THEN Ends(r, "CONTRIBUTION_CONFLICT")
          ELSE IF p.contradicted THEN Ends(r, "FACT_CONFLICT")
          ELSE Moves(r, [call[r] EXCEPT !.pc = next,
                           !.contribs = IF p.selected = {} THEN confirmed ELSE p.selected])
    /\ OnlyCall

-----------------------------------------------------------------------------
(* Research and citations *)

\* The pool runs the first MaxParallelism needs that have not finished.
FinishNeed(r, n) ==
    /\ At(r, "research") /\ call[r].prof.handoff = "none"
    /\ n \notin {f.need : f \in SetOf(call[r].finished)}
    /\ n <= Len(call[r].finished) + MaxParallelism
    /\ \E pack \in PackChoices[n] \cup {Nothing} :
          Moves(r, [call[r] EXCEPT !.finished = Append(@, [need |-> n, pack |-> pack])])
    /\ OnlyCall

\* The items of all packs, need by need, are resolved one after another.
AllItems(packs) ==
    LET items[n \in 0..Needs] == IF n = 0 THEN <<>> ELSE items[n - 1] \o packs[n].items
    IN items[Needs]

Receive(r, packs) ==
    IF call[r].prof.task = "SUPPORT_CLAIM" /\ EvidenceOf(packs) \cap Unlocated # {}
    THEN Ends(r, "EVIDENCE_VALIDATION_ERROR")
    ELSE Moves(r, [call[r] EXCEPT !.pc = "resolve", !.packs = packs, !.finished = <<>>,
                      !.queue = AllItems(packs)])

\* Every future is awaited; one that raised fails the whole research.
CollectPacks(r) ==
    /\ At(r, "research") /\ call[r].prof.handoff = "none"
    /\ Len(call[r].finished) = Needs
    /\ IF \E f \in SetOf(call[r].finished) : f.pack = Nothing
       THEN Ends(r, "RESEARCH_FAILED")
       ELSE Receive(r, InNeedOrder(call[r].finished))
    /\ OnlyCall

\* The packs of the isolated Research agent, if they cover all needs.
Handoff(r) ==
    /\ At(r, "research") /\ call[r].prof.handoff # "none"
    /\ IF call[r].prof.handoff = "short" THEN Ends(r, "RESEARCH_FAILED")
       ELSE \E packs \in [1..Needs -> UNION {PackChoices[n] : n \in 1..Needs}] :
              /\ \A n \in 1..Needs : packs[n] \in PackChoices[n]
              /\ Receive(r, packs)
    /\ OnlyCall

\* What a call keeps of the resolution of the item e at the head of its queue.
Resolved(c, e, found) ==
    LET w == WorkOf[e]
        cites == found.key # Nothing
                   /\ (Writes(c.prof) \/ found.status = "RESOLVED_EXISTING")
        known == w \in {c.bindings[i].work : i \in DOMAIN c.bindings}
    IN [c EXCEPT
          !.queue = Tail(@), !.bibAt = bib,
          !.catalog = IF cites THEN @ \cup {<<found.key, e>>} ELSE @,
          !.bindings = IF cites /\ ~known THEN Append(@, [work |-> w, key |-> found.key]) ELSE @,
          !.changes = IF found.status = "PROPOSED_NEW_ENTRY" /\ Writes(c.prof)
                      THEN {x \in @ : x.work # w} \cup {[work |-> w, key |-> found.key]}
                      ELSE @]

\* One resolve reads references.bib anew, reconciles and saves bindings.
Resolve(r) ==
    /\ At(r, "resolve") /\ call[r].queue # <<>>
    /\ LET e == Head(call[r].queue)
           found == Resolution(e)
       IN /\ bound' = IF found.key = Nothing THEN Synced
                      ELSE [Synced EXCEPT ![WorkOf[e]] =
                              [key |-> found.key, status |-> found.status]]
          /\ Moves(r, Resolved(call[r], e, found))
    /\ UNCHANGED <<Files, confirmed, patches, Bounds>>

\* The packs must offer enough papers before a writer is asked.
CheckSources(r) ==
    /\ At(r, "resolve") /\ call[r].queue = <<>> /\ Writes(call[r].prof)
    /\ IF Sufficient(call[r], Catalogued(call[r].catalog)) THEN Goes(r, "draft")
       ELSE Ends(r, "INSUFFICIENT_INTRODUCTION_SOURCES")
    /\ OnlyCall

Subclaims(c) == [n \in DOMAIN c.packs |-> SubclaimStatus(c.packs[n])]

Judge(r) ==
    /\ At(r, "resolve") /\ call[r].queue = <<>> /\ ~Writes(call[r].prof)
    /\ Ends(r, OverallStatus(SetOf(Subclaims(call[r]))))
    /\ OnlyCall

-----------------------------------------------------------------------------
(* Draft, review and revision *)

Offered(r) == IF Synthesis(call[r].prof) THEN SynthesisDrafts(call[r]) ELSE Drafts(call[r])

Generate(r) ==
    /\ At(r, "draft")
    /\ \E draft \in Offered(r) :
         IF draft.base # call[r].base
         THEN Ends(r, IF Synthesis(call[r].prof) THEN "DRAFT_GENERATION_FAILED"
                      ELSE "STALE_BASE_HASH")
         ELSE Moves(r, [call[r] EXCEPT !.pc = "review", !.draft = draft])
    /\ OnlyCall

Valid(c) == IF Synthesis(c.prof) THEN ReviewSynthesis(c, c.draft) ELSE Review(c, c.draft)

ReviewDraft(r) ==
    /\ At(r, "review")
    /\ LET valid == Valid(call[r]) IN
         Moves(r, [call[r] EXCEPT !.valid = valid,
             !.pc = IF \/ valid
                       \/ call[r].round >= MaxRevisionRounds
                       \/ ~call[r].prof.revises THEN "rescan" ELSE "revise"])
    /\ OnlyCall

\* Only the synthesis writer's new draft is validated again; it may raise.
Revise(r) ==
    /\ At(r, "revise")
    /\ \E draft \in Offered(r) :
         IF Synthesis(call[r].prof) /\ draft.base # call[r].base
         THEN Ends(r, "raised")
         ELSE Moves(r, [call[r] EXCEPT !.pc = "review", !.draft = draft, !.round = @ + 1])
    /\ OnlyCall

\* A writer or a reviewer that raises; revise is called outside any try.
WriterFails(r) ==
    /\ \/ At(r, "draft") /\ Ends(r, "DRAFT_GENERATION_FAILED")
       \/ At(r, "review") /\ Ends(r, "REVIEW_FAILED")
       \/ At(r, "revise") /\ Ends(r, "raised")
    /\ OnlyCall

\* Only the target section is compared with the scan of the beginning.
Rescan(r) ==
    /\ At(r, "rescan")
    /\ LET c == call[r] IN
         IF tex[Target(c.prof)] # c.base THEN Ends(r, "STALE_BASE_HASH")
         ELSE IF Introduction(c.prof) /\ ~Sufficient(c, c.draft.keys)
         THEN Ends(r, "INSUFFICIENT_INTRODUCTION_CITATIONS")
         ELSE Goes(r, "register")
    /\ OnlyCall

\* The DraftPatch, with the evidence its keys stand for.
Row(c) ==
    [task |-> c.prof.task, minimum |-> c.prof.minimum, base |-> c.base,
     draft |-> c.draft, approved |-> c.valid, bindings |-> c.bindings,
     changes |-> c.changes, bibAt |-> c.bibAt, catalog |-> c.catalog]

Overwritten(r, row) == row    \* mutant: the stored patch gives way

\* ProjectStore.save_patch: a stored row is never replaced.
Kept(r, row) == IF patches[r] = Nothing THEN row ELSE patches[r]

\* The patch id is a function of the request, so a second execution finds the
\* row of the first.
Register(r) ==
    /\ At(r, "register")
    /\ LET row == Row(call[r])
           stored == Kept(r, row)
       IN /\ patches' = [patches EXCEPT ![r] = stored]
          /\ IF stored = row THEN Goes(r, "registered")
             ELSE Ends(r, "PATCH_PERSISTENCE_FAILED")
    /\ UNCHANGED <<Files, bound, confirmed, Bounds>>

Return(r) ==
    /\ At(r, "registered")
    /\ Ends(r, IF call[r].valid THEN "READY" ELSE "NEEDS_USER_REVIEW")
    /\ OnlyCall

-----------------------------------------------------------------------------
(* The surroundings *)

\* The Worker dies and the Run is executed again.
Crash(r) ==
    /\ call[r].pc \notin {"idle", "done"}
    /\ attempts[r] < MaxAttempts
    /\ attempts' = [attempts EXCEPT ![r] = @ + 1]
    /\ Moves(r, NewCall(call[r].prof))
    /\ UNCHANGED <<Files, Store, edits>>

EditSection(s) ==
    /\ edits < MaxEdits /\ tex[s] # 0
    /\ edits' = edits + 1
    /\ tex' = [tex EXCEPT ![s] = 3 - @]
    /\ UNCHANGED <<root, saved, bib, Store, attempts, call>>

EditBib(w) ==
    /\ edits < MaxEdits
    /\ edits' = edits + 1
    /\ bib' = IF Matches(w) = {} THEN bib \cup {[key |-> <<"user", w>>, work |-> w]}
              ELSE bib \ Matches(w)
    /\ UNCHANGED <<root, tex, saved, Store, attempts, call>>

Retract(k) ==
    /\ edits < MaxEdits
    /\ edits' = edits + 1
    /\ confirmed' = confirmed \ {k}
    /\ UNCHANGED <<Files, bound, patches, attempts, call>>

Next ==
    \/ \E r \in Requests :
         \/ Start(r) \/ CreateFile(r) \/ CreateSection(r) \/ ScanManuscript(r)
         \/ ReadSection(r) \/ ReadRegistry(r)
         \/ \E n \in 1..Needs : FinishNeed(r, n)
         \/ CollectPacks(r) \/ Handoff(r) \/ Resolve(r) \/ CheckSources(r) \/ Judge(r)
         \/ Generate(r) \/ ReviewDraft(r) \/ Revise(r) \/ WriterFails(r)
         \/ Rescan(r) \/ Register(r) \/ Return(r) \/ Crash(r)
    \/ \E s \in Sections : EditSection(s)
    \/ \E w \in Works : EditBib(w)
    \/ \E k \in confirmed : Retract(k)

Spec == Init /\ [][Next]_vars

-----------------------------------------------------------------------------
(* Properties *)

\* The evidence that supports the claim of need n, whatever the research of n
\* returns.
Relevant(n) == UNION {PlannedEvidence(pack) : pack \in PackChoices[n]}

WorksOfKey(patch, k) == {WorkOf[p[2]] : p \in {q \in patch.catalog : q[1] = k}}

(* A registered introduction with a paper minimum cites that many different *)
(* works, each by a key that stands for it alone: neither two new works     *)
(* with one proposed key nor a bibliography edited between two resolves     *)
(* count for more (citation_coverage in write_introduction).               *)
PapersCovered ==
    \A r \in Requests :
        LET p == patches[r] IN
        p # Nothing /\ p.task = "WRITE_INTRODUCTION" /\ p.minimum > 0 =>
            Cardinality({w \in Works :
                \E k \in p.draft.keys : WorksOfKey(p, k) = {w}}) >= IntroductionMinimum

(* An approved introduction rests every claim it makes on evidence that the *)
(* research of that very need found, cites it, and uses no key for two      *)
(* works, in whatever order the needs finished and drafts were revised.  A  *)
(* key for which the patch keeps no binding is not reviewed, and stays out. *)
ApprovedIsGrounded ==
    \A r \in Requests :
        LET p == patches[r] IN
        p # Nothing /\ p.approved /\ p.task = "WRITE_INTRODUCTION" =>
            /\ \A n \in p.draft.claims :
                  \E q \in p.catalog : q[1] \in p.draft.keys /\ q[2] \in Relevant(n)
            /\ \A k \in p.draft.keys \cap {b.key : b \in SetOf(p.bindings)} :
                  Cardinality(WorksOfKey(p, k)) = 1
            /\ p.draft.contribs \subseteq Contributions

(* A second execution of a request, whose writer may say something else,    *)
(* never changes the proposal a human may already have in front of him.     *)
ProposalKept ==
    [][\A r \in Requests : patches[r] # Nothing => patches'[r] = patches[r]]_vars
=============================================================================
