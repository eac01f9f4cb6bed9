----------------------------- MODULE Retrieval -----------------------------
(***************************************************************************)
(* One question to the local corpus, from the ranked lists of the indexes  *)
(* to an answer with citations.  The command line takes the results of     *)
(* RetrievalRuntime.retrieve as they are, packs them into a context and    *)
(* asks a language model; the research capability goes through             *)
(* UnifiedKnowledgeService, where the evidence pipeline checks each result *)
(* against the corpus and the scope of the workspace.  The corpus and the  *)
(* workspace may change under the question.                                *)
(*                                                                         *)
(* What BM25, the embeddings, the cross encoder and the language model     *)
(* return is arbitrary; what the program does with it is not.  A paper has *)
(* one document and is named by it.  Web literature, texts and scores are  *)
(* left out.                                                               *)
(***************************************************************************)
EXTENDS Naturals, Sequences, FiniteSets, SequencesExt

CONSTANTS
  Documents, Chunks,       \* numbered in the order of their ids
  DocumentOf, WorkOf,      \* of a chunk; of a document
  TextOf, AroundOf,        \* fingerprints: of a chunk, of the context it brings along
  TokensOf,                \* size of a chunk's evidence
  FirstScope,              \* documents of the workspace's scope when the question comes
  Targets,                 \* pairs of a work_id and a document_id that are asked for, or NONE
  Shortlists, Admissions,  \* paper_ids that are asked for; papers the other filters admit
  Limit, PaperLimit,       \* limit and paper_limit of the call
  Candidates,              \* candidate_limit, per source and for the fused list
  PerWork, PerWorkSource,  \* max_chunks_per_work: of the call, and inside a source (20)
  PerDocument,             \* max_candidates_per_document and max_selected_per_document
  RrfK,                    \* rrf_k, 60
  Reranked,                \* per cent of the cross encoder's rank in the blended rank, 65
  EvidenceBudget,          \* token_budget of the governed evidence
  MaxEvidence, ContextBudget, HeaderTokens, MinContent,   \* of the context
  NONE,
  MaxEdits                 \* bound on changes of the corpus and the workspace

VARIABLES
  request,     \* what is asked, and what the runtime can use
  stage,
  lists,       \* the two ranked lists and the fused one
  results,     \* chunks, best first
  context,     \* the evidence items of the context, S1 first
  answer,      \* citations of the claims, or NONE
  corpus,      \* chunks that locate_chunk finds
  scopes,      \* documents of each scope version of the workspace
  edits

retrievalVars == <<request, stage, lists, results, context, answer, corpus, scopes, edits>>

Works == {WorkOf[d] : d \in Documents}
Take(s, n) == SubSeq(s, 1, IF Len(s) < n THEN Len(s) ELSE n)
WorkOfChunk(c) == WorkOf[DocumentOf[c]]
NoLists == [bm25 |-> <<>>, dense |-> <<>>, fused |-> <<>>]

RetrievalInit ==
  /\ request = NONE /\ stage = "ask"
  /\ lists = NoLists /\ results = <<>> /\ context = <<>> /\ answer = NONE
  /\ corpus = Chunks
  /\ scopes = <<FirstScope>>
  /\ edits = 0

Environment == <<corpus, scopes, edits>>

-----------------------------------------------------------------------------
(* Ranked lists                                                            *)

OfWork(s, w) == {i \in DOMAIN s : WorkOfChunk(s[i]) = w}

\* At most n of the first items of each work.
KeepItem(kept, c, n) ==
  IF Cardinality(OfWork(kept, WorkOfChunk(c))) < n THEN Append(kept, c) ELSE kept

FirstOfEach(ranked, n) ==
  LET kept[i \in 0..Len(ranked)] ==
        IF i = 0 THEN <<>> ELSE KeepItem(kept[i - 1], ranked[i], n)
  IN kept[Len(ranked)]

\* What an index may return for a query: any of the eligible items in any order.
Rankings(eligible) == {r \in SetToAllKPermutations(eligible) : Len(r) <= Candidates}
ChunkRankings(eligible) ==
  {r \in Rankings(eligible) : FirstOfEach(r, PerWorkSource) = r}

\* The items of a set in an order; exactly one sequence if it is a total one.
Sorted(items, Before(_, _)) ==
  {r \in SetToSeqs(items) : \A i, j \in DOMAIN r : i < j => Before(r[i], r[j])}

RankIn(ranked, x) == CHOOSE i \in DOMAIN ranked : ranked[i] = x

\* 1 / (rrf_k + rank), in units that make it a natural number.
Share(rank) == ProductSet({RrfK + r : r \in 1..Candidates}) \div (RrfK + rank)

ShareIn(ranked, x) == IF x \in ToSet(ranked) THEN Share(RankIn(ranked, x)) ELSE 0

\* The fused order of the candidates: score, then the best rank in a source, then id.
Fuse(bm25, dense) ==
  LET Score(x) == ShareIn(bm25, x) + ShareIn(dense, x)
      BestRank(x) ==
        Min({RankIn(r, x) : r \in {s \in {bm25, dense} : x \in ToSet(s)}})
      Before(x, y) ==
        \/ Score(x) > Score(y)
        \/ Score(x) = Score(y) /\ BestRank(x) < BestRank(y)
        \/ Score(x) = Score(y) /\ BestRank(x) = BestRank(y) /\ x <= y
  IN Sorted(ToSet(bm25) \cup ToSet(dense), Before)

-----------------------------------------------------------------------------
(* RetrievalRuntime.retrieve                                               *)

\* The command line filters by work and document, the research capability by paper.
\* The hierarchical search is taken when it is asked for, and whenever its indexes
\* exist; a host without an accelerator does without embeddings and reranking there.
RequestFor(via, mode, ready, accelerated, reranker, target, papers, admitted) ==
  LET hierarchical == mode = "hierarchical" \/ ready
      dense == hierarchical => accelerated
      rerank == IF hierarchical THEN reranker /\ dense /\ mode # "fast" ELSE mode = "accurate"
  IN [via |-> via, mode |-> mode, hierarchical |-> hierarchical, dense |-> dense,
      rerank |-> rerank, work |-> target[1], document |-> target[2], papers |-> papers,
      admitted |-> admitted, scope |-> Len(scopes), shortlist |-> {}]

Ask ==
  \E via \in {"command", "service"}, mode \in {"fast", "accurate", "hierarchical"},
     ready, accelerated, reranker \in BOOLEAN,
     target \in Targets, papers \in Shortlists, admitted \in Admissions :
    /\ stage = "ask"
    /\ IF via = "command" THEN papers = <<>> /\ admitted = Documents
                          ELSE mode = "hierarchical" /\ target = <<NONE, NONE>>
    /\ request' = RequestFor(via, mode, ready, accelerated, reranker, target, papers, admitted)
    /\ stage' = IF request'.hierarchical THEN "papers"
                ELSE IF request'.rerank /\ ~reranker THEN "raised" ELSE "chunks"
    /\ UNCHANGED <<lists, results, context, answer, Environment>>

\* Nothing to search in: no paper passes, or the relevance gate says so.
NoHit == stage' = "ranked" /\ UNCHANGED request

ShortlistIs(papers) ==
  IF papers = {} THEN NoHit
  ELSE stage' = "chunks" /\ request' = [request EXCEPT !.shortlist = papers]

\* The papers that the caller names are taken over in its order, unranked and
\* unfiltered.
GivenPapers ==
  /\ stage = "papers" /\ request.papers # <<>>
  /\ ShortlistIs(ToSet(Take(request.papers, PaperLimit)))
  /\ UNCHANGED <<lists, results, context, answer, Environment>>

\* Otherwise both paper indexes are asked.  The gate refuses embeddings that are all
\* weak and share no term with the query.
RankPapers ==
  /\ stage = "papers" /\ request.papers = <<>>
  /\ \E bm25 \in Rankings(request.admitted),
        dense \in IF request.dense THEN Rankings(request.admitted) ELSE {<<>>} :
       \/ \E fused \in Fuse(bm25, dense) : ShortlistIs(ToSet(Take(fused, PaperLimit)))
       \/ dense # <<>> /\ NoHit
  /\ UNCHANGED <<lists, results, context, answer, Environment>>

\* The filters work inside the indexes.  The hierarchical search hands on the
\* shortlist, and nothing of the work and the document.
Eligible ==
  {c \in Chunks :
     IF request.hierarchical THEN DocumentOf[c] \in request.shortlist
     ELSE /\ request.work \in {NONE, WorkOfChunk(c)}
          /\ request.document \in {NONE, DocumentOf[c]}}

SearchChunks ==
  /\ stage = "chunks"
  /\ \E bm25 \in ChunkRankings(Eligible),
        dense \in IF request.dense THEN ChunkRankings(Eligible) ELSE {<<>>} :
     \E fused \in Fuse(bm25, dense) :
       lists' = [bm25 |-> bm25, dense |-> dense, fused |-> Take(fused, Candidates)]
  /\ stage' = "fused"
  /\ UNCHANGED <<request, results, context, answer, Environment>>

\* The cross encoder's order, ties in its scores included.
Reorderings(ranked) == SetToSeqs(ToSet(ranked))

\* The ranks of both orders are blended; equal ones go by the cross encoder.
Blend(ranked, reranked) ==
  LET Blended(x) == Reranked * RankIn(reranked, x) + (100 - Reranked) * RankIn(ranked, x)
      Before(x, y) ==
        \/ Blended(x) < Blended(y)
        \/ Blended(x) = Blended(y) /\ RankIn(reranked, x) <= RankIn(reranked, y)
  IN Sorted(ToSet(ranked), Before)

Output(ranked) == Take(FirstOfEach(ranked, PerWork), Limit)

Rank ==
  /\ stage = "fused"
  /\ \/ ~request.rerank /\ results' = Output(lists.fused)
     \/ /\ request.rerank
        /\ \E reranked \in Reorderings(lists.fused) :
           \E order \in IF request.hierarchical THEN {reranked}
                        ELSE Blend(lists.fused, reranked) :
             results' = Output(order)
  /\ stage' = "ranked" /\ lists' = NoLists
  /\ UNCHANGED <<request, context, answer, Environment>>

\* A search raises: an index that does not match the corpus, another model.
SearchFails ==
  /\ stage \in {"papers", "chunks", "fused"}
  /\ stage' = "raised" /\ lists' = NoLists
  /\ UNCHANGED <<request, results, context, answer, Environment>>

-----------------------------------------------------------------------------
(* Governance (UnifiedKnowledgeService, EvidenceIntelligencePipeline)      *)

\* mutant: the scope is the current one.
InCurrentScope(c) == c \in corpus /\ DocumentOf[c] \in scopes[Len(scopes)]

\* The candidate is in the scope version of the request and the corpus has its chunk.
Verifiable(c) == c \in corpus /\ DocumentOf[c] \in scopes[request.scope]

Tokens(s) == FoldLeft(LAMBDA n, c : n + TokensOf[c], 0, s)

\* select(): what does not fit is passed over.
SelectItem(s, c) ==
  IF /\ Len(s) < Limit
     /\ Tokens(s) + TokensOf[c] <= EvidenceBudget
     /\ Cardinality({i \in DOMAIN s : DocumentOf[s[i]] = DocumentOf[c]}) < PerDocument
    THEN Append(s, c) ELSE s

Selected(ranked) ==
  LET selected[i \in 0..Len(ranked)] ==
        IF i = 0 THEN <<>> ELSE SelectItem(selected[i - 1], ranked[i])
  IN selected[Len(ranked)]

\* The relevance that orders the verified evidence mixes scores of several scales.
Govern ==
  /\ stage = "ranked" /\ request.via = "service"
  /\ \E ranked \in SetToSeqs({c \in ToSet(results) : Verifiable(c)}) : results' = Selected(ranked)
  /\ stage' = "governed"
  /\ UNCHANGED <<request, lists, context, answer, Environment>>

-----------------------------------------------------------------------------
(* assemble_context_bundle                                                 *)

Used(items) ==
  LET used[i \in 0..Len(items)] == IF i = 0 THEN 0 ELSE used[i - 1] + items[i].tokens
  IN used[Len(items)]
SeenTexts(items) == UNION {items[i].texts : i \in DOMAIN items}
Closed(items) == items # <<>> /\ Last(items).cut

\* mutant: two documents of one work may stand side by side.
VersionsMixed(items, c) ==
  \/ TextOf[c] \in SeenTexts(items)
  \/ Cardinality({i \in DOMAIN items : WorkOfChunk(items[i].chunk) = WorkOfChunk(c)}) >= PerWork

\* Passed over: a text that is there, another document of a work, a work's surplus.
PassedOver(items, c) ==
  \/ TextOf[c] \in SeenTexts(items)
  \/ \E i \in DOMAIN items :
       /\ WorkOfChunk(items[i].chunk) = WorkOfChunk(c)
       /\ DocumentOf[items[i].chunk] # DocumentOf[c]
  \/ Cardinality({i \in DOMAIN items : WorkOfChunk(items[i].chunk) = WorkOfChunk(c)}) >= PerWork

\* The first item that does not fit is cut to what is left, if that is enough to
\* read, and nothing comes after it.
Pack(state, c) ==
  LET items == state.items
      left == ContextBudget - Used(items)
      texts == {TextOf[c]} \cup (AroundOf[c] \ SeenTexts(items))
      Item(tokens, cut) == [chunk |-> c, texts |-> texts, tokens |-> tokens, cut |-> cut]
      Add(item) == [state EXCEPT !.items = Append(@, item)]
  IN
  IF state.full \/ Len(items) >= MaxEvidence \/ Closed(items) THEN [state EXCEPT !.full = TRUE]
  ELSE IF PassedOver(items, c) THEN state
  ELSE IF HeaderTokens + TokensOf[c] <= left THEN Add(Item(HeaderTokens + TokensOf[c], FALSE))
  ELSE IF HeaderTokens + MinContent <= left THEN Add(Item(left, TRUE))
  ELSE [state EXCEPT !.full = TRUE]

Packed(ranked) ==
  LET packed[i \in 0..Len(ranked)] ==
        IF i = 0 THEN [items |-> <<>>, full |-> FALSE] ELSE Pack(packed[i - 1], ranked[i])
  IN packed[Len(ranked)].items

\* build_context knows two modes of retrieval, the runtime three.
Assemble ==
  /\ stage = "ranked" /\ request.via = "command"
  /\ IF request.mode = "hierarchical"
       THEN stage' = "raised" /\ UNCHANGED context
       ELSE /\ stage' = "context"
            /\ context' = Packed(results)
  /\ UNCHANGED <<request, lists, results, answer, Environment>>

-----------------------------------------------------------------------------
(* GroundedAnswerService                                                   *)

\* What a model may send: claims with the sources they name, one source too many
\* included, and a flag and a reason that may contradict them.
Drafts ==
  LET Cites == BoundedSeq(1..(Len(context) + 1), 2) IN
  [answerable : BOOLEAN, reason : BOOLEAN, unique : BOOLEAN, claims : BoundedSeq(Cites, 2)]

\* validate_answer_draft.
ValidClaim(cites) ==
  /\ cites # <<>>
  /\ Cardinality(ToSet(cites)) = Len(cites)
  /\ ToSet(cites) \subseteq DOMAIN context

Valid(draft) ==
  /\ draft.answerable /\ ~draft.reason
  /\ draft.claims # <<>> /\ draft.unique
  /\ \A i \in DOMAIN draft.claims : ValidClaim(draft.claims[i])

Answer ==
  /\ stage = "context" /\ context # <<>>
  /\ \E draft \in Drafts :
       IF Valid(draft) THEN stage' = "answered" /\ answer' = draft.claims
                       ELSE stage' = "refused" /\ UNCHANGED answer
  /\ UNCHANGED <<request, lists, results, context, Environment>>

\* An empty context, a failing provider, a refusal of the model.
Refuse ==
  /\ stage = "context"
  /\ stage' = "refused"
  /\ UNCHANGED <<request, lists, results, context, answer, Environment>>

-----------------------------------------------------------------------------
(* The corpus and the workspace under a question                           *)

\* Only a governed question reads them again.
Open == /\ stage \in {"papers", "chunks", "fused", "ranked"}
        /\ request.via = "service"

ChunkRemoved ==
  /\ Open /\ edits < MaxEdits
  /\ \E c \in corpus : corpus' = corpus \ {c}
  /\ edits' = edits + 1
  /\ UNCHANGED <<request, stage, lists, results, context, answer, scopes>>

\* Workspaces: a new version of the scope, the old ones stay.
ScopeReplaced ==
  /\ Open /\ edits < MaxEdits
  /\ \E d \in Documents : scopes' = Append(scopes, {d})
  /\ edits' = edits + 1
  /\ UNCHANGED <<request, stage, lists, results, context, answer, corpus>>

RetrievalNext ==
  \/ Ask \/ GivenPapers \/ RankPapers \/ SearchChunks \/ Rank \/ SearchFails
  \/ Govern \/ Assemble \/ Answer \/ Refuse
  \/ ChunkRemoved \/ ScopeReplaced

RetrievalSpec == RetrievalInit /\ [][RetrievalNext]_retrievalVars

-----------------------------------------------------------------------------
(* Properties                                                              *)

\* Results keep the limits and the filters of the search they come from, each chunk
\* once.  The flat search has filters for the work and the document; the hierarchical
\* one for papers, the first paper_limit of those that are named or else any that the
\* paper filters admit, and none for the work and the document.  Governed evidence
\* belongs to the scope version of the request, whatever became of the workspace since.
EvidenceKeepsFilters ==
  stage \in {"ranked", "governed"} =>
    /\ Len(results) <= Limit
    /\ \A i, j \in DOMAIN results : results[i] = results[j] => i = j
    /\ \A w \in Works : Cardinality(OfWork(results, w)) <= PerWork
    /\ \A i \in DOMAIN results :
         LET d == DocumentOf[results[i]] IN
         /\ IF ~request.hierarchical
              THEN request.work \in {NONE, WorkOf[d]} /\ request.document \in {NONE, d}
              ELSE IF request.papers # <<>> THEN d \in ToSet(Take(request.papers, PaperLimit))
                                           ELSE d \in request.admitted
         /\ stage = "governed" => d \in scopes[request.scope]

\* Evidence is of the work and the document that the user names (the options --work-id
\* and --document-id of `context build`, which RetrievalRuntime.retrieve takes).
EvidenceIsOfTarget ==
  stage \in {"ranked", "governed"} =>
    \A i \in DOMAIN results : /\ request.work \in {NONE, WorkOfChunk(results[i])}
                              /\ request.document \in {NONE, DocumentOf[results[i]]}

\* An accepted answer rests on evidence: each claim names sources of the context,
\* which holds each text once, one document of a work, and no more than its budget.
AnswerGrounded ==
  /\ Used(context) <= ContextBudget
  /\ \A i, j \in DOMAIN context : i # j =>
       /\ context[i].texts \cap context[j].texts = {}
       /\ WorkOfChunk(context[i].chunk) = WorkOfChunk(context[j].chunk) =>
            DocumentOf[context[i].chunk] = DocumentOf[context[j].chunk]
  /\ answer # NONE =>
       /\ answer # <<>>
       /\ \A k \in DOMAIN answer :
            /\ answer[k] # <<>>
            /\ \A n \in DOMAIN answer[k] :
                 answer[k][n] \in DOMAIN context /\ context[answer[k][n]].chunk \in ToSet(results)
=============================================================================
