----------------------------- MODULE MCServices -----------------------------
(***************************************************************************)
(* The services around a corpus, each on a small instance of its own: in a *)
(* behaviour a question is answered (Retrieval), or one of a few casts of  *)
(* uploads, batches and curators works on two PDFs (Uploads), or a search  *)
(* asks the sources, or sessions download full texts (Discovery), or a     *)
(* client follows the events of a Run (RunEvents).                         *)
(* The first of the two is born digital; the text layer of the second is   *)
(* garbled.  The academic sources know both by one DOI, as two versions of *)
(* a work.                                                                 *)
(*                                                                         *)
(* The question sees three documents, two of them versions of one work,    *)
(* and four chunks; two chunks have the same text, and a chunk brings the  *)
(* text of the one before it along.                                        *)
(***************************************************************************)
EXTENDS Services

CONSTANTS p1, p2, j1, j2, b1, c1, c2, Questions, Searches, Fulltexts, Decisions, Retries, Legacy

VARIABLE service   \* what this behaviour is about

retrievalState == <<request, stage, lists, results, context, answer, corpus, scopes, edits>>
discoveryState == <<found, registry, tokens, inbox, parts, download, ends>>
eventsState == <<row, queued, attempt, store, transaction, writer, refused, client, calls, mishaps>>

\* The academic sources know every paper by one DOI.
OneDoi == [p \in Papers |-> "doi"]

MCDocuments == 1..3
MCChunks == 1..4
MCDocumentOf == <<1, 1, 2, 3>>
MCWorkOf == <<"w1", "w1", "w2">>
MCTextOf == <<"a", "b", "c", "b">>
MCAroundOf == <<{}, {"a"}, {}, {"c"}>>
MCTokensOf == <<2, 3, 2, 2>>
MCTargets == {<<NONE, NONE>>, <<"w1", NONE>>, <<NONE, 2>>, <<"w1", 2>>}
MCShortlists == {<<>>, <<3, 1>>}
MCAdmissions == {1..3, {1, 3}}

Record(key, year, open) == [key |-> key, year |-> year, open |-> open]

MCProviders == <<"openalex", "crossref", "arxiv">>
MCAnswers ==
  {<<>>,
   <<Record("a", 2019, FALSE), Record("b", 2021, TRUE)>>,
   <<Record("c", NONE, TRUE)>>,
   <<Record("b", NONE, FALSE), Record("d", 2021, TRUE), Record("e", NONE, TRUE),
     Record("a", NONE, TRUE)>>}
MCYears == {NONE, [from |-> 2020, to |-> 2022]}
MCServes == [u1 |-> {"pdf1", "pdf2"}, u2 |-> {"pdf2", "html", FAILED}]

MCHistories == {<<[kind |-> "step", status |-> "FAILED"]>>}
MCOlds ==
  {[status |-> "WAITING_USER", result |-> [resumed |-> TRUE, traced |-> 1, patch |-> TRUE]]}
OneAttempt == [run |-> 1, resume |-> 1]

\* A Run and its events: with a call of a user; with a second attempt and a death or a
\* broken connection; or a Run from before the store, which waits for its decision.
E(attempts, maxCalls, maxFaults) == INSTANCE RunEvents WITH
       MaxAttempts <- [run |-> attempts, resume |-> 1],
       MaxCalls <- maxCalls, MaxFaults <- maxFaults

RunStep ==
  \/ service = Decisions /\ E(1, 1, 0)!RunEventsNext
  \/ service = Retries /\ E(2, 0, 1)!RunEventsNext
  \/ service = Legacy /\ Log!RunEventsNext

Casts == {{j1, j2}, {j1, c1}, {j1, b1}, {b1, c1, c2}}

MCInit ==
  /\ service \in Casts \cup {Questions, Searches, Fulltexts, Decisions, Retries, Legacy}
  /\ Init /\ Question!RetrievalInit /\ Discover!DiscoveryInit /\ Log!RunEventsInit
  /\ service = Legacy <=> row.status # "ABSENT"

MCNext ==
  /\ UNCHANGED service
  /\ \/ service \in Casts /\ StepOf(service)
        /\ UNCHANGED <<retrievalState, discoveryState, eventsState>>
     \/ service = Questions /\ Question!RetrievalNext
        /\ UNCHANGED <<vars, discoveryState, eventsState>>
     \/ /\ \/ service = Searches /\ Discover!SearchFiltered
           \/ service = Fulltexts /\ Discover!FulltextNext
        /\ UNCHANGED <<vars, retrievalState, eventsState>>
     \/ RunStep /\ UNCHANGED <<vars, retrievalState, discoveryState>>

MCSpec == MCInit /\ [][MCNext]_<<service, vars, retrievalState, discoveryState, eventsState>>
=============================================================================
