------------------------------- MODULE Services -------------------------------
(***************************************************************************)
(* The services around a corpus: a question to it (Retrieval), its uploads *)
(* and curators (Uploads), the discovery of papers and the download of     *)
(* their full texts (Discovery) and the events of a Run (RunEvents).  They *)
(* share no state but the files of the corpus, which a question takes from *)
(* its environment; here they stand side by side, each with what it        *)
(* promises.                                                               *)
(***************************************************************************)
EXTENDS Uploads

\* The constants and variables of the other three; NONE and MaxFaults are shared.
CONSTANTS
  Documents, Chunks, DocumentOf, WorkOf, TextOf, AroundOf, TokensOf, FirstScope, Targets,
  Shortlists, Admissions, Limit, PaperLimit, Candidates, PerWork, PerWorkSource, PerDocument,
  RrfK, Reranked, EvidenceBudget, MaxEvidence, ContextBudget, HeaderTokens, MinContent, MaxEdits,
  Providers, Answers, Limits, Years, Sessions, Urls, Serves, Pdfs, Names, Downloads, FAILED, MaxEnds,
  Histories, Outcomes, Olds, MaxAttempts, MaxCalls

VARIABLES
  request, stage, lists, results, context, answer, corpus, scopes, edits,
  found, registry, tokens, inbox, parts, download, ends,
  row, queued, attempt, store, transaction, writer, refused, client, calls, mishaps

Question == INSTANCE Retrieval
Discover == INSTANCE Discovery
Log == INSTANCE RunEvents

-----------------------------------------------------------------------------
(* Properties                                                              *)

\* Evidence keeps the filters of its search and the scope version of its request
\* (Retrieval).
EvidenceKeepsFilters == Question!EvidenceKeepsFilters

\* Evidence is of the work and the document that the user names (Retrieval).
EvidenceIsOfTarget == Question!EvidenceIsOfTarget

\* Accepted answers cite the context, which is packed without repetition (Retrieval).
AnswerGrounded == Question!AnswerGrounded

\* The sources share the limit of a search (Discovery).
FairShare == Discover!FairShare

\* A returned download stays in the inbox (Discovery).
DownloadsKept == Discover!DownloadsKept

\* A client receives every event once, in order (RunEvents).
EventsReplay == Log!EventsReplay
=============================================================================
