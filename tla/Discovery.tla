------------------------------ MODULE Discovery ------------------------------
(***************************************************************************)
(* The academic MCP server: search_papers over several sources at once,    *)
(* find_fulltext, which gives out tokens for the places of open full text, *)
(* and download_open_pdf, which takes a token and fills data/inbox.  The   *)
(* calls run on one event loop and interleave at every await; a            *)
(* download streams into a file of its own and publishes it in one go.     *)
(* The server is one process with a network transport, whose sessions      *)
(* share the loop; the tokens are in the memory of a session, the files    *)
(* stay.                                                                   *)
(*                                                                         *)
(* A record is the key that deduplication uses, the year and the open      *)
(* access flag; a file is its content.  resolve_paper's ranking, the       *)
(* check of addresses and the parsing of the sources' answers are left out.*)
(***************************************************************************)
EXTENDS Naturals, Sequences, SequencesExt

CONSTANTS
  Providers,       \* the sources, a sequence
  Answers,         \* lists of records a source may answer with
  Limits,          \* limits of a search
  Years,           \* year_from and year_to of a search: [from, to], or NONE
  Sessions,        \* sessions of the server
  Urls,            \* places of full text
  Serves,          \* Serves[u]: what is found there: contents, FAILED for none
  Pdfs,            \* the contents that are PDFs
  Names,           \* file names a download may ask for
  Downloads,       \* calls of download_open_pdf
  FAILED, NONE,
  MaxEnds          \* bound on cancelled calls and ends of sessions

VARIABLES
  found,           \* the last search and its result, or NONE
  registry,        \* registry[s]: the places with a token of the session
  tokens,          \* tokens callers hold: <<session, place>>
  inbox,           \* inbox[f]: the content of a published file, or NONE
  parts,           \* the calls whose .part file exists
  download,        \* download[d]: local state of a call
  ends

searchVars == <<found>>
fileVars == <<inbox, parts>>
discoveryVars == <<found, registry, tokens, inbox, parts, download, ends>>

\* A name, alone or with the beginning of a content's hash.
Files == Names \X (Pdfs \cup {NONE})

IdleDownload == [pc |-> "idle", session |-> NONE, url |-> NONE, name |-> NONE, content |-> NONE,
                 path |-> NONE]

DiscoveryInit ==
  /\ found = NONE
  /\ registry = [s \in Sessions |-> {}] /\ tokens = {}
  /\ inbox = [f \in Files |-> NONE] /\ parts = {}
  /\ download = [d \in Downloads |-> IdleDownload]
  /\ ends = 0

-----------------------------------------------------------------------------
(* search_filtered                                                         *)

\* merge_papers: the first known year counts; open access as soon as one says so.
MergePapers(left, right) ==
  [left EXCEPT !.year = IF @ # NONE THEN @ ELSE right.year, !.open = @ \/ right.open]

\* deduplicate_papers: records of one key become one paper, at the first one's place.
AddRecord(papers, record) ==
  IF \E i \in DOMAIN papers : papers[i].key = record.key
    THEN [i \in DOMAIN papers |->
            IF papers[i].key = record.key THEN MergePapers(papers[i], record) ELSE papers[i]]
    ELSE Append(papers, record)

DeduplicatePapers(records) ==
  LET papers[n \in 0..Len(records)] ==
        IF n = 0 THEN <<>> ELSE AddRecord(papers[n - 1], records[n])
  IN papers[Len(records)]

Longest(lists) == Max({0} \cup {Len(lists[i]) : i \in DOMAIN lists})

\* mutant: one source after the other.
OneAfterAnother(lists) == FlattenSeq(lists)

\* The sources take turns.
TakeTurns(lists) ==
  FlattenSeq([turn \in 1..Longest(lists) |->
    FlattenSeq([i \in DOMAIN lists |-> IF turn <= Len(lists[i]) THEN <<lists[i][turn]>> ELSE <<>>])])

\* The filters of a search: an unknown year passes.
Wanted(paper, years, openOnly) ==
  /\ years = NONE \/ paper.year = NONE \/ paper.year \in years.from..years.to
  /\ openOnly => paper.open

\* The items of a list at the places that are kept.
KeptAt(list, places) ==
  LET kept[n \in 0..Len(list)] ==
        IF n = 0 THEN <<>>
        ELSE IF n \in places THEN Append(kept[n - 1], list[n]) ELSE kept[n - 1]
  IN kept[Len(list)]

Filtered(papers, years, openOnly, limit) ==
  LET wanted == KeptAt(papers, {i \in DOMAIN papers : Wanted(papers[i], years, openOnly)}) IN
  SubSeq(wanted, 1, IF Len(wanted) < limit THEN Len(wanted) ELSE limit)

\* Each source answers or fails; the answers of the others are used.
Answered(outcomes) == KeptAt(outcomes, {i \in DOMAIN outcomes : outcomes[i] # FAILED})

SearchFiltered ==
  \E outcomes \in [DOMAIN Providers -> Answers \cup {FAILED}],
     limit \in Limits, years \in Years, openOnly \in BOOLEAN :
    LET merged == DeduplicatePapers(TakeTurns(Answered(outcomes))) IN
    /\ found = NONE
    /\ found' = [answers |-> Answered(outcomes), limit |-> limit, years |-> years,
                 openOnly |-> openOnly,
                 papers |-> Filtered(merged, years, openOnly, limit)]
    /\ UNCHANGED <<registry, tokens, fileVars, download, ends>>

-----------------------------------------------------------------------------
(* find_fulltext and download_open_pdf                                     *)

\* OpenAlex, Unpaywall and arXiv name places, or fail; each gets a token.
FindFulltext(s) ==
  \E places \in SUBSET Urls :
    /\ places # {} /\ ~(places \subseteq registry[s])
    /\ registry' = [registry EXCEPT ![s] = @ \cup places]
    /\ tokens' = tokens \cup ({s} \X places)
    /\ UNCHANGED <<searchVars, fileVars, download, ends>>

SetDownload(d, r) == download' = [download EXCEPT ![d] = r]
Raise(d) == SetDownload(d, [IdleDownload EXCEPT !.pc = "raised"])

\* The token must be one of this session; redirects are followed and the size is
\* looked at before the file is opened.
StartDownload(d) ==
  /\ download[d].pc = "idle"
  /\ \E token \in tokens, s \in Sessions, name \in Names :
       IF token[1] = s /\ token[2] \in registry[s]
         THEN SetDownload(d, [IdleDownload EXCEPT !.pc = "opened", !.session = s,
                                                  !.url = token[2], !.name = name])
         ELSE Raise(d)
  /\ UNCHANGED <<searchVars, registry, tokens, fileVars, ends>>

\* The response is refused, redirects too often or declares too large a size.
Refuse(d) ==
  /\ download[d].pc = "opened" /\ FAILED \in Serves[download[d].url]
  /\ Raise(d)
  /\ UNCHANGED <<searchVars, registry, tokens, fileVars, ends>>

\* What a place serves may change between two requests.
Stream(d) ==
  /\ download[d].pc = "opened"
  /\ \E content \in Serves[download[d].url] \ {FAILED} :
       SetDownload(d, [download[d] EXCEPT !.pc = "streaming", !.content = content])
  /\ parts' = parts \cup {d}
  /\ UNCHANGED <<searchVars, registry, tokens, inbox, ends>>

\* The stream breaks or grows too large: the .part file is removed.
StreamFails(d) ==
  /\ download[d].pc = "streaming" /\ FAILED \in Serves[download[d].url]
  /\ parts' = parts \ {d}
  /\ Raise(d)
  /\ UNCHANGED <<searchVars, registry, tokens, inbox, ends>>

\* mutant: whatever has the name is replaced.
AskedName(name, content) == <<name, NONE>>

\* A name that another content has gets the beginning of the hash.
Destination(name, content) ==
  <<name, IF inbox[<<name, NONE>>] \in {NONE, content} THEN NONE ELSE content>>

\* No await between the look at the destination and the replace.
PublishDownload(d) ==
  LET call == download[d]
      path == Destination(call.name, call.content)
  IN
  /\ call.pc = "streaming"
  /\ parts' = parts \ {d}
  /\ IF call.content \in Pdfs
       THEN /\ inbox' = [inbox EXCEPT ![path] = call.content]
            /\ SetDownload(d, [call EXCEPT !.pc = "returned", !.path = path])
       ELSE Raise(d) /\ UNCHANGED inbox
  /\ UNCHANGED <<searchVars, registry, tokens, ends>>

\* A call is cancelled at an await; CancelledError is no Exception, so the .part
\* file stays.
Cancel(d) ==
  /\ download[d].pc \in {"opened", "streaming"} /\ ends < MaxEnds
  /\ Raise(d)
  /\ ends' = ends + 1
  /\ UNCHANGED <<searchVars, registry, tokens, fileVars>>

\* A session ends and another begins in its place.
EndSession(s) ==
  /\ ends < MaxEnds
  /\ registry' = [registry EXCEPT ![s] = {}]
  /\ download' = [d \in Downloads |->
       IF download[d].session = s /\ download[d].pc \in {"opened", "streaming"}
         THEN [IdleDownload EXCEPT !.pc = "raised"] ELSE download[d]]
  /\ ends' = ends + 1
  /\ UNCHANGED <<searchVars, tokens, fileVars>>

FulltextNext ==
  \/ \E s \in Sessions : FindFulltext(s) \/ EndSession(s)
  \/ \E d \in Downloads :
       StartDownload(d) \/ Refuse(d) \/ Stream(d) \/ StreamFails(d) \/ PublishDownload(d) \/ Cancel(d)

DiscoveryNext == SearchFiltered \/ FulltextNext

DiscoverySpec == DiscoveryInit /\ [][DiscoveryNext]_discoveryVars

-----------------------------------------------------------------------------
(* Properties                                                              *)

\* The sources share the limit: of k sources that answered, each one's first
\* limit/k records that pass the filters, once merged, are in the result, and once (the
\* comment in search_filtered on the first source), whichever sources failed.
FairShare ==
  found # NONE =>
    LET lists == found.answers
        merged == DeduplicatePapers(TakeTurns(lists))
        Passes(key) == \E i \in DOMAIN merged :
          merged[i].key = key /\ Wanted(merged[i], found.years, found.openOnly)
    IN
    /\ Len(found.papers) <= found.limit
    /\ \A i, j \in DOMAIN found.papers : found.papers[i].key = found.papers[j].key => i = j
    /\ \A i \in DOMAIN lists : \A j \in DOMAIN lists[i] :
         j * Len(lists) <= found.limit /\ Passes(lists[i][j].key) =>
           \E n \in DOMAIN found.papers : found.papers[n].key = lists[i][j].key

\* What download_open_pdf returned stays there: the file it named holds the content
\* whose hash it returned, whatever other calls stream, fail, are cancelled or publish
\* under the same name; and the inbox holds nothing but whole PDFs.
DownloadsKept ==
  /\ \A d \in Downloads : download[d].pc = "returned" => inbox[download[d].path] = download[d].content
  /\ \A f \in Files : inbox[f] \in Pdfs \cup {NONE}
=============================================================================
