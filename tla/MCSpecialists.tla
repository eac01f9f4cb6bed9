---------------------------- MODULE MCSpecialists ----------------------------
(* The instances of Research and Writing that TLC checks.  A behaviour is    *)
(* about research calls or about a writing request; the other module then    *)
(* keeps one initial state.                                                  *)
(*                                                                         *)
(* Research: three documents, the third out of scope; the two best chunks    *)
(* belong to one document, so that coverage has to be filled; one work is    *)
(* new, the other the third document's twin.                                 *)
(*                                                                         *)
(* Writing: two needs, three works of which two new ones share a key stem,   *)
(* and one work found by two needs.                                          *)
EXTENDS Research, Writing, TLC

CONSTANTS s1, s2, p1, f1, d1, d2, d3, c1, c2, c3, c4, w1, w2, q1, q2,
          r1, e1, e2, e3, k1

VARIABLE cast   \* "research" or "writing"

-----------------------------------------------------------------------------
(* Research *)

OneProcess == [s \in Searches |-> p1]
OneFingerprint == [s \in Searches |-> f1]
MCDocOf == c1 :> d1 @@ c2 :> d1 @@ c3 :> d2 @@ c4 :> d3
MCPaperRanking == <<d1, d3, d2>>
MCChunkRanking == <<c1, c2, c3, c4>>
MCWorkRanking == <<w1, w2>>
MCTwinOf == [d \in Docs |-> IF d = d3 THEN w2 ELSE d]
MCSupports == q1 :> {c2, c3} @@ q2 :> {w1}
MCConflicting == {{c1, c3}}

Search(latest, mode, evolving, allowWeb, queries, web, minPapers, claims) ==
    [latest |-> latest, mode |-> mode, evolving |-> evolving,
     allowWeb |-> allowWeb, webQueries |-> queries, web |-> web,
     minPapers |-> minPapers, claims |-> claims]

Latest == Search(TRUE, "LOCAL_FIRST", FALSE, TRUE, 1, TRUE, 2, {q1, q2})
Evolving == Search(FALSE, "LOCAL_FIRST", TRUE, TRUE, 1, TRUE, 0, {q1, q2})
LocalFirst == Search(FALSE, "LOCAL_FIRST", FALSE, FALSE, 1, TRUE, 2, {q1})
LocalOnly == Search(FALSE, "LOCAL_ONLY", FALSE, TRUE, 1, TRUE, 0, {q1, q2})
NoQueries == Search(FALSE, "FRESH_REQUIRED", FALSE, TRUE, 0, TRUE, 0, {q1, q2})
NoAdapter == Search(FALSE, "LOCAL_FIRST", FALSE, TRUE, 1, FALSE, 0, {q1, q2})

\* Two searches of one fingerprint, and the calls that never reach the web.
NoWeb == s1 :> NoQueries @@ s2 :> NoAdapter
MCSearchMixes == {s1 :> Latest @@ s2 :> Evolving, s1 :> LocalOnly @@ s2 :> LocalFirst, NoWeb}

-----------------------------------------------------------------------------
(* Writing *)

MCWorkOf == e1 :> w1 @@ e2 :> w2 @@ e3 :> w1
MCPaperOf == MCWorkOf
MCStem == w1 :> "s" @@ w2 :> "s"

Pack(items, status, ids, counter) ==
    [items |-> items, status |-> status, ids |-> ids, counter |-> counter]

MCPackChoices ==
    << {Pack(<<e1>>, "supported", {e1}, {}), Pack(<<e1>>, "unresolved", {}, {})},
       {Pack(<<e2, e3>>, "supported", {e2}, {}), Pack(<<e2>>, "unresolved", {}, {e2})} >>

Profile(task, minimum, handoff, revises) ==
    [task |-> task, project |-> TRUE, capable |-> TRUE, selected |-> {},
     contradicted |-> FALSE, minimum |-> minimum, handoff |-> handoff,
     revises |-> revises]

Good == {Profile("WRITE_INTRODUCTION", 0, "none", TRUE),
         Profile("WRITE_INTRODUCTION", 2, "full", TRUE),
         Profile("WRITE_INTRODUCTION", 0, "short", FALSE),
         Profile("WRITE_ABSTRACT", 0, "none", TRUE),
         Profile("WRITE_CONCLUSION", 0, "none", FALSE),
         Profile("SUPPORT_CLAIM", 0, "none", FALSE)}
Claim == Profile("SUPPORT_CLAIM", 0, "none", FALSE)
Intro == Profile("WRITE_INTRODUCTION", 2, "none", TRUE)
Bad == {[Intro EXCEPT !.project = FALSE], [Intro EXCEPT !.capable = FALSE],
        [Intro EXCEPT !.contradicted = TRUE], [Intro EXCEPT !.selected = {k1}]}

MCMixes == {[r \in Requests |-> p] : p \in Good \cup Bad}

Entry(w) == [key |-> <<"s", 0>>, work |-> w]
MCInitialBib == {{}, {Entry(w1)}, {Entry(w1), [key |-> <<"t", 0>>, work |-> w1]}}
MCSavedStates == {[hash |-> [s \in Sections |-> 1], stale |-> {}]}

-----------------------------------------------------------------------------
(* Both *)

MCInit ==
    /\ cast \in {"research", "writing"} /\ ResearchInit /\ Init
    /\ cast = "research" => ~root /\ call = [r \in Requests |-> NewCall(Claim)]
    /\ cast = "writing" => req = [s \in Searches |-> NewSearch(NoWeb[s])]

MCNext ==
    /\ UNCHANGED cast
    /\ \/ cast = "research" /\ ResearchNext /\ UNCHANGED vars
       \/ cast = "writing" /\ Next /\ UNCHANGED researchVars

MCSpec == MCInit /\ [][MCNext]_<<cast, researchVars, vars>>
=============================================================================
