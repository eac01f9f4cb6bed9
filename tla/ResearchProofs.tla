--------------------------- MODULE ResearchProofs ---------------------------
(* Proofs about Research: a pack's local evidence is text of the scope that   *)
(* the corpus held while it was validated, freshness is claimed only on a    *)
(* provider's answer, and every target claim is backed or listed as open.    *)
EXTENDS Research, FiniteSetTheorems, SequenceTheorems, WellFoundedInduction, TLAPS

-----------------------------------------------------------------------------
(* Keep: what it returns is good, and was there.                              *)

LEMMA LeastNat ==
  ASSUME NEW T \in SUBSET Nat, T # {}
  PROVE  \E x \in T : \A y \in T : x <= y
<1>1. \E x \in T : \A y \in T : ~(<<y, x>> \in OpToRel(<, Nat))
  BY NatLessThanWellFounded, WFMin
<1>2. \A x, y \in Nat : <<y, x>> \in OpToRel(<, Nat) <=> y < x
  BY Zenon DEF OpToRel
<1>3. \E R : /\ \E x \in T : \A y \in T : ~(<<y, x>> \in R)
             /\ \A x, y \in Nat : <<y, x>> \in R <=> y < x
  BY <1>1, <1>2, Zenon
<1>4. PICK R : /\ \E x \in T : \A y \in T : ~(<<y, x>> \in R)
               /\ \A x, y \in Nat : <<y, x>> \in R <=> y < x
  BY <1>3
<1>5. PICK x \in T : \A y \in T : ~(<<y, x>> \in R)
  BY <1>4
<1>6. ASSUME NEW y \in T PROVE x <= y
  <2>1. ~(y < x)
    BY <1>4, <1>5
  <2>2. x \in Nat /\ y \in Nat
    OBVIOUS
  <2>. QED  BY <2>1, <2>2
<1>. QED  BY <1>6

\* The members of a finite set of numbers below i.
Below(at, i) == {j \in at : j < i}

LEMMA EveryRank ==
  ASSUME NEW at \in SUBSET Nat, IsFiniteSet(at)
  PROVE  \A n \in Nat : n < Cardinality(at) => \E i \in at : Cardinality(Below(at, i)) = n
<1>. DEFINE Absent == {n \in Nat : /\ n < Cardinality(at)
                                   /\ \A i \in at : Cardinality(Below(at, i)) # n}
<1>0. Cardinality(at) \in Nat
  BY FS_CardinalityType
<1>. SUFFICES ASSUME Absent # {} PROVE FALSE
  OBVIOUS
<1>1. PICK n \in Absent : \A m \in Absent : n <= m
  BY LeastNat
<1>2. CASE n = 0
  <2>1. at # {}
    BY <1>1, <1>2, FS_EmptySet
  <2>2. PICK x \in at : \A y \in at : x <= y
    BY <2>1, LeastNat
  <2>3. Below(at, x) = {}
    <3>1. \A y \in at : x \in Nat /\ y \in Nat
      OBVIOUS
    <3>2. \A y \in at : ~(y < x)
      BY <3>1, <2>2
    <3>. QED  BY <3>2 DEF Below
  <2>. QED  BY <1>1, <1>2, <2>3, FS_EmptySet
<1>3. CASE n # 0
  <2>1. n - 1 \in Nat /\ n - 1 < Cardinality(at) /\ ~(n - 1 \in Absent)
    BY <1>0, <1>1, <1>3
  <2>2. PICK i \in at : Cardinality(Below(at, i)) = n - 1
    BY <2>1
  <2>3. IsFiniteSet(Below(at, i)) /\ i \notin Below(at, i)
    BY FS_Subset DEF Below
  <2>4. Cardinality(Below(at, i) \cup {i}) = n
    <3>1. Cardinality(Below(at, i) \cup {i}) = Cardinality(Below(at, i)) + 1
      BY <2>3, FS_AddElement
    <3>. QED  BY <3>1, <2>2, <1>1
  <2>. DEFINE above == {j \in at : i < j}
  <2>. \A j \in at : j \in Nat
    OBVIOUS
  <2>5. CASE above = {}
    <3>0. \A j \in at : j < i \/ j = i
      BY <2>5
    <3>1. at = Below(at, i) \cup {i}
      BY <3>0 DEF Below
    <3>. QED  BY <3>1, <2>4, <1>1
  <2>6. CASE above # {}
    <3>1. PICK x \in above : \A y \in above : x <= y
      BY <2>6, LeastNat
    <3>0. \A j \in at : j < x <=> j < i \/ j = i
      <4>. TAKE j \in at
      <4>1. x \in at /\ i < x /\ (i < j => x <= j)
        BY <3>1
      <4>. QED  BY <4>1
    <3>2. Below(at, x) = Below(at, i) \cup {i}
      BY <3>0 DEF Below
    <3>. QED  BY <3>1, <3>2, <2>4, <1>1
  <2>. QED  BY <2>5, <2>6
<1>. QED  BY <1>2, <1>3

\* A filtered sequence holds members of the sequence that are good.
LEMMA KeepIsGood ==
  ASSUME NEW S, NEW s \in Seq(S), NEW good
  PROVE  Keep(s, good) \in Seq(S \cap good)
<1>. DEFINE at == {i \in DOMAIN s : s[i] \in good}
            Nth(n) == CHOOSE i \in at : Cardinality({j \in at : j < i}) = n - 1
<1>1. at \in SUBSET Nat /\ IsFiniteSet(at)
  <2>1. at \subseteq 1..Len(s) /\ Len(s) \in Nat
    OBVIOUS
  <2>2. IsFiniteSet(1..Len(s))
    BY <2>1, FS_Interval
  <2>. QED  BY <2>1, <2>2, FS_Subset
<1>2. Cardinality(at) \in Nat
  BY <1>1, FS_CardinalityType
<1>3. ASSUME NEW n \in 1..Cardinality(at) PROVE s[Nth(n)] \in S \cap good
  <2>1. n - 1 \in Nat /\ n - 1 < Cardinality(at)
    BY <1>2
  <2>2. \E i \in at : Cardinality({j \in at : j < i}) = n - 1
    BY <1>1, <2>1, EveryRank DEF Below
  <2>3. Nth(n) \in at
    BY <2>2
  <2>. QED  BY <2>3
<1>4. Keep(s, good) = [n \in 1..Cardinality(at) |-> s[Nth(n)]]
  BY DEF Keep
<1>5. [n \in 1..Cardinality(at) |-> s[Nth(n)]] \in [1..Cardinality(at) -> S \cap good]
  BY <1>3
<1>6. \A n \in Nat : [1..n -> S \cap good] \subseteq Seq(S \cap good)
  BY SeqDef
<1>. HIDE DEF at, Nth
<1>. QED  BY <1>2, <1>4, <1>5, <1>6

LEMMA FunctionIsSeq ==
  ASSUME NEW S, NEW n \in Nat
  PROVE  \A f \in [1..n -> S] : f \in Seq(S) /\ Len(f) = n
<1>. SUFFICES ASSUME NEW f \in [1..n -> S] PROVE f \in Seq(S) /\ Len(f) = n
  OBVIOUS
<1>1. f \in Seq(S)
  BY SeqDef
<1>2. Len(f) \in Nat /\ DOMAIN f = 1..Len(f) /\ DOMAIN f = 1..n
  BY <1>1
<1>. QED  BY <1>1, <1>2

LEMMA TakeIsSeq ==
  ASSUME NEW S, NEW s \in Seq(S), NEW n \in Nat
  PROVE  Take(s, n) \in Seq(S)
BY DEF Take

-----------------------------------------------------------------------------
(* The shape of a request's record, and what one step of it may change.      *)

CallFields == {"pc", "profile", "cancelled", "papers", "sections", "sources", "web",
               "verified", "conflicts", "final", "since", "until", "answer", "hit",
               "asked", "attempt", "over", "reused", "loaded", "pack"}

PackFields == {"items", "texts", "supported", "unresolved", "conflicts", "error"}

\* The places at which a request has a pack that is about its last validation.
Packed == {"decide", "cache", "call", "store", "write", "candidates", "judge", "done"}

Shape ==
  /\ DOMAIN req = Searches
  /\ \A r \in Searches : /\ DOMAIN req[r] = CallFields
                         /\ req[r].pc \in Packed => DOMAIN req[r].pack = PackFields

\* What every step of a request r does.
RecordKept(r) == /\ DOMAIN req' = Searches
                 /\ \A u \in Searches \ {r} : req'[u] = req[u]
                 /\ DOMAIN req'[r] = CallFields
                 /\ req'[r].profile = req[r].profile
PackShape(r) == req'[r].pc \in Packed => DOMAIN req'[r].pack = PackFields
WorldKept == /\ corpus' = corpus /\ held' = held /\ now' = now
             /\ answers \subseteq answers'

LEMMA StepChanges ==
  ASSUME Shape, NEW r \in Searches, Step(r) \/ Cancel(r)
  PROVE  RecordKept(r) /\ PackShape(r) /\ WorldKept
<1>0. /\ DOMAIN req = Searches /\ DOMAIN req[r] = CallFields
      /\ req[r].pc \in Packed => DOMAIN req[r].pack = PackFields
  BY DEF Shape
<1>. USE <1>0 DEF CallFields, PackFields, Packed, Others, RecordKept, PackShape, WorldKept
<1>1. CASE StopCancelled(r)
  BY <1>1 DEF StopCancelled, CancelChecked
<1>2. CASE SearchPapers(r)
  BY <1>2 DEF SearchPapers, Runs, AtStage, Retrieve
<1>3. CASE SearchSections(r)
  BY <1>3 DEF SearchSections, Runs, AtStage, Retrieve
<1>4. CASE Backfill(r)
  <2>1. RecordKept(r) /\ PackShape(r)
    BY <1>4 DEF Backfill
  <2>2. WorldKept
    BY <1>4 DEF Backfill, Retrieve
  <2>. QED  BY <2>1, <2>2
<1>5. CASE ReadEvidence(r)
  BY <1>5 DEF ReadEvidence, Runs, AtStage
<1>6. CASE CheckCandidates(r)
  BY <1>6 DEF CheckCandidates, Fail, AtStage
<1>7. CASE VerifyNext(r)
  BY <1>7 DEF VerifyNext, Fail, AtStage
<1>8. CASE VerifyEnds(r)
  BY <1>8 DEF VerifyEnds, AtStage
<1>9. CASE ReadConflicts(r)
  BY <1>9 DEF ReadConflicts, AtStage
<1>10. CASE MapEvidence(r)
  BY <1>10 DEF MapEvidence, AtStage, PackOf
<1>11. CASE Decide(r)
  BY <1>11 DEF Decide, AtStage, Refused
<1>12. CASE LookUp(r)
  <2>1. RecordKept(r)
    BY <1>12 DEF LookUp
  <2>2. req'[r].pack = req[r].pack /\ req[r].pc = "cache"
    BY <1>12 DEF LookUp, AtStage
  <2>3. WorldKept
    BY <1>12 DEF LookUp
  <2>. QED  BY <2>1, <2>2, <2>3
<1>13. CASE Answer(r)
  BY <1>13 DEF Answer, AtStage
<1>14. CASE TimesOut(r)
  BY <1>14 DEF TimesOut, GiveUpWeb, Refused, AtStage
<1>15. CASE ProviderFails(r)
  BY <1>15 DEF ProviderFails, GiveUpWeb, Refused, AtStage
<1>16. CASE LoadCache(r)
  BY <1>16 DEF LoadCache, AtStage
<1>17. CASE WriteCache(r)
  BY <1>17 DEF WriteCache, AtStage
<1>18. CASE WebCandidates(r)
  BY <1>18 DEF WebCandidates, AtStage
<1>19. CASE JudgePack(r)
  BY <1>19 DEF JudgePack, AtStage, Refused
<1>20. CASE Cancel(r)
  BY <1>20 DEF Cancel, CancelChecked
<1>. QED
  BY <1>1, <1>2, <1>3, <1>4, <1>5, <1>6, <1>7, <1>8, <1>9, <1>10, <1>11, <1>12, <1>13,
     <1>14, <1>15, <1>16, <1>17, <1>18, <1>19, <1>20 DEF Step

LEMMA StepShape ==
  ASSUME Shape, NEW r \in Searches, Step(r) \/ Cancel(r)
  PROVE  /\ Shape'
         /\ \A u \in Searches \ {r} : req'[u] = req[u]
         /\ req'[r].profile = req[r].profile
         /\ corpus' = corpus /\ held' = held /\ now' = now
         /\ answers \subseteq answers'
<1>1. RecordKept(r) /\ PackShape(r) /\ WorldKept
  BY StepChanges
<1>2. ASSUME NEW u \in Searches
      PROVE  /\ DOMAIN req'[u] = CallFields
             /\ req'[u].pc \in Packed => DOMAIN req'[u].pack = PackFields
  <2>1. CASE u = r
    BY <1>1, <2>1 DEF RecordKept, PackShape
  <2>2. CASE u # r
    BY <1>1, <2>2 DEF RecordKept, Shape
  <2>. QED  BY <2>1, <2>2
<1>3. Shape'
  BY <1>1, <1>2 DEF Shape, RecordKept
<1>. QED  BY <1>1, <1>3 DEF RecordKept, WorldKept

\* Only a validation, a refusal and the verdict change a request's pack.
LEMMA PackKept ==
  ASSUME Shape, NEW r \in Searches, Step(r) \/ Cancel(r),
         ~(MapEvidence(r) \/ Decide(r) \/ JudgePack(r) \/ (GiveUpWeb(r) /\ AtStage(r, "call")))
  PROVE  /\ req'[r].pack = req[r].pack
         /\ req'[r].pc \in Packed => req[r].pc \in Packed
<1>0. DOMAIN req = Searches /\ DOMAIN req[r] = CallFields
  BY DEF Shape
<1>. USE DEF CallFields, Packed
<1>1. CASE StopCancelled(r)
  BY <1>0, <1>1 DEF StopCancelled
<1>2. CASE Cancel(r)
  BY <1>0, <1>2 DEF Cancel
<1>3. CASE SearchPapers(r)
  BY <1>0, <1>3 DEF SearchPapers
<1>4. CASE SearchSections(r)
  BY <1>0, <1>4 DEF SearchSections
<1>5. CASE Backfill(r)
  BY <1>0, <1>5 DEF Backfill
<1>6. CASE ReadEvidence(r)
  BY <1>0, <1>6 DEF ReadEvidence
<1>7. CASE CheckCandidates(r)
  BY <1>0, <1>7 DEF CheckCandidates, Fail
<1>8. CASE VerifyNext(r)
  BY <1>0, <1>8 DEF VerifyNext, Fail, AtStage
<1>9. CASE VerifyEnds(r)
  BY <1>0, <1>9 DEF VerifyEnds
<1>10. CASE ReadConflicts(r)
  BY <1>0, <1>10 DEF ReadConflicts
<1>11. CASE LookUp(r)
  BY <1>0, <1>11 DEF LookUp, AtStage
<1>12. CASE Answer(r)
  BY <1>0, <1>12 DEF Answer, AtStage
<1>13. CASE TimesOut(r) \/ ProviderFails(r)
  BY <1>0, <1>13 DEF TimesOut, ProviderFails, AtStage
<1>14. CASE LoadCache(r)
  BY <1>0, <1>14 DEF LoadCache, AtStage
<1>15. CASE WriteCache(r)
  BY <1>0, <1>15 DEF WriteCache, AtStage
<1>16. CASE WebCandidates(r)
  BY <1>0, <1>16 DEF WebCandidates, AtStage
<1>. QED
  BY <1>1, <1>2, <1>3, <1>4, <1>5, <1>6, <1>7, <1>8, <1>9, <1>10, <1>11, <1>12, <1>13,
     <1>14, <1>15, <1>16 DEF Step

LEMMA InitShape == ResearchInit => Shape
BY DEF ResearchInit, Shape, NewSearch, CallFields, Packed

LEMMA NextShape == Shape /\ [ResearchNext]_researchVars => Shape'
<1>. SUFFICES ASSUME Shape, [ResearchNext]_researchVars PROVE Shape'
  OBVIOUS
<1>1. CASE UNCHANGED req
  BY <1>1 DEF Shape
<1>2. CASE \E r \in Searches : Step(r) \/ Cancel(r)
  BY <1>2, StepShape
<1>. QED  BY <1>1, <1>2 DEF ResearchNext, researchVars, Edit, Tick

-----------------------------------------------------------------------------
(* Claims: the pack of a request accounts for its target claims from the      *)
(* moment it is built, and every refusal opens them all again.                *)

Accounts(pack, claims) ==
  \A k \in claims : k \notin pack.unresolved =>
      /\ pack.error = "none"
      /\ (ItemsOf(pack.items) \cap Supports[k]) \ Counter # {}

BackedInv ==
  \A r \in Searches : req[r].pc \in Packed => Accounts(req[r].pack, req[r].profile.claims)

LEMMA BackedStep ==
  ASSUME Shape, BackedInv, NEW r \in Searches, Step(r) \/ Cancel(r)
  PROVE  req'[r].pc \in Packed => Accounts(req'[r].pack, req'[r].profile.claims)
<1>0. /\ DOMAIN req = Searches /\ DOMAIN req[r] = CallFields
      /\ req[r].pc \in Packed => /\ DOMAIN req[r].pack = PackFields
                                 /\ Accounts(req[r].pack, req[r].profile.claims)
  BY DEF Shape, BackedInv
<1>. USE DEF CallFields, Packed
<1>1. ASSUME NEW pack, NEW code, DOMAIN pack = PackFields
      PROVE  LET p == req[r].profile
             IN Accounts(Refused(pack, p, code), p.claims)
  BY <1>1 DEF Accounts, Refused, PackFields
<1>2. Accounts(PackOf(r), req[r].profile.claims)
  BY DEF Accounts, PackOf, SupportedBy
<1>3. CASE MapEvidence(r)
  BY <1>0, <1>2, <1>3 DEF MapEvidence, AtStage
<1>4. CASE Decide(r)
  <2>1. CASE WebRequired(req[r].profile, req[r].pack) /\ Refusal(req[r].profile) # "none"
    <3>1. /\ req'[r].pack = Refused(req[r].pack, req[r].profile, Refusal(req[r].profile))
          /\ req'[r].profile = req[r].profile
      BY <1>0, <1>4, <2>1 DEF Decide, AtStage
    <3>. QED  BY <1>0, <1>1, <1>4, <3>1 DEF Decide, AtStage
  <2>2. CASE ~(WebRequired(req[r].profile, req[r].pack) /\ Refusal(req[r].profile) # "none")
    BY <1>0, <1>4, <2>2 DEF Decide, AtStage
  <2>. QED  BY <2>1, <2>2
<1>5. CASE GiveUpWeb(r) /\ AtStage(r, "call")
  <2>1. \E code : /\ req'[r].pack = Refused(req[r].pack, req[r].profile, code)
                  /\ req'[r].profile = req[r].profile
    BY <1>0, <1>5 DEF GiveUpWeb
  <2>. QED  BY <1>0, <1>1, <1>5, <2>1 DEF AtStage
<1>6. CASE JudgePack(r)
  <2>1. \/ req'[r].pack = req[r].pack
        \/ req'[r].pack = Refused(req[r].pack, req[r].profile, "FRESHNESS_UNAVAILABLE")
    BY <1>0, <1>6 DEF JudgePack
  <2>2. req'[r].profile = req[r].profile
    BY <1>0, <1>6 DEF JudgePack
  <2>. QED  BY <1>0, <1>1, <1>6, <2>1, <2>2 DEF JudgePack, AtStage
<1>7. CASE ~(MapEvidence(r) \/ Decide(r) \/ JudgePack(r) \/ (GiveUpWeb(r) /\ AtStage(r, "call")))
  <2>1. /\ req'[r].pack = req[r].pack
        /\ req'[r].pc \in Packed => req[r].pc \in Packed
    BY <1>7, PackKept
  <2>2. req'[r].profile = req[r].profile
    BY StepShape
  <2>. HIDE DEF Packed
  <2>. QED  BY <1>0, <2>1, <2>2
<1>. QED  BY <1>3, <1>4, <1>5, <1>6, <1>7

\* Every target claim a pack does not list as open is backed by an item of
\* that very pack, and a refusal resolves nothing (build_evidence_pack, research).
THEOREM ClaimsAreBacked == ResearchSpec => []ClaimsBacked
<1>1. ResearchInit => BackedInv
  BY DEF ResearchInit, BackedInv, NewSearch, Packed
<1>2. Shape /\ BackedInv /\ [ResearchNext]_researchVars => BackedInv'
  <2>. SUFFICES ASSUME Shape, BackedInv, [ResearchNext]_researchVars PROVE BackedInv'
    OBVIOUS
  <2>1. CASE UNCHANGED req
    BY <2>1 DEF BackedInv
  <2>2. CASE \E r \in Searches : Step(r) \/ Cancel(r)
    BY <2>2, BackedStep, StepShape DEF BackedInv
  <2>. QED  BY <2>1, <2>2 DEF ResearchNext, researchVars, Edit, Tick
<1>3. BackedInv => ClaimsBacked
  BY DEF BackedInv, ClaimsBacked, Accounts, Answered, AtStage, Packed
<1>. QED  BY <1>1, <1>2, <1>3, InitShape, NextShape, PTL DEF ResearchSpec

-----------------------------------------------------------------------------
(* Freshness: whatever the cache file holds, or a process has read of it, is  *)
(* an answer some provider gave under that key.                              *)

CacheLogged(file) ==
  /\ DOMAIN file = Keys
  /\ \A k \in Keys : file[k] # NoEntry =>
        [key |-> k, works |-> file[k].works, at |-> file[k].at] \in answers

\* A request's answer is a logged one, and was young when it was asked for.
RestsOnAnswer(r) ==
  \E a \in answers :
      a.key = KeyOf[r] /\ a.works = req[r].answer /\ req[r].asked < a.at + TTL

\* The places a request passes with the answer it got from the web.
Searched(r) ==
  \/ req[r].pc \in {"write", "candidates", "judge"}
  \/ req[r].final /\ req[r].pc \in {"check", "verify", "conflicts", "map"}

FreshOf(r) ==
  /\ req[r].pc \in {"papers", "sections", "backfill", "read"} => ~req[r].final
  /\ req[r].pc \in {"call", "store"} => req[r].asked = now
  /\ req[r].pc = "store" =>
       [key |-> KeyOf[r], works |-> req[r].answer, at |-> now] \in answers
  /\ req[r].pc = "write" => CacheLogged(req[r].loaded)
  /\ Searched(r) => RestsOnAnswer(r)
  /\ req[r].pc = "done" /\ IsFresh(req[r].profile) /\ req[r].pack.error = "none" =>
       RestsOnAnswer(r) /\ req[r].answer \cap Recent # {}

FreshInv == now \in Nat /\ CacheLogged(cache) /\ \A r \in Searches : FreshOf(r)

LEMMA MoreAnswers ==
  ASSUME answers \subseteq answers', NEW file, CacheLogged(file)
  PROVE  CacheLogged(file)'
BY DEF CacheLogged

LEMMA StillFresh ==
  ASSUME NEW u \in Searches, FreshOf(u), req'[u] = req[u], answers \subseteq answers',
         now' = now \/ req[u].pc \notin {"call", "store"}
  PROVE  FreshOf(u)'
<1>1. CacheLogged(req[u].loaded) => CacheLogged(req[u].loaded)'
  BY DEF CacheLogged
<1>2. RestsOnAnswer(u) => RestsOnAnswer(u)'
  BY DEF RestsOnAnswer
<1>. QED  BY <1>1, <1>2 DEF FreshOf, Searched

\* A stage that looks at no answer: what the request rests on stays.
LEMMA StageKeepsFresh ==
  ASSUME Shape, NEW r \in Searches, FreshOf(r), answers' = answers,
         req'[r].answer = req[r].answer, req'[r].asked = req[r].asked,
         req'[r].final = req[r].final,
         \/ req'[r].pc \in {"sections", "backfill", "read"}
              /\ req[r].pc \in {"papers", "sections", "backfill"}
         \/ req'[r].pc = "check" /\ req[r].pc = "read"
         \/ req'[r].pc \in {"verify", "conflicts", "map", "judge"} /\ Searched(r)
         \/ req'[r].pc \in {"verify", "conflicts", "map"} /\ ~req[r].final
         \/ req'[r].pc \in {"decide", "cache", "failed"}
  PROVE  FreshOf(r)'
BY DEF FreshOf, Searched, RestsOnAnswer

LEMMA FreshStep ==
  ASSUME ResearchAssumption, Shape, FreshInv, NEW r \in Searches, Step(r) \/ Cancel(r)
  PROVE  FreshOf(r)' /\ CacheLogged(cache)'
<1>0. /\ DOMAIN req = Searches /\ DOMAIN req[r] = CallFields
      /\ req[r].pc \in Packed => DOMAIN req[r].pack = PackFields
      /\ FreshOf(r) /\ now \in Nat /\ CacheLogged(cache) /\ KeyOf[r] \in Keys
      /\ TTL \in Nat \ {0}
  BY DEF Shape, FreshInv, ResearchAssumption
<1>a. now' = now /\ answers \subseteq answers' /\ req'[r].profile = req[r].profile
  BY StepShape
<1>b. cache' = cache => CacheLogged(cache)'
  BY <1>0, <1>a DEF CacheLogged
<1>. USE DEF CallFields
<1>1. CASE StopCancelled(r)
  <2>1. /\ req[r].pc \in CancelChecked /\ req'[r].pc \in {"failed"}
        /\ req'[r].answer = req[r].answer /\ req'[r].asked = req[r].asked
        /\ req'[r].final = req[r].final /\ cache' = cache /\ answers' = answers
    BY <1>0, <1>1 DEF StopCancelled, Others
  <2>. QED  BY <1>0, <1>b, <2>1, StageKeepsFresh DEF Searched
<1>2. CASE SearchPapers(r)
  <2>1. /\ req[r].pc \in {"papers"} /\ req'[r].pc \in {"sections"}
        /\ req'[r].answer = req[r].answer /\ req'[r].asked = req[r].asked
        /\ req'[r].final = req[r].final /\ cache' = cache /\ answers' = answers
    BY <1>0, <1>2 DEF SearchPapers, Runs, AtStage, Retrieve
  <2>. QED  BY <1>0, <1>b, <2>1, StageKeepsFresh DEF Searched
<1>3. CASE SearchSections(r)
  <2>1. /\ req[r].pc \in {"sections"} /\ req'[r].pc \in {"backfill", "read"}
        /\ req'[r].answer = req[r].answer /\ req'[r].asked = req[r].asked
        /\ req'[r].final = req[r].final /\ cache' = cache /\ answers' = answers
    BY <1>0, <1>3 DEF SearchSections, Runs, AtStage, Retrieve
  <2>. QED  BY <1>0, <1>b, <2>1, StageKeepsFresh DEF Searched
<1>4. CASE Backfill(r)
  <2>1. /\ req[r].pc \in {"backfill"} /\ req'[r].pc \in {"read"}
        /\ req'[r].answer = req[r].answer /\ req'[r].asked = req[r].asked
        /\ req'[r].final = req[r].final /\ cache' = cache /\ answers' = answers
    BY <1>0, <1>4 DEF Backfill, Runs, AtStage, Retrieve, Others
  <2>. QED  BY <1>0, <1>b, <2>1, StageKeepsFresh DEF Searched
<1>5. CASE ReadEvidence(r)
  <2>1. /\ req[r].pc = "read" /\ req'[r].pc \in {"failed", "check"}
        /\ req'[r].answer = req[r].answer /\ req'[r].asked = req[r].asked
        /\ req'[r].final = req[r].final /\ cache' = cache /\ answers' = answers
    BY <1>0, <1>5 DEF ReadEvidence, Runs, AtStage, Others
  <2>. QED  BY <1>0, <1>b, <2>1, StageKeepsFresh
<1>6. CASE CheckCandidates(r)
  <2>1. /\ req[r].pc \in {"check"} /\ req'[r].pc \in {"failed", "verify"}
        /\ req'[r].answer = req[r].answer /\ req'[r].asked = req[r].asked
        /\ req'[r].final = req[r].final /\ cache' = cache /\ answers' = answers
    BY <1>0, <1>6 DEF CheckCandidates, Fail, AtStage
  <2>. QED  BY <1>0, <1>b, <2>1, StageKeepsFresh DEF Searched
<1>7. CASE VerifyNext(r)
  <2>1. CASE Fail(r)
    BY <1>0, <1>b, <2>1, StageKeepsFresh DEF Fail
  <2>2. CASE ~Fail(r)
    <3>1. /\ req'[r].pc = "verify" /\ req[r].pc = "verify" /\ answers' = answers
          /\ req'[r].answer = req[r].answer /\ req'[r].asked = req[r].asked
          /\ req'[r].final = req[r].final /\ cache' = cache
      BY <1>0, <1>7, <2>2 DEF VerifyNext, AtStage, Others
    <3>. QED  BY <1>0, <1>b, <3>1, StageKeepsFresh DEF Searched
  <2>. QED  BY <2>1, <2>2
<1>8. CASE VerifyEnds(r)
  <2>1. /\ req[r].pc \in {"verify"} /\ req'[r].pc \in {"conflicts"}
        /\ req'[r].answer = req[r].answer /\ req'[r].asked = req[r].asked
        /\ req'[r].final = req[r].final /\ cache' = cache /\ answers' = answers
    BY <1>0, <1>8 DEF VerifyEnds, AtStage
  <2>. QED  BY <1>0, <1>b, <2>1, StageKeepsFresh DEF Searched
<1>9. CASE ReadConflicts(r)
  <2>1. /\ req[r].pc \in {"conflicts"} /\ req'[r].pc \in {"map"}
        /\ req'[r].answer = req[r].answer /\ req'[r].asked = req[r].asked
        /\ req'[r].final = req[r].final /\ cache' = cache /\ answers' = answers
    BY <1>0, <1>9 DEF ReadConflicts, AtStage
  <2>. QED  BY <1>0, <1>b, <2>1, StageKeepsFresh DEF Searched
<1>10. CASE MapEvidence(r)
  <2>1. /\ req[r].pc = "map" /\ answers' = answers /\ cache' = cache
        /\ \/ req'[r].pc \in {"failed", "decide"}
           \/ req'[r].pc = "judge" /\ req[r].final
        /\ req'[r].answer = req[r].answer /\ req'[r].asked = req[r].asked
        /\ req'[r].final = req[r].final
    BY <1>0, <1>10 DEF MapEvidence, AtStage, Others
  <2>. QED  BY <1>0, <1>b, <2>1, StageKeepsFresh DEF Searched
<1>11. CASE Decide(r)
  <2>1. CASE req'[r].pc = "cache"
    BY <1>0, <1>b, <1>11, <2>1, StageKeepsFresh DEF Decide, AtStage, Others
  <2>2. CASE req'[r].pc # "cache"
    <3>1. /\ req'[r].pc = "done" /\ cache' = cache
          /\ \/ ~WebRequired(req[r].profile, req[r].pack)
             \/ req'[r].pack.error = Refusal(req[r].profile)
                  /\ Refusal(req[r].profile) # "none"
      BY <1>0, <1>11, <2>2 DEF Decide, AtStage, Others, Refused, Packed, PackFields
    <3>2. IsFresh(req[r].profile) => req'[r].pack.error # "none"
      BY <3>1 DEF WebRequired
    <3>. QED  BY <1>a, <1>b, <3>1, <3>2 DEF FreshOf, Searched
  <2>. QED  BY <2>1, <2>2
<1>12. CASE LookUp(r)
  <2>1. answers' = answers /\ cache' = cache /\ req'[r].asked = now
    BY <1>0, <1>12 DEF LookUp, Others
  <2>2. CASE Unexpired(cache[KeyOf[r]])
    <3>1. req'[r].pc = "candidates" /\ req'[r].answer = cache[KeyOf[r]].works
      BY <1>0, <1>12, <2>2 DEF LookUp
    <3>2. /\ [key |-> KeyOf[r], works |-> cache[KeyOf[r]].works,
              at |-> cache[KeyOf[r]].at] \in answers
          /\ now < cache[KeyOf[r]].at + TTL
      BY <1>0, <2>2 DEF Unexpired, CacheLogged
    <3>3. RestsOnAnswer(r)'
      BY <2>1, <3>1, <3>2 DEF RestsOnAnswer
    <3>. QED  BY <1>b, <2>1, <3>1, <3>3 DEF FreshOf, Searched
  <2>3. CASE ~Unexpired(cache[KeyOf[r]])
    <3>1. req'[r].pc = "call"
      BY <1>0, <1>12, <2>3 DEF LookUp
    <3>. QED  BY <1>a, <1>b, <2>1, <3>1 DEF FreshOf, Searched
  <2>. QED  BY <2>2, <2>3
<1>13. CASE Answer(r)
  <2>1. /\ req'[r].pc = "store" /\ req'[r].asked = now /\ cache' = cache
        /\ [key |-> KeyOf[r], works |-> req'[r].answer, at |-> now] \in answers'
    BY <1>0, <1>13 DEF Answer, AtStage, FreshOf
  <2>. QED  BY <1>a, <1>b, <2>1 DEF FreshOf, Searched
<1>14. CASE GiveUpWeb(r) /\ AtStage(r, "call") /\ UNCHANGED Others
  <2>1. req'[r].pc = "done" /\ req'[r].pack.error # "none"
    BY <1>0, <1>14 DEF GiveUpWeb, Refused, AtStage, Packed, PackFields
  <2>. QED  BY <1>b, <1>14, <2>1 DEF FreshOf, Searched, Others
<1>15. CASE TimesOut(r) /\ ~GiveUpWeb(r)
  <2>1. /\ req'[r].pc = "call" /\ req'[r].asked = now /\ cache' = cache
    BY <1>0, <1>15 DEF TimesOut, AtStage, FreshOf, Others
  <2>. QED  BY <1>a, <1>b, <2>1 DEF FreshOf, Searched
<1>16. CASE LoadCache(r)
  <2>1. /\ req'[r].pc = "write" /\ req'[r].asked = now /\ req'[r].answer = req[r].answer
        /\ req'[r].loaded = [cache EXCEPT ![KeyOf[r]] =
                                [works |-> req[r].answer, at |-> now]]
        /\ cache' = cache /\ answers' = answers
        /\ [key |-> KeyOf[r], works |-> req[r].answer, at |-> now] \in answers
    BY <1>0, <1>16 DEF LoadCache, AtStage, FreshOf, Others
  <2>2. CacheLogged(req'[r].loaded)
    BY <1>0, <2>1 DEF CacheLogged
  <2>3. now < now + TTL
    BY <1>0
  <2>4. RestsOnAnswer(r)'
    BY <2>1, <2>3 DEF RestsOnAnswer
  <2>. QED  BY <1>b, <2>1, <2>2, <2>4 DEF FreshOf, Searched, CacheLogged
<1>17. CASE WriteCache(r)
  <2>1. /\ req'[r].pc = "candidates" /\ req'[r].asked = req[r].asked
        /\ req'[r].answer = req[r].answer /\ answers' = answers
        /\ cache' = req[r].loaded /\ CacheLogged(req[r].loaded) /\ RestsOnAnswer(r)
    BY <1>0, <1>17 DEF WriteCache, AtStage, FreshOf, Searched
  <2>. QED  BY <2>1 DEF FreshOf, Searched, RestsOnAnswer, CacheLogged
<1>18. CASE WebCandidates(r)
  <2>1. /\ req'[r].pc = "check" /\ req'[r].asked = req[r].asked /\ cache' = cache
        /\ req'[r].answer = req[r].answer /\ answers' = answers /\ RestsOnAnswer(r)
    BY <1>0, <1>18 DEF WebCandidates, AtStage, FreshOf, Searched, Others
  <2>. QED  BY <1>b, <2>1 DEF FreshOf, Searched, RestsOnAnswer
<1>19. CASE JudgePack(r)
  <2>1. /\ req'[r].pc = "done" /\ req'[r].asked = req[r].asked /\ cache' = cache
        /\ req'[r].answer = req[r].answer /\ answers' = answers /\ RestsOnAnswer(r)
    BY <1>0, <1>19 DEF JudgePack, AtStage, FreshOf, Searched, Others
  <2>2. IsFresh(req[r].profile) /\ ~FreshnessChecked(r) => req'[r].pack.error # "none"
    BY <1>0, <1>19 DEF JudgePack, AtStage, Refused, Packed, PackFields
  <2>3. FreshnessChecked(r) => req[r].answer \cap Recent # {}
    BY DEF FreshnessChecked
  <2>. QED  BY <1>a, <1>b, <2>1, <2>2, <2>3 DEF FreshOf, Searched, RestsOnAnswer
<1>20. CASE Cancel(r)
  <2>1. /\ req'[r].pc = req[r].pc /\ req[r].pc \in CancelChecked
        /\ req'[r].final = req[r].final /\ cache' = cache
    BY <1>0, <1>20 DEF Cancel, Others
  <2>. QED  BY <1>0, <1>b, <2>1 DEF FreshOf, Searched, CancelChecked
<1>. QED
  BY <1>1, <1>2, <1>3, <1>4, <1>5, <1>6, <1>7, <1>8, <1>9, <1>10, <1>11, <1>12, <1>13,
     <1>14, <1>15, <1>16, <1>17, <1>18, <1>19, <1>20 DEF Step, TimesOut, ProviderFails

\* A FRESH_REQUIRED pack without an error code rests on a provider's answer to
\* its own fingerprint that was less than one TTL old when it asked, however
\* the writes of the one cache file interleave (research, cache.get and put).
THEOREM FreshnessIsHonest == ResearchSpec => []FreshnessHonest
<1>1. ResearchInit => FreshInv
  BY DEF ResearchInit, FreshInv, FreshOf, CacheLogged, NewSearch, Searched
<1>2. Shape /\ FreshInv /\ [ResearchNext]_researchVars => FreshInv'
  <2>. SUFFICES ASSUME Shape, FreshInv, [ResearchNext]_researchVars PROVE FreshInv'
    OBVIOUS
  <2>1. CASE UNCHANGED researchVars
    BY <2>1 DEF researchVars, FreshInv, FreshOf, CacheLogged, Searched, RestsOnAnswer
  <2>2. CASE \E d \in Edited : Edit(d)
    BY <2>2 DEF Edit, FreshInv, FreshOf, CacheLogged, Searched, RestsOnAnswer
  <2>3. CASE Tick
    <3>1. \A u \in Searches : FreshOf(u)'
      BY <2>3, StillFresh DEF Tick, FreshInv
    <3>. QED  BY <2>3, <3>1 DEF Tick, FreshInv, CacheLogged
  <2>4. ASSUME NEW r \in Searches, Step(r) \/ Cancel(r) PROVE FreshInv'
    <3>1. FreshOf(r)' /\ CacheLogged(cache)'
      BY <2>4, FreshStep, ResearchAssumption
    <3>2. /\ \A u \in Searches \ {r} : req'[u] = req[u]
          /\ now' = now /\ answers \subseteq answers'
      BY <2>4, StepShape
    <3>3. \A u \in Searches \ {r} : FreshOf(u)'
      BY <3>2, StillFresh DEF FreshInv
    <3>. QED  BY <3>1, <3>2, <3>3 DEF FreshInv
  <2>. QED  BY <2>1, <2>2, <2>3, <2>4 DEF ResearchNext
<1>3. FreshInv => FreshnessHonest
  BY DEF FreshInv, FreshOf, FreshnessHonest, RestsOnAnswer, Answered, AtStage
<1>. QED  BY <1>1, <1>2, <1>3, InitShape, NextShape, PTL DEF ResearchSpec

-----------------------------------------------------------------------------
(* Evidence: what is searched is of the scope, and what is verified is text   *)
(* of a corpus there was between the two ends of the validation.             *)

ScopeChunks == {c \in Chunks : DocOf[c] \in ScopeDocs}

CorpusInv ==
  /\ corpus \in [Chunks -> Nat]
  /\ held \in Seq([Chunks -> Nat]) /\ held # <<>> /\ held[Len(held)] = corpus

\* A verified item is of the scope, and one of the corpora has its text.
Current(v, from, to) ==
  v.item \in Chunks => /\ v.item \in ScopeChunks
                       /\ \E i \in from..to : held[i][v.item] = v.text

EvidenceOf(c) ==
  /\ c.profile.minPapers \in Nat
  /\ c.papers \in Seq(Docs) /\ c.sections \in Seq(ScopeChunks)
  /\ c.sources \in Seq([item : ScopeChunks, text : Nat])
  /\ c.web \in Seq(WebWorks)
  /\ c.since \in 1..Len(held) /\ c.until \in 1..Len(held)
  /\ c.pc = "verify" =>
        /\ c.verified \in Seq([item : ScopeChunks, text : Nat])
        /\ \A v \in ItemsOf(c.verified) : Current(v, c.since, Len(held))
  /\ c.pc \in {"conflicts", "map"} =>
        \A v \in ItemsOf(c.verified) : Current(v, c.since, c.until)
  /\ c.pc \in Packed => \A v \in c.pack.texts : Current(v, c.since, c.until)

EvidenceInv == CorpusInv /\ \A r \in Searches : EvidenceOf(req[r])

LEMMA KeptOf ==
  ASSUME NEW S, NEW T
  PROVE  \A s \in Seq(S), good \in SUBSET T : Keep(s, good) \in Seq(S \cap T)
<1>. SUFFICES ASSUME NEW s \in Seq(S), NEW good \in SUBSET T
              PROVE  Keep(s, good) \in Seq(S \cap T)
  OBVIOUS
<1>. QED  BY KeepIsGood, SeqMonotonic, S \cap good \subseteq S \cap T

\* What a search returns is of the scope, whatever the corpus holds.
LEMMA GovernedInScope ==
  ASSUME ResearchAssumption
  PROVE  \A papers : Governed(papers) \in Seq(ScopeChunks)
<1>. SUFFICES ASSUME NEW papers PROVE Governed(papers) \in Seq(ScopeChunks)
  OBVIOUS
<1>1. PICK good : good = {c \in Chunks : /\ DocOf[c] \in ScopeDocs
                                         /\ corpus[c] # 0
                                         /\ papers = {} \/ DocOf[c] \in papers}
  OBVIOUS
<1>2. good \subseteq ScopeChunks /\ ScopeChunks \subseteq Chunks
  BY <1>1 DEF ScopeChunks
<1>3. Keep(ChunkRanking, good) \in Seq(Chunks \cap ScopeChunks)
  BY <1>2, KeptOf DEF ResearchAssumption
<1>4. Chunks \cap ScopeChunks = ScopeChunks
  BY <1>2
<1>. QED  BY <1>1, <1>3, <1>4 DEF Governed

LEMMA SectionsInScope ==
  ASSUME ResearchAssumption
  PROVE  \A papers : \A limit \in Nat : SectionsFound(papers, limit) \in Seq(ScopeChunks)
<1>1. \A s \in Seq(ScopeChunks), n \in Nat : Take(s, n) \in Seq(ScopeChunks)
  BY TakeIsSeq
<1>. QED  BY <1>1, GovernedInScope DEF SectionsFound

LEMMA PapersAreDocs ==
  ASSUME ResearchAssumption
  PROVE  PapersFound \in Seq(Docs)
<1>1. Take(PaperRanking, MaxPapers) \in Seq(Docs)
  BY TakeIsSeq DEF ResearchAssumption
<1>2. PapersFound \in Seq(Docs \cap ScopeDocs)
  BY <1>1, KeepIsGood DEF PapersFound
<1>. QED  BY <1>2, SeqMonotonic, Docs \cap ScopeDocs \subseteq Docs

LEMMA MissingAreDocs ==
  ASSUME NEW papers \in Seq(Docs), NEW sections \in Seq(ScopeChunks), NEW target \in Nat
  PROVE  Missing(papers, sections, target) \in Seq(Docs)
<1>. DEFINE seen == {DocOf[c] : c \in ItemsOf(sections)}
            f == [i \in 1..Len(sections) |-> DocOf[sections[i]]]
            short == IF target > Cardinality(seen) THEN target - Cardinality(seen) ELSE 0
<1>1. Cardinality(seen) \in Nat
  <2>1. DOMAIN sections = 1..Len(sections) /\ Len(sections) \in Nat
    OBVIOUS
  <2>2. f \in [1..Len(sections) -> seen]
    BY <2>1 DEF ItemsOf
  <2>3. \A d \in seen : \E i \in 1..Len(sections) : f[i] = d
    BY <2>1 DEF ItemsOf
  <2>4. f \in Surjection(1..Len(sections), seen)
    BY <2>2, <2>3 DEF Surjection
  <2>5. IsFiniteSet(1..Len(sections))
    BY <2>1, FS_Interval
  <2>6. IsFiniteSet(seen)
    BY <2>4, <2>5, FS_Surjection
  <2>. QED  BY <2>6, FS_CardinalityType
<1>2. short \in Nat
  BY <1>1
<1>3. Keep(papers, Docs \ seen) \in Seq(Docs)
  <2>1. Keep(papers, Docs \ seen) \in Seq(Docs \cap (Docs \ seen))
    BY KeepIsGood
  <2>. QED  BY <2>1, SeqMonotonic, Docs \cap (Docs \ seen) \subseteq Docs
<1>4. Missing(papers, sections, target) = Take(Keep(papers, Docs \ seen), short)
  BY DEF Missing
<1>. HIDE DEF short, seen
<1>. QED  BY <1>2, <1>3, <1>4, TakeIsSeq

LEMMA BackfillInScope ==
  ASSUME ResearchAssumption, Shape, NEW r \in Searches, EvidenceOf(req[r]), Backfill(r)
  PROVE  req'[r].sections \in Seq(ScopeChunks)
<1>1. PICK papers, sections, minimum :
        papers = req[r].papers /\ sections = req[r].sections
          /\ minimum = req[r].profile.minPapers
  OBVIOUS
<1>2. papers \in Seq(Docs) /\ sections \in Seq(ScopeChunks) /\ minimum \in Nat
  BY <1>1 DEF EvidenceOf
<1>. DEFINE target == IF minimum < MaxPapers THEN minimum ELSE MaxPapers
            missing == Missing(papers, sections, target)
<1>3. target \in Nat
  BY <1>2 DEF ResearchAssumption
<1>4. missing \in Seq(Docs)
  BY <1>2, <1>3, MissingAreDocs
<1>5. PICK good : good = {d \in Docs : SectionsFound({d}, 1) # <<>>}
  OBVIOUS
<1>6. PICK hits : hits = Keep(missing, good)
  OBVIOUS
<1>7. hits \in Seq(good)
  <2>1. hits \in Seq(Docs \cap good)
    BY <1>4, <1>6, KeepIsGood
  <2>. QED  BY <2>1, <1>5, Docs \cap good = good
<1>8. \A d \in good : SectionsFound({d}, 1)[1] \in ScopeChunks
  <2>. SUFFICES ASSUME NEW d \in good PROVE SectionsFound({d}, 1)[1] \in ScopeChunks
    OBVIOUS
  <2>1. PICK found : found = SectionsFound({d}, 1)
    OBVIOUS
  <2>2. found \in Seq(ScopeChunks) /\ found # <<>>
    BY <2>1, <1>5, SectionsInScope
  <2>. QED  BY <2>1, <2>2
<1>9. PICK more : more = [i \in DOMAIN hits |-> SectionsFound({hits[i]}, 1)[1]]
  OBVIOUS
<1>10. more \in Seq(ScopeChunks)
  <2>1. DOMAIN hits = 1..Len(hits) /\ Len(hits) \in Nat /\ \A i \in 1..Len(hits) : hits[i] \in good
    BY <1>7
  <2>2. more \in [1..Len(hits) -> ScopeChunks]
    <3>1. DOMAIN more = 1..Len(hits)
      BY <2>1, <1>9
    <3>2. \A i \in 1..Len(hits) : more[i] \in ScopeChunks
      <4>1. \A i \in DOMAIN hits : more[i] = SectionsFound({hits[i]}, 1)[1]
        BY <1>9
      <4>. QED  BY <2>1, <4>1, <1>8
    <3>3. more = [i \in DOMAIN more |-> more[i]]
      BY <1>9
    <3>. QED  BY <3>1, <3>2, <3>3
  <2>. QED  BY <2>1, <2>2, FunctionIsSeq
<1>11. req'[r].sections = sections \o more
  <2>1. req' = [req EXCEPT ![r].pc = "read", ![r].sections = @ \o more]
    <3>1. missing = Missing(req[r].papers, req[r].sections,
                            IF req[r].profile.minPapers < MaxPapers
                            THEN req[r].profile.minPapers ELSE MaxPapers)
      BY <1>1
    <3>. HIDE DEF missing
    <3>2. hits = Keep(missing, {d \in Docs : SectionsFound({d}, 1) # <<>>})
      BY <1>5, <1>6
    <3>3. req' = [req EXCEPT ![r].pc = "read",
                             ![r].sections = @ \o [i \in DOMAIN hits |-> SectionsFound({hits[i]}, 1)[1]]]
      BY <3>1, <3>2 DEF Backfill
    <3>. QED  BY <3>3, <1>9
  <2>. QED  BY <2>1, <1>1 DEF Shape, CallFields
<1>. QED  BY <1>2, <1>10, <1>11, ConcatProperties

\* What is typed of a request, without its verified items and its pack.
TypedCall(c) ==
  /\ c.profile.minPapers \in Nat
  /\ c.papers \in Seq(Docs) /\ c.sections \in Seq(ScopeChunks)
  /\ c.sources \in Seq([item : ScopeChunks, text : Nat])
  /\ c.web \in Seq(WebWorks)
  /\ c.since \in 1..Len(held) /\ c.until \in 1..Len(held)

\* A step that validates nothing: pack and span of the validation stay.
LEMMA PackStaysCurrent ==
  ASSUME Shape, NEW r \in Searches, EvidenceOf(req[r]), held' = held, TypedCall(req[r])',
         req'[r].pc \notin {"verify", "conflicts", "map"},
         req'[r].since = req[r].since, req'[r].until = req[r].until,
         \/ req'[r].pc \notin Packed
         \/ req[r].pc \in Packed /\ req'[r].pack.texts = req[r].pack.texts
  PROVE  EvidenceOf(req[r])'
BY DEF EvidenceOf, TypedCall, Current

LEMMA EvidenceStep ==
  ASSUME ResearchAssumption, Shape, EvidenceInv, NEW r \in Searches, Step(r) \/ Cancel(r)
  PROVE  EvidenceOf(req[r])'
<1>0. /\ DOMAIN req = Searches /\ DOMAIN req[r] = CallFields
      /\ req[r].pc \in Packed => DOMAIN req[r].pack = PackFields
      /\ EvidenceOf(req[r]) /\ CorpusInv /\ TypedCall(req[r])
  BY DEF Shape, EvidenceInv, EvidenceOf, TypedCall
<1>a. held' = held /\ req'[r].profile = req[r].profile
  BY StepShape
<1>. USE DEF CallFields
<1>2. CASE SearchPapers(r)
  <2>1. /\ req'[r].papers = PapersFound /\ req'[r].pc = "sections"
        /\ req'[r].since = req[r].since /\ req'[r].until = req[r].until
        /\ req'[r].sections = req[r].sections /\ req'[r].sources = req[r].sources
        /\ req'[r].web = req[r].web
    BY <1>0, <1>2 DEF SearchPapers
  <2>2. TypedCall(req[r])'
    BY <1>0, <1>a, <2>1, PapersAreDocs DEF TypedCall
  <2>. QED  BY <1>0, <1>a, <2>1, <2>2, PackStaysCurrent DEF Packed
<1>3. CASE SearchSections(r)
  <2>1. /\ req'[r].sections = SectionsFound(ItemsOf(req[r].papers), MaxSections)
        /\ req'[r].pc \in {"backfill", "read"}
        /\ req'[r].since = req[r].since /\ req'[r].until = req[r].until
        /\ req'[r].papers = req[r].papers /\ req'[r].sources = req[r].sources
        /\ req'[r].web = req[r].web
    BY <1>0, <1>3 DEF SearchSections
  <2>2. req'[r].sections \in Seq(ScopeChunks)
    BY <2>1, SectionsInScope DEF ResearchAssumption
  <2>3. TypedCall(req[r])'
    BY <1>0, <1>a, <2>1, <2>2 DEF TypedCall
  <2>. QED  BY <1>0, <1>a, <2>1, <2>3, PackStaysCurrent DEF Packed
<1>4. CASE Backfill(r)
  <2>1. /\ req'[r].pc = "read"
        /\ req'[r].since = req[r].since /\ req'[r].until = req[r].until
        /\ req'[r].papers = req[r].papers /\ req'[r].sources = req[r].sources
        /\ req'[r].web = req[r].web
    BY <1>0, <1>4 DEF Backfill
  <2>2. req'[r].sections \in Seq(ScopeChunks)
    BY <1>0, <1>4, BackfillInScope
  <2>3. TypedCall(req[r])'
    BY <1>0, <1>a, <2>1, <2>2 DEF TypedCall
  <2>. QED  BY <1>0, <1>a, <2>1, <2>3, PackStaysCurrent DEF Packed
<1>5. CASE ReadEvidence(r)
  <2>1. /\ req'[r].pc \in {"failed", "check"}
        /\ req'[r].since = req[r].since /\ req'[r].until = req[r].until
        /\ req'[r].papers = req[r].papers /\ req'[r].sections = req[r].sections
        /\ req'[r].web = req[r].web
        /\ \/ req'[r].sources = req[r].sources
           \/ req'[r].sources = [i \in DOMAIN req[r].sections |->
                [item |-> req[r].sections[i], text |-> corpus[req[r].sections[i]]]]
    BY <1>0, <1>5 DEF ReadEvidence
  <2>2. req'[r].sources \in Seq([item : ScopeChunks, text : Nat])
    <3>1. PICK s : s = req[r].sections
      OBVIOUS
    <3>2. PICK text : text = corpus
      OBVIOUS
    <3>3. s \in Seq(ScopeChunks) /\ text \in [Chunks -> Nat]
      BY <1>0, <3>1, <3>2 DEF TypedCall, CorpusInv
    <3>4. DOMAIN s = 1..Len(s) /\ Len(s) \in Nat /\ \A i \in 1..Len(s) : s[i] \in ScopeChunks
      BY <3>3
    <3>5. [i \in 1..Len(s) |-> [item |-> s[i], text |-> text[s[i]]]]
            \in [1..Len(s) -> [item : ScopeChunks, text : Nat]]
      BY <3>3, <3>4 DEF ScopeChunks
    <3>6. [i \in DOMAIN s |-> [item |-> s[i], text |-> text[s[i]]]]
            \in Seq([item : ScopeChunks, text : Nat])
      BY <3>4, <3>5, SeqDef
    <3>. QED  BY <1>0, <2>1, <3>1, <3>2, <3>6 DEF TypedCall
  <2>3. TypedCall(req[r])'
    BY <1>0, <1>a, <2>1, <2>2 DEF TypedCall
  <2>. QED  BY <1>0, <1>a, <2>1, <2>3, PackStaysCurrent DEF Packed
<1>6. CASE Fail(r)
  <2>1. /\ req'[r].pc = "failed"
        /\ req'[r].since = req[r].since /\ req'[r].until = req[r].until
        /\ req'[r].papers = req[r].papers /\ req'[r].sections = req[r].sections
        /\ req'[r].web = req[r].web /\ req'[r].sources = req[r].sources
    BY <1>0, <1>6 DEF Fail
  <2>2. TypedCall(req[r])'
    BY <1>0, <1>a, <2>1 DEF TypedCall
  <2>. QED  BY <1>0, <1>a, <2>1, <2>2, PackStaysCurrent DEF Packed
<1>7. CASE CheckCandidates(r) /\ ~Fail(r)
  <2>1. /\ req'[r].pc = "verify" /\ req'[r].verified = <<>>
        /\ req'[r].since = Len(held) /\ req'[r].until = req[r].until
        /\ req'[r].papers = req[r].papers /\ req'[r].sections = req[r].sections
        /\ req'[r].web = req[r].web /\ req'[r].sources = req[r].sources
    BY <1>0, <1>7 DEF CheckCandidates
  <2>2. Len(held) \in 1..Len(held)
    BY <1>0 DEF CorpusInv
  <2>3. ItemsOf(<<>>) = {} /\ <<>> \in Seq([item : ScopeChunks, text : Nat])
    BY DEF ItemsOf
  <2>. QED  BY <1>0, <1>a, <2>1, <2>2, <2>3 DEF TypedCall, EvidenceOf, Packed
<1>8. CASE VerifyNext(r) /\ ~Fail(r)
  <2>1. PICK next, old : /\ next = req[r].sources[Len(req[r].verified) + 1].item
                         /\ old = req[r].verified
    OBVIOUS
  <2>2. /\ req'[r].pc = "verify" /\ req[r].pc = "verify"
        /\ req'[r].verified = Append(old, [item |-> next, text |-> corpus[next]])
        /\ req'[r].since = req[r].since /\ req'[r].until = req[r].until
        /\ req'[r].papers = req[r].papers /\ req'[r].sections = req[r].sections
        /\ req'[r].web = req[r].web /\ req'[r].sources = req[r].sources
    BY <1>0, <1>8, <2>1 DEF VerifyNext, AtStage
  <2>3. old \in Seq([item : ScopeChunks, text : Nat])
    BY <1>0, <2>1, <2>2 DEF EvidenceOf
  <2>4. next \in ScopeChunks
    <3>1. PICK sources : sources = req[r].sources
      OBVIOUS
    <3>2. sources \in Seq([item : ScopeChunks, text : Nat]) /\ Len(old) < Len(sources)
      BY <1>0, <1>8, <2>1, <3>1 DEF VerifyNext, TypedCall
    <3>3. Len(old) \in Nat /\ Len(sources) \in Nat
      BY <2>3, <3>2
    <3>4. Len(old) + 1 \in 1..Len(sources)
      BY <3>2, <3>3
    <3>5. sources[Len(old) + 1] \in [item : ScopeChunks, text : Nat]
      <4>1. PICK items : items = [item : ScopeChunks, text : Nat]
        OBVIOUS
      <4>2. sources \in Seq(items)
        BY <3>2, <4>1
      <4>. QED  BY <3>4, <4>1, <4>2, ElementOfSeq
    <3>. QED  BY <2>1, <3>1, <3>5
  <2>5. corpus[next] \in Nat /\ held[Len(held)][next] = corpus[next] /\ Len(held) \in Nat
    BY <1>0, <2>4 DEF CorpusInv, ScopeChunks
  <2>6. PICK new : new = [item |-> next, text |-> corpus[next]]
    OBVIOUS
  <2>7. new \in [item : ScopeChunks, text : Nat] /\ Current(new, req[r].since, Len(held))
    BY <1>0, <2>4, <2>5, <2>6 DEF Current, TypedCall
  <2>8. /\ Append(old, new) \in Seq([item : ScopeChunks, text : Nat])
        /\ \A v \in ItemsOf(Append(old, new)) : v \in ItemsOf(old) \/ v = new
    BY <2>3, <2>7 DEF ItemsOf
  <2>9. \A v \in ItemsOf(old) : Current(v, req[r].since, Len(held))
    BY <1>0, <2>1, <2>2 DEF EvidenceOf
  <2>10. \A v \in ItemsOf(Append(old, new)) : Current(v, req[r].since, Len(held))
    BY <2>7, <2>8, <2>9
  <2>. QED  BY <1>0, <1>a, <2>2, <2>6, <2>8, <2>10 DEF TypedCall, EvidenceOf, Packed, Current
<1>9. CASE VerifyEnds(r)
  <2>1. PICK local, web : local = req[r].verified /\ web = req[r].web
    OBVIOUS
  <2>2. PICK found : found = [i \in DOMAIN web |-> [item |-> web[i], text |-> 0]]
    OBVIOUS
  <2>3. /\ req'[r].pc = "conflicts" /\ req[r].pc = "verify"
        /\ req'[r].verified = local \o found
        /\ req'[r].since = req[r].since /\ req'[r].until = Len(held)
        /\ req'[r].papers = req[r].papers /\ req'[r].sections = req[r].sections
        /\ req'[r].web = req[r].web /\ req'[r].sources = req[r].sources
    BY <1>0, <1>9, <2>1, <2>2 DEF VerifyEnds, AtStage
  <2>4. /\ local \in Seq([item : ScopeChunks, text : Nat])
        /\ \A v \in ItemsOf(local) : Current(v, req[r].since, Len(held))
        /\ web \in Seq(WebWorks)
    BY <1>0, <2>1, <2>3 DEF EvidenceOf
  <2>5. /\ DOMAIN web = 1..Len(web) /\ Len(web) \in Nat
        /\ \A i \in 1..Len(web) : web[i] \in WebWorks
    BY <2>4
  <2>6. found \in [1..Len(web) -> [item : WebWorks, text : Nat]]
    BY <2>2, <2>5
  <2>7. found \in Seq([item : WebWorks, text : Nat]) /\ Len(found) = Len(web)
    <3>1. PICK items : items = [item : WebWorks, text : Nat]
      OBVIOUS
    <3>2. found \in [1..Len(web) -> items]
      BY <2>6, <3>1
    <3>3. found \in Seq(items) /\ Len(found) = Len(web)
      BY <2>5, <3>2, FunctionIsSeq
    <3>. QED  BY <3>1, <3>3
  <2>8. \A v \in ItemsOf(local \o found) :
            v \in ItemsOf(local) \/ v \in [item : WebWorks, text : Nat]
    <3>1. TAKE v \in ItemsOf(local \o found)
    <3>2. PICK i \in DOMAIN (local \o found) : v = (local \o found)[i]
      BY DEF ItemsOf
    <3>3. /\ Len(local) \in Nat /\ DOMAIN local = 1..Len(local)
          /\ Len(found) \in Nat /\ DOMAIN found = 1..Len(found)
          /\ \A n \in 1..Len(found) : found[n] \in [item : WebWorks, text : Nat]
      BY <2>4, <2>5, <2>6, <2>7
    <3>4. i \in 1..(Len(local) + Len(found))
      BY <2>4, <2>7, <3>2
    <3>5. CASE i <= Len(local)
      BY <2>4, <2>7, <3>2, <3>3, <3>4, <3>5 DEF ItemsOf
    <3>6. CASE i > Len(local)
      <4>1. v = found[i - Len(local)] /\ i - Len(local) \in 1..Len(found)
        BY <2>4, <2>7, <3>2, <3>3, <3>4, <3>6
      <4>. QED  BY <3>3, <4>1
    <3>. QED  BY <3>3, <3>4, <3>5, <3>6
  <2>9. \A v \in [item : WebWorks, text : Nat] : v.item \notin Chunks
    BY DEF ResearchAssumption
  <2>10. \A v \in ItemsOf(local \o found) : Current(v, req[r].since, Len(held))
    BY <2>4, <2>8, <2>9 DEF Current
  <2>11. Len(held) \in 1..Len(held)
    BY <1>0 DEF CorpusInv
  <2>. QED  BY <1>0, <1>a, <2>3, <2>10, <2>11 DEF TypedCall, EvidenceOf, Packed, Current
<1>10. CASE ReadConflicts(r)
  <2>1. /\ req'[r].pc = "map" /\ req[r].pc = "conflicts"
        /\ req'[r].verified = req[r].verified
        /\ req'[r].since = req[r].since /\ req'[r].until = req[r].until
        /\ req'[r].papers = req[r].papers /\ req'[r].sections = req[r].sections
        /\ req'[r].web = req[r].web /\ req'[r].sources = req[r].sources
    BY <1>0, <1>10 DEF ReadConflicts, AtStage
  <2>. QED  BY <1>0, <1>a, <2>1 DEF TypedCall, EvidenceOf, Packed, Current
<1>11. CASE MapEvidence(r)
  <2>1. /\ req'[r].since = req[r].since /\ req'[r].until = req[r].until
        /\ req'[r].papers = req[r].papers /\ req'[r].sections = req[r].sections
        /\ req'[r].web = req[r].web /\ req'[r].sources = req[r].sources
        /\ req[r].pc = "map"
        /\ \/ req'[r].pc = "failed"
           \/ req'[r].pc \in {"decide", "judge"} /\ req'[r].pack = PackOf(r)
    BY <1>0, <1>11 DEF MapEvidence, AtStage
  <2>2. PackOf(r).texts \subseteq ItemsOf(req[r].verified)
    BY DEF PackOf
  <2>3. \A v \in ItemsOf(req[r].verified) : Current(v, req[r].since, req[r].until)
    BY <1>0, <2>1 DEF EvidenceOf
  <2>4. req'[r].pc \in Packed =>
          \A v \in req'[r].pack.texts : Current(v, req[r].since, req[r].until)
    BY <2>1, <2>2, <2>3 DEF Packed
  <2>. QED  BY <1>0, <1>a, <2>1, <2>4 DEF TypedCall, EvidenceOf, Current
<1>12. CASE Decide(r) \/ JudgePack(r) \/ (GiveUpWeb(r) /\ AtStage(r, "call"))
  <2>1. /\ req'[r].since = req[r].since /\ req'[r].until = req[r].until
        /\ req'[r].papers = req[r].papers /\ req'[r].sections = req[r].sections
        /\ req'[r].web = req[r].web /\ req'[r].sources = req[r].sources
        /\ req[r].pc \in Packed /\ req'[r].pc \in {"done", "cache"}
        /\ \/ req'[r].pack = req[r].pack
           \/ \E code : req'[r].pack = Refused(req[r].pack, req[r].profile, code)
    <3>1. CASE Decide(r)
      BY <1>0, <3>1 DEF Decide, AtStage, Packed
    <3>2. CASE JudgePack(r)
      BY <1>0, <3>2 DEF JudgePack, AtStage, Packed
    <3>3. CASE GiveUpWeb(r) /\ AtStage(r, "call")
      BY <1>0, <3>3 DEF GiveUpWeb, AtStage, Packed
    <3>. QED  BY <1>12, <3>1, <3>2, <3>3
  <2>2. req'[r].pack.texts = req[r].pack.texts
    BY <1>0, <2>1 DEF Refused, PackFields
  <2>3. TypedCall(req[r])'
    BY <1>0, <1>a, <2>1 DEF TypedCall
  <2>. QED  BY <1>0, <1>a, <2>1, <2>2, <2>3, PackStaysCurrent
<1>13. CASE WebCandidates(r)
  <2>1. PICK new : new = (req[r].answer \ LocalWorks) \cap TextsOf(req[r].hit)
    OBVIOUS
  <2>2. /\ req'[r].pc = "check" /\ req'[r].web = Keep(WorkRanking, new)
        /\ req'[r].since = req[r].since /\ req'[r].until = req[r].until
        /\ req'[r].papers = req[r].papers /\ req'[r].sections = req[r].sections
        /\ req'[r].sources = req[r].sources
    BY <1>0, <1>13, <2>1 DEF WebCandidates
  <2>3. Keep(WorkRanking, new) \in Seq(WebWorks \cap new)
    BY KeepIsGood DEF ResearchAssumption
  <2>4. Keep(WorkRanking, new) \in Seq(WebWorks)
    BY <2>3, SeqMonotonic, WebWorks \cap new \subseteq WebWorks
  <2>5. TypedCall(req[r])'
    BY <1>0, <1>a, <2>2, <2>4 DEF TypedCall
  <2>. QED  BY <1>0, <1>a, <2>2, <2>5, PackStaysCurrent DEF Packed
<1>14. ASSUME \/ StopCancelled(r) \/ Cancel(r) \/ LookUp(r) \/ Answer(r)
              \/ (TimesOut(r) /\ ~GiveUpWeb(r)) \/ LoadCache(r) \/ WriteCache(r)
       PROVE  /\ req'[r].since = req[r].since /\ req'[r].until = req[r].until
              /\ req'[r].papers = req[r].papers /\ req'[r].sections = req[r].sections
              /\ req'[r].web = req[r].web /\ req'[r].sources = req[r].sources
              /\ req'[r].pc \notin {"verify", "conflicts", "map"}
              /\ req'[r].pack = req[r].pack
              /\ req'[r].pc \in Packed => req[r].pc \in Packed
  <2>1. CASE StopCancelled(r)
    BY <1>0, <2>1 DEF StopCancelled, Packed
  <2>2. CASE Cancel(r)
    BY <1>0, <2>2 DEF Cancel, CancelChecked, Packed
  <2>3. CASE LookUp(r)
    <3>1. /\ req[r].pc = "cache"
          /\ req'[r].pc \in {"candidates", "call"}
      BY <1>0, <2>3 DEF LookUp, AtStage
    <3>2. /\ req'[r].since = req[r].since /\ req'[r].until = req[r].until
          /\ req'[r].papers = req[r].papers /\ req'[r].sections = req[r].sections
          /\ req'[r].web = req[r].web /\ req'[r].sources = req[r].sources
          /\ req'[r].pack = req[r].pack
      <4>1. PICK hit, works, place :
              req' = [req EXCEPT ![r].asked = now, ![r].hit = hit, ![r].answer = works,
                                 ![r].attempt = 1, ![r].over = FALSE, ![r].pc = place]
        BY <2>3 DEF LookUp
      <4>. QED  BY <1>0, <4>1
    <3>. QED  BY <3>1, <3>2 DEF Packed
  <2>4. CASE Answer(r)
    BY <1>0, <2>4 DEF Answer, AtStage, Packed
  <2>5. CASE TimesOut(r) /\ ~GiveUpWeb(r)
    <3>1. PICK late : req' = [req EXCEPT ![r].attempt = @ + 1, ![r].over = late]
      BY <2>5 DEF TimesOut
    <3>2. req'[r].pc = req[r].pc /\ req[r].pc = "call"
      BY <1>0, <2>5, <3>1 DEF TimesOut, AtStage
    <3>3. /\ req'[r].since = req[r].since /\ req'[r].until = req[r].until
          /\ req'[r].papers = req[r].papers /\ req'[r].sections = req[r].sections
          /\ req'[r].web = req[r].web /\ req'[r].sources = req[r].sources
          /\ req'[r].pack = req[r].pack
      BY <1>0, <3>1
    <3>. QED  BY <3>2, <3>3
  <2>6. CASE LoadCache(r)
    BY <1>0, <2>6 DEF LoadCache, AtStage, Packed
  <2>7. CASE WriteCache(r)
    BY <1>0, <2>7 DEF WriteCache, AtStage, Packed
  <2>. QED  BY <1>14, <2>1, <2>2, <2>3, <2>4, <2>5, <2>6, <2>7
<1>15. CASE \/ StopCancelled(r) \/ Cancel(r) \/ LookUp(r) \/ Answer(r)
            \/ (TimesOut(r) /\ ~GiveUpWeb(r)) \/ LoadCache(r) \/ WriteCache(r)
  <2>1. TypedCall(req[r])'
    BY <1>0, <1>a, <1>14, <1>15 DEF TypedCall
  <2>. QED  BY <1>0, <1>a, <1>14, <1>15, <2>1, PackStaysCurrent
<1>. QED
  BY <1>2, <1>3, <1>4, <1>5, <1>6, <1>7, <1>8, <1>9, <1>10, <1>11, <1>12, <1>13, <1>15
  DEF Step, TimesOut, ProviderFails

LEMMA EvidenceInit == ResearchAssumption /\ ResearchInit => EvidenceInv
<1>. SUFFICES ASSUME ResearchAssumption, ResearchInit PROVE EvidenceInv
  OBVIOUS
<1>1. corpus \in [Chunks -> Nat] /\ held = <<corpus>>
  BY DEF ResearchInit
<1>2. CorpusInv /\ Len(held) = 1
  BY <1>1 DEF CorpusInv
<1>3. PICK choice \in SearchMixes : req = [r \in Searches |-> NewSearch(choice[r])]
  BY DEF ResearchInit
<1>4. ASSUME NEW r \in Searches PROVE EvidenceOf(req[r])
  <2>1. req[r] = NewSearch(choice[r]) /\ choice[r].minPapers \in Nat
    BY <1>3 DEF ResearchAssumption
  <2>. QED  BY <1>2, <2>1 DEF EvidenceOf, NewSearch, Packed
<1>. QED  BY <1>2, <1>4 DEF EvidenceInv

\* The corpora there have been stay on record, whatever is published next.
LEMMA EditKeepsEvidence ==
  ASSUME EvidenceInv, NEW d \in Edited, Edit(d)
  PROVE  EvidenceInv'
<1>1. /\ corpus \in [Chunks -> Nat] /\ held \in Seq([Chunks -> Nat]) /\ held # <<>>
      /\ Len(held) \in Nat
  BY DEF EvidenceInv, CorpusInv
<1>2. corpus' \in [Chunks -> Nat]
  BY <1>1 DEF Edit
<1>3. PICK old, new : old = held /\ new = corpus'
  OBVIOUS
<1>4. held' = Append(old, new) /\ req' = req
  BY <1>3 DEF Edit
<1>5. PICK texts : texts = [Chunks -> Nat]
  OBVIOUS
<1>6. old \in Seq(texts) /\ new \in texts
  BY <1>1, <1>2, <1>3, <1>5
<1>7. /\ Append(old, new) \in Seq(texts) /\ Append(old, new) # <<>>
      /\ Len(Append(old, new)) = Len(old) + 1 /\ Len(old) \in Nat
      /\ Append(old, new)[Len(old) + 1] = new
      /\ \A i \in 1..Len(old) : Append(old, new)[i] = old[i]
  BY <1>6
<1>8. CorpusInv'
  BY <1>2, <1>3, <1>4, <1>5, <1>7 DEF CorpusInv
<1>9. ASSUME NEW r \in Searches PROVE EvidenceOf(req[r])'
  <2>1. EvidenceOf(req[r]) /\ req'[r] = req[r]
    BY <1>4 DEF EvidenceInv
  <2>2. ASSUME NEW v, NEW from \in 1..Len(old), NEW to \in 1..Len(old),
               Current(v, from, to)
        PROVE  Current(v, from, to)'
    BY <1>3, <1>4, <1>7, <2>2 DEF Current
  <2>3. ASSUME NEW v, NEW from \in 1..Len(old), Current(v, from, Len(old))
        PROVE  Current(v, from, Len(old) + 1)'
    BY <1>3, <1>4, <1>7, <2>3 DEF Current
  <2>4. Len(held)' = Len(old) + 1
    BY <1>4, <1>7
  <2>5. req[r].since \in 1..Len(old) /\ req[r].until \in 1..Len(old)
    BY <1>3, <2>1 DEF EvidenceOf
  <2>6. PICK since, until : since = req[r].since /\ until = req[r].until
    OBVIOUS
  <2>7. req[r].pc = "verify" =>
          \A v \in ItemsOf(req[r].verified) : Current(v, since, Len(old) + 1)'
    BY <1>3, <2>1, <2>3, <2>5, <2>6 DEF EvidenceOf
  <2>8. req[r].pc \in {"conflicts", "map"} =>
          \A v \in ItemsOf(req[r].verified) : Current(v, since, until)'
    BY <2>1, <2>2, <2>5, <2>6 DEF EvidenceOf
  <2>9. req[r].pc \in Packed =>
          \A v \in req[r].pack.texts : Current(v, since, until)'
    BY <2>1, <2>2, <2>5, <2>6 DEF EvidenceOf
  <2>10. req'[r].since \in 1..Len(held)' /\ req'[r].until \in 1..Len(held)'
    BY <1>7, <2>1, <2>4, <2>5
  <2>. QED  BY <2>1, <2>4, <2>6, <2>7, <2>8, <2>9, <2>10 DEF EvidenceOf, Current
<1>. QED  BY <1>8, <1>9 DEF EvidenceInv

\* Every local item of a pack is of the request's scope and carries a text the
\* canonical corpus held while the pack was validated, whatever other processes
\* publish or remove during the search, between two requests or during the web
\* call (build_evidence_pack).
THEOREM EvidenceIsCurrent == ResearchSpec => []EvidenceCurrent
<1>1. ResearchInit => EvidenceInv
  BY EvidenceInit, ResearchAssumption
<1>2. Shape /\ EvidenceInv /\ [ResearchNext]_researchVars => EvidenceInv'
  <2>. SUFFICES ASSUME Shape, EvidenceInv, [ResearchNext]_researchVars PROVE EvidenceInv'
    OBVIOUS
  <2>1. CASE UNCHANGED <<corpus, held, req>>
    <3>1. CorpusInv'
      BY <2>1 DEF EvidenceInv, CorpusInv
    <3>2. ASSUME NEW r \in Searches PROVE EvidenceOf(req[r])'
      <4>1. EvidenceOf(req[r]) /\ held' = held /\ req'[r] = req[r]
        BY <2>1 DEF EvidenceInv
      <4>. QED  BY <4>1 DEF EvidenceOf, Current
    <3>. QED  BY <3>1, <3>2 DEF EvidenceInv
  <2>2. CASE \E d \in Edited : Edit(d)
    BY <2>2, EditKeepsEvidence
  <2>3. ASSUME NEW r \in Searches, Step(r) \/ Cancel(r) PROVE EvidenceInv'
    <3>1. EvidenceOf(req[r])'
      BY <2>3, EvidenceStep, ResearchAssumption
    <3>2. /\ \A u \in Searches \ {r} : req'[u] = req[u]
          /\ corpus' = corpus /\ held' = held
      BY <2>3, StepShape
    <3>3. ASSUME NEW u \in Searches \ {r} PROVE EvidenceOf(req[u])'
      <4>1. EvidenceOf(req[u]) /\ req'[u] = req[u]
        BY <3>2 DEF EvidenceInv
      <4>. QED  BY <3>2, <4>1 DEF EvidenceOf, Current
    <3>4. CorpusInv'
      BY <3>2 DEF EvidenceInv, CorpusInv
    <3>. QED  BY <3>1, <3>3, <3>4 DEF EvidenceInv
  <2>. QED  BY <2>1, <2>2, <2>3 DEF ResearchNext, researchVars, Tick
<1>3. EvidenceInv => EvidenceCurrent
  BY DEF EvidenceInv, EvidenceOf, EvidenceCurrent, Current, ScopeChunks, Answered, AtStage, Packed
<1>. QED  BY <1>1, <1>2, <1>3, InitShape, NextShape, PTL DEF ResearchSpec
==============================================================================
