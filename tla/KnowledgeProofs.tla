--------------------------- MODULE KnowledgeProofs ---------------------------
(***************************************************************************)
(* The synchronisation of the knowledge files uses the workspace service   *)
(* the way Workspaces specifies it: Knowledge implements Workspaces, with  *)
(* the corpus it computes from the canonical documents for the corpus of   *)
(* that module.  What is proved about the versioned scopes for any corpus  *)
(* therefore holds here, for any papers, concurrent synchronisations,      *)
(* edits and faults; and with it what searches and COMPLETED rely on.      *)
(* The second half is about one document (Chunking): what becomes of its   *)
(* sections, and that no text of it is lost on the way into the chunks;    *)
(* the last part about the parses that write it (Normalization).           *)
(***************************************************************************)
EXTENDS KnowledgeBase, TLAPS, FiniteSets, FiniteSetTheorems, SequenceTheorems, WellFoundedInduction, NaturalsInduction

\* A document, once written, is never removed; a call that is over plans nothing.
CanonicalOK == canonical \in [Papers -> Content \cup {NONE}] /\ edits \in Nat
CallOver == call = "none" => planned = {}

-----------------------------------------------------------------------------
\* An edit leaves every other document alone and writes a document.
LEMMA EditGrowsCorpus ==
  ASSUME CanonicalOK, EditPaper
  PROVE  CanonicalOK' /\ (Corpus' = Corpus \/ \E p \in Papers \ Corpus : Corpus' = Corpus \cup {p})
<1>1. PICK p \in Papers : \E content \in Edited(p) : canonical' = [canonical EXCEPT ![p] = content]
  BY DEF EditPaper
<1>2. PICK content \in Edited(p) : canonical' = [canonical EXCEPT ![p] = content]
  BY <1>1
<1>3. content \in Content
  BY <1>2 DEF Edited, Content, CanonicalOK
<1>4. content # NONE
  BY <1>3, AbsentAssumption
<1>5. CanonicalOK'
  BY <1>2, <1>3 DEF CanonicalOK, EditPaper
<1>6. Corpus' = Corpus \cup {p}
  BY <1>2, <1>4 DEF Corpus, CanonicalOK
<1>. QED  BY <1>5, <1>6

-----------------------------------------------------------------------------
(* Knowledge implements Workspaces.                                        *)

KInv == CanonicalOK /\ CallOver

LEMMA KInitOK == Init => KInv /\ Workspace!Init
BY DEF Init, KInv, CanonicalOK, CallOver, Nothing, Workspace!Init, Corpus

LEMMA KStepOK ==
  KInv /\ [Next]_vars => KInv' /\ [Workspace!Next]_(Workspace!workspaceVars)
<1> SUFFICES ASSUME KInv, [Next]_vars
             PROVE  KInv' /\ [Workspace!Next]_(Workspace!workspaceVars)
  OBVIOUS
<1>1. CASE EditPaper
  <2>1. CanonicalOK' /\ (Corpus' = Corpus \/ \E p \in Papers \ Corpus : Corpus' = Corpus \cup {p})
    BY <1>1, EditGrowsCorpus DEF KInv
  <2>2. UNCHANGED scopeVars
    BY <1>1 DEF EditPaper
  <2>. QED  BY <2>1, <2>2
            DEF KInv, CallOver, scopeVars, Workspace!Next, Workspace!AddDocument,
                Workspace!workspaceVars, Workspace!wsVars
<1>2. CASE Crash
  <2>1. UNCHANGED canonical /\ Corpus' = Corpus
    BY <1>2 DEF Crash, Corpus
  <2>. QED  BY <1>2, <2>1
            DEF Crash, KInv, CanonicalOK, CallOver, Workspace!Next, Workspace!CallLost,
                Workspace!workspaceVars, Workspace!wsVars
<1>3. ASSUME NEW s \in Syncs, SynchronizeScope(s)
      PROVE  KInv' /\ [Workspace!Next]_(Workspace!workspaceVars)
  <2>1. UNCHANGED <<canonical, edits>> /\ Workspace!ServiceStep
    BY <1>3 DEF SynchronizeScope
  <2>2. CanonicalOK'
    BY <2>1 DEF KInv, CanonicalOK
  <2>3. CallOver'
    BY <2>1 DEF CallOver, Workspace!ServiceStep, Workspace!PutDefaultWorkspace,
                Workspace!PutDefaultScope, Workspace!PutDefaultMembers, Workspace!PutMembers,
                Workspace!PutScope, Workspace!PublishVersion
  <2>. QED  BY <2>1, <2>2, <2>3 DEF KInv, Workspace!Next
<1>4. CASE UNCHANGED <<canonical, edits, scopeVars>>
  <2>1. /\ UNCHANGED <<version, scopes, members, call, planned>>
        /\ canonical' = canonical /\ edits' = edits
    BY <1>4 DEF scopeVars
  <2>2. Corpus' = Corpus
    BY <2>1 DEF Corpus
  <2>. QED  BY <2>1, <2>2
            DEF KInv, CanonicalOK, CallOver, Workspace!workspaceVars, Workspace!wsVars
<1>5. ASSUME NEW s \in Syncs, SyncStep(s), ~SynchronizeScope(s)
      PROVE  UNCHANGED <<canonical, edits, scopeVars>>
  BY <1>5
  DEF SyncStep, Start, RebuildCatalog, BuildDocument, DocumentIssue, PublishChunks, PublishBM25,
      PublishPapers, BeginDense, DeletePoints, UpsertPoints, RecreateCollection, FillCollection,
      EmbeddingFails, WriteManifest, BuildPaperDense, WritePaperManifest, Complete, ScopeMissing,
      Fail
<1>6. CASE UNCHANGED vars
  BY <1>4, <1>6 DEF vars
<1>. QED  BY <1>1, <1>2, <1>3, <1>4, <1>5, <1>6 DEF Next

(* Every step of a synchronisation, an edit or a crash is a put of the     *)
(* workspace service, an arriving document, a lost call, or leaves the     *)
(* scopes alone (synchronize_after_parse calls the service and nothing     *)
(* else writes its file).                                                  *)
THEOREM ImplementsWorkspaces == Spec => Workspace!Spec
<1>. QED  BY KInitOK, KStepOK, PTL DEF Spec, Workspace!Spec

-----------------------------------------------------------------------------
(* The versioned scopes of Workspaces, for the corpus of Knowledge, whatever  *)
(* the documents of that corpus are.                                          *)
(*                                                                            *)
(* Neither property is inductive.  ScopeStable needs that the service only    *)
(* writes the version after the published one, ScopeWhole that the            *)
(* memberships of that version are stored before it is published and that     *)
(* no retry closes one: the corpus only grows.                                *)

\* What each place of a service call knows of the file.
CallShape ==
  /\ version = 0 => call = "none" /\ DOMAIN scopes = {} /\ members = {}
  /\ call = "default_scope" => version = 1 /\ DOMAIN scopes = {} /\ members = {}
  /\ call = "default_members" =>
       version = 1 /\ DOMAIN scopes = {1} /\ scopes[1] = planned /\ members = {}
  /\ call \in {"replace_scope", "replace_version"} => version > 0 /\ Workspace!HasScope(version)
  /\ call = "replace_version" => Workspace!HasScope(version + 1) /\ scopes[version + 1] = planned

\* Nothing is stored beyond the version in preparation, and nothing leaves the corpus.
FileShape ==
  /\ DOMAIN scopes \subseteq 1 .. version + 1
  /\ \A v \in DOMAIN scopes : scopes[v] \subseteq Corpus
  /\ planned \subseteq Corpus
  /\ \A m \in members : m.removed = Workspace!NotRemoved /\ m.added \in 1 .. version + 1

\* What a running replacement is about to publish has its grades.
PlannedGraded ==
  Workspace!DefaultComplete /\ call \in {"replace_scope", "replace_version"} =>
    \A d \in planned : Workspace!GradedAt(d, version + 1)

ScopeInv == Workspace!TypeOK /\ CallShape /\ FileShape /\ PlannedGraded /\ Workspace!ScopeWhole

-----------------------------------------------------------------------------
(* Facts about one put.                                                    *)

\* A replacement closes no membership, since no document leaves the corpus; it
\* opens one for every document that arrives.
LEMMA MembersGrow ==
  ASSUME ScopeInv, Workspace!PutMembers
  PROVE  /\ members' = members
               \cup {Workspace!Member(d, version + 1) : d \in Corpus \ scopes[version]}
         /\ members \subseteq members'
<1>1. Workspace!HasScope(version)
  BY DEF Workspace!PutMembers, Workspace!OutOfDate
<1>2. scopes[version] \ Corpus = {}
  BY <1>1 DEF ScopeInv, FileShape, Workspace!HasScope
<1>3. {m \in members : /\ m.document \in scopes[version] \ Corpus
                      /\ m.removed = Workspace!NotRemoved} = {}
  BY <1>2
<1>. QED  BY <1>3 DEF Workspace!PutMembers, Workspace!NextMembers

\* The default scope is complete only from ensure_default: no replacement adds a
\* membership of version 1 or touches the snapshot of version 1.
LEMMA CompleteIsKept ==
  ASSUME ScopeInv,
         \/ Workspace!PutMembers \/ Workspace!PutScope \/ Workspace!PublishVersion
         \/ Workspace!CallLost \/ Workspace!AddDocument,
         Workspace!DefaultComplete'
  PROVE  Workspace!DefaultComplete
<1>1. CASE Workspace!PutMembers
  <2>1. version \in Nat /\ version > 0
    BY <1>1 DEF Workspace!PutMembers, Workspace!OutOfDate, ScopeInv, Workspace!TypeOK
  <2>2. \A d \in Papers : Workspace!Member(d, 1) \in members' => Workspace!Member(d, 1) \in members
    BY <1>1, <2>1, MembersGrow DEF Workspace!Member
  <2>. QED  BY <1>1, <2>2
            DEF Workspace!PutMembers, Workspace!DefaultComplete, Workspace!HasScope, ScopeInv,
                Workspace!TypeOK
<1>2. CASE Workspace!PutScope
  <2>1. version \in Nat /\ version > 0
    BY <1>2 DEF Workspace!PutScope, ScopeInv, Workspace!TypeOK, CallShape
  <2>2. 1 \in DOMAIN scopes' => 1 \in DOMAIN scopes /\ scopes'[1] = scopes[1]
    BY <1>2, <2>1 DEF Workspace!PutScope, Workspace!WithScope
  <2>. QED  BY <1>2, <2>2 DEF Workspace!PutScope, Workspace!DefaultComplete, Workspace!HasScope
<1>3. CASE Workspace!PublishVersion \/ Workspace!CallLost
  BY <1>3
  DEF Workspace!PublishVersion, Workspace!CallLost, Workspace!DefaultComplete,
      Workspace!HasScope
<1>4. CASE Workspace!AddDocument
  BY <1>4
  DEF Workspace!AddDocument, Workspace!wsVars, Workspace!DefaultComplete, Workspace!HasScope
<1>. QED  BY <1>1, <1>2, <1>3, <1>4

\* The membership a document is opened with grades it.
LEMMA MembersGrade ==
  ASSUME NEW d, NEW v \in Nat, Workspace!Member(d, v) \in members'
  PROVE  Workspace!GradedAt(d, v)'
<1> DEFINE m == Workspace!Member(d, v)
<1>1. m.document = d /\ m.added = v /\ m.removed = Workspace!NotRemoved
  BY DEF Workspace!Member
<1>2. m.added <= v
  BY <1>1
<1>. QED  BY <1>1, <1>2 DEF Workspace!GradedAt

\* A grade once given holds at every later version.
LEMMA GradesLast ==
  ASSUME ScopeInv, NEW d, NEW v \in Nat, NEW w \in Nat, v <= w, Workspace!GradedAt(d, v),
         members \subseteq members'
  PROVE  Workspace!GradedAt(d, w)'
<1>1. PICK m \in members : m.document = d /\ m.added <= v
  BY DEF Workspace!GradedAt
<1>2. m.removed = Workspace!NotRemoved /\ m.added \in Nat
  BY <1>1 DEF ScopeInv, FileShape
<1>. QED  BY <1>1, <1>2 DEF Workspace!GradedAt

-----------------------------------------------------------------------------
(* The invariant, one put at a time.                                       *)

LEMMA ScopesInitOK == Workspace!Init => ScopeInv
BY DEF Workspace!Init, ScopeInv, Workspace!TypeOK, Workspace!Calls, CallShape, FileShape,
       PlannedGraded, Workspace!ScopeWhole,
       Workspace!DefaultComplete, Workspace!HasScope

LEMMA DocumentAddedOK == ScopeInv /\ Workspace!AddDocument => ScopeInv'
<1> SUFFICES ASSUME ScopeInv, Workspace!AddDocument PROVE ScopeInv'
  OBVIOUS
<1>1. Workspace!TypeOK' /\ CallShape' /\ FileShape'
  BY DEF Workspace!AddDocument, Workspace!wsVars, ScopeInv, Workspace!TypeOK, CallShape,
         FileShape, Workspace!HasScope
<1>2. PlannedGraded' /\ Workspace!ScopeWhole'
  BY DEF Workspace!AddDocument, Workspace!wsVars, ScopeInv, PlannedGraded,
         Workspace!ScopeWhole, Workspace!DefaultComplete, Workspace!HasScope, Workspace!GradedAt
<1>. QED  BY <1>1, <1>2 DEF ScopeInv

LEMMA DefaultPutsOK ==
  /\ ScopeInv
  /\ \/ Workspace!PutDefaultWorkspace
     \/ Workspace!PutDefaultScope
     \/ Workspace!PutDefaultMembers
  => ScopeInv'
<1> SUFFICES ASSUME ScopeInv,
                    \/ Workspace!PutDefaultWorkspace
                    \/ Workspace!PutDefaultScope
                    \/ Workspace!PutDefaultMembers
             PROVE  ScopeInv'
  OBVIOUS
<1>1. CASE Workspace!PutDefaultWorkspace
  <2>1. Workspace!TypeOK' /\ CallShape' /\ FileShape'
    BY <1>1
    DEF Workspace!PutDefaultWorkspace, ScopeInv, Workspace!TypeOK, Workspace!Calls, CallShape,
        FileShape, Workspace!HasScope
  <2>2. ~Workspace!DefaultComplete'
    BY <1>1
    DEF Workspace!PutDefaultWorkspace, ScopeInv, CallShape, Workspace!DefaultComplete,
        Workspace!HasScope
  <2>. QED  BY <2>1, <2>2 DEF ScopeInv, PlannedGraded, Workspace!ScopeWhole
<1>2. CASE Workspace!PutDefaultScope
  <2>1. /\ version = 1 /\ DOMAIN scopes = {} /\ members = {} /\ planned \subseteq Papers
        /\ planned \subseteq Corpus
    BY <1>2 DEF Workspace!PutDefaultScope, ScopeInv, Workspace!TypeOK, CallShape, FileShape
  <2>2. DOMAIN scopes' = {1} /\ scopes'[1] = planned
    BY <1>2, <2>1 DEF Workspace!PutDefaultScope, Workspace!WithScope
  <2>3. Workspace!TypeOK' /\ CallShape' /\ FileShape'
    BY <1>2, <2>1, <2>2
    DEF Workspace!PutDefaultScope, ScopeInv, Workspace!TypeOK, Workspace!Calls, CallShape,
        FileShape
  <2>4. Workspace!DefaultComplete' => planned = {}
    BY <1>2, <2>1, <2>2 DEF Workspace!PutDefaultScope, Workspace!DefaultComplete
  <2>. QED  BY <1>2, <2>1, <2>2, <2>3, <2>4
            DEF Workspace!PutDefaultScope, ScopeInv, PlannedGraded, Workspace!ScopeWhole,
                Workspace!HasScope
<1>3. CASE Workspace!PutDefaultMembers
  <2>1. /\ version = 1 /\ DOMAIN scopes = {1} /\ scopes[1] = planned /\ planned \subseteq Papers
    BY <1>3 DEF Workspace!PutDefaultMembers, ScopeInv, Workspace!TypeOK, CallShape
  <2>2. \A m \in members' : m \in Workspace!Membership /\ m.removed = Workspace!NotRemoved /\ m.added = 1
    BY <1>3, <2>1
    DEF Workspace!PutDefaultMembers, Workspace!Member, Workspace!Membership,
        Workspace!NotRemoved
  <2>3. Workspace!TypeOK' /\ CallShape' /\ FileShape'
    BY <1>3, <2>1, <2>2
    DEF Workspace!PutDefaultMembers, ScopeInv, Workspace!TypeOK, Workspace!Calls, CallShape,
        FileShape
  <2>4. \A d \in planned : Workspace!GradedAt(d, 1)'
    <3>1. \A d \in planned : Workspace!Member(d, 1) \in members'
      BY <1>3 DEF Workspace!PutDefaultMembers
    <3>. QED  BY <3>1, MembersGrade
  <2>. QED  BY <1>3, <2>1, <2>3, <2>4
            DEF Workspace!PutDefaultMembers, ScopeInv, PlannedGraded, Workspace!ScopeWhole,
                Workspace!HasScope
<1>. QED  BY <1>1, <1>2, <1>3

LEMMA PutMembersOK == ScopeInv /\ Workspace!PutMembers => ScopeInv'
<1> SUFFICES ASSUME ScopeInv, Workspace!PutMembers PROVE ScopeInv'
  OBVIOUS
<1>1. /\ version \in Nat /\ version > 0 /\ Workspace!HasScope(version)
      /\ UNCHANGED <<Corpus, version, scopes>> /\ call' = "replace_scope" /\ planned' = Corpus
  BY DEF Workspace!PutMembers, Workspace!OutOfDate, ScopeInv, Workspace!TypeOK
<1>2. \A m \in members' : /\ m \in Workspace!Membership /\ m.removed = Workspace!NotRemoved
                          /\ m.added \in 1 .. version + 1
  BY <1>1, MembersGrow
  DEF ScopeInv, Workspace!TypeOK, FileShape, Workspace!Member, Workspace!Membership,
      Workspace!NotRemoved
<1>3. Workspace!TypeOK' /\ CallShape' /\ FileShape'
  BY <1>1, <1>2
  DEF ScopeInv, Workspace!TypeOK, Workspace!Calls, CallShape, FileShape, Workspace!HasScope
<1>4. ASSUME Workspace!DefaultComplete'
      PROVE  Workspace!ScopeWhole' /\ \A d \in planned' : Workspace!GradedAt(d, version + 1)'
  <2>1. \A v \in 1 .. version : Workspace!HasScope(v) /\ \A d \in scopes[v] : Workspace!GradedAt(d, v)
    BY <1>4, CompleteIsKept DEF ScopeInv, Workspace!ScopeWhole
  <2>2. \A v \in 1 .. version : Workspace!HasScope(v)' /\ \A d \in scopes[v] : Workspace!GradedAt(d, v)'
    BY <1>1, <2>1, MembersGrow, GradesLast DEF Workspace!HasScope
  <2>3. \A d \in scopes[version] : Workspace!GradedAt(d, version + 1)'
    BY <1>1, <2>1, MembersGrow, GradesLast
  <2>4. \A d \in Corpus \ scopes[version] : Workspace!GradedAt(d, version + 1)'
    <3>1. \A d \in Corpus \ scopes[version] : Workspace!Member(d, version + 1) \in members'
      BY MembersGrow
    <3>. QED  BY <1>1, <3>1, MembersGrade
  <2>. QED  BY <1>1, <2>2, <2>3, <2>4 DEF Workspace!ScopeWhole
<1>. QED  BY <1>1, <1>3, <1>4 DEF ScopeInv, PlannedGraded, Workspace!ScopeWhole

LEMMA PutScopeOK == ScopeInv /\ Workspace!PutScope => ScopeInv'
<1> SUFFICES ASSUME ScopeInv, Workspace!PutScope PROVE ScopeInv'
  OBVIOUS
<1>1. /\ version \in Nat /\ version > 0 /\ Workspace!HasScope(version) /\ planned \subseteq Corpus
      /\ planned \subseteq Papers
      /\ UNCHANGED <<Corpus, version, members, planned>> /\ call' = "replace_version"
  BY DEF Workspace!PutScope, ScopeInv, Workspace!TypeOK, CallShape, FileShape
<1>2. /\ DOMAIN scopes' = DOMAIN scopes \cup {version + 1}
      /\ scopes'[version + 1] = planned
      /\ \A v \in 1 .. version : v \in DOMAIN scopes => scopes'[v] = scopes[v]
      /\ \A v \in DOMAIN scopes' : scopes'[v] \in {planned, scopes[v]}
      /\ \A v \in DOMAIN scopes' : v # version + 1 => v \in DOMAIN scopes /\ scopes'[v] = scopes[v]
  BY <1>1 DEF Workspace!PutScope, Workspace!WithScope
<1>3. Workspace!TypeOK'
  BY <1>1, <1>2 DEF ScopeInv, Workspace!TypeOK, Workspace!Calls
<1>4. CallShape'
  BY <1>1, <1>2 DEF CallShape, Workspace!HasScope
<1>5. FileShape'
  BY <1>1, <1>2 DEF ScopeInv, FileShape
<1>6. Workspace!DefaultComplete' => Workspace!DefaultComplete
  BY CompleteIsKept
<1>7. PlannedGraded' /\ Workspace!ScopeWhole'
  BY <1>1, <1>2, <1>6
  DEF Workspace!PutScope, ScopeInv, PlannedGraded, Workspace!ScopeWhole, Workspace!HasScope,
      Workspace!GradedAt
<1>. QED  BY <1>3, <1>4, <1>5, <1>7 DEF ScopeInv

LEMMA PublishVersionOK == ScopeInv /\ Workspace!PublishVersion => ScopeInv'
<1> SUFFICES ASSUME ScopeInv, Workspace!PublishVersion PROVE ScopeInv'
  OBVIOUS
<1>1. /\ version \in Nat /\ version > 0 /\ Workspace!HasScope(version + 1)
      /\ scopes[version + 1] = planned /\ version' = version + 1 /\ call' = "none"
      /\ planned' = {} /\ UNCHANGED <<Corpus, scopes, members>>
  BY DEF Workspace!PublishVersion, ScopeInv, Workspace!TypeOK, CallShape
<1>2. Workspace!TypeOK' /\ CallShape' /\ FileShape'
  BY <1>1
  DEF ScopeInv, Workspace!TypeOK, Workspace!Calls, CallShape, FileShape, Workspace!HasScope
<1>3. PlannedGraded'
  BY <1>1 DEF PlannedGraded
<1>4. ASSUME Workspace!DefaultComplete' PROVE Workspace!ScopeWhole'
  <2>1. Workspace!DefaultComplete
    BY <1>4, CompleteIsKept
  <2>2. \A v \in 1 .. version : Workspace!HasScope(v) /\ \A d \in scopes[v] : Workspace!GradedAt(d, v)
    BY <2>1 DEF ScopeInv, Workspace!ScopeWhole
  <2>3. \A d \in scopes[version + 1] : Workspace!GradedAt(d, version + 1)
    BY <1>1, <2>1 DEF Workspace!PublishVersion, ScopeInv, PlannedGraded
  <2>4. \A v \in 1 .. version' : v \in 1 .. version \/ v = version + 1
    BY <1>1
  <2>. QED  BY <1>1, <2>2, <2>3, <2>4
            DEF Workspace!ScopeWhole, Workspace!HasScope, Workspace!GradedAt
<1>. QED  BY <1>2, <1>3, <1>4 DEF ScopeInv, Workspace!ScopeWhole

LEMMA CallLostOK == ScopeInv /\ Workspace!CallLost => ScopeInv'
<1> SUFFICES ASSUME ScopeInv, Workspace!CallLost PROVE ScopeInv'
  OBVIOUS
<1>1. Workspace!TypeOK' /\ CallShape' /\ FileShape'
  BY DEF Workspace!CallLost, ScopeInv, Workspace!TypeOK, Workspace!Calls, CallShape, FileShape,
         Workspace!HasScope
<1>2. PlannedGraded' /\ Workspace!ScopeWhole'
  BY DEF Workspace!CallLost, ScopeInv, PlannedGraded, Workspace!ScopeWhole,
         Workspace!DefaultComplete, Workspace!HasScope, Workspace!GradedAt
<1>. QED  BY <1>1, <1>2 DEF ScopeInv

LEMMA ScopesStepOK == ScopeInv /\ [Workspace!Next]_(Workspace!workspaceVars) => ScopeInv'
<1> SUFFICES ASSUME ScopeInv, [Workspace!Next]_(Workspace!workspaceVars) PROVE ScopeInv'
  OBVIOUS
<1>1. CASE UNCHANGED Workspace!workspaceVars
  BY <1>1
  DEF Workspace!workspaceVars, Workspace!wsVars, ScopeInv, Workspace!TypeOK, CallShape,
      FileShape, PlannedGraded,
              Workspace!ScopeWhole, Workspace!DefaultComplete, Workspace!HasScope, Workspace!GradedAt
<1>. QED  BY <1>1, DocumentAddedOK, DefaultPutsOK, PutMembersOK, PutScopeOK, PublishVersionOK,
             CallLostOK DEF Workspace!Next, Workspace!ServiceStep

-----------------------------------------------------------------------------
(* Everything the file, the corpus and the running call know of each other *)
(* holds in every state (app/workspaces/service.py).                       *)
THEOREM WorkspaceInvariant == Workspace!Spec => []ScopeInv
<1>. QED  BY ScopesInitOK, ScopesStepOK, PTL DEF Workspace!Spec

(* Whatever put of replace_scope_documents the process died after, and     *)
(* however often it is retried, every snapshot up to the published version *)
(* is stored and every document of it has an evidence grade.               *)
THEOREM PublishedScopesAreWhole == Workspace!Spec => []Workspace!ScopeWhole
<1>1. ScopeInv => Workspace!ScopeWhole
  BY DEF ScopeInv
<1>. QED  BY <1>1, WorkspaceInvariant, PTL

(* A request that names a published version keeps getting its documents:   *)
(* no step touches a published snapshot or takes the version back.         *)
THEOREM PublishedScopesAreStable == Workspace!Spec => Workspace!ScopeStable
<1>1. ASSUME ScopeInv, [Workspace!Next]_(Workspace!workspaceVars)
      PROVE  [/\ version' >= version
              /\ \A v \in 1..version :
                    Workspace!HasScope(v) => v \in DOMAIN scopes' /\ scopes'[v] = scopes[v]
             ]_(Workspace!workspaceVars)
  <2>1. version \in Nat
    BY <1>1 DEF ScopeInv, Workspace!TypeOK
  <2>2. CASE UNCHANGED scopes /\ version' >= version
    BY <2>2 DEF Workspace!HasScope
  <2>3. CASE Workspace!PutDefaultWorkspace \/ Workspace!PutDefaultScope
    BY <1>1, <2>3
    DEF Workspace!PutDefaultWorkspace, Workspace!PutDefaultScope, Workspace!WithScope,
        ScopeInv, CallShape, Workspace!HasScope
  <2>4. CASE Workspace!PutScope
    BY <2>1, <2>4 DEF Workspace!PutScope, Workspace!WithScope, Workspace!HasScope
  <2>. QED  BY <1>1, <2>1, <2>2, <2>3, <2>4
            DEF Workspace!Next, Workspace!ServiceStep, Workspace!AddDocument, Workspace!wsVars,
                Workspace!PutDefaultMembers, Workspace!PutMembers,
                Workspace!PublishVersion, Workspace!CallLost, Workspace!workspaceVars
<1>. QED  BY <1>1, WorkspaceInvariant, PTL DEF Workspace!Spec, Workspace!ScopeStable

(* A published scope is whole, whatever the interleaving of                *)
(* synchronisations, edits, failures and crashes.                          *)
THEOREM ScopesStayWhole == Spec => []ScopeWhole
<1>. QED  BY ImplementsWorkspaces, PublishedScopesAreWhole, PTL DEF ScopeWhole

(* No synchronisation, edit or crash changes a published scope version.    *)
THEOREM ScopesStayFixed == Spec => ScopeStable
<1>. QED  BY ImplementsWorkspaces, PublishedScopesAreStable, PTL DEF ScopeStable

-----------------------------------------------------------------------------
(* What the searches and COMPLETED may rely on, as long as no two          *)
(* synchronisations have run at once: the files and the collection grow    *)
(* older than the corpus, never newer, and nothing overtakes what it was   *)
(* built from.                                                             *)

Projections == [Papers -> Content \cup {NONE}]
Digests == [Papers -> Nat \cup {NONE}]

\* The places of a synchronisation, from the publication of the chunks on.
Dense == {"delete", "embed", "embed_all", "fill", "manifest"}
Scoping == {"workspace", "scope", "scoped", "completed"}
AfterDense == {"paper_dense", "paper_manifest"} \cup Scoping
AfterPapers == {"dense"} \cup Dense \cup AfterDense
AfterChunks == {"bm25", "papers"} \cup AfterPapers
Places == {"idle", "failed", "catalog", "documents"} \cup AfterChunks

SyncRows ==
  [pc : Places, todo : SUBSET Papers, seen : SUBSET Papers, projection : Projections,
   issues : BOOLEAN, changed : SUBSET Papers, snapshot : Projections, delta : SUBSET Papers,
   papers : Digests]

FileTypes ==
  /\ canonical \in Projections /\ catalog \in Projections /\ docChunks \in Projections
  /\ chunks \in Projections /\ points \in Projections
  /\ bm25 \in Digests \cup {NONE} /\ records \in Digests /\ paperIndex \in Digests \cup {NONE}
  /\ manifest \in Digests \cup {NONE} /\ paperManifest \in Digests \cup {NONE} /\ paperPoints \in Digests
  /\ sync \in [Syncs -> SyncRows]
  /\ edits \in Nat /\ overlapped \in BOOLEAN

\* One call at most is under way or was the last to complete.
Lone == \A s, t \in Syncs : sync[s].pc # "idle" /\ sync[t].pc # "idle" => s = t

\* No text of a paper is newer; a document without searchable blocks had one before.
Newest(p) == IF canonical[p].text = 0 THEN edits ELSE canonical[p].text

\* What is derived of a paper holds a text of it that the corpus has reached.
Reached(p, projection) ==
  projection[p] # NONE => canonical[p] # NONE /\ projection[p].text <= Newest(p)

\* The points of a paper and its entry in the manifest are no newer than a projection.
Behind(p, projection) ==
  projection[p] # NONE =>
    /\ points[p] # NONE => points[p].text <= projection[p].text
    /\ manifest # NONE /\ manifest[p] # NONE => manifest[p] <= projection[p].text

PaperOK(p) ==
  /\ canonical[p] # NONE => canonical[p].text <= edits
  /\ Reached(p, points) /\ Reached(p, chunks) /\ Behind(p, chunks)
  /\ manifest # NONE /\ manifest[p] # NONE =>
       /\ canonical[p] # NONE /\ manifest[p] <= Newest(p)
       /\ points[p] # NONE => manifest[p] <= points[p].text

\* What the place of a synchronisation says of the points ...
PointsOK(s) ==
  /\ At(s, "catalog") => sync[s].projection = Nothing
  /\ At(s, "documents") =>
       \A p \in Papers : Reached(p, sync[s].projection) /\ Behind(p, sync[s].projection)
  /\ sync[s].pc \in Dense => sync[s].snapshot = chunks
  /\ sync[s].pc \in {"delete", "embed"} =>
       /\ manifest # NONE
       /\ \A p \in Papers \ sync[s].delta : manifest[p] = Text(chunks)[p]
  /\ At(s, "manifest") =>
       \A p \in Papers : points[p] # NONE /\ chunks[p] # NONE => chunks[p].text <= points[p].text

\* ... of what it has deleted ...
HolesOK(s) ==
  /\ sync[s].pc \in {"embed_all", "fill"} => manifest = NONE
  /\ At(s, "manifest") => \A p \in Present(chunks) \ holed : points[p] # NONE

\* ... of the documents it found ...
FoundIn(p, projection) == docChunks[p] # NONE /\ projection[p] = Chunked(docChunks[p])

SeenOK(s) ==
  /\ At(s, "catalog") => Corpus # {}
  /\ At(s, "documents") /\ ~sync[s].issues =>
       \A p \in sync[s].seen \ sync[s].todo : FoundIn(p, sync[s].projection)
  /\ sync[s].pc \in AfterChunks =>
       /\ chunks = sync[s].projection
       /\ ~sync[s].issues => \A p \in sync[s].seen : FoundIn(p, chunks)
  /\ sync[s].pc \in AfterPapers => ~sync[s].issues
  /\ sync[s].pc \in {"documents"} \cup AfterChunks => sync[s].seen \subseteq Corpus

\* ... of the indexes ...
IndexesOK(s) ==
  /\ sync[s].pc \in {"documents"} \cup AfterChunks => Present(catalog) # {}
  /\ sync[s].pc \in {"papers"} \cup AfterPapers => bm25 = Text(chunks)
  /\ sync[s].pc \in AfterPapers => Present(records) # {} /\ paperIndex = records
  /\ sync[s].pc \in Dense \cup AfterDense => Present(chunks) # {}
  /\ sync[s].pc \in AfterDense => manifest = Text(chunks)
  /\ At(s, "paper_manifest") => sync[s].papers = records \/ Refillable
  /\ sync[s].pc \in Scoping => paperManifest = records \/ Refillable

\* ... and of the scope.
ScopeOK(s) ==
  /\ At(s, "scope") => sync[s].seen \subseteq planned
  /\ At(s, "scope") /\ call = "replace_version" => sync[s].seen \subseteq scopes[version + 1]
  /\ sync[s].pc \in {"scoped", "completed"} => sync[s].seen \subseteq scopes[version]

\* Every paper of the manifest that has no points is one a call has deleted.
HolesKnown ==
  \A p \in Papers : manifest # NONE /\ manifest[p] # NONE /\ points[p] = NONE =>
    p \in holed \/ \E s \in Syncs : p \in Deleted(s)

AloneText == Lone /\ (\A p \in Papers : PaperOK(p)) /\ (\A s \in Syncs : PointsOK(s))
AloneCompleted ==
  version \in Nat /\ HolesKnown /\ \A s \in Syncs : HolesOK(s) /\ SeenOK(s) /\ IndexesOK(s) /\ ScopeOK(s)

TextInv == FileTypes /\ (~overlapped => AloneText)
CompletedInv == TextInv /\ (~overlapped => AloneCompleted)

-----------------------------------------------------------------------------
(* Types                                                                   *)

LEMMA ProjectionTypes ==
  /\ Nothing \in Projections /\ Nothing \in Digests
  /\ \A projection \in Projections : Text(projection) \in Digests /\ Meta(projection) \in Digests
  /\ \A projection : Present(projection) \subseteq Papers
  /\ Corpus \subseteq Papers
BY DEF Nothing, Projections, Digests, Text, Meta, Content, Present, Corpus

LEMMA IdleType == Idle \in SyncRows
BY ProjectionTypes DEF Idle, SyncRows, Places

LEMMA WithFieldsType ==
  ASSUME FileTypes, NEW mapping \in Digests
  PROVE  WithFields(mapping) \in Digests
<1>1. canonical \in [Papers -> Content \cup {NONE}] /\ mapping \in [Papers -> Nat \cup {NONE}]
  BY DEF FileTypes, Projections, Digests
<1>2. \A p \in Papers : canonical[p] # NONE => canonical[p].meta \in Nat
  BY <1>1 DEF Content
<1>. QED  BY <1>1, <1>2 DEF WithFields, Digests

LEMMA RecordsType == FileTypes => LoadPaperRecords \in Digests
<1>. SUFFICES ASSUME FileTypes PROVE LoadPaperRecords \in Digests
  OBVIOUS
<1>1. records \in Digests /\ Meta(catalog) \in Digests /\ Meta(chunks) \in Digests
  BY ProjectionTypes DEF FileTypes
<1>. QED  BY <1>1, WithFieldsType DEF LoadPaperRecords

LEMMA FileTypesKept ==
  ASSUME FileTypes, [Next]_vars
  PROVE  FileTypes'
<1>1. CASE EditPaper
  <2>1. canonical \in [Papers -> Content \cup {NONE}] /\ edits \in Nat
    BY DEF FileTypes, Projections
  <2>2. canonical' \in Projections /\ edits' \in Nat
    BY <1>1, <2>1, EditGrowsCorpus DEF CanonicalOK, Projections
  <2>. QED  BY <1>1, <2>2 DEF EditPaper, FileTypes, fileVars, denseVars, paperDenseVars, history
<1>2. CASE Crash
  <2>1. sync' \in [Syncs -> SyncRows]
    BY <1>2, IdleType DEF Crash, FileTypes
  <2>. QED  BY <1>2, <2>1 DEF Crash, FileTypes, fileVars, denseVars, paperDenseVars, history
<1>3. ASSUME NEW s \in Syncs, SyncStep(s)
      PROVE  FileTypes'
  <2>0. sync \in [Syncs -> SyncRows] /\ sync[s] \in SyncRows
    BY DEF FileTypes
  <2>1. CASE Start(s)
    <3>1. sync' \in [Syncs -> SyncRows]
      BY <2>0, <2>1, IdleType, ProjectionTypes DEF Start, Goto, Set, At, SyncRows, Places, AfterChunks,
         AfterPapers, Dense, AfterDense, Scoping, FileTypes
    <3>. QED  BY <2>0, <2>1, <3>1, ProjectionTypes, RecordsType
              DEF Start, FileTypes, SyncRows, fileVars, denseVars, paperDenseVars, history
  <2>2. CASE RebuildCatalog(s)
    <3>1. sync' \in [Syncs -> SyncRows]
      BY <2>0, <2>2, IdleType, ProjectionTypes DEF RebuildCatalog, Goto, Set, At, SyncRows, Places, AfterChunks,
         AfterPapers, Dense, AfterDense, Scoping, FileTypes
    <3>. QED  BY <2>0, <2>2, <3>1, ProjectionTypes, RecordsType
              DEF RebuildCatalog, FileTypes, SyncRows, fileVars, denseVars, paperDenseVars, history
  <2>3. CASE PublishChunks(s)
    <3>1. sync' \in [Syncs -> SyncRows]
      BY <2>0, <2>3, IdleType, ProjectionTypes DEF PublishChunks, Goto, Set, At, SyncRows, Places, AfterChunks,
         AfterPapers, Dense, AfterDense, Scoping, FileTypes
    <3>. QED  BY <2>0, <2>3, <3>1, ProjectionTypes, RecordsType
              DEF PublishChunks, FileTypes, SyncRows, fileVars, denseVars, paperDenseVars, history
  <2>4. CASE PublishBM25(s)
    <3>1. sync' \in [Syncs -> SyncRows]
      BY <2>0, <2>4, IdleType, ProjectionTypes DEF PublishBM25, Goto, Set, At, SyncRows, Places, AfterChunks,
         AfterPapers, Dense, AfterDense, Scoping, FileTypes
    <3>. QED  BY <2>0, <2>4, <3>1, ProjectionTypes, RecordsType
              DEF PublishBM25, FileTypes, SyncRows, fileVars, denseVars, paperDenseVars, history
  <2>5. CASE PublishPapers(s)
    <3>1. sync' \in [Syncs -> SyncRows]
      BY <2>0, <2>5, IdleType, ProjectionTypes DEF PublishPapers, Goto, Set, At, SyncRows, Places, AfterChunks,
         AfterPapers, Dense, AfterDense, Scoping, FileTypes
    <3>. QED  BY <2>0, <2>5, <3>1, ProjectionTypes, RecordsType
              DEF PublishPapers, FileTypes, SyncRows, fileVars, denseVars, paperDenseVars, history
  <2>6. CASE BeginDense(s)
    <3>1. CASE Present(chunks) = {}
      <4>1. sync' = [sync EXCEPT ![s] = [sync[s] EXCEPT !.pc = "failed"]]
        BY <2>6, <3>1 DEF BeginDense, Goto, Set
      <4>2. sync' \in [Syncs -> SyncRows]
        BY <2>0, <4>1 DEF SyncRows, Places
      <4>. QED  BY <2>6, <4>2 DEF BeginDense, FileTypes, fileVars, denseVars, paperDenseVars, history
    <3>2. CASE Present(chunks) # {}
      <4>1. PICK pc \in {"embed_all", "delete"}, delta \in SUBSET Papers :
              sync' = [sync EXCEPT ![s] = [sync[s] EXCEPT !.pc = pc, !.snapshot = chunks,
                                                           !.delta = delta]]
        <5>1. sync[s].changed \subseteq Papers
          BY <2>0 DEF SyncRows
        <5>2. ChangedPapers(s, chunks) \in SUBSET Papers
          BY <5>1 DEF ChangedPapers
        <5>. QED  BY <2>6, <3>2, <5>2 DEF BeginDense, Set
      <4>2. chunks \in Projections
        BY DEF FileTypes
      <4>3. sync' \in [Syncs -> SyncRows]
        BY <2>0, <4>1, <4>2 DEF SyncRows, Places, AfterChunks, AfterPapers, Dense
      <4>. QED  BY <2>6, <4>3 DEF BeginDense, FileTypes, fileVars, denseVars, paperDenseVars, history
    <3>. QED  BY <3>1, <3>2
  <2>7. CASE DeletePoints(s)
    <3>1. sync' \in [Syncs -> SyncRows]
      BY <2>0, <2>7, IdleType, ProjectionTypes DEF DeletePoints, Goto, Set, At, SyncRows, Places, AfterChunks,
         AfterPapers, Dense, AfterDense, Scoping, FileTypes
    <3>2. points' \in Projections
      <4>1. sync[s].snapshot \in Projections /\ points \in Projections
        BY <2>0 DEF SyncRows, FileTypes
      <4>. QED  BY <2>7, <4>1 DEF DeletePoints, Projections
    <3>. QED  BY <2>7, <3>1, <3>2
              DEF DeletePoints, FileTypes, fileVars, denseVars, paperDenseVars, history
  <2>8. CASE UpsertPoints(s)
    <3>1. sync' \in [Syncs -> SyncRows]
      BY <2>0, <2>8, IdleType, ProjectionTypes DEF UpsertPoints, Goto, Set, At, SyncRows, Places, AfterChunks,
         AfterPapers, Dense, AfterDense, Scoping, FileTypes
    <3>2. points' \in Projections
      <4>1. sync[s].snapshot \in Projections /\ points \in Projections
        BY <2>0 DEF SyncRows, FileTypes
      <4>. QED  BY <2>8, <4>1 DEF UpsertPoints, Projections
    <3>. QED  BY <2>8, <3>1, <3>2
              DEF UpsertPoints, FileTypes, fileVars, denseVars, paperDenseVars, history
  <2>9. CASE RecreateCollection(s)
    <3>1. sync' \in [Syncs -> SyncRows]
      BY <2>0, <2>9, IdleType, ProjectionTypes DEF RecreateCollection, Goto, Set, At, SyncRows, Places, AfterChunks,
         AfterPapers, Dense, AfterDense, Scoping, FileTypes
    <3>. QED  BY <2>0, <2>9, <3>1, ProjectionTypes, RecordsType
              DEF RecreateCollection, FileTypes, SyncRows, fileVars, denseVars, paperDenseVars, history
  <2>10. CASE FillCollection(s)
    <3>1. sync' \in [Syncs -> SyncRows]
      BY <2>0, <2>10, IdleType, ProjectionTypes DEF FillCollection, Goto, Set, At, SyncRows, Places, AfterChunks,
         AfterPapers, Dense, AfterDense, Scoping, FileTypes
    <3>2. points' \in Projections
      <4>1. sync[s].snapshot \in Projections /\ points \in Projections
        BY <2>0 DEF SyncRows, FileTypes
      <4>. QED  BY <2>10, <4>1 DEF FillCollection, Projections
    <3>. QED  BY <2>10, <3>1, <3>2
              DEF FillCollection, FileTypes, fileVars, denseVars, paperDenseVars, history
  <2>11. CASE EmbeddingFails(s)
    <3>1. sync' \in [Syncs -> SyncRows]
      BY <2>0, <2>11, IdleType, ProjectionTypes DEF EmbeddingFails, Goto, Set, At, SyncRows, Places, AfterChunks,
         AfterPapers, Dense, AfterDense, Scoping, FileTypes
    <3>. QED  BY <2>0, <2>11, <3>1, ProjectionTypes, RecordsType
              DEF EmbeddingFails, FileTypes, SyncRows, fileVars, denseVars, paperDenseVars, history
  <2>12. CASE WriteManifest(s)
    <3>1. sync' \in [Syncs -> SyncRows]
      BY <2>0, <2>12, IdleType, ProjectionTypes DEF WriteManifest, Goto, Set, At, SyncRows, Places, AfterChunks,
         AfterPapers, Dense, AfterDense, Scoping, FileTypes
    <3>. QED  BY <2>0, <2>12, <3>1, ProjectionTypes, RecordsType
              DEF WriteManifest, FileTypes, SyncRows, fileVars, denseVars, paperDenseVars, history
  <2>13. CASE BuildPaperDense(s)
    <3>1. PICK pc \in {"workspace", "paper_manifest"}, found \in Digests :
            sync' = [sync EXCEPT ![s] = [sync[s] EXCEPT !.pc = pc, !.papers = found]]
      <4>1. LoadPaperRecords \in Digests /\ sync[s].papers \in Digests
        BY <2>0, RecordsType DEF SyncRows
      <4>2. CASE paperManifest = LoadPaperRecords
        <5>1. sync' = [sync EXCEPT ![s] = [sync[s] EXCEPT !.pc = "workspace", !.papers = sync[s].papers]]
          BY <2>0, <2>13, <4>2 DEF BuildPaperDense, Goto, Set, SyncRows
        <5>. QED  BY <4>1, <5>1
      <4>3. CASE paperManifest # LoadPaperRecords
        BY <2>13, <4>1, <4>3 DEF BuildPaperDense, Set
      <4>. QED  BY <4>2, <4>3
    <3>2. sync' \in [Syncs -> SyncRows]
      BY <2>0, <3>1 DEF SyncRows, Places, AfterChunks, AfterPapers, AfterDense, Scoping
    <3>3. paperPoints' \in Digests
      BY <2>13, RecordsType DEF BuildPaperDense, FileTypes
    <3>. QED  BY <2>13, <3>2, <3>3 DEF BuildPaperDense, FileTypes, fileVars, denseVars, history
  <2>14. CASE WritePaperManifest(s)
    <3>1. sync' \in [Syncs -> SyncRows]
      BY <2>0, <2>14, IdleType, ProjectionTypes DEF WritePaperManifest, Goto, Set, At, SyncRows, Places, AfterChunks,
         AfterPapers, Dense, AfterDense, Scoping, FileTypes
    <3>. QED  BY <2>0, <2>14, <3>1, ProjectionTypes, RecordsType
              DEF WritePaperManifest, FileTypes, SyncRows, fileVars, denseVars, paperDenseVars, history
  <2>15. CASE SynchronizeScope(s)
    <3>1. sync' \in [Syncs -> SyncRows]
      BY <2>0, <2>15, IdleType, ProjectionTypes DEF SynchronizeScope, Goto, Set, At, SyncRows, Places, AfterChunks,
         AfterPapers, Dense, AfterDense, Scoping, FileTypes
    <3>. QED  BY <2>0, <2>15, <3>1, ProjectionTypes, RecordsType
              DEF SynchronizeScope, FileTypes, SyncRows, fileVars, denseVars, paperDenseVars, history
  <2>16. CASE Complete(s)
    <3>1. sync' \in [Syncs -> SyncRows]
      BY <2>0, <2>16, IdleType, ProjectionTypes DEF Complete, Goto, Set, At, SyncRows, Places, AfterChunks,
         AfterPapers, Dense, AfterDense, Scoping, FileTypes
    <3>. QED  BY <2>0, <2>16, <3>1, ProjectionTypes, RecordsType
              DEF Complete, FileTypes, SyncRows, fileVars, denseVars, paperDenseVars, history
  <2>17. CASE ScopeMissing(s)
    <3>1. sync' \in [Syncs -> SyncRows]
      BY <2>0, <2>17, IdleType, ProjectionTypes DEF ScopeMissing, Goto, Set, At, SyncRows, Places, AfterChunks,
         AfterPapers, Dense, AfterDense, Scoping, FileTypes
    <3>. QED  BY <2>0, <2>17, <3>1, ProjectionTypes, RecordsType
              DEF ScopeMissing, FileTypes, SyncRows, fileVars, denseVars, paperDenseVars, history
  <2>18. CASE Fail(s)
    <3>1. sync' \in [Syncs -> SyncRows]
      BY <2>0, <2>18, IdleType, ProjectionTypes DEF Fail, Goto, Set, At, SyncRows, Places, AfterChunks,
         AfterPapers, Dense, AfterDense, Scoping, FileTypes
    <3>. QED  BY <2>0, <2>18, <3>1, ProjectionTypes, RecordsType
              DEF Fail, FileTypes, SyncRows, fileVars, denseVars, paperDenseVars, history
  <2>19. ASSUME NEW p \in Papers, BuildDocument(s, p) PROVE FileTypes'
    <3>1. canonical[p] \in Content \cup {NONE} /\ Chunked(canonical[p]) \in Content \cup {NONE}
      BY DEF FileTypes, Projections, Chunked
    <3>2. PICK changed \in SUBSET Papers :
            sync' = [sync EXCEPT ![s] = [sync[s] EXCEPT !.todo = sync[s].todo \ {p},
                       !.projection = [sync[s].projection EXCEPT ![p] = Chunked(canonical[p])],
                       !.changed = changed]]
      <4>1. sync[s].changed \in SUBSET Papers
        BY <2>0 DEF SyncRows
      <4>. QED  BY <2>19, <4>1 DEF BuildDocument, Set
    <3>3. sync[s].todo \ {p} \in SUBSET Papers
      BY <2>0 DEF SyncRows
    <3>4. [sync[s].projection EXCEPT ![p] = Chunked(canonical[p])] \in Projections
      <4>1. sync[s].projection \in Projections
        BY <2>0 DEF SyncRows
      <4>. QED  BY <3>1, <4>1 DEF Projections
    <3>5. sync' \in [Syncs -> SyncRows]
      BY <2>0, <3>2, <3>3, <3>4 DEF SyncRows
    <3>6. docChunks' \in Projections
      BY <2>19, <3>1 DEF BuildDocument, FileTypes, Projections
    <3>. QED  BY <2>19, <3>5, <3>6 DEF BuildDocument, FileTypes, denseVars, paperDenseVars, history
  <2>20. ASSUME NEW p \in Papers, DocumentIssue(s, p) PROVE FileTypes'
    <3>1. sync' = [sync EXCEPT ![s] = [sync[s] EXCEPT !.todo = sync[s].todo \ {p}, !.issues = TRUE]]
      BY <2>20 DEF DocumentIssue, Set
    <3>2. sync' \in [Syncs -> SyncRows]
      BY <2>0, <3>1 DEF SyncRows
    <3>. QED  BY <2>20, <3>2 DEF DocumentIssue, FileTypes, fileVars, denseVars, paperDenseVars, history
  <2>. QED  BY <1>3, <2>1, <2>2, <2>3, <2>4, <2>5, <2>6, <2>7, <2>8, <2>9, <2>10, <2>11, <2>12, <2>13, <2>14, <2>15, <2>16, <2>17, <2>18, <2>19, <2>20 DEF SyncStep
<1>4. CASE UNCHANGED vars
  BY <1>4 DEF vars, FileTypes, fileVars, denseVars, paperDenseVars, history
<1>. QED  BY <1>1, <1>2, <1>3, <1>4 DEF Next

-----------------------------------------------------------------------------
(* No stale text                                                           *)

\* A document keeps its place in the corpus, and its newest text only gets newer.
LEMMA NewestGrows ==
  ASSUME FileTypes, EditPaper, \A p \in Papers : canonical[p] # NONE => canonical[p].text <= edits
  PROVE  \A p \in Papers :
           /\ canonical[p] # NONE => canonical'[p] # NONE /\ Newest(p) <= Newest(p)'
           /\ canonical'[p] # NONE => canonical'[p].text <= edits'
<1>1. PICK q \in Papers : \E content \in Edited(q) : canonical' = [canonical EXCEPT ![q] = content]
  BY DEF EditPaper
<1>2. PICK content \in Edited(q) : canonical' = [canonical EXCEPT ![q] = content]
  BY <1>1
<1>3. /\ canonical \in [Papers -> Content \cup {NONE}] /\ edits \in Nat /\ edits' = edits + 1
      /\ NONE \notin Content
  BY AbsentAssumption DEF FileTypes, Projections, EditPaper
<1>4. /\ content \in Content /\ content.text <= edits'
      /\ canonical[q] # NONE => content.text \in {0, edits + 1, canonical[q].text}
  <2>1. CASE canonical[q] = NONE
    BY <1>2, <1>3, <2>1 DEF Edited, Content
  <2>2. CASE canonical[q] # NONE
    <3>1. canonical[q] \in Content /\ canonical[q].text <= edits
      BY <1>3, <2>2
    <3>2. \/ \E text \in {0, edits + 1} : content = [canonical[q] EXCEPT !.text = text]
          \/ content = [canonical[q] EXCEPT !.meta = canonical[q].meta + 1]
      BY <1>2, <2>2 DEF Edited
    <3>. QED  BY <1>3, <3>1, <3>2 DEF Content
  <2>. QED  BY <2>1, <2>2
<1>5. ASSUME NEW p \in Papers
      PROVE  /\ canonical[p] # NONE => canonical'[p] # NONE /\ Newest(p) <= Newest(p)'
             /\ canonical'[p] # NONE => canonical'[p].text <= edits'
  <2>1. CASE p = q
    <3>1. canonical'[p] = content
      BY <1>2, <1>3, <2>1
    <3>. QED  BY <1>3, <1>4, <2>1, <3>1 DEF Newest, Content
  <2>2. CASE p # q
    <3>1. canonical'[p] = canonical[p]
      BY <1>2, <1>3, <2>2
    <3>. QED  BY <1>3, <3>1 DEF Newest, Content
  <2>. QED  BY <2>1, <2>2
<1>. QED  BY <1>5

\* A step of a synchronisation that is under way is its own: the others stay as they are.
LEMMA SyncMoves ==
  ASSUME FileTypes, NEW s \in Syncs, SyncStep(s), ~Start(s)
  PROVE  /\ sync[s].pc \notin {"idle", "completed"}
         /\ \A t \in Syncs \ {s} : sync'[t] = sync[t]
         /\ UNCHANGED <<canonical, edits, overlapped>>
<1>0. sync \in [Syncs -> SyncRows]
  BY DEF FileTypes
<1>. USE DEF At, Goto, Set, history
<1>1. CASE RebuildCatalog(s)
  BY <1>0, <1>1 DEF RebuildCatalog
<1>2. CASE PublishChunks(s)
  BY <1>0, <1>2 DEF PublishChunks
<1>3. CASE PublishBM25(s)
  BY <1>0, <1>3 DEF PublishBM25
<1>4. CASE PublishPapers(s)
  BY <1>0, <1>4 DEF PublishPapers
<1>5. CASE BeginDense(s)
  BY <1>0, <1>5 DEF BeginDense
<1>6. CASE DeletePoints(s)
  BY <1>0, <1>6 DEF DeletePoints
<1>7. CASE UpsertPoints(s)
  BY <1>0, <1>7 DEF UpsertPoints
<1>8. CASE RecreateCollection(s)
  BY <1>0, <1>8 DEF RecreateCollection
<1>9. CASE FillCollection(s)
  BY <1>0, <1>9 DEF FillCollection
<1>10. CASE EmbeddingFails(s)
  BY <1>0, <1>10 DEF EmbeddingFails
<1>11. CASE WriteManifest(s)
  BY <1>0, <1>11 DEF WriteManifest
<1>12. CASE BuildPaperDense(s)
  BY <1>0, <1>12 DEF BuildPaperDense
<1>13. CASE WritePaperManifest(s)
  BY <1>0, <1>13 DEF WritePaperManifest
<1>14. CASE SynchronizeScope(s)
  BY <1>0, <1>14 DEF SynchronizeScope
<1>15. CASE Complete(s)
  BY <1>0, <1>15 DEF Complete
<1>16. CASE ScopeMissing(s)
  BY <1>0, <1>16 DEF ScopeMissing
<1>17. CASE Fail(s)
  BY <1>0, <1>17 DEF Fail
<1>18. ASSUME NEW p \in Papers, BuildDocument(s, p) \/ DocumentIssue(s, p)
       PROVE  /\ sync[s].pc \notin {"idle", "completed"}
              /\ \A t \in Syncs \ {s} : sync'[t] = sync[t]
              /\ UNCHANGED <<canonical, edits, overlapped>>
  BY <1>0, <1>18 DEF BuildDocument, DocumentIssue
<1>. QED  BY <1>1, <1>2, <1>3, <1>4, <1>5, <1>6, <1>7, <1>8, <1>9, <1>10, <1>11, <1>12, <1>13, <1>14, <1>15, <1>16, <1>17, <1>18 DEF SyncStep

\* As long as none overlap, only the call that steps is under way.
LEMMA OthersIdle ==
  ASSUME FileTypes, Lone, NEW s \in Syncs, SyncStep(s), ~overlapped'
  PROVE  /\ ~overlapped /\ UNCHANGED <<canonical, edits>>
         /\ \A t \in Syncs \ {s} : sync'[t].pc = "idle"
<1>1. CASE Start(s)
  <2>1. ~overlapped /\ \A t \in Syncs \ {s} : ~Running(t)
    BY <1>1 DEF Start
  <2>2. \A t \in Syncs \ {s} : sync'[t] = Idle
    BY <1>1, <2>1 DEF Start
  <2>. QED  BY <1>1, <2>1, <2>2 DEF Start, Idle
<1>2. CASE ~Start(s)
  BY <1>2, SyncMoves DEF Lone
<1>. QED  BY <1>1, <1>2

LEMMA LoneStep ==
  ASSUME FileTypes, ~overlapped => Lone, [Next]_vars, ~overlapped'
  PROVE  ~overlapped /\ Lone /\ Lone'
<1>1. CASE UNCHANGED <<sync, overlapped>>
  BY <1>1 DEF Lone
<1>2. CASE EditPaper \/ UNCHANGED vars
  BY <1>1, <1>2 DEF EditPaper, vars, history
<1>3. CASE Crash
  <2>1. overlapped' = overlapped /\ \A s \in Syncs : sync'[s] = sync[s] \/ sync'[s].pc = "idle"
    BY <1>3 DEF Crash, Idle
  <2>. QED  BY <2>1 DEF Lone
<1>4. ASSUME NEW s \in Syncs, SyncStep(s)
      PROVE  ~overlapped /\ Lone /\ Lone'
  <2>1. ~overlapped
    <3>1. CASE Start(s)
      BY <3>1 DEF Start
    <3>2. CASE ~Start(s)
      BY <1>4, <3>2, SyncMoves
    <3>. QED  BY <3>1, <3>2
  <2>2. \A t \in Syncs \ {s} : sync'[t].pc = "idle"
    BY <1>4, <2>1, OthersIdle
  <2>. QED  BY <2>1, <2>2 DEF Lone
<1>. QED  BY <1>2, <1>3, <1>4 DEF Next

LEMMA TextInit == Init => TextInv
<1> SUFFICES ASSUME Init PROVE TextInv
  OBVIOUS
<1>1. FileTypes
  BY ProjectionTypes, IdleType DEF Init, FileTypes
<1>2. /\ manifest = NONE
      /\ \A p \in Papers : points[p] = NONE /\ chunks[p] = NONE /\ canonical[p] = NONE
  BY DEF Init, Nothing
<1>3. \A s \in Syncs : sync[s].pc = "idle"
  BY DEF Init, Idle
<1>. QED  BY <1>1, <1>2, <1>3
          DEF TextInv, AloneText, Lone, PaperOK, Reached, Behind, PointsOK, At, Dense

LEMMA TextStep ==
  ASSUME TextInv, [Next]_vars
  PROVE  TextInv'
<1>0. FileTypes /\ FileTypes'
  BY FileTypesKept DEF TextInv
<1>. SUFFICES ASSUME ~overlapped' PROVE AloneText'
  BY <1>0 DEF TextInv
<1>a. ~overlapped /\ Lone /\ Lone'
  <2>1. ~overlapped => Lone
    BY DEF TextInv, AloneText
  <2>. QED  BY <1>0, <2>1, LoneStep
<1>b. (\A p \in Papers : PaperOK(p)) /\ (\A s \in Syncs : PointsOK(s))
  BY <1>a DEF TextInv, AloneText
<1>1. CASE EditPaper
  <2>1. UNCHANGED <<chunks, points, manifest, sync>>
    BY <1>1 DEF EditPaper, fileVars, denseVars
  <2>2. \A p \in Papers :
          /\ canonical[p] # NONE => canonical'[p] # NONE /\ Newest(p) <= Newest(p)'
          /\ canonical'[p] # NONE => canonical'[p].text <= edits'
    BY <1>0, <1>b, <1>1, NewestGrows DEF PaperOK
  <2>3. \A p \in Papers : canonical[p] # NONE => Newest(p) \in Nat /\ Newest(p)' \in Nat
    <3>1. /\ canonical \in [Papers -> Content \cup {NONE}] /\ canonical' \in [Papers -> Content \cup {NONE}]
          /\ edits \in Nat /\ edits' \in Nat
      BY <1>0 DEF FileTypes, Projections
    <3>2. \A p \in Papers : canonical[p] # NONE => canonical[p].text \in Nat /\ canonical'[p].text \in Nat
      BY <2>2, <3>1 DEF Content
    <3>. QED  BY <3>1, <3>2 DEF Newest
  <2>4. ASSUME NEW p \in Papers, NEW text \in Nat, canonical[p] # NONE, text <= Newest(p)
        PROVE  canonical'[p] # NONE /\ text <= Newest(p)'
    BY <2>2, <2>3, <2>4
  <2>5. ASSUME NEW p \in Papers PROVE PaperOK(p)'
    <3>1. PaperOK(p) /\ points[p] \in Content \cup {NONE} /\ chunks[p] \in Content \cup {NONE}
          /\ (manifest # NONE => manifest[p] \in Nat \cup {NONE})
      BY <1>0, <1>b DEF FileTypes, Projections, Digests
    <3>2. points[p] # NONE => canonical'[p] # NONE /\ points[p].text <= Newest(p)'
      BY <3>1, <2>4 DEF PaperOK, Reached, Content
    <3>3. chunks[p] # NONE => canonical'[p] # NONE /\ chunks[p].text <= Newest(p)'
      BY <3>1, <2>4 DEF PaperOK, Reached, Content
    <3>4. manifest # NONE /\ manifest[p] # NONE =>
            canonical'[p] # NONE /\ manifest[p] <= Newest(p)'
      BY <3>1, <2>4 DEF PaperOK
    <3>. QED  BY <2>1, <2>2, <3>1, <3>2, <3>3, <3>4 DEF PaperOK, Reached, Behind
  <2>6. ASSUME NEW s \in Syncs PROVE PointsOK(s)'
    <3>1. PointsOK(s) /\ sync[s].projection \in Projections
      BY <1>0, <1>b DEF FileTypes, SyncRows
    <3>2. ASSUME At(s, "documents"), NEW p \in Papers
          PROVE  Reached(p, sync[s].projection)' /\ Behind(p, sync[s].projection)'
      <4>1. Reached(p, sync[s].projection) /\ Behind(p, sync[s].projection)
            /\ sync[s].projection[p] \in Content \cup {NONE}
        BY <3>1, <3>2 DEF PointsOK, Projections
      <4>2. Reached(p, sync[s].projection)'
        BY <4>1, <2>1, <2>4 DEF Reached, Content
      <4>. QED  BY <4>1, <4>2, <2>1 DEF Behind
    <3>. QED  BY <3>1, <3>2, <2>1 DEF PointsOK, At, Text
  <2>. QED  BY <1>a, <2>5, <2>6 DEF AloneText
<1>2. CASE UNCHANGED <<canonical, edits, chunks, points, manifest, sync>>
  BY <1>a, <1>b, <1>2 DEF AloneText, PaperOK, Reached, Behind, Newest, PointsOK, At, Text
<1>3. CASE Crash
  <2>1. UNCHANGED <<canonical, edits, chunks, points, manifest>>
    BY <1>3 DEF Crash, fileVars, denseVars
  <2>2. \A p \in Papers : PaperOK(p)'
    BY <1>b, <2>1 DEF PaperOK, Reached, Behind, Newest
  <2>3. ASSUME NEW s \in Syncs PROVE PointsOK(s)'
    <3>1. sync'[s].pc = "idle" \/ (sync'[s] = sync[s] /\ sync[s].pc \in {"idle", "completed"})
      BY <1>3 DEF Crash, Running, Idle
    <3>. QED  BY <3>1 DEF PointsOK, At, Dense
  <2>. QED  BY <1>a, <2>2, <2>3 DEF AloneText
<1>4. ASSUME NEW s \in Syncs, SyncStep(s)
      PROVE  AloneText'
  <2>0. sync \in [Syncs -> SyncRows] /\ sync[s] \in SyncRows /\ PointsOK(s)
    BY <1>0, <1>b DEF FileTypes
  <2>. SUFFICES (\A p \in Papers : PaperOK(p)') /\ PointsOK(s)'
    <3>1. \A t \in Syncs \ {s} : sync'[t].pc = "idle"
      BY <1>0, <1>a, <1>4, OthersIdle
    <3>2. \A t \in Syncs \ {s} : PointsOK(t)'
      BY <3>1 DEF PointsOK, At, Dense
    <3>. QED  BY <1>a, <3>2 DEF AloneText
  <2>1. ASSUME UNCHANGED <<canonical, edits, chunks, points, manifest>>
        PROVE  \A p \in Papers : PaperOK(p)'
    BY <1>b, <2>1 DEF PaperOK, Reached, Behind, Newest
  <2>. DEFINE Outside(pc) == pc \notin {"catalog", "documents"} \cup Dense
  <2>2. ASSUME Outside(sync'[s].pc)
        PROVE  PointsOK(s)'
    BY <2>2 DEF PointsOK, At, Dense
  <2>3. CASE PublishBM25(s)
    <3>1. Outside(sync'[s].pc)
      BY <2>0, <2>3 DEF PublishBM25, Goto, Set, SyncRows, Dense
    <3>2. UNCHANGED <<canonical, edits, chunks, points, manifest>>
      BY <2>3 DEF PublishBM25, fileVars, denseVars
    <3>. QED  BY <2>1, <2>2, <3>1, <3>2
  <2>4. CASE PublishPapers(s)
    <3>1. Outside(sync'[s].pc)
      BY <2>0, <2>4 DEF PublishPapers, Goto, Set, SyncRows, Dense
    <3>2. UNCHANGED <<canonical, edits, chunks, points, manifest>>
      BY <2>4 DEF PublishPapers, fileVars, denseVars
    <3>. QED  BY <2>1, <2>2, <3>1, <3>2
  <2>5. CASE EmbeddingFails(s)
    <3>1. Outside(sync'[s].pc)
      BY <2>0, <2>5 DEF EmbeddingFails, Goto, Set, SyncRows, Dense
    <3>2. UNCHANGED <<canonical, edits, chunks, points, manifest>>
      BY <2>5 DEF EmbeddingFails, fileVars, denseVars
    <3>. QED  BY <2>1, <2>2, <3>1, <3>2
  <2>6. CASE BuildPaperDense(s)
    <3>1. Outside(sync'[s].pc)
      <4>1. CASE paperManifest = LoadPaperRecords
        <5>1. sync'[s].pc = "workspace"
          BY <2>0, <2>6, <4>1 DEF BuildPaperDense, Goto, Set, SyncRows
        <5>. QED  BY <5>1 DEF Dense
      <4>2. CASE paperManifest # LoadPaperRecords
        <5>1. sync'[s].pc = "paper_manifest"
          BY <2>0, <2>6, <4>2 DEF BuildPaperDense, Set, SyncRows
        <5>. QED  BY <5>1 DEF Dense
      <4>. QED  BY <4>1, <4>2
    <3>2. UNCHANGED <<canonical, edits, chunks, points, manifest>>
      BY <2>6 DEF BuildPaperDense, fileVars, denseVars
    <3>. QED  BY <2>1, <2>2, <3>1, <3>2
  <2>7. CASE WritePaperManifest(s)
    <3>1. Outside(sync'[s].pc)
      BY <2>0, <2>7 DEF WritePaperManifest, Goto, Set, SyncRows, Dense
    <3>2. UNCHANGED <<canonical, edits, chunks, points, manifest>>
      BY <2>7 DEF WritePaperManifest, fileVars, denseVars
    <3>. QED  BY <2>1, <2>2, <3>1, <3>2
  <2>8. CASE SynchronizeScope(s)
    <3>1. Outside(sync'[s].pc)
      BY <2>0, <2>8 DEF SynchronizeScope, Goto, Set, SyncRows, Dense
    <3>2. UNCHANGED <<canonical, edits, chunks, points, manifest>>
      BY <2>8 DEF SynchronizeScope, fileVars, denseVars
    <3>. QED  BY <2>1, <2>2, <3>1, <3>2
  <2>9. CASE Complete(s)
    <3>1. Outside(sync'[s].pc)
      BY <2>0, <2>9 DEF Complete, Goto, Set, SyncRows, Dense
    <3>2. UNCHANGED <<canonical, edits, chunks, points, manifest>>
      BY <2>9 DEF Complete, fileVars, denseVars
    <3>. QED  BY <2>1, <2>2, <3>1, <3>2
  <2>10. CASE ScopeMissing(s)
    <3>1. Outside(sync'[s].pc)
      BY <2>0, <2>10 DEF ScopeMissing, Goto, Set, SyncRows, Dense
    <3>2. UNCHANGED <<canonical, edits, chunks, points, manifest>>
      BY <2>10 DEF ScopeMissing, fileVars, denseVars
    <3>. QED  BY <2>1, <2>2, <3>1, <3>2
  <2>11. CASE Fail(s)
    <3>1. Outside(sync'[s].pc)
      BY <2>0, <2>11 DEF Fail, Goto, Set, SyncRows, Dense, Idle
    <3>2. UNCHANGED <<canonical, edits, chunks, points, manifest>>
      BY <2>11 DEF Fail, fileVars, denseVars
    <3>. QED  BY <2>1, <2>2, <3>1, <3>2
  <2>12. CASE Start(s)
    <3>1. sync'[s].pc = "catalog" /\ sync'[s].projection = Nothing
      BY <2>0, <2>12 DEF Start, Idle
    <3>2. UNCHANGED <<canonical, edits, chunks, points, manifest>>
      BY <2>12 DEF Start, fileVars, denseVars
    <3>. QED  BY <2>1, <3>1, <3>2 DEF PointsOK, At, Dense
  <2>13. CASE RebuildCatalog(s)
    <3>1. sync'[s].pc = "documents" /\ sync'[s].projection = Nothing
      BY <2>0, <2>13 DEF RebuildCatalog, Set, SyncRows, PointsOK, At
    <3>2. UNCHANGED <<canonical, edits, chunks, points, manifest>>
      BY <2>13 DEF RebuildCatalog, denseVars
    <3>3. \A p \in Papers : sync'[s].projection[p] = NONE
      BY <3>1 DEF Nothing
    <3>. QED  BY <2>1, <3>1, <3>2, <3>3 DEF PointsOK, At, Dense, Reached, Behind, Newest
  <2>14. CASE PublishChunks(s)
    <3>1. Outside(sync'[s].pc)
      BY <2>0, <2>14 DEF PublishChunks, Goto, Set, SyncRows, Dense
    <3>2. chunks' = sync[s].projection /\ UNCHANGED <<canonical, edits, points, manifest>>
      BY <2>14 DEF PublishChunks, denseVars
    <3>3. \A p \in Papers : Reached(p, sync[s].projection) /\ Behind(p, sync[s].projection)
      BY <2>0, <2>14 DEF PublishChunks, PointsOK
    <3>4. \A p \in Papers : PaperOK(p)'
      BY <1>0, <1>b, <3>2, <3>3 DEF PaperOK, Reached, Behind, Newest
    <3>. QED  BY <2>2, <3>1, <3>4
  <2>15. CASE BeginDense(s)
    <3>1. UNCHANGED <<canonical, edits, chunks, points, manifest>>
      BY <2>15 DEF BeginDense, fileVars, denseVars
    <3>2. CASE Present(chunks) = {}
      <4>1. Outside(sync'[s].pc)
        BY <2>0, <2>15, <3>2 DEF BeginDense, Goto, Set, SyncRows, Dense
      <4>. QED  BY <2>1, <2>2, <3>1, <4>1
    <3>3. CASE Present(chunks) # {}
      <4>1. sync' = [sync EXCEPT ![s] = [sync[s] EXCEPT
              !.pc = IF manifest = NONE THEN "embed_all" ELSE "delete",
              !.snapshot = chunks,
              !.delta = IF manifest = NONE THEN Papers ELSE ChangedPapers(s, chunks)]]
        BY <2>15, <3>3 DEF BeginDense, Set
      <4>2. /\ sync'[s].pc = (IF manifest = NONE THEN "embed_all" ELSE "delete")
            /\ sync'[s].snapshot = chunks
            /\ manifest # NONE => sync'[s].delta = ChangedPapers(s, chunks)
        BY <2>0, <4>1 DEF SyncRows
      <4>3. \A p \in Papers \ ChangedPapers(s, chunks) : manifest[p] = Text(chunks)[p]
        BY DEF ChangedPapers
      <4>4. Text(chunks)' = Text(chunks)
        BY <3>1 DEF Text
      <4>5. PointsOK(s)'
        BY <3>1, <4>2, <4>3, <4>4 DEF PointsOK, At
      <4>. QED  BY <2>1, <3>1, <4>5
    <3>. QED  BY <3>2, <3>3
  <2>16. CASE DeletePoints(s)
    <3>1. UNCHANGED <<canonical, edits, chunks, manifest>>
          /\ points' = [p \in Papers |-> IF p \in sync[s].delta THEN NONE ELSE points[p]]
      BY <2>16 DEF DeletePoints, fileVars
    <3>2. /\ sync'[s].pc = "embed" /\ sync'[s].snapshot = sync[s].snapshot
          /\ sync'[s].delta = sync[s].delta
      BY <2>0, <2>16 DEF DeletePoints, Goto, Set, SyncRows
    <3>3. \A p \in Papers : points'[p] = NONE \/ points'[p] = points[p]
      BY <3>1
    <3>4. \A p \in Papers : PaperOK(p)'
      BY <1>0, <1>b, <3>1, <3>3 DEF PaperOK, Reached, Behind, Newest
    <3>5. sync[s].pc = "delete"
      BY <2>16 DEF DeletePoints, At
    <3>6. PointsOK(s)'
      BY <2>0, <3>1, <3>2, <3>5 DEF PointsOK, At, Dense, Text
    <3>. QED  BY <3>4, <3>6
  <2>17. CASE UpsertPoints(s)
    <3>1. UNCHANGED <<canonical, edits, chunks, manifest>>
          /\ points' = [p \in Papers |-> IF p \in sync[s].delta THEN sync[s].snapshot[p] ELSE points[p]]
      BY <2>17 DEF UpsertPoints, fileVars
    <3>2. sync'[s].pc = "manifest" /\ sync'[s].snapshot = sync[s].snapshot
      BY <2>0, <2>17 DEF UpsertPoints, Goto, Set, SyncRows
    <3>3. /\ sync[s].snapshot = chunks /\ manifest # NONE
          /\ \A p \in Papers \ sync[s].delta : manifest[p] = Text(chunks)[p]
      BY <2>0, <2>17 DEF UpsertPoints, PointsOK, At, Dense
    <3>4. \A p \in Papers : PaperOK(p)'
      <4>. SUFFICES ASSUME NEW p \in Papers PROVE PaperOK(p)'
        OBVIOUS
      <4>1. PaperOK(p) /\ chunks[p] \in Content \cup {NONE}
        BY <1>0, <1>b DEF FileTypes, Projections
      <4>2. CASE p \in sync[s].delta
        <5>1. points'[p] = chunks[p]
          BY <3>1, <3>3, <4>2
        <5>2. chunks[p] # NONE => chunks[p].text <= chunks[p].text
          BY <4>1 DEF Content
        <5>. QED  BY <3>1, <4>1, <5>1, <5>2 DEF PaperOK, Reached, Behind, Newest
      <4>3. CASE p \notin sync[s].delta
        <5>1. points'[p] = points[p]
          BY <3>1, <4>3
        <5>. QED  BY <3>1, <4>1, <5>1 DEF PaperOK, Reached, Behind, Newest
      <4>. QED  BY <4>2, <4>3
    <3>5. ASSUME NEW p \in Papers, points'[p] # NONE, chunks[p] # NONE
          PROVE  chunks[p].text <= points'[p].text
      <4>1. PaperOK(p) /\ chunks[p] \in Content
        BY <1>0, <1>b, <3>5 DEF FileTypes, Projections
      <4>2. CASE p \in sync[s].delta
        BY <3>1, <3>3, <4>1, <4>2 DEF Content
      <4>3. CASE p \notin sync[s].delta
        <5>1. points'[p] = points[p] /\ manifest[p] = chunks[p].text
          BY <3>1, <3>3, <3>5, <4>3 DEF Text
        <5>2. chunks[p].text # NONE
          BY <4>1, AbsentAssumption DEF Content
        <5>. QED  BY <3>3, <3>5, <4>1, <5>1, <5>2 DEF PaperOK
      <4>. QED  BY <4>2, <4>3
    <3>6. PointsOK(s)'
      BY <3>1, <3>2, <3>3, <3>5 DEF PointsOK, At
    <3>. QED  BY <3>4, <3>6
  <2>18. CASE RecreateCollection(s)
    <3>1. UNCHANGED <<canonical, edits, chunks, manifest>> /\ \A p \in Papers : points'[p] = NONE
      BY <2>18 DEF RecreateCollection, fileVars, Nothing
    <3>2. sync'[s].pc = "fill" /\ sync'[s].snapshot = sync[s].snapshot /\ sync[s].pc = "embed_all"
      BY <2>0, <2>18 DEF RecreateCollection, Goto, Set, SyncRows, At
    <3>3. \A p \in Papers : PaperOK(p)'
      BY <1>0, <1>b, <3>1 DEF PaperOK, Reached, Behind, Newest
    <3>4. PointsOK(s)'
      BY <2>0, <3>1, <3>2 DEF PointsOK, At, Dense
    <3>. QED  BY <3>3, <3>4
  <2>19. CASE FillCollection(s)
    <3>1. UNCHANGED <<canonical, edits, chunks, manifest>>
          /\ points' = [p \in Papers |-> IF sync[s].snapshot[p] = NONE THEN points[p] ELSE sync[s].snapshot[p]]
      BY <2>19 DEF FillCollection, fileVars
    <3>2. sync'[s].pc = "manifest" /\ sync'[s].snapshot = sync[s].snapshot /\ sync[s].snapshot = chunks
      BY <2>0, <2>19 DEF FillCollection, Goto, Set, SyncRows, At, PointsOK, Dense
    <3>3. \A p \in Papers : points'[p] = IF chunks[p] = NONE THEN points[p] ELSE chunks[p]
      BY <3>1, <3>2
    <3>4. \A p \in Papers : chunks[p] # NONE => chunks[p].text <= chunks[p].text
      BY <1>0 DEF FileTypes, Projections, Content
    <3>5. \A p \in Papers : PaperOK(p)'
      BY <1>0, <1>b, <3>1, <3>3, <3>4 DEF PaperOK, Reached, Behind, Newest
    <3>6. PointsOK(s)'
      BY <3>1, <3>2, <3>3, <3>4 DEF PointsOK, At
    <3>. QED  BY <3>5, <3>6
  <2>20. CASE WriteManifest(s)
    <3>1. Outside(sync'[s].pc)
      BY <2>0, <2>20 DEF WriteManifest, Goto, Set, SyncRows, Dense
    <3>2. UNCHANGED <<canonical, edits, chunks, points>> /\ manifest' = Text(chunks)
      BY <2>0, <2>20 DEF WriteManifest, fileVars, PointsOK, At, Dense
    <3>3. \A p \in Papers : points[p] # NONE /\ chunks[p] # NONE => chunks[p].text <= points[p].text
      BY <2>0, <2>20 DEF WriteManifest, PointsOK
    <3>4. \A p \in Papers : chunks[p] # NONE => chunks[p].text <= chunks[p].text
      BY <1>0 DEF FileTypes, Projections, Content
    <3>5. \A p \in Papers : manifest'[p] = IF chunks[p] = NONE THEN NONE ELSE chunks[p].text
      BY <3>2 DEF Text
    <3>6. \A p \in Papers : PaperOK(p)'
      BY <1>0, <1>b, <3>2, <3>3, <3>4, <3>5 DEF PaperOK, Reached, Behind, Newest
    <3>. QED  BY <2>2, <3>1, <3>6
  <2>21. ASSUME NEW p \in Papers, BuildDocument(s, p)
        PROVE  (\A q \in Papers : PaperOK(q)') /\ PointsOK(s)'
    <3>1. UNCHANGED <<canonical, edits, chunks, points, manifest>>
      BY <2>21 DEF BuildDocument, denseVars
    <3>2. sync'[s].pc = "documents" /\ sync[s].pc = "documents"
      BY <2>0, <2>21 DEF BuildDocument, Set, SyncRows, At
    <3>3. /\ \A q \in Papers \ {p} : sync'[s].projection[q] = sync[s].projection[q]
          /\ sync'[s].projection[p] = Chunked(canonical[p])
      <4>1. sync'[s].projection = [sync[s].projection EXCEPT ![p] = Chunked(canonical[p])]
        BY <2>0, <2>21 DEF BuildDocument, Set, SyncRows
      <4>. QED  BY <2>0, <4>1 DEF SyncRows, Projections
    <3>4. Chunked(canonical[p]) # NONE =>
            /\ canonical[p] # NONE /\ Chunked(canonical[p]) = canonical[p]
            /\ canonical[p].text <= canonical[p].text /\ Newest(p) = canonical[p].text
      BY <1>0 DEF FileTypes, Projections, Content, Chunked, Newest
    <3>5. \A q \in Papers : Reached(q, sync[s].projection) /\ Behind(q, sync[s].projection)
      BY <2>0, <3>2 DEF PointsOK, At
    <3>6. ASSUME NEW q \in Papers
          PROVE  Reached(q, sync[s].projection)' /\ Behind(q, sync[s].projection)'
      <4>1. CASE q = p
        BY <1>0, <1>b, <3>1, <3>3, <3>4, <4>1 DEF PaperOK, Reached, Behind, Newest
      <4>2. CASE q # p
        BY <3>1, <3>3, <3>5, <4>2 DEF Reached, Behind, Newest
      <4>. QED  BY <4>1, <4>2
    <3>7. PointsOK(s)'
      BY <3>2, <3>6 DEF PointsOK, At, Dense
    <3>. QED  BY <2>1, <3>1, <3>7
  <2>22. ASSUME NEW p \in Papers, DocumentIssue(s, p)
        PROVE  (\A q \in Papers : PaperOK(q)') /\ PointsOK(s)'
    <3>1. UNCHANGED <<canonical, edits, chunks, points, manifest>>
      BY <2>22 DEF DocumentIssue, fileVars, denseVars
    <3>2. sync'[s].pc = "documents" /\ sync[s].pc = "documents"
          /\ sync'[s].projection = sync[s].projection
      BY <2>0, <2>22 DEF DocumentIssue, Set, SyncRows, At
    <3>. QED  BY <2>0, <2>1, <3>1, <3>2 DEF PointsOK, At, Dense, Reached, Behind, Newest
  <2>. QED  BY <1>4, <2>3, <2>4, <2>5, <2>6, <2>7, <2>8, <2>9, <2>10, <2>11, <2>12, <2>13, <2>14, <2>15, <2>16, <2>17, <2>18, <2>19, <2>20, <2>21, <2>22 DEF SyncStep
<1>. QED  BY <1>1, <1>2, <1>3, <1>4 DEF Next, vars, fileVars, denseVars

(* A dense search that passes its digest check never answers from an       *)
(* older text, unless synchronisations have overlapped: whatever failed    *)
(* or died before (build_dense_index replaces points before it writes the  *)
(* manifest, and a text never gets older).                                 *)
THEOREM DenseSearchIsCurrent == Spec => []NoStaleText
<1>1. Init => TextInv
  BY TextInit
<1>2. TextInv /\ [Next]_vars => TextInv'
  BY TextStep
<1>3. TextInv => NoStaleText
  <2>. SUFFICES ASSUME TextInv, ~overlapped, DenseAnswers,
                       NEW p \in Papers, chunks[p] # NONE, points[p] # NONE
                PROVE  points[p].text = chunks[p].text
    BY DEF NoStaleText
  <2>1. PaperOK(p) /\ points[p] \in Content /\ chunks[p] \in Content
    BY DEF TextInv, AloneText, FileTypes, Projections
  <2>2. manifest # NONE /\ manifest[p] = chunks[p].text /\ chunks[p].text # NONE
    BY <2>1, AbsentAssumption DEF DenseAnswers, Text, Content
  <2>. QED  BY <2>1, <2>2 DEF PaperOK, Behind, Content
<1>. QED  BY <1>1, <1>2, <1>3, PTL DEF Spec

-----------------------------------------------------------------------------
(* COMPLETED                                                               *)

\* The steps after the publication of the papers.
Later(s) ==
  \/ BeginDense(s) \/ DeletePoints(s) \/ UpsertPoints(s) \/ RecreateCollection(s) \/ FillCollection(s)
  \/ EmbeddingFails(s) \/ WriteManifest(s) \/ BuildPaperDense(s) \/ WritePaperManifest(s)
  \/ SynchronizeScope(s) \/ Complete(s) \/ ScopeMissing(s)

SeenKept(s) ==
  /\ sync'[s].seen = sync[s].seen /\ sync'[s].issues = sync[s].issues
  /\ sync'[s].projection = sync[s].projection

\* They build on what was published and leave it alone.
LEMMA LaterSteps ==
  ASSUME FileTypes, NEW s \in Syncs, Later(s)
  PROVE  /\ SeenKept(s)
         /\ UNCHANGED <<canonical, catalog, docChunks, chunks, bm25, records, paperIndex>>
         /\ sync[s].pc \in AfterPapers /\ sync'[s].pc \in AfterPapers \cup {"failed"}
<1>0. sync \in [Syncs -> SyncRows] /\ sync[s] \in SyncRows
  BY DEF FileTypes
<1>. USE DEF fileVars, AfterPapers, Dense, AfterDense, Scoping
<1>1. CASE BeginDense(s)
  <2>1. CASE Present(chunks) = {}
    <3>1. sync' = [sync EXCEPT ![s] = [sync[s] EXCEPT !.pc = "failed"]]
      BY <1>1, <2>1 DEF BeginDense, Goto, Set
    <3>2. SeenKept(s) /\ sync'[s].pc = "failed"
      BY <1>0, <3>1 DEF SyncRows, SeenKept
    <3>. QED  BY <1>1, <3>2 DEF BeginDense, At
  <2>2. CASE Present(chunks) # {}
    <3>1. sync' = [sync EXCEPT ![s] = [sync[s] EXCEPT
            !.pc = IF manifest = NONE THEN "embed_all" ELSE "delete",
            !.snapshot = chunks,
            !.delta = IF manifest = NONE THEN Papers ELSE ChangedPapers(s, chunks)]]
      BY <1>1, <2>2 DEF BeginDense, Set
    <3>2. SeenKept(s) /\ sync'[s].pc \in {"embed_all", "delete"}
      BY <1>0, <3>1 DEF SyncRows, SeenKept
    <3>. QED  BY <1>1, <3>2 DEF BeginDense, At
  <2>. QED  BY <2>1, <2>2
<1>2. CASE DeletePoints(s)
  BY <1>0, <1>2 DEF DeletePoints, Goto, Set, At, SyncRows, SeenKept
<1>3. CASE UpsertPoints(s)
  BY <1>0, <1>3 DEF UpsertPoints, Goto, Set, At, SyncRows, SeenKept
<1>4. CASE RecreateCollection(s)
  BY <1>0, <1>4 DEF RecreateCollection, Goto, Set, At, SyncRows, SeenKept
<1>5. CASE FillCollection(s)
  BY <1>0, <1>5 DEF FillCollection, Goto, Set, At, SyncRows, SeenKept
<1>6. CASE EmbeddingFails(s)
  BY <1>0, <1>6 DEF EmbeddingFails, Goto, Set, At, SyncRows, SeenKept
<1>7. CASE WriteManifest(s)
  BY <1>0, <1>7 DEF WriteManifest, Goto, Set, At, SyncRows, SeenKept
<1>8. CASE BuildPaperDense(s)
  <2>1. CASE paperManifest = LoadPaperRecords
    BY <1>0, <1>8, <2>1 DEF BuildPaperDense, Goto, Set, At, SyncRows, SeenKept
  <2>2. CASE paperManifest # LoadPaperRecords
    <3>1. sync' = [sync EXCEPT ![s] = [sync[s] EXCEPT !.pc = "paper_manifest", !.papers = LoadPaperRecords]]
      BY <1>8, <2>2 DEF BuildPaperDense, Set
    <3>2. SeenKept(s) /\ sync'[s].pc = "paper_manifest"
      BY <1>0, <3>1 DEF SyncRows, SeenKept
    <3>. QED  BY <1>8, <3>2 DEF BuildPaperDense, At
  <2>. QED  BY <2>1, <2>2
<1>9. CASE WritePaperManifest(s)
  BY <1>0, <1>9 DEF WritePaperManifest, Goto, Set, At, SyncRows, SeenKept
<1>10. CASE SynchronizeScope(s)
  BY <1>0, <1>10 DEF SynchronizeScope, Goto, Set, At, SyncRows, SeenKept
<1>11. CASE Complete(s)
  BY <1>0, <1>11 DEF Complete, Goto, Set, At, SyncRows, SeenKept
<1>12. CASE ScopeMissing(s)
  BY <1>0, <1>12 DEF ScopeMissing, Goto, Set, At, SyncRows, SeenKept
<1>. QED  BY <1>1, <1>2, <1>3, <1>4, <1>5, <1>6, <1>7, <1>8, <1>9, <1>10, <1>11, <1>12 DEF Later

\* The rest of the actions happen before.
LEMMA EarlierSteps ==
  ASSUME NEW s \in Syncs, SyncStep(s)
  PROVE  \/ Start(s) \/ RebuildCatalog(s) \/ PublishChunks(s) \/ PublishBM25(s) \/ PublishPapers(s)
         \/ (\E p \in Papers : BuildDocument(s, p) \/ DocumentIssue(s, p))
         \/ Fail(s) \/ Later(s)
BY DEF SyncStep, Later

\* What each step of a synchronisation does to the documents it found.
LEMMA SeenStep ==
  ASSUME TextInv, AloneText, AloneCompleted, NEW s \in Syncs, SyncStep(s)
  PROVE  SeenOK(s)'
<1>0. sync \in [Syncs -> SyncRows] /\ sync[s] \in SyncRows /\ FileTypes /\ SeenOK(s)
  BY DEF TextInv, FileTypes, AloneText, AloneCompleted
<1>. USE DEF At
<1>. DEFINE Early == {"documents"} \cup AfterChunks
<1>1. CASE Start(s)
  <2>1. sync'[s].pc = "catalog" /\ Corpus # {} /\ Corpus' = Corpus
    BY <1>0, <1>1 DEF Start, Set, Idle, Corpus
  <2>. QED  BY <2>1 DEF SeenOK, AfterChunks, AfterPapers, Dense, AfterDense, Scoping
<1>2. CASE RebuildCatalog(s)
  <2>1. /\ sync'[s].pc = "documents" /\ sync'[s].seen = Corpus /\ sync'[s].todo = Corpus
        /\ Corpus' = Corpus
    BY <1>0, <1>2 DEF RebuildCatalog, Set, SyncRows, Corpus
  <2>. QED  BY <2>1 DEF SeenOK, AfterChunks, AfterPapers, Dense, AfterDense, Scoping
<1>3. ASSUME NEW p \in Papers, BuildDocument(s, p)
      PROVE  SeenOK(s)'
  <2>1. /\ sync[s].pc = "documents" /\ sync'[s].pc = "documents" /\ sync'[s].seen = sync[s].seen
        /\ sync'[s].issues = sync[s].issues /\ sync'[s].todo = sync[s].todo \ {p}
        /\ sync'[s].projection = [sync[s].projection EXCEPT ![p] = Chunked(canonical[p])]
    BY <1>0, <1>3 DEF BuildDocument, Set, SyncRows
  <2>2. Corpus' = Corpus
    BY <1>3 DEF BuildDocument, Corpus
  <2>3. sync[s].seen \subseteq Corpus
    BY <1>0, <2>1 DEF SeenOK
  <2>4. ASSUME NEW q \in sync[s].seen, q \notin sync[s].todo \ {p}, ~sync[s].issues
        PROVE  FoundIn(q, sync[s].projection)'
    <3>1. /\ q \in Papers /\ sync[s].projection \in [Papers -> Content \cup {NONE}]
          /\ docChunks \in [Papers -> Content \cup {NONE}] /\ docChunks' = [docChunks EXCEPT ![p] = canonical[p]]
      BY <1>0, <1>3, <2>4 DEF SyncRows, Projections, FileTypes, BuildDocument
    <3>2. CASE q = p
      <4>1. canonical[p] # NONE /\ docChunks'[q] = canonical[p]
        BY <2>3, <3>1, <3>2 DEF Corpus
      <4>2. sync'[s].projection[q] = Chunked(canonical[p])
        BY <2>1, <3>1, <3>2
      <4>. QED  BY <4>1, <4>2 DEF FoundIn, Chunked
    <3>3. CASE q # p
      <4>1. docChunks'[q] = docChunks[q] /\ sync'[s].projection[q] = sync[s].projection[q]
        BY <2>1, <3>1, <3>3
      <4>2. FoundIn(q, sync[s].projection)
        BY <1>0, <2>1, <2>4, <3>3 DEF SeenOK
      <4>. QED  BY <4>1, <4>2 DEF FoundIn, Chunked
    <3>. QED  BY <3>2, <3>3
  <2>. QED  BY <2>1, <2>2, <2>3, <2>4
            DEF SeenOK, AfterChunks, AfterPapers, Dense, AfterDense, Scoping
<1>4. ASSUME NEW p \in Papers, DocumentIssue(s, p)
      PROVE  SeenOK(s)'
  <2>1. /\ sync[s].pc = "documents" /\ sync'[s].pc = "documents" /\ sync'[s].seen = sync[s].seen
        /\ sync'[s].issues
    BY <1>0, <1>4 DEF DocumentIssue, Set, SyncRows
  <2>2. Corpus' = Corpus
    BY <1>4 DEF DocumentIssue, Corpus
  <2>. QED  BY <1>0, <2>1, <2>2 DEF SeenOK, AfterChunks, AfterPapers, Dense, AfterDense, Scoping
<1>5. CASE PublishChunks(s)
  <2>1. /\ sync[s].pc = "documents" /\ sync'[s].pc = "bm25" /\ SeenKept(s)
        /\ sync[s].todo = {} /\ chunks' = sync[s].projection /\ docChunks' = docChunks
    BY <1>0, <1>5 DEF PublishChunks, Goto, Set, SyncRows, SeenKept
  <2>2. Corpus' = Corpus
    BY <1>5 DEF PublishChunks, Corpus
  <2>3. ~sync[s].issues => \A p \in sync[s].seen : FoundIn(p, sync[s].projection)
    BY <1>0, <2>1 DEF SeenOK
  <2>4. ~sync[s].issues => \A p \in sync[s].seen : FoundIn(p, chunks)'
    BY <2>1, <2>3 DEF FoundIn, Chunked
  <2>. QED  BY <1>0, <2>1, <2>2, <2>4
            DEF SeenOK, SeenKept, AfterChunks, AfterPapers, Dense, AfterDense, Scoping
<1>6. ASSUME sync[s].pc \in AfterChunks, SeenKept(s), UNCHANGED <<canonical, docChunks, chunks>>,
             sync'[s].pc \in AfterChunks \cup {"failed"},
             sync'[s].pc \in AfterPapers => ~sync[s].issues
      PROVE  SeenOK(s)'
  <2>1. Corpus' = Corpus
    BY <1>6 DEF Corpus
  <2>2. /\ chunks = sync[s].projection /\ sync[s].seen \subseteq Corpus
        /\ ~sync[s].issues => \A p \in sync[s].seen : FoundIn(p, chunks)
    BY <1>0, <1>6 DEF SeenOK
  <2>3. sync'[s].pc \notin {"catalog", "documents"}
    BY <1>6 DEF AfterChunks, AfterPapers, Dense, AfterDense, Scoping
  <2>4. ~sync[s].issues => \A p \in sync[s].seen : FoundIn(p, chunks)'
    BY <1>6, <2>2 DEF FoundIn, Chunked
  <2>. QED  BY <1>6, <2>1, <2>2, <2>3, <2>4 DEF SeenOK, SeenKept
<1>7. CASE PublishBM25(s)
  <2>1. /\ sync[s].pc = "bm25" /\ sync'[s].pc = "papers" /\ SeenKept(s)
        /\ UNCHANGED <<canonical, docChunks, chunks>>
    BY <1>0, <1>7 DEF PublishBM25, Goto, Set, SyncRows, SeenKept
  <2>2. "bm25" \in AfterChunks /\ "papers" \in AfterChunks /\ "papers" \notin AfterPapers
    BY DEF AfterChunks, AfterPapers, Dense, AfterDense, Scoping
  <2>. QED  BY <1>6, <2>1, <2>2
<1>8. CASE PublishPapers(s)
  <2>1. /\ sync[s].pc = "papers" /\ SeenKept(s) /\ UNCHANGED <<canonical, docChunks, chunks>>
        /\ sync'[s].pc = (IF sync[s].issues THEN "failed" ELSE "dense")
    BY <1>0, <1>8 DEF PublishPapers, Goto, Set, SyncRows, SeenKept
  <2>2. "papers" \in AfterChunks /\ "dense" \in AfterChunks /\ "failed" \notin AfterPapers
    BY DEF AfterChunks, AfterPapers, Dense, AfterDense, Scoping
  <2>. QED  BY <1>6, <2>1, <2>2
<1>9. CASE Later(s)
  <2>1. /\ SeenKept(s) /\ UNCHANGED <<canonical, docChunks, chunks>>
        /\ sync[s].pc \in AfterPapers /\ sync'[s].pc \in AfterPapers \cup {"failed"}
    BY <1>0, <1>9, LaterSteps
  <2>2. AfterPapers \subseteq AfterChunks
    BY DEF AfterChunks
  <2>3. ~sync[s].issues
    BY <1>0, <2>1 DEF SeenOK
  <2>. QED  BY <1>6, <2>1, <2>2, <2>3
<1>10. CASE Fail(s)
  <2>1. sync'[s].pc = "idle"
    BY <1>0, <1>10 DEF Fail, Set, Idle
  <2>. QED  BY <2>1 DEF SeenOK, AfterChunks, AfterPapers, Dense, AfterDense, Scoping
<1>. QED  BY <1>1, <1>2, <1>3, <1>4, <1>5, <1>7, <1>8, <1>9, <1>10, EarlierSteps

\* What is filled is neither lost nor made up, and shows that something was empty.
LEMMA WithFieldsPresent ==
  ASSUME FileTypes, NEW mapping \in Digests
  PROVE  Present(WithFields(mapping)) = Present(mapping)
<1>1. \A p \in Papers : canonical[p] # NONE => canonical[p].meta # NONE
  BY AbsentAssumption DEF FileTypes, Projections, Content
<1>2. \A p \in Papers : mapping[p] = 0 => mapping[p] # NONE
  BY AbsentAssumption
<1>. QED  BY <1>1, <1>2 DEF Present, WithFields

LEMMA WithFieldsOrSame == FileTypes => WithFields(records) = records \/ Refillable
<1>. SUFFICES ASSUME FileTypes, ~Refillable PROVE WithFields(records) = records
  OBVIOUS
<1>1. records \in [Papers -> Nat \cup {NONE}]
  BY DEF FileTypes, Digests
<1>2. \A p \in Papers :
        (IF records[p] = 0 /\ canonical[p] # NONE THEN canonical[p].meta ELSE records[p]) = records[p]
  BY DEF Refillable
<1>. QED  BY <1>1, <1>2 DEF WithFields

\* ... and to the indexes.
LEMMA IndexesStep ==
  ASSUME TextInv, AloneText, AloneCompleted, NEW s \in Syncs, SyncStep(s)
  PROVE  IndexesOK(s)'
<1>0. /\ sync \in [Syncs -> SyncRows] /\ sync[s] \in SyncRows /\ FileTypes
      /\ PointsOK(s) /\ SeenOK(s) /\ IndexesOK(s)
  BY DEF TextInv, FileTypes, AloneText, AloneCompleted
<1>. USE DEF At
<1>1. ASSUME sync'[s].pc \in {"idle", "failed", "catalog"}
      PROVE  IndexesOK(s)'
  BY <1>1 DEF IndexesOK, AfterChunks, AfterPapers, Dense, AfterDense, Scoping
<1>2. ASSUME sync'[s].pc \in {"documents", "bm25"}, Present(catalog)' # {}
      PROVE  IndexesOK(s)'
  BY <1>2 DEF IndexesOK, AfterPapers, Dense, AfterDense, Scoping
<1>3. CASE Start(s)
  <2>1. sync'[s].pc = "catalog"
    BY <1>0, <1>3 DEF Start, Set, Idle
  <2>. QED  BY <1>1, <2>1
<1>4. CASE RebuildCatalog(s)
  <2>1. sync'[s].pc = "documents" /\ catalog' = canonical /\ Corpus # {}
    BY <1>0, <1>4 DEF RebuildCatalog, Set, SyncRows, SeenOK
  <2>2. Present(catalog)' # {}
    BY <2>1 DEF Present, Corpus
  <2>. QED  BY <1>2, <2>1, <2>2
<1>5. ASSUME NEW p \in Papers, BuildDocument(s, p) \/ DocumentIssue(s, p)
      PROVE  IndexesOK(s)'
  <2>1. sync[s].pc = "documents" /\ sync'[s].pc = "documents" /\ catalog' = catalog
    BY <1>0, <1>5 DEF BuildDocument, DocumentIssue, Set, SyncRows, fileVars
  <2>2. Present(catalog)' # {}
    BY <1>0, <2>1 DEF IndexesOK, Present
  <2>. QED  BY <1>2, <2>1, <2>2
<1>6. CASE PublishChunks(s)
  <2>1. sync[s].pc = "documents" /\ sync'[s].pc = "bm25" /\ catalog' = catalog
    BY <1>0, <1>6 DEF PublishChunks, Goto, Set, SyncRows
  <2>2. Present(catalog)' # {}
    BY <1>0, <2>1 DEF IndexesOK, Present
  <2>. QED  BY <1>2, <2>1, <2>2
<1>7. CASE PublishBM25(s)
  <2>1. /\ sync[s].pc = "bm25" /\ sync'[s].pc = "papers" /\ UNCHANGED <<catalog, chunks>>
        /\ bm25' = Text(sync[s].projection)
    BY <1>0, <1>7 DEF PublishBM25, Goto, Set, SyncRows
  <2>2. chunks = sync[s].projection /\ Present(catalog) # {}
    BY <1>0, <2>1 DEF SeenOK, IndexesOK, AfterChunks
  <2>3. bm25' = Text(chunks)' /\ Present(catalog)' # {}
    BY <2>1, <2>2 DEF Text, Present
  <2>. QED  BY <2>1, <2>3 DEF IndexesOK, AfterPapers, Dense, AfterDense, Scoping
<1>8. CASE PublishPapers(s)
  <2>1. /\ sync[s].pc = "papers" /\ sync'[s].pc \in {"dense", "failed"}
        /\ UNCHANGED <<catalog, chunks, bm25>>
        /\ records' = LoadPaperRecords /\ paperIndex' = records'
    BY <1>0, <1>8 DEF PublishPapers, Goto, Set, SyncRows
  <2>2. bm25 = Text(chunks) /\ Present(catalog) # {}
    BY <1>0, <2>1 DEF IndexesOK, AfterChunks
  <2>3. Present(Meta(catalog)) # {}
    <3>1. PICK p \in Papers : catalog[p] # NONE
      BY <2>2 DEF Present
    <3>2. catalog[p] \in Content
      BY <1>0, <3>1 DEF FileTypes, Projections
    <3>3. catalog[p].meta # NONE
      BY <3>2, AbsentAssumption DEF Content
    <3>. QED  BY <3>1, <3>3 DEF Present, Meta
  <2>4. Present(LoadPaperRecords) # {}
    <3>1. records \in Digests /\ Meta(catalog) \in Digests
      BY <1>0, ProjectionTypes DEF FileTypes
    <3>2. /\ Present(WithFields(records)) = Present(records)
          /\ Present(WithFields(Meta(catalog))) = Present(Meta(catalog))
      BY <1>0, <3>1, WithFieldsPresent
    <3>. QED  BY <2>2, <2>3, <3>2 DEF LoadPaperRecords
  <2>5. bm25' = Text(chunks)' /\ Present(catalog)' # {} /\ Present(records)' # {}
    BY <2>1, <2>2, <2>4 DEF Text, Present
  <2>6. sync'[s].pc \notin Dense \cup AfterDense
    BY <2>1 DEF Dense, AfterDense, Scoping
  <2>. QED  BY <2>1, <2>5, <2>6 DEF IndexesOK, Scoping, AfterDense
<1>9. CASE Later(s)
  <2>1. /\ UNCHANGED <<canonical, catalog, chunks, bm25, records, paperIndex>>
        /\ sync[s].pc \in AfterPapers /\ sync'[s].pc \in AfterPapers \cup {"failed"}
    BY <1>0, <1>9, LaterSteps
  <2>2. /\ Present(catalog) # {} /\ bm25 = Text(chunks) /\ Present(records) # {} /\ paperIndex = records
    BY <1>0, <2>1 DEF IndexesOK, AfterChunks
  <2>3. LoadPaperRecords = records \/ Refillable
    BY <1>0, <2>2, WithFieldsOrSame DEF LoadPaperRecords
  <2>4. /\ Present(catalog)' = Present(catalog) /\ Text(chunks)' = Text(chunks)
        /\ Present(records)' = Present(records) /\ Present(chunks)' = Present(chunks)
        /\ Refillable' = Refillable
    BY <2>1 DEF Present, Text, Refillable
  <2>. DEFINE Indexed ==
         /\ sync'[s].pc \in Dense \cup AfterDense => Present(chunks) # {}
         /\ sync'[s].pc \in AfterDense => manifest' = Text(chunks)
         /\ sync'[s].pc = "paper_manifest" => sync'[s].papers = records \/ Refillable
         /\ sync'[s].pc \in Scoping => paperManifest' = records \/ Refillable
  <2>5. SUFFICES Indexed
    BY <2>1, <2>2, <2>4 DEF IndexesOK
  <2>. USE DEF Dense, AfterDense, Scoping
  <2>6. sync'[s].pc = "failed" => Indexed
    OBVIOUS
  <2>7. CASE BeginDense(s)
    <3>1. CASE Present(chunks) = {}
      <4>1. sync'[s].pc = "failed"
        BY <1>0, <2>7, <3>1 DEF BeginDense, Goto, Set, SyncRows
      <4>. QED  BY <2>6, <4>1
    <3>2. CASE Present(chunks) # {}
      <4>1. sync' = [sync EXCEPT ![s] = [sync[s] EXCEPT
              !.pc = IF manifest = NONE THEN "embed_all" ELSE "delete",
              !.snapshot = chunks,
              !.delta = IF manifest = NONE THEN Papers ELSE ChangedPapers(s, chunks)]]
        BY <2>7, <3>2 DEF BeginDense, Set
      <4>2. sync'[s].pc \in {"embed_all", "delete"}
        BY <1>0, <4>1 DEF SyncRows
      <4>. QED  BY <3>2, <4>2
    <3>. QED  BY <3>1, <3>2
  <2>8. CASE DeletePoints(s)
    <3>1. sync[s].pc = "delete" /\ sync'[s].pc = "embed"
      BY <1>0, <2>8 DEF DeletePoints, Goto, Set, SyncRows
    <3>. QED  BY <1>0, <3>1 DEF IndexesOK
  <2>9. CASE UpsertPoints(s)
    <3>1. sync[s].pc = "embed" /\ sync'[s].pc = "manifest"
      BY <1>0, <2>9 DEF UpsertPoints, Goto, Set, SyncRows
    <3>. QED  BY <1>0, <3>1 DEF IndexesOK
  <2>10. CASE RecreateCollection(s)
    <3>1. sync[s].pc = "embed_all" /\ sync'[s].pc = "fill"
      BY <1>0, <2>10 DEF RecreateCollection, Goto, Set, SyncRows
    <3>. QED  BY <1>0, <3>1 DEF IndexesOK
  <2>11. CASE FillCollection(s)
    <3>1. sync[s].pc = "fill" /\ sync'[s].pc = "manifest"
      BY <1>0, <2>11 DEF FillCollection, Goto, Set, SyncRows
    <3>. QED  BY <1>0, <3>1 DEF IndexesOK
  <2>12. CASE WriteManifest(s)
    <3>1. /\ sync[s].pc = "manifest" /\ sync'[s].pc = "paper_dense"
          /\ manifest' = Text(sync[s].snapshot)
      BY <1>0, <2>12 DEF WriteManifest, Goto, Set, SyncRows
    <3>2. sync[s].snapshot = chunks
      BY <1>0, <3>1 DEF PointsOK
    <3>. QED  BY <1>0, <3>1, <3>2 DEF IndexesOK
  <2>13. CASE EmbeddingFails(s)
    <3>1. sync'[s].pc = "failed"
      BY <1>0, <2>13 DEF EmbeddingFails, Goto, Set, SyncRows
    <3>. QED  BY <2>6, <3>1
  <2>14. CASE ScopeMissing(s)
    <3>1. sync'[s].pc = "failed"
      BY <1>0, <2>14 DEF ScopeMissing, Goto, Set, SyncRows
    <3>. QED  BY <2>6, <3>1
  <2>15. CASE BuildPaperDense(s)
    <3>1. sync[s].pc = "paper_dense" /\ manifest' = manifest /\ paperManifest' = paperManifest
      BY <2>15 DEF BuildPaperDense, denseVars
    <3>2. Present(chunks) # {} /\ manifest = Text(chunks)
      BY <1>0, <3>1 DEF IndexesOK
    <3>3. CASE paperManifest = LoadPaperRecords
      <4>1. sync'[s].pc = "workspace"
        BY <1>0, <2>15, <3>3 DEF BuildPaperDense, Goto, Set, SyncRows
      <4>. QED  BY <2>3, <3>1, <3>2, <3>3, <4>1
    <3>4. CASE paperManifest # LoadPaperRecords
      <4>1. sync' = [sync EXCEPT ![s] = [sync[s] EXCEPT !.pc = "paper_manifest", !.papers = LoadPaperRecords]]
        BY <2>15, <3>4 DEF BuildPaperDense, Set
      <4>2. sync'[s].pc = "paper_manifest" /\ sync'[s].papers = LoadPaperRecords
        BY <1>0, <4>1 DEF SyncRows
      <4>. QED  BY <2>3, <3>1, <3>2, <4>2
    <3>. QED  BY <3>3, <3>4
  <2>16. CASE WritePaperManifest(s)
    <3>1. /\ sync[s].pc = "paper_manifest" /\ sync'[s].pc = "workspace" /\ manifest' = manifest
          /\ paperManifest' = sync[s].papers
      BY <1>0, <2>16 DEF WritePaperManifest, Goto, Set, SyncRows, denseVars
    <3>. QED  BY <1>0, <3>1 DEF IndexesOK
  <2>17. CASE SynchronizeScope(s) \/ Complete(s)
    <3>1. /\ sync[s].pc \in Scoping /\ sync'[s].pc \in Scoping
          /\ manifest' = manifest /\ paperManifest' = paperManifest
      BY <1>0, <2>17 DEF SynchronizeScope, Complete, Goto, Set, SyncRows, denseVars, paperDenseVars
    <3>2. sync'[s].pc # "paper_manifest"
      BY <3>1
    <3>. QED  BY <1>0, <3>1, <3>2 DEF IndexesOK
  <2>. QED  BY <1>9, <2>7, <2>8, <2>9, <2>10, <2>11, <2>12, <2>13, <2>14, <2>15, <2>16, <2>17 DEF Later
<1>10. CASE Fail(s)
  <2>1. sync'[s].pc = "idle"
    BY <1>0, <1>10 DEF Fail, Set, Idle
  <2>. QED  BY <1>1, <2>1
<1>. QED  BY <1>3, <1>4, <1>5, <1>6, <1>7, <1>8, <1>9, <1>10, EarlierSteps

\* ... and to the scope.
LEMMA ScopeStep ==
  ASSUME TextInv, AloneText, AloneCompleted, NEW s \in Syncs, SyncStep(s)
  PROVE  ScopeOK(s)' /\ version' \in Nat
<1>0. /\ sync \in [Syncs -> SyncRows] /\ sync[s] \in SyncRows /\ FileTypes
      /\ SeenOK(s) /\ ScopeOK(s) /\ version \in Nat
  BY DEF TextInv, FileTypes, AloneText, AloneCompleted
<1>. USE DEF At
<1>1. CASE SynchronizeScope(s)
  <2>1. /\ sync[s].pc \in {"workspace", "scope"} /\ Workspace!ServiceStep
        /\ call = "none" \/ sync[s].pc = "scope"
    BY <1>1 DEF SynchronizeScope, ScopeFree
  <2>2. /\ sync'[s].seen = sync[s].seen
        /\ sync'[s].pc = (IF call' # "none" THEN "scope"
                          ELSE IF version' > version THEN "scoped" ELSE "workspace")
    BY <1>0, <1>1 DEF SynchronizeScope, Goto, Set, SyncRows
  <2>3. sync[s].seen \subseteq Corpus
    BY <1>0, <2>1 DEF SeenOK, AfterChunks, AfterPapers, AfterDense, Scoping
  <2>4. CASE Workspace!PutDefaultWorkspace
    <3>1. call' = "default_scope" /\ planned' = Corpus /\ version' = 1
      BY <2>4 DEF Workspace!PutDefaultWorkspace
    <3>. QED  BY <2>2, <2>3, <3>1 DEF ScopeOK
  <2>5. CASE Workspace!PutDefaultScope
    <3>1. call = "default_scope" /\ call' = "default_members" /\ UNCHANGED <<version, planned>>
      BY <2>5 DEF Workspace!PutDefaultScope
    <3>. QED  BY <1>0, <2>1, <2>2, <3>1 DEF ScopeOK
  <2>6. CASE Workspace!PutDefaultMembers
    <3>1. call' = "none" /\ version' = version
      BY <2>6 DEF Workspace!PutDefaultMembers
    <3>2. sync'[s].pc = "workspace"
      BY <1>0, <2>2, <3>1
    <3>. QED  BY <1>0, <3>1, <3>2 DEF ScopeOK
  <2>7. CASE Workspace!PutMembers
    <3>1. call' = "replace_scope" /\ planned' = Corpus /\ version' = version
      BY <2>7 DEF Workspace!PutMembers
    <3>. QED  BY <1>0, <2>2, <2>3, <3>1 DEF ScopeOK
  <2>8. CASE Workspace!PutScope
    <3>1. /\ call = "replace_scope" /\ call' = "replace_version" /\ UNCHANGED <<version, planned>>
          /\ scopes' = [v \in DOMAIN scopes \cup {version + 1} |->
                          IF v = version + 1 THEN planned ELSE scopes[v]]
      BY <2>8 DEF Workspace!PutScope, Workspace!WithScope
    <3>2. scopes'[version' + 1] = planned /\ version' + 1 = version + 1
      BY <3>1
    <3>3. sync[s].seen \subseteq planned /\ sync'[s].pc = "scope"
      BY <1>0, <2>1, <2>2, <3>1 DEF ScopeOK
    <3>. QED  BY <1>0, <2>2, <3>1, <3>2, <3>3 DEF ScopeOK
  <2>9. CASE Workspace!PublishVersion
    <3>1. call = "replace_version" /\ call' = "none" /\ version' = version + 1 /\ scopes' = scopes
      BY <2>9 DEF Workspace!PublishVersion
    <3>2. sync[s].seen \subseteq scopes[version + 1] /\ sync'[s].pc = "scoped"
      BY <1>0, <2>1, <2>2, <3>1 DEF ScopeOK
    <3>. QED  BY <1>0, <2>2, <3>1, <3>2 DEF ScopeOK
  <2>. QED  BY <2>1, <2>4, <2>5, <2>6, <2>7, <2>8, <2>9 DEF Workspace!ServiceStep
<1>2. CASE Complete(s)
  <2>1. /\ sync'[s].pc = "completed" /\ sync'[s].seen = sync[s].seen /\ UNCHANGED <<version, scopes>>
    BY <1>0, <1>2 DEF Complete, Goto, Set, SyncRows, scopeVars
  <2>2. CASE sync[s].pc = "scoped"
    BY <1>0, <2>1, <2>2 DEF ScopeOK
  <2>3. CASE sync[s].pc = "workspace"
    <3>1. scopes[version] = Corpus
      BY <1>2, <2>3 DEF Complete, Workspace!OutOfDate
    <3>2. sync[s].seen \subseteq Corpus
      BY <1>0, <2>3 DEF SeenOK, AfterChunks, AfterPapers, AfterDense, Scoping
    <3>. QED  BY <1>0, <2>1, <3>1, <3>2 DEF ScopeOK
  <2>. QED  BY <1>2, <2>2, <2>3 DEF Complete
<1>3. ASSUME sync'[s].pc \notin {"scope", "scoped", "completed"}, version' = version
      PROVE  ScopeOK(s)' /\ version' \in Nat
  BY <1>0, <1>3 DEF ScopeOK
<1>4. CASE Start(s)
  <2>1. sync'[s].pc \notin {"scope", "scoped", "completed"} /\ version' = version
    BY <1>0, <1>4 DEF Start, Goto, Set, SyncRows, scopeVars, Idle
  <2>. QED  BY <1>3, <2>1
<1>5. CASE RebuildCatalog(s)
  <2>1. sync'[s].pc \notin {"scope", "scoped", "completed"} /\ version' = version
    BY <1>0, <1>5 DEF RebuildCatalog, Goto, Set, SyncRows, scopeVars
  <2>. QED  BY <1>3, <2>1
<1>6. CASE PublishChunks(s)
  <2>1. sync'[s].pc \notin {"scope", "scoped", "completed"} /\ version' = version
    BY <1>0, <1>6 DEF PublishChunks, Goto, Set, SyncRows, scopeVars
  <2>. QED  BY <1>3, <2>1
<1>7. CASE PublishBM25(s)
  <2>1. sync'[s].pc \notin {"scope", "scoped", "completed"} /\ version' = version
    BY <1>0, <1>7 DEF PublishBM25, Goto, Set, SyncRows, scopeVars
  <2>. QED  BY <1>3, <2>1
<1>8. CASE PublishPapers(s)
  <2>1. sync'[s].pc \notin {"scope", "scoped", "completed"} /\ version' = version
    BY <1>0, <1>8 DEF PublishPapers, Goto, Set, SyncRows, scopeVars
  <2>. QED  BY <1>3, <2>1
<1>9. CASE DeletePoints(s)
  <2>1. sync'[s].pc \notin {"scope", "scoped", "completed"} /\ version' = version
    BY <1>0, <1>9 DEF DeletePoints, Goto, Set, SyncRows, scopeVars
  <2>. QED  BY <1>3, <2>1
<1>10. CASE UpsertPoints(s)
  <2>1. sync'[s].pc \notin {"scope", "scoped", "completed"} /\ version' = version
    BY <1>0, <1>10 DEF UpsertPoints, Goto, Set, SyncRows, scopeVars
  <2>. QED  BY <1>3, <2>1
<1>11. CASE RecreateCollection(s)
  <2>1. sync'[s].pc \notin {"scope", "scoped", "completed"} /\ version' = version
    BY <1>0, <1>11 DEF RecreateCollection, Goto, Set, SyncRows, scopeVars
  <2>. QED  BY <1>3, <2>1
<1>12. CASE FillCollection(s)
  <2>1. sync'[s].pc \notin {"scope", "scoped", "completed"} /\ version' = version
    BY <1>0, <1>12 DEF FillCollection, Goto, Set, SyncRows, scopeVars
  <2>. QED  BY <1>3, <2>1
<1>13. CASE EmbeddingFails(s)
  <2>1. sync'[s].pc \notin {"scope", "scoped", "completed"} /\ version' = version
    BY <1>0, <1>13 DEF EmbeddingFails, Goto, Set, SyncRows, scopeVars
  <2>. QED  BY <1>3, <2>1
<1>14. CASE WriteManifest(s)
  <2>1. sync'[s].pc \notin {"scope", "scoped", "completed"} /\ version' = version
    BY <1>0, <1>14 DEF WriteManifest, Goto, Set, SyncRows, scopeVars
  <2>. QED  BY <1>3, <2>1
<1>15. CASE BuildPaperDense(s)
  <2>1. sync'[s].pc \notin {"scope", "scoped", "completed"} /\ version' = version
    BY <1>0, <1>15 DEF BuildPaperDense, Goto, Set, SyncRows, scopeVars
  <2>. QED  BY <1>3, <2>1
<1>16. CASE WritePaperManifest(s)
  <2>1. sync'[s].pc \notin {"scope", "scoped", "completed"} /\ version' = version
    BY <1>0, <1>16 DEF WritePaperManifest, Goto, Set, SyncRows, scopeVars
  <2>. QED  BY <1>3, <2>1
<1>17. CASE ScopeMissing(s)
  <2>1. sync'[s].pc \notin {"scope", "scoped", "completed"} /\ version' = version
    BY <1>0, <1>17 DEF ScopeMissing, Goto, Set, SyncRows, scopeVars
  <2>. QED  BY <1>3, <2>1
<1>18. CASE Fail(s)
  <2>1. sync'[s].pc \notin {"scope", "scoped", "completed"} /\ version' = version
    BY <1>0, <1>18 DEF Fail, Goto, Set, SyncRows, scopeVars, Idle
  <2>. QED  BY <1>3, <2>1
<1>19. CASE BeginDense(s)
  <2>1. version' = version
    BY <1>19 DEF BeginDense, scopeVars
  <2>2. CASE Present(chunks) = {}
    <3>1. sync'[s].pc = "failed"
      BY <1>0, <1>19, <2>2 DEF BeginDense, Goto, Set, SyncRows
    <3>. QED  BY <1>3, <2>1, <3>1
  <2>3. CASE Present(chunks) # {}
    <3>1. sync' = [sync EXCEPT ![s] = [sync[s] EXCEPT
            !.pc = IF manifest = NONE THEN "embed_all" ELSE "delete",
            !.snapshot = chunks,
            !.delta = IF manifest = NONE THEN Papers ELSE ChangedPapers(s, chunks)]]
      BY <1>19, <2>3 DEF BeginDense, Set
    <3>2. sync'[s].pc \in {"embed_all", "delete"}
      BY <1>0, <3>1 DEF SyncRows
    <3>. QED  BY <1>3, <2>1, <3>2
  <2>. QED  BY <2>2, <2>3
<1>20. ASSUME NEW p \in Papers, BuildDocument(s, p) \/ DocumentIssue(s, p)
      PROVE  ScopeOK(s)' /\ version' \in Nat
  <2>1. sync'[s].pc = "documents" /\ version' = version
    BY <1>0, <1>20 DEF BuildDocument, DocumentIssue, Set, SyncRows, scopeVars
  <2>. QED  BY <1>3, <2>1
<1>. QED  BY <1>1, <1>2, <1>4, <1>5, <1>6, <1>7, <1>8, <1>9, <1>10, <1>11, <1>12, <1>13, <1>14, <1>15, <1>16, <1>17, <1>18, <1>19, <1>20 DEF SyncStep

\* ... and to the points it has deleted.
LEMMA HolesStep ==
  ASSUME TextInv, AloneText, AloneCompleted, ~overlapped', NEW s \in Syncs, SyncStep(s)
  PROVE  HolesKnown' /\ HolesOK(s)'
<1>0. /\ sync \in [Syncs -> SyncRows] /\ sync[s] \in SyncRows /\ FileTypes
      /\ PointsOK(s) /\ HolesOK(s) /\ HolesKnown
  BY DEF TextInv, FileTypes, AloneText, AloneCompleted
<1>1. \A t \in Syncs \ {s} : sync'[t].pc = "idle"
  BY <1>0, OthersIdle DEF AloneText
<1>2. \A t \in Syncs \ {s} : ~Start(s) => sync'[t] = sync[t]
  BY <1>0, SyncMoves
<1>3. ASSUME UNCHANGED <<manifest, points, holed>>, Deleted(s) = {}, sync'[s].pc \notin {"embed", "manifest"},
             sync'[s].pc \in {"embed_all", "fill"} => manifest = NONE
      PROVE  HolesKnown' /\ HolesOK(s)'
  <2>1. \A t \in Syncs : Deleted(t) \subseteq Deleted(t)'
    <3>1. CASE Start(s)
      <4>1. \A t \in Syncs : sync[t].pc \notin {"embed", "manifest"}
        BY <3>1 DEF Start, Running
      <4>. QED  BY <4>1 DEF Deleted, At
    <3>2. CASE ~Start(s)
      <4>1. ASSUME NEW t \in Syncs, t # s PROVE Deleted(t) \subseteq Deleted(t)'
        BY <1>2, <3>2, <4>1 DEF Deleted, At, Present
      <4>. QED  BY <1>3, <4>1
    <3>. QED  BY <3>1, <3>2
  <2>2. HolesKnown'
    BY <1>0, <1>3, <2>1 DEF HolesKnown
  <2>. QED  BY <1>3, <2>2 DEF HolesOK, At
<1>. USE DEF At
<1>4. CASE Start(s)
  <2>1. sync'[s].pc = "catalog" /\ sync[s].pc \in {"idle", "completed"} /\ UNCHANGED <<manifest, points, holed>>
    BY <1>4 DEF Start, Idle, Running, denseVars
  <2>. QED  BY <1>3, <2>1 DEF Deleted
<1>5. CASE RebuildCatalog(s)
  <2>1. /\ sync'[s].pc \notin {"embed", "manifest", "embed_all", "fill"} /\ sync[s].pc \notin {"embed", "manifest"}
        /\ UNCHANGED <<manifest, points, holed>>
    BY <1>0, <1>5 DEF RebuildCatalog, Goto, Set, SyncRows, denseVars, history
  <2>. QED  BY <1>3, <2>1 DEF Deleted
<1>6. CASE PublishChunks(s)
  <2>1. /\ sync'[s].pc \notin {"embed", "manifest", "embed_all", "fill"} /\ sync[s].pc \notin {"embed", "manifest"}
        /\ UNCHANGED <<manifest, points, holed>>
    BY <1>0, <1>6 DEF PublishChunks, Goto, Set, SyncRows, denseVars, history
  <2>. QED  BY <1>3, <2>1 DEF Deleted
<1>7. CASE PublishBM25(s)
  <2>1. /\ sync'[s].pc \notin {"embed", "manifest", "embed_all", "fill"} /\ sync[s].pc \notin {"embed", "manifest"}
        /\ UNCHANGED <<manifest, points, holed>>
    BY <1>0, <1>7 DEF PublishBM25, Goto, Set, SyncRows, denseVars, history
  <2>. QED  BY <1>3, <2>1 DEF Deleted
<1>8. CASE PublishPapers(s)
  <2>1. /\ sync'[s].pc \notin {"embed", "manifest", "embed_all", "fill"} /\ sync[s].pc \notin {"embed", "manifest"}
        /\ UNCHANGED <<manifest, points, holed>>
    BY <1>0, <1>8 DEF PublishPapers, Goto, Set, SyncRows, denseVars, history
  <2>. QED  BY <1>3, <2>1 DEF Deleted
<1>9. CASE WritePaperManifest(s)
  <2>1. /\ sync'[s].pc \notin {"embed", "manifest", "embed_all", "fill"} /\ sync[s].pc \notin {"embed", "manifest"}
        /\ UNCHANGED <<manifest, points, holed>>
    BY <1>0, <1>9 DEF WritePaperManifest, Goto, Set, SyncRows, denseVars, history
  <2>. QED  BY <1>3, <2>1 DEF Deleted
<1>10. CASE SynchronizeScope(s)
  <2>1. /\ sync'[s].pc \notin {"embed", "manifest", "embed_all", "fill"} /\ sync[s].pc \notin {"embed", "manifest"}
        /\ UNCHANGED <<manifest, points, holed>>
    BY <1>0, <1>10 DEF SynchronizeScope, Goto, Set, SyncRows, denseVars, history
  <2>. QED  BY <1>3, <2>1 DEF Deleted
<1>11. CASE Complete(s)
  <2>1. /\ sync'[s].pc \notin {"embed", "manifest", "embed_all", "fill"} /\ sync[s].pc \notin {"embed", "manifest"}
        /\ UNCHANGED <<manifest, points, holed>>
    BY <1>0, <1>11 DEF Complete, Goto, Set, SyncRows, denseVars, history
  <2>. QED  BY <1>3, <2>1 DEF Deleted
<1>12. CASE ScopeMissing(s)
  <2>1. /\ sync'[s].pc \notin {"embed", "manifest", "embed_all", "fill"} /\ sync[s].pc \notin {"embed", "manifest"}
        /\ UNCHANGED <<manifest, points, holed>>
    BY <1>0, <1>12 DEF ScopeMissing, Goto, Set, SyncRows, denseVars, history
  <2>. QED  BY <1>3, <2>1 DEF Deleted
<1>13. CASE Fail(s)
  <2>1. /\ sync'[s].pc \notin {"embed", "manifest", "embed_all", "fill"} /\ sync[s].pc \notin {"embed", "manifest"}
        /\ UNCHANGED <<manifest, points, holed>>
    BY <1>0, <1>13 DEF Fail, Goto, Set, SyncRows, denseVars, history, Idle
  <2>. QED  BY <1>3, <2>1 DEF Deleted
<1>20. ASSUME NEW p \in Papers, BuildDocument(s, p) \/ DocumentIssue(s, p)
       PROVE  HolesKnown' /\ HolesOK(s)'
  <2>1. sync'[s].pc = "documents" /\ sync[s].pc = "documents" /\ UNCHANGED <<manifest, points, holed>>
    BY <1>0, <1>20 DEF BuildDocument, DocumentIssue, Set, SyncRows, denseVars, history
  <2>. QED  BY <1>3, <2>1 DEF Deleted
<1>21. CASE BeginDense(s)
  <2>1. UNCHANGED <<manifest, points, holed>> /\ Deleted(s) = {}
    BY <1>21 DEF BeginDense, denseVars, history, Deleted
  <2>2. CASE Present(chunks) = {}
    <3>1. sync'[s].pc = "failed"
      BY <1>0, <1>21, <2>2 DEF BeginDense, Goto, Set, SyncRows
    <3>. QED  BY <1>3, <2>1, <3>1
  <2>3. CASE Present(chunks) # {}
    <3>1. sync' = [sync EXCEPT ![s] = [sync[s] EXCEPT
            !.pc = IF manifest = NONE THEN "embed_all" ELSE "delete",
            !.snapshot = chunks,
            !.delta = IF manifest = NONE THEN Papers ELSE ChangedPapers(s, chunks)]]
      BY <1>21, <2>3 DEF BeginDense, Set
    <3>2. sync'[s].pc = (IF manifest = NONE THEN "embed_all" ELSE "delete")
      BY <1>0, <3>1 DEF SyncRows
    <3>. QED  BY <1>3, <2>1, <3>2
  <2>. QED  BY <2>2, <2>3
<1>22. CASE BuildPaperDense(s)
  <2>1. UNCHANGED <<manifest, points, holed>> /\ Deleted(s) = {}
    BY <1>22 DEF BuildPaperDense, denseVars, history, Deleted
  <2>2. CASE paperManifest = LoadPaperRecords
    <3>1. sync'[s].pc = "workspace"
      BY <1>0, <1>22, <2>2 DEF BuildPaperDense, Goto, Set, SyncRows
    <3>. QED  BY <1>3, <2>1, <3>1
  <2>3. CASE paperManifest # LoadPaperRecords
    <3>1. sync'[s].pc = "paper_manifest"
      BY <1>0, <1>22, <2>3 DEF BuildPaperDense, Set, SyncRows
    <3>. QED  BY <1>3, <2>1, <3>1
  <2>. QED  BY <2>2, <2>3
<1>23. CASE DeletePoints(s)
  <2>1. /\ UNCHANGED <<manifest, holed>>
        /\ points' = [p \in Papers |-> IF p \in sync[s].delta THEN NONE ELSE points[p]]
    BY <1>23 DEF DeletePoints, history
  <2>2. sync[s].pc = "delete" /\ sync'[s].pc = "embed" /\ sync'[s].delta = sync[s].delta
    BY <1>0, <1>23 DEF DeletePoints, Goto, Set, SyncRows
  <2>3. Deleted(s) = {} /\ Deleted(s)' = sync[s].delta
    BY <2>2 DEF Deleted
  <2>4. \A t \in Syncs \ {s} : Deleted(t)' = Deleted(t)
    BY <1>2, <1>23, <2>2 DEF Deleted, Start, Running, Present
  <2>5. ASSUME NEW p \in Papers, manifest # NONE, manifest[p] # NONE, points'[p] = NONE
        PROVE  p \in holed \/ \E t \in Syncs : p \in Deleted(t)'
    <3>1. CASE p \in sync[s].delta
      BY <2>3, <3>1
    <3>2. CASE p \notin sync[s].delta
      <4>1. p \in holed \/ \E t \in Syncs : p \in Deleted(t)
        BY <1>0, <2>1, <2>5, <3>2 DEF HolesKnown
      <4>. QED  BY <2>3, <2>4, <4>1
    <3>. QED  BY <3>1, <3>2
  <2>. QED  BY <2>1, <2>2, <2>5 DEF HolesKnown, HolesOK
<1>24. CASE UpsertPoints(s)
  <2>1. /\ manifest' = manifest /\ chunks' = chunks /\ holed' = holed \ sync[s].delta
        /\ points' = [p \in Papers |-> IF p \in sync[s].delta THEN sync[s].snapshot[p] ELSE points[p]]
    BY <1>24 DEF UpsertPoints, fileVars
  <2>2. /\ sync[s].pc = "embed" /\ sync'[s].pc = "manifest" /\ sync'[s].delta = sync[s].delta
        /\ sync'[s].snapshot = sync[s].snapshot /\ sync[s].snapshot = chunks
    BY <1>0, <1>24 DEF UpsertPoints, Goto, Set, SyncRows, PointsOK, Dense
  <2>3. Deleted(s) = sync[s].delta /\ Deleted(s)' = sync[s].delta \ Present(sync[s].snapshot)
    BY <2>2 DEF Deleted, Present
  <2>4. \A t \in Syncs \ {s} : Deleted(t) = {}
    <3>1. \A t \in Syncs \ {s} : sync[t].pc = "idle"
      BY <2>2 DEF AloneText, Lone
    <3>. QED  BY <3>1 DEF Deleted
  <2>5. ASSUME NEW p \in Papers, manifest # NONE, manifest[p] # NONE, points'[p] = NONE
        PROVE  p \in holed' \/ \E t \in Syncs : p \in Deleted(t)'
    <3>1. CASE p \in sync[s].delta
      <4>1. p \notin Present(sync[s].snapshot)
        BY <2>1, <2>5, <3>1 DEF Present
      <4>. QED  BY <2>3, <3>1, <4>1
    <3>2. CASE p \notin sync[s].delta
      <4>1. p \in holed \/ \E t \in Syncs : p \in Deleted(t)
        BY <1>0, <2>1, <2>5, <3>2 DEF HolesKnown
      <4>. QED  BY <2>1, <2>3, <2>4, <3>2, <4>1
    <3>. QED  BY <3>1, <3>2
  <2>6. ASSUME NEW p \in Papers, chunks[p] # NONE, p \notin holed'
        PROVE  points'[p] # NONE
    <3>1. CASE p \in sync[s].delta
      BY <2>1, <2>2, <2>6, <3>1
    <3>2. CASE p \notin sync[s].delta
      <4>1. manifest # NONE /\ manifest[p] = chunks[p].text
        BY <1>0, <2>2, <2>6, <3>2 DEF PointsOK, Text
      <4>2. chunks[p].text # NONE
        BY <1>0, <2>6, AbsentAssumption DEF FileTypes, Projections, Content
      <4>3. p \notin holed /\ \A t \in Syncs : p \notin Deleted(t)
        BY <2>1, <2>3, <2>4, <2>6, <3>2
      <4>4. points[p] # NONE
        BY <1>0, <4>1, <4>2, <4>3 DEF HolesKnown
      <4>. QED  BY <2>1, <3>2, <4>4
    <3>. QED  BY <3>1, <3>2
  <2>. QED  BY <2>1, <2>2, <2>5, <2>6 DEF HolesKnown, HolesOK, Present
<1>25. CASE RecreateCollection(s)
  <2>1. manifest' = manifest /\ sync[s].pc = "embed_all" /\ sync'[s].pc = "fill"
    BY <1>0, <1>25 DEF RecreateCollection, Goto, Set, SyncRows
  <2>2. manifest = NONE
    BY <1>0, <2>1 DEF HolesOK
  <2>. QED  BY <2>1, <2>2 DEF HolesKnown, HolesOK
<1>26. CASE FillCollection(s)
  <2>1. /\ manifest' = manifest /\ chunks' = chunks /\ sync[s].pc = "fill" /\ sync'[s].pc = "manifest"
        /\ points' = [p \in Papers |-> IF sync[s].snapshot[p] = NONE THEN points[p] ELSE sync[s].snapshot[p]]
    BY <1>0, <1>26 DEF FillCollection, Goto, Set, SyncRows, fileVars
  <2>2. manifest = NONE /\ sync[s].snapshot = chunks
    BY <1>0, <2>1 DEF HolesOK, PointsOK, Dense
  <2>. QED  BY <2>1, <2>2 DEF HolesKnown, HolesOK, Present
<1>27. CASE EmbeddingFails(s)
  <2>1. /\ UNCHANGED <<manifest, points>> /\ holed' = holed \cup Deleted(s)
        /\ sync'[s].pc = "failed"
    BY <1>0, <1>27 DEF EmbeddingFails, Goto, Set, SyncRows, denseVars
  <2>2. \A t \in Syncs \ {s} : Deleted(t)' = Deleted(t)
    BY <1>2, <1>27 DEF EmbeddingFails, Deleted, Start, Running, Present
  <2>3. HolesKnown'
    BY <1>0, <2>1, <2>2 DEF HolesKnown
  <2>. QED  BY <2>1, <2>3 DEF HolesOK
<1>28. CASE WriteManifest(s)
  <2>1. /\ manifest' = Text(chunks) /\ UNCHANGED <<points, holed>>
        /\ sync[s].pc = "manifest" /\ sync'[s].pc = "paper_dense"
    BY <1>0, <1>28 DEF WriteManifest, Goto, Set, SyncRows, history, PointsOK, Dense
  <2>2. \A p \in Papers : manifest'[p] # NONE => chunks[p] # NONE
    BY <2>1 DEF Text
  <2>3. \A p \in Papers : chunks[p] # NONE => points[p] # NONE \/ p \in holed
    BY <1>0, <2>1 DEF HolesOK, Present
  <2>4. HolesKnown'
    BY <2>1, <2>2, <2>3 DEF HolesKnown
  <2>. QED  BY <2>1, <2>4 DEF HolesOK
<1>. QED  BY <1>4, <1>5, <1>6, <1>7, <1>8, <1>9, <1>10, <1>11, <1>12, <1>13, <1>20, <1>21, <1>22, <1>23, <1>24, <1>25, <1>26, <1>27, <1>28 DEF SyncStep

LEMMA CompletedInit == Init => CompletedInv
<1> SUFFICES ASSUME Init PROVE CompletedInv
  OBVIOUS
<1>1. TextInv
  BY TextInit
<1>2. version \in Nat /\ manifest = NONE
  BY DEF Init, Workspace!Init
<1>3. \A s \in Syncs : sync[s].pc = "idle"
  BY DEF Init, Idle
<1>4. HolesKnown
  BY <1>2 DEF HolesKnown
<1>5. \A s \in Syncs : HolesOK(s) /\ SeenOK(s) /\ IndexesOK(s) /\ ScopeOK(s)
  BY <1>3 DEF HolesOK, SeenOK, IndexesOK, ScopeOK, At, AfterChunks, AfterPapers, Dense, AfterDense, Scoping
<1>. QED  BY <1>1, <1>2, <1>4, <1>5 DEF CompletedInv, AloneCompleted

\* An edit fills no record; metadata once there are not taken back.
LEMMA RefillableLasts ==
  ASSUME FileTypes, EditPaper, Refillable
  PROVE  Refillable'
<1>1. PICK p \in Papers : records[p] = 0 /\ canonical[p] # NONE /\ canonical[p].meta # 0
  BY DEF Refillable
<1>2. PICK q \in Papers : \E content \in Edited(q) : canonical' = [canonical EXCEPT ![q] = content]
  BY DEF EditPaper
<1>3. PICK content \in Edited(q) : canonical' = [canonical EXCEPT ![q] = content]
  BY <1>2
<1>4. canonical \in [Papers -> Content \cup {NONE}] /\ edits \in Nat /\ NONE \notin Content
  BY AbsentAssumption DEF FileTypes, Projections
<1>5. canonical[q] # NONE => content \in Content /\ content.meta \in {canonical[q].meta, canonical[q].meta + 1}
  BY <1>3, <1>4 DEF Edited, Content
<1>6. canonical'[p] # NONE /\ canonical'[p].meta # 0
  <2>1. CASE p = q
    <3>1. canonical'[p] = content /\ canonical[p].meta \in Nat
      BY <1>1, <1>3, <1>4, <2>1 DEF Content
    <3>. QED  BY <1>1, <1>4, <1>5, <2>1, <3>1
  <2>2. CASE p # q
    BY <1>1, <1>3, <1>4, <2>2
  <2>. QED  BY <2>1, <2>2
<1>7. records' = records
  BY DEF EditPaper, fileVars
<1>. QED  BY <1>1, <1>6, <1>7 DEF Refillable

LEMMA CompletedStep ==
  ASSUME CompletedInv, [Next]_vars
  PROVE  CompletedInv'
<1>0. TextInv /\ TextInv' /\ FileTypes
  BY TextStep DEF CompletedInv, TextInv
<1>. SUFFICES ASSUME ~overlapped' PROVE AloneCompleted'
  BY <1>0 DEF CompletedInv
<1>a. AloneText /\ AloneCompleted /\ ~overlapped
  <2>1. ~overlapped => Lone
    BY <1>0 DEF TextInv, AloneText
  <2>2. ~overlapped
    BY <1>0, <2>1, LoneStep
  <2>. QED  BY <1>0, <2>2 DEF CompletedInv, TextInv
<1>1. ASSUME UNCHANGED <<catalog, docChunks, chunks, bm25, records, paperIndex, manifest, paperManifest>>,
             UNCHANGED <<points, version, scopes>>, holed \subseteq holed', Corpus \subseteq Corpus',
             Refillable => Refillable', HolesKnown',
             \A s \in Syncs : \/ sync'[s].pc = "idle"
                              \/ /\ sync'[s] = sync[s]
                                 /\ sync[s].pc = "completed" \/ UNCHANGED <<call, planned>>
      PROVE  AloneCompleted'
  <2>1. ASSUME NEW s \in Syncs
        PROVE  HolesOK(s)' /\ SeenOK(s)' /\ IndexesOK(s)' /\ ScopeOK(s)'
    <3>1. CASE sync'[s].pc = "idle"
      BY <3>1 DEF HolesOK, SeenOK, IndexesOK, ScopeOK, At, AfterChunks, AfterPapers, Dense, AfterDense, Scoping
    <3>2. CASE /\ sync'[s] = sync[s]
               /\ sync[s].pc = "completed" \/ UNCHANGED <<call, planned>>
      <4>1. HolesOK(s) /\ SeenOK(s) /\ IndexesOK(s) /\ ScopeOK(s)
        BY <1>a DEF AloneCompleted
      <4>2. /\ Text(chunks)' = Text(chunks) /\ Present(chunks)' = Present(chunks)
            /\ Present(catalog)' = Present(catalog) /\ Present(records)' = Present(records)
        BY <1>1 DEF Text, Present
      <4>3. SeenOK(s)'
        <5>1. /\ \A p : FoundIn(p, sync[s].projection)' <=> FoundIn(p, sync[s].projection)
              /\ \A p : FoundIn(p, chunks)' <=> FoundIn(p, chunks)
          BY <1>1, <3>2 DEF FoundIn, Chunked
        <5>. QED  BY <1>1, <3>2, <4>1, <4>2, <5>1 DEF SeenOK, At
      <4>4. IndexesOK(s)'
        BY <1>1, <3>2, <4>1, <4>2 DEF IndexesOK, At
      <4>5. ScopeOK(s)'
        BY <1>1, <3>2, <4>1 DEF ScopeOK, At
      <4>6. HolesOK(s)'
        BY <1>1, <3>2, <4>1, <4>2 DEF HolesOK, At
      <4>. QED  BY <4>3, <4>4, <4>5, <4>6
    <3>. QED  BY <1>1, <3>1, <3>2
  <2>2. version' \in Nat
    BY <1>1, <1>a DEF AloneCompleted
  <2>. QED  BY <1>1, <2>1, <2>2 DEF AloneCompleted
<1>2. CASE EditPaper
  <2>1. Corpus \subseteq Corpus'
    <3>1. \A p \in Papers : canonical[p] # NONE => canonical[p].text <= edits
      BY <1>a DEF AloneText, PaperOK
    <3>. QED  BY <1>0, <1>2, <3>1, NewestGrows DEF Corpus
  <2>2. Refillable => Refillable'
    BY <1>0, <1>2, RefillableLasts
  <2>3. UNCHANGED <<manifest, points, holed, sync>>
    BY <1>2 DEF EditPaper, denseVars, history
  <2>4. HolesKnown'
    BY <1>a, <2>3 DEF AloneCompleted, HolesKnown, Deleted, At, Present
  <2>. QED  BY <1>1, <1>2, <2>1, <2>2, <2>3, <2>4 DEF EditPaper, fileVars, denseVars, paperDenseVars, scopeVars
<1>3. CASE Crash
  <2>1. \A s \in Syncs : sync'[s].pc = "idle" \/ (sync'[s] = sync[s] /\ sync[s].pc = "completed")
    BY <1>3 DEF Crash, Running, Idle
  <2>2. Corpus' = Corpus /\ Refillable' = Refillable
    BY <1>3 DEF Crash, Corpus, Refillable, fileVars
  <2>3. /\ UNCHANGED <<manifest, points>>
        /\ holed' = holed \cup UNION {Deleted(s) : s \in Syncs}
    BY <1>3 DEF Crash, denseVars
  <2>4. HolesKnown'
    BY <1>a, <2>3 DEF AloneCompleted, HolesKnown
  <2>. QED  BY <1>1, <1>3, <2>1, <2>2, <2>3, <2>4 DEF Crash, fileVars, paperDenseVars
<1>4. ASSUME NEW s \in Syncs, SyncStep(s)
      PROVE  AloneCompleted'
  <2>1. SeenOK(s)' /\ IndexesOK(s)' /\ ScopeOK(s)' /\ version' \in Nat
    BY <1>0, <1>a, <1>4, SeenStep, IndexesStep, ScopeStep
  <2>2. HolesKnown' /\ HolesOK(s)'
    BY <1>0, <1>a, <1>4, HolesStep
  <2>3. \A t \in Syncs \ {s} : HolesOK(t)' /\ SeenOK(t)' /\ IndexesOK(t)' /\ ScopeOK(t)'
    <3>1. \A t \in Syncs \ {s} : sync'[t].pc = "idle"
      BY <1>0, <1>a, <1>4, OthersIdle DEF AloneText
    <3>. QED
      BY <3>1 DEF HolesOK, SeenOK, IndexesOK, ScopeOK, At, AfterChunks, AfterPapers, Dense, AfterDense, Scoping
  <2>. QED  BY <2>1, <2>2, <2>3 DEF AloneCompleted
<1>5. CASE UNCHANGED vars
  <2>1. Corpus' = Corpus /\ Refillable' = Refillable
    BY <1>5 DEF vars, Corpus, Refillable, fileVars
  <2>2. UNCHANGED <<manifest, points, holed, sync>>
    BY <1>5 DEF vars, denseVars, history
  <2>3. HolesKnown'
    BY <1>a, <2>2 DEF AloneCompleted, HolesKnown, Deleted, At, Present
  <2>. QED  BY <1>1, <1>5, <2>1, <2>2, <2>3 DEF vars, fileVars, denseVars, paperDenseVars, scopeVars
<1>. QED  BY <1>2, <1>3, <1>4, <1>5 DEF Next

(* A synchronisation recorded COMPLETED covered every document it found,   *)
(* as long as no two have run at once: its chunks are published, in both   *)
(* indexes, but for the points of papers a failed or dead call had         *)
(* deleted, and in the published scope, and the readiness view calls the   *)
(* indexes ready but for empty fields filled meanwhile; whatever failed    *)
(* or died before, and was parsed or corrected meanwhile                   *)
(* (synchronize_after_parse).                                              *)
THEOREM CompletedCallsAreSearchable == Spec => []CompletedIsSearchable
<1>1. Init => CompletedInv
  BY CompletedInit
<1>2. CompletedInv /\ [Next]_vars => CompletedInv'
  BY CompletedStep
<1>3. CompletedInv => CompletedIsSearchable
  <2>. SUFFICES ASSUME CompletedInv, ~overlapped, NEW s \in Syncs, At(s, "completed")
                PROVE  /\ \A p \in sync[s].seen : docChunks[p] # NONE /\ chunks[p] = Chunked(docChunks[p])
                       /\ \A p \in Present(chunks) \ holed : points[p] # NONE
                       /\ BM25Answers /\ DenseAnswers
                       /\ Ready \/ Refillable
                       /\ sync[s].seen \subseteq scopes[version]
    BY DEF CompletedIsSearchable
  <2>1. /\ FileTypes /\ SeenOK(s) /\ IndexesOK(s) /\ ScopeOK(s) /\ HolesKnown
        /\ Lone /\ \A p \in Papers : PaperOK(p)
    BY DEF CompletedInv, TextInv, AloneText, AloneCompleted
  <2>2. sync[s].pc = "completed"
    BY DEF At
  <2>3. (\A p \in sync[s].seen : FoundIn(p, chunks)) /\ sync[s].seen \subseteq scopes[version]
    BY <2>1, <2>2 DEF SeenOK, ScopeOK, AfterChunks, AfterPapers, AfterDense, Scoping
  <2>4. /\ bm25 = Text(chunks) /\ manifest = Text(chunks) /\ Present(chunks) # {}
        /\ Present(records) # {} /\ paperIndex = records
        /\ paperManifest = records \/ Refillable
    BY <2>1, <2>2 DEF IndexesOK, AfterChunks, AfterPapers, AfterDense, Scoping
  <2>5. LoadPaperRecords = records \/ Refillable
    BY <2>1, <2>4, WithFieldsOrSame DEF LoadPaperRecords
  <2>6. Text(chunks) # NONE /\ records # NONE
    <3>1. Text(chunks) \in Digests /\ records \in Digests
      BY <2>1, ProjectionTypes DEF FileTypes
    <3>. QED  BY <3>1, AbsentAssumption DEF Digests
  <2>7. \A p \in Papers : chunks[p] # NONE => chunks[p].text # NONE
    BY <2>1, AbsentAssumption DEF FileTypes, Projections, Content
  <2>8. Present(Text(chunks)) # {}
    BY <2>4, <2>7 DEF Present, Text
  <2>9. Present(chunks) \subseteq Corpus
    BY <2>1 DEF Present, Corpus, PaperOK, Reached
  <2>10. ASSUME NEW p \in Present(chunks) \ holed PROVE points[p] # NONE
    <3>1. \A t \in Syncs : p \notin Deleted(t)
      BY <2>1, <2>2 DEF Lone, Deleted, At
    <3>2. manifest # NONE /\ manifest[p] # NONE
      BY <2>4, <2>6, <2>7 DEF Present, Text
    <3>. QED  BY <2>1, <3>1, <3>2 DEF HolesKnown, Present
  <2>11. Ready \/ Refillable
    BY <2>4, <2>5, <2>6, <2>8, <2>9 DEF Ready, Consistent, IndexReady
  <2>. QED  BY <2>3, <2>4, <2>6, <2>10, <2>11 DEF FoundIn, BM25Answers, DenseAnswers
<1>. QED  BY <1>1, <1>2, <1>3, PTL DEF Spec

-----------------------------------------------------------------------------
(* Recursion along a list, as in the chunks of a document.                 *)

LEMMA LeastNat ==
  ASSUME NEW T \in SUBSET Nat, T # {}
  PROVE  \E x \in T : \A y \in T : x <= y
<1>1. \E x \in T : \A y \in T : ~(<<y, x>> \in OpToRel(<, Nat))
  BY NatLessThanWellFounded, WFMin
<1>2. \A x, y \in Nat : <<y, x>> \in OpToRel(<, Nat) <=> y < x
  BY Zenon DEF OpToRel
<1>3. \E R : /\ \E x \in T : \A y \in T : ~(<<y, x>> \in R)
             /\ \A x, y \in Nat : <<y, x>> \in R <=> y < x
  BY <1>1, <1>2, Zenon
<1>4. PICK R : /\ \E x \in T : \A y \in T : ~(<<y, x>> \in R)
               /\ \A x, y \in Nat : <<y, x>> \in R <=> y < x
  BY <1>3
<1>5. PICK x \in T : \A y \in T : ~(<<y, x>> \in R)
  BY <1>4
<1>6. ASSUME NEW y \in T PROVE x <= y
  <2>1. ~(y < x)
    BY <1>4, <1>5
  <2>2. x \in Nat /\ y \in Nat
    OBVIOUS
  <2>. QED  BY <2>1, <2>2
<1>. QED  BY <1>6

\* A set that holds 0, and each number with the one before, holds all up to m.
LEMMA UpTo ==
  ASSUME NEW m \in Nat, NEW T, 0 \in T, \A n \in 1..m : n - 1 \in T => n \in T
  PROVE  \A n \in 0..m : n \in T
<1>. DEFINE Others == {n \in 0..m : n \notin T}
<1>1. Others \in SUBSET Nat
  OBVIOUS
<1>2. SUFFICES ASSUME Others # {} PROVE FALSE
  OBVIOUS
<1>3. PICK n \in Others : \A k \in Others : n <= k
  <2>. HIDE DEF Others
  <2>. QED  BY <1>1, <1>2, LeastNat
<1>4. n \in 1..m /\ n - 1 \in 0..m
  BY <1>3
<1>5. n - 1 \notin Others
  BY <1>3, <1>4
<1>. QED  BY <1>3, <1>4, <1>5

Goes(f, m, D, first, g) ==
  /\ f \in [0..m -> D]
  /\ f[0] = first /\ \A n \in 1..m : f[n] = g[<<n, f[n - 1]>>]

\* A function that is defined by steps exists.
LEMMA StepByStep ==
  ASSUME NEW m, m \in Nat, NEW D, NEW first, first \in D, NEW g, g \in [(1..m) \X D -> D]
  PROVE  \E f : Goes(f, m, D, first, g)
<1>. DEFINE Good(f, k) == f[0] = first /\ \A n \in 1..k : f[n] = g[<<n, f[n - 1]>>]
            T == {k \in 0..m : \E f \in [0..k -> D] : Good(f, k)}
<1>1. 0 \in T
  <2>. DEFINE f == [i \in 0..0 |-> first]
  <2>1. f \in [0..0 -> D] /\ f[0] = first
    OBVIOUS
  <2>. HIDE DEF f
  <2>2. Good(f, 0) /\ 0 \in 0..m
    BY <2>1
  <2>. QED  BY <2>1, <2>2
<1>2. ASSUME NEW n \in 1..m, n - 1 \in T PROVE n \in T
  <2>1. PICK f \in [0..(n - 1) -> D] : Good(f, n - 1)
    BY <1>2
  <2>2. n - 1 \in 0..(n - 1) /\ n - 1 \in Nat /\ n \in 0..m
    OBVIOUS
  <2>3. f[n - 1] \in D /\ <<n, f[n - 1]>> \in (1..m) \X D
    BY <2>1, <2>2
  <2>. DEFINE h == [i \in 0..n |-> IF i = n THEN g[<<n, f[n - 1]>>] ELSE f[i]]
  <2>4. h \in [0..n -> D]
    <3>1. g[<<n, f[n - 1]>>] \in D
      BY <2>3
    <3>2. \A i \in 0..n : i # n => i \in 0..(n - 1)
      OBVIOUS
    <3>. QED  BY <3>1, <3>2
  <2>5. \A i \in 0..(n - 1) : h[i] = f[i]
    OBVIOUS
  <2>6. h[n] = g[<<n, f[n - 1]>>]
    OBVIOUS
  <2>. HIDE DEF h
  <2>7. h[0] = first
    BY <2>1, <2>5
  <2>8. ASSUME NEW i \in 1..n PROVE h[i] = g[<<i, h[i - 1]>>]
    <3>1. i - 1 \in 0..(n - 1)
      OBVIOUS
    <3>2. CASE i = n
      BY <2>5, <2>6, <3>1, <3>2
    <3>3. CASE i # n
      <4>1. i \in 1..(n - 1) /\ i \in 0..(n - 1)
        BY <3>3
      <4>. QED  BY <2>1, <2>5, <3>1, <4>1
    <3>. QED  BY <3>2, <3>3
  <2>9. Good(h, n)
    BY <2>7, <2>8
  <2>. QED  BY <2>2, <2>4, <2>9
<1>. HIDE DEF T
<1>3. \A n \in 0..m : n \in T
  BY <1>1, <1>2, UpTo
<1>. QED  BY <1>3 DEF T, Goes

LEMMA ListOf ==
  ASSUME NEW D, NEW n \in Nat, NEW s \in [1..n -> D]
  PROVE  s \in Seq(D) /\ Len(s) = n
<1>1. s \in Seq(D)
  BY SeqDef
<1>2. Len(s) \in Nat /\ DOMAIN s = 1..Len(s)
  BY <1>1, LenProperties
<1>3. 1..n = 1..Len(s)
  BY <1>2
<1>. QED  BY <1>1, <1>2, <1>3

LEMMA ListHas ==
  ASSUME NEW D, NEW s \in Seq(D)
  PROVE  /\ Len(s) \in Nat /\ DOMAIN s = 1..Len(s)
         /\ \A i \in DOMAIN s : s[i] \in D
         /\ s # <<>> <=> Len(s) >= 1
BY LenProperties, ElementOfSeq, EmptySeq

LEMMA ListAppend ==
  ASSUME NEW D, NEW s \in Seq(D), NEW x \in D
  PROVE  /\ Append(s, x) \in Seq(D) /\ Append(s, x) # <<>>
         /\ Len(Append(s, x)) = Len(s) + 1
         /\ DOMAIN Append(s, x) = 1..(Len(s) + 1)
         /\ \A i \in 1..Len(s) : Append(s, x)[i] = s[i]
         /\ Append(s, x)[Len(s) + 1] = x
<1>1. Len(s) \in Nat
  BY LenProperties
<1>. QED  BY <1>1, LenProperties

-----------------------------------------------------------------------------
(* The tokens of texts and units.                                          *)

\* Sentences, and texts made of them.
Piece == Seq(Nat)
Texts == Seq(Piece)

Adds(f, numbers) ==
  f = [n \in 0..Len(numbers) |-> IF n = 0 THEN 0 ELSE f[n - 1] + numbers[n]]

LEMMA AddsIs ==
  ASSUME NEW numbers \in Seq(Int), NEW f, Adds(f, numbers)
  PROVE  /\ f[0] = 0 /\ \A n \in 1..Len(numbers) : f[n] = f[n - 1] + numbers[n]
         /\ \A n \in 0..Len(numbers) : f[n] \in Int
<1>. DEFINE m == Len(numbers)
            T == {n \in 0..m : f[n] \in Int}
<1>1. m \in Nat /\ \A n \in 1..m : numbers[n] \in Int
  BY ListHas
<1>2. f[0] = 0 /\ \A n \in 1..m : f[n] = f[n - 1] + numbers[n]
  <2>1. 0 \in 0..m /\ \A n \in 1..m : n \in 0..m /\ n # 0
    BY <1>1
  <2>. QED  BY <2>1 DEF Adds
<1>3. 0 \in T
  BY <1>1, <1>2
<1>4. ASSUME NEW n \in 1..m, n - 1 \in T PROVE n \in T
  BY <1>1, <1>2, <1>4
<1>. HIDE DEF T
<1>5. \A n \in 0..m : n \in T
  BY <1>1, <1>3, <1>4, UpTo
<1>. QED  BY <1>2, <1>5 DEF T

LEMMA TotalAdds ==
  ASSUME NEW numbers \in Seq(Int)
  PROVE  \E f : Adds(f, numbers) /\ Document!Total(numbers) = f[Len(numbers)]
<1>. DEFINE m == Len(numbers)
            g == [p \in (1..m) \X Int |-> p[2] + numbers[p[1]]]
            f == CHOOSE h : Adds(h, numbers)
<1>1. m \in Nat /\ \A n \in 1..m : numbers[n] \in Int
  BY ListHas
<1>2. g \in [(1..m) \X Int -> Int] /\ \A n \in 1..m, t \in Int : g[<<n, t>>] = t + numbers[n]
  BY <1>1
<1>. HIDE DEF g
<1>3. PICK h : Goes(h, m, Int, 0, g)
  <2>. HIDE DEF m
  <2>1. m \in Nat /\ 0 \in Int /\ g \in [(1..m) \X Int -> Int]
    BY <1>1, <1>2
  <2>. QED  BY <2>1, StepByStep
<1>4. Adds(h, numbers)
  <2>1. h \in [0..m -> Int] /\ h[0] = 0 /\ \A n \in 1..m : h[n] = g[<<n, h[n - 1]>>]
    BY <1>3 DEF Goes
  <2>2. ASSUME NEW n \in 0..m PROVE h[n] = IF n = 0 THEN 0 ELSE h[n - 1] + numbers[n]
    <3>1. CASE n = 0
      BY <2>1, <3>1
    <3>2. CASE n # 0
      <4>1. n \in 1..m /\ n - 1 \in 0..m
        BY <1>1, <3>2
      <4>2. h[n - 1] \in Int
        BY <2>1, <4>1
      <4>. QED  BY <1>2, <2>1, <3>2, <4>1, <4>2
    <3>. QED  BY <3>1, <3>2
  <2>. QED  BY <2>1, <2>2 DEF Adds
<1>5. Adds(f, numbers)
  BY <1>4
<1>6. Document!Total(numbers) = f[m]
  BY DEF Document!Total, Adds
<1>. QED  BY <1>5, <1>6

LEMMA TotalIs ==
  /\ Document!Total(<<>>) = 0
  /\ \A numbers \in Seq(Int) : Document!Total(numbers) \in Int
<1>1. ASSUME NEW numbers \in Seq(Int)
      PROVE  Document!Total(numbers) \in Int /\ (Len(numbers) = 0 => Document!Total(numbers) = 0)
  <2>1. PICK f : Adds(f, numbers) /\ Document!Total(numbers) = f[Len(numbers)]
    BY TotalAdds
  <2>. QED  BY <2>1, AddsIs, ListHas
<1>. QED  BY <1>1, EmptySeq

LEMMA TotalOfNat ==
  ASSUME NEW numbers \in Seq(Nat)
  PROVE  /\ Document!Total(numbers) \in Nat
         /\ numbers # <<>> => numbers[1] <= Document!Total(numbers)
<1>. DEFINE m == Len(numbers)
<1>1. m \in Nat /\ (\A n \in 1..m : numbers[n] \in Nat) /\ (numbers # <<>> <=> m >= 1)
  BY ListHas
<1>2. numbers \in Seq(Int)
  BY SeqMonotonic
<1>3. PICK f : Adds(f, numbers) /\ Document!Total(numbers) = f[m]
  BY <1>2, TotalAdds
<1>4. f[0] = 0 /\ \A n \in 1..m : f[n] = f[n - 1] + numbers[n]
  BY <1>2, <1>3, AddsIs
<1>. DEFINE T == {n \in 0..m : f[n] \in Nat /\ (n >= 1 => numbers[1] <= f[n])}
<1>5. 0 \in T
  BY <1>1, <1>4
<1>6. ASSUME NEW n \in 1..m, n - 1 \in T PROVE n \in T
  <2>1. f[n - 1] \in Nat /\ f[n] = f[n - 1] + numbers[n] /\ numbers[n] \in Nat
    BY <1>1, <1>4, <1>6
  <2>2. CASE n = 1
    <3>1. f[1] = f[0] + numbers[1]
      <4>1. 1 \in 1..m /\ 1 - 1 = 0
        BY <2>2
      <4>. QED  BY <1>4, <4>1
    <3>. QED  BY <1>4, <2>1, <2>2, <3>1
  <2>3. CASE n # 1
    <3>1. n - 1 >= 1 /\ numbers[1] <= f[n - 1] /\ numbers[1] \in Nat
      BY <1>1, <1>6, <2>3
    <3>. QED  BY <2>1, <3>1
  <2>. QED  BY <2>2, <2>3
<1>. HIDE DEF T
<1>7. m \in T
  <2>. HIDE DEF m
  <2>1. \A n \in 0..m : n \in T
    BY <1>1, <1>5, <1>6, UpTo
  <2>. QED  BY <1>1, <2>1
<1>. QED  BY <1>1, <1>3, <1>7 DEF T

LEMMA TotalAppend ==
  ASSUME NEW numbers \in Seq(Int), NEW x \in Int
  PROVE  Document!Total(Append(numbers, x)) = Document!Total(numbers) + x
<1>. DEFINE m == Len(numbers)
            longer == Append(numbers, x)
<1>1. /\ m \in Nat /\ longer \in Seq(Int) /\ Len(longer) = m + 1
      /\ \A i \in 1..m : longer[i] = numbers[i]
      /\ longer[m + 1] = x
  BY ListHas, ListAppend
<1>. HIDE DEF longer
<1>2. PICK f : Adds(f, numbers) /\ Document!Total(numbers) = f[m]
  BY TotalAdds
<1>3. PICK h : Adds(h, longer) /\ Document!Total(longer) = h[m + 1]
  BY <1>1, TotalAdds
<1>4. /\ f[0] = 0 /\ \A n \in 1..m : f[n] = f[n - 1] + numbers[n]
      /\ h[0] = 0 /\ \A n \in 1..(m + 1) : h[n] = h[n - 1] + longer[n]
  <2>1. f[0] = 0 /\ \A n \in 1..m : f[n] = f[n - 1] + numbers[n]
    BY <1>2, AddsIs
  <2>2. h[0] = 0 /\ \A n \in 1..Len(longer) : h[n] = h[n - 1] + longer[n]
    BY <1>1, <1>3, AddsIs
  <2>. QED  BY <1>1, <2>1, <2>2
<1>. DEFINE T == {n \in 0..m : h[n] = f[n]}
<1>5. 0 \in T
  BY <1>1, <1>4
<1>6. ASSUME NEW n \in 1..m, n - 1 \in T PROVE n \in T
  <2>1. n \in 1..(m + 1) /\ n \in 0..m
    BY <1>1
  <2>. QED  BY <1>1, <1>4, <1>6, <2>1
<1>. HIDE DEF T
<1>7. \A n \in 0..m : n \in T
  BY <1>1, <1>5, <1>6, UpTo
<1>8. h[m] = f[m]
  <2>1. m \in 0..m
    BY <1>1
  <2>. QED  BY <1>7, <2>1 DEF T
<1>9. m + 1 \in 1..(m + 1) /\ (m + 1) - 1 = m
  BY <1>1
<1>10. h[m + 1] = h[(m + 1) - 1] + longer[m + 1]
  BY <1>4, <1>9
<1>11. h[m + 1] = f[m] + x
  BY <1>1, <1>8, <1>9, <1>10
<1>. QED  BY <1>2, <1>3, <1>11 DEF longer

LEMMA TotalOfList ==
  ASSUME NEW D, NEW w \in [D -> Int], NEW s \in Seq(D)
  PROVE  /\ Document!Total([i \in DOMAIN s |-> w[s[i]]]) \in Int
         /\ \A x \in D : Document!Total([i \in DOMAIN Append(s, x) |-> w[Append(s, x)[i]]])
                         = Document!Total([i \in DOMAIN s |-> w[s[i]]]) + w[x]
<1>. DEFINE numbers == [i \in DOMAIN s |-> w[s[i]]]
            m == Len(s)
<1>1. m \in Nat /\ DOMAIN s = 1..m /\ \A i \in 1..m : s[i] \in D
  BY ListHas
<1>2. numbers \in [1..m -> Int] /\ \A i \in 1..m : numbers[i] = w[s[i]]
  BY <1>1
<1>. HIDE DEF numbers
<1>3. numbers \in Seq(Int) /\ Len(numbers) = m
  BY <1>1, <1>2, ListOf
<1>4. ASSUME NEW x \in D
      PROVE  Document!Total([i \in DOMAIN Append(s, x) |-> w[Append(s, x)[i]]])
               = Document!Total(numbers) + w[x]
  <2>. DEFINE longer == Append(s, x)
              counts == [i \in DOMAIN longer |-> w[longer[i]]]
              sums == Append(numbers, w[x])
  <2>1. /\ DOMAIN longer = 1..(m + 1)
        /\ \A i \in 1..m : longer[i] = s[i]
        /\ longer[m + 1] = x
    BY ListAppend
  <2>2. w[x] \in Int
    OBVIOUS
  <2>3. /\ DOMAIN sums = 1..(m + 1) /\ sums \in Seq(Int)
        /\ \A i \in 1..m : sums[i] = numbers[i]
        /\ sums[m + 1] = w[x]
    BY <1>3, <2>2, ListAppend
  <2>4. DOMAIN counts = 1..(m + 1) /\ \A i \in 1..(m + 1) : counts[i] = w[longer[i]]
    BY <2>1
  <2>5. counts = [i \in 1..(m + 1) |-> counts[i]]
    BY <2>4
  <2>6. sums = [i \in 1..(m + 1) |-> sums[i]]
    <3>1. sums \in [1..Len(sums) -> Int] /\ DOMAIN sums = 1..Len(sums)
      BY <2>3, LenProperties
    <3>. HIDE DEF sums
    <3>. QED  BY <2>3, <3>1
  <2>. HIDE DEF counts, sums, longer
  <2>7. \A i \in 1..(m + 1) : counts[i] = sums[i]
    <3>1. \A i \in 1..(m + 1) : i = m + 1 \/ i \in 1..m
      BY <1>1
    <3>. QED  BY <1>2, <2>1, <2>3, <2>4, <3>1
  <2>8. counts = sums
    BY <2>5, <2>6, <2>7
  <2>9. Document!Total(sums) = Document!Total(numbers) + w[x]
    BY <1>3, <2>2, TotalAppend DEF sums
  <2>. QED  BY <2>8, <2>9 DEF counts, longer
<1>5. Document!Total(numbers) \in Int
  BY <1>3, TotalIs
<1>. QED  BY <1>4, <1>5 DEF numbers

LEMMA TokensOfText ==
  ASSUME NEW text \in Texts
  PROVE  /\ Document!Tokens(text) \in Int
         /\ \A p \in Piece :
              Document!Tokens(Append(text, p)) = Document!Tokens(text) + Document!Total(p)
<1>. DEFINE w == [p \in Piece |-> Document!Total(p)]
            Counted(t) == [i \in DOMAIN t |-> w[t[i]]]
<1>1. w \in [Piece -> Int] /\ \A p \in Piece : w[p] = Document!Total(p)
  BY TotalOfNat DEF Piece
<1>. HIDE DEF w
<1>2. ASSUME NEW t \in Texts PROVE Document!Tokens(t) = Document!Total(Counted(t))
  <2>1. \A i \in DOMAIN t : t[i] \in Piece
    BY ListHas DEF Texts
  <2>2. [i \in DOMAIN t |-> Document!Total(t[i])] = Counted(t)
    BY <1>1, <2>1
  <2>. QED  BY <2>2 DEF Document!Tokens
<1>3. ASSUME NEW p \in Piece
      PROVE  Document!Tokens(Append(text, p)) = Document!Tokens(text) + Document!Total(p)
  <2>1. Append(text, p) \in Texts
    BY ListAppend DEF Texts
  <2>2. Document!Total(Counted(Append(text, p))) = Document!Total(Counted(text)) + w[p]
    <3>1. text \in Seq(Piece)
      BY DEF Texts
    <3>. HIDE DEF Piece
    <3>2. \A x \in Piece : Document!Total([i \in DOMAIN Append(text, x) |-> w[Append(text, x)[i]]])
                           = Document!Total([i \in DOMAIN text |-> w[text[i]]]) + w[x]
      BY <1>1, <3>1, TotalOfList
    <3>. QED  BY <3>2
  <2>. DEFINE longer == Append(text, p)
  <2>. HIDE DEF Counted, longer
  <2>3. /\ Document!Tokens(text) = Document!Total(Counted(text))
        /\ Document!Tokens(longer) = Document!Total(Counted(longer))
    <3>1. longer \in Texts
      BY <2>1 DEF longer
    <3>. QED  BY <1>2, <3>1
  <2>4. w[p] = Document!Total(p)
    BY <1>1
  <2>. QED  BY <2>2, <2>3, <2>4 DEF longer
<1>4. Document!Total(Counted(text)) \in Int
  BY <1>1, TotalOfList DEF Texts
<1>5. Document!Tokens(text) \in Int
  BY <1>2, <1>4
<1>. QED  BY <1>3, <1>5

LEMMA TokensAreNat ==
  ASSUME NEW text \in Texts
  PROVE  Document!Tokens(text) \in Nat
<1>. DEFINE numbers == [i \in DOMAIN text |-> Document!Total(text[i])]
<1>1. Len(text) \in Nat /\ DOMAIN text = 1..Len(text) /\ \A i \in DOMAIN text : text[i] \in Piece
  BY ListHas DEF Texts
<1>2. numbers \in [1..Len(text) -> Nat]
  BY <1>1, TotalOfNat DEF Piece
<1>3. numbers \in Seq(Nat)
  BY <1>1, <1>2, ListOf
<1>. QED  BY <1>3, TotalOfNat DEF Document!Tokens

LEMMA TokensOfNothing == Document!Tokens(<<>>) = 0
<1>1. [i \in DOMAIN <<>> |-> Document!Total(<<>>[i])] = <<>>
  OBVIOUS
<1>. QED  BY <1>1, TotalIs DEF Document!Tokens

\* A unit of a block of the document.
UnitOf ==
  [block : DOMAIN enriched, part : Nat, type : {enriched[i].type : i \in DOMAIN enriched},
   text : Texts]

LEMMA SizeOfUnits ==
  ASSUME NEW units \in Seq(UnitOf)
  PROVE  /\ Document!Size(units) \in Int
         /\ \A u \in UnitOf :
              Document!Size(Append(units, u)) = Document!Size(units) + Document!Tokens(u.text)
<1>. DEFINE w == [u \in UnitOf |-> Document!Tokens(u.text)]
            Counted(t) == [i \in DOMAIN t |-> w[t[i]]]
<1>1. \A u \in UnitOf : u.text \in Texts
  BY DEF UnitOf
<1>2. w \in [UnitOf -> Int] /\ \A u \in UnitOf : w[u] = Document!Tokens(u.text)
  BY <1>1, TokensOfText
<1>. HIDE DEF w
<1>3. ASSUME NEW t \in Seq(UnitOf) PROVE Document!Size(t) = Document!Total(Counted(t))
  <2>1. \A i \in DOMAIN t : t[i] \in UnitOf
    BY ListHas
  <2>2. [i \in DOMAIN t |-> Document!Tokens(t[i].text)] = Counted(t)
    BY <1>2, <2>1
  <2>. QED  BY <2>2 DEF Document!Size
<1>4. ASSUME NEW u \in UnitOf
      PROVE  Document!Size(Append(units, u)) = Document!Size(units) + Document!Tokens(u.text)
  <2>1. Append(units, u) \in Seq(UnitOf)
    BY ListAppend
  <2>2. Document!Total(Counted(Append(units, u))) = Document!Total(Counted(units)) + w[u]
    BY <1>2, TotalOfList
  <2>. QED  BY <1>2, <1>3, <2>1, <2>2
<1>5. Document!Total(Counted(units)) \in Int
  BY <1>2, TotalOfList
<1>6. Document!Size(units) \in Int
  BY <1>3, <1>5
<1>. QED  BY <1>4, <1>6

LEMMA FirstUnit ==
  ASSUME NEW units \in Seq(UnitOf), units # <<>>
  PROVE  Document!Tokens(units[1].text) <= Document!Size(units)
<1>. DEFINE numbers == [k \in DOMAIN units |-> Document!Tokens(units[k].text)]
            m == Len(units)
<1>1. m \in Nat /\ m >= 1 /\ DOMAIN units = 1..m /\ \A k \in 1..m : units[k] \in UnitOf
  BY ListHas
<1>2. numbers \in [1..m -> Nat]
  BY <1>1, TokensAreNat DEF UnitOf
<1>3. numbers \in Seq(Nat) /\ Len(numbers) = m
  BY <1>1, <1>2, ListOf
<1>4. numbers # <<>> /\ numbers[1] = Document!Tokens(units[1].text)
  <2>1. 1 \in 1..m
    BY <1>1
  <2>2. numbers[1] = Document!Tokens(units[1].text)
    BY <1>1, <2>1
  <2>. HIDE DEF numbers
  <2>. QED  BY <1>1, <1>3, <2>2, EmptySeq
<1>. HIDE DEF numbers
<1>5. numbers[1] <= Document!Total(numbers)
  BY <1>3, <1>4, TotalOfNat
<1>. QED  BY <1>4, <1>5 DEF Document!Size, numbers

LEMMA SizeOfNothing == Document!Size(<<>>) = 0
<1>1. [k \in DOMAIN <<>> |-> Document!Tokens(<<>>[k].text)] = <<>>
  OBVIOUS
<1>. QED  BY <1>1, TotalIs DEF Document!Size

-----------------------------------------------------------------------------
(* Splitting an oversized text.                                            *)

\* Texts beyond the maximum are single words.
FitText == {t \in Texts : Document!Tokens(t) > Maximum => Document!OneWord(t)}
Splits == {s \in [parts : Seq(FitText), current : Texts] : Document!Tokens(s.current) <= Maximum}

LEMMA OneSentence ==
  ASSUME NEW p \in Piece
  PROVE  <<p>> \in Texts /\ Document!Tokens(<<p>>) = Document!Total(p)
<1>1. <<>> \in Texts
  BY DEF Texts
<1>2. Document!Tokens(Append(<<>>, p)) = 0 + Document!Total(p)
  BY <1>1, TokensOfText, TokensOfNothing
<1>3. Append(<<>>, p) = <<p>> /\ <<p>> \in Texts
  BY DEF Texts
<1>4. Document!Total(p) \in Int
  BY TotalOfNat DEF Piece
<1>. QED  BY <1>2, <1>3, <1>4

LEMMA OneNumber ==
  ASSUME NEW word \in Nat
  PROVE  <<word>> \in Piece /\ Len(<<word>>) = 1 /\ Document!Total(<<word>>) = word
<1>1. <<>> \in Seq(Int) /\ word \in Int
  OBVIOUS
<1>2. Document!Total(Append(<<>>, word)) = 0 + word
  BY <1>1, TotalAppend, TotalIs
<1>3. Append(<<>>, word) = <<word>> /\ <<word>> \in Seq(Nat) /\ Len(<<word>>) = 1
  OBVIOUS
<1>. QED  BY <1>2, <1>3 DEF Piece

\* What a sentence is cut into.
Lump == {p \in Piece : Document!Total(p) > Maximum => Len(p) = 1}

LEMMA LumpsFit ==
  ASSUME NEW p \in Lump
  PROVE  <<p>> \in FitText
<1>1. p \in Piece /\ (Document!Total(p) > Maximum => Len(p) = 1)
  BY DEF Lump
<1>2. <<p>> \in Texts /\ Document!Tokens(<<p>>) = Document!Total(p)
  BY <1>1, OneSentence
<1>3. Len(<<p>>) = 1 /\ <<p>>[1] = p
  OBVIOUS
<1>. QED  BY <1>1, <1>2, <1>3 DEF FitText, Document!OneWord

LEMMA WindowsFit ==
  ASSUME NEW word \in Nat, word > Maximum
  PROVE  Document!Windows(word) \in Seq(Lump) /\ Document!Windows(word) # <<>>
<1>. DEFINE amount == (word + Window - 1) \div Window
            rest(i) == word - (i - 1) * Window
            less(i) == Document!Smaller(Window, rest(i))
<1>1. Window \in Nat /\ Window > 0 /\ Maximum \in Nat
  BY DocumentAssumption DEF DocumentAssumption
<1>2. amount \in Nat /\ amount * Window <= word + Window - 1 /\ amount >= 1
  <2>. DEFINE a == word + Window - 1
  <2>1. a \in Nat /\ a >= Window
    BY <1>1
  <2>. HIDE DEF a
  <2>2. a \div Window \in Nat /\ (a \div Window) * Window <= a /\ a \div Window >= 1
    BY <1>1, <2>1
  <2>. QED  BY <2>2 DEF a
<1>3. ASSUME NEW i \in 1..amount PROVE <<less(i)>> \in Lump
  <2>1. rest(i) \in Nat
    <3>1. i \in Nat /\ i <= amount /\ amount \in Nat
      BY <1>2
    <3>. HIDE DEF amount
    <3>2. i * Window <= amount * Window /\ i * Window \in Nat
          /\ (i - 1) * Window = i * Window - Window
      BY <1>1, <3>1
    <3>3. amount * Window \in Nat
      BY <1>1, <3>1
    <3>. QED  BY <1>1, <1>2, <3>2, <3>3
  <2>2. less(i) \in Nat
    <3>. HIDE DEF rest
    <3>. QED  BY <1>1, <2>1 DEF Document!Smaller
  <2>. HIDE DEF less
  <2>. QED  BY <2>2, OneNumber DEF Lump
<1>4. Document!Windows(word) = [i \in 1..amount |-> <<less(i)>>]
  BY DEF Document!Windows
<1>5. Document!Windows(word) \in [1..amount -> Lump]
  <2>. HIDE DEF less, amount
  <2>. QED  BY <1>3, <1>4
<1>. QED
  <2>. HIDE DEF amount
  <2>1. Document!Windows(word) \in Seq(Lump) /\ Len(Document!Windows(word)) = amount
    BY <1>2, <1>5, ListOf
  <2>. QED  BY <1>2, <2>1, EmptySeq

WordSplits == [parts : Seq(Lump), current : Lump]

LEMMA AddWordFits ==
  ASSUME NEW s \in WordSplits, NEW word \in Nat
  PROVE  Document!AddWord(s, word) \in WordSplits /\ Document!AddWord(s, word).current # <<>>
<1>. DEFINE longer == Append(s.current, word)
            parts == Append(s.parts, s.current)
<1>1. s.parts \in Seq(Lump) /\ s.current \in Lump /\ s.current \in Piece /\ Maximum \in Nat
  BY DocumentAssumption DEF WordSplits, Lump, DocumentAssumption
<1>2. <<word>> \in Lump /\ <<word>> # <<>>
  <2>1. <<word>> \in Piece /\ Len(<<word>>) = 1 /\ <<word>> # <<>>
    BY OneNumber
  <2>. QED  BY <2>1 DEF Lump
<1>3. longer \in Piece /\ longer # <<>> /\ Len(longer) = Len(s.current) + 1
  <2>1. s.current \in Seq(Nat)
    BY <1>1 DEF Piece
  <2>2. longer \in Seq(Nat) /\ longer # <<>> /\ Len(longer) = Len(s.current) + 1
    BY <2>1, ListAppend
  <2>. QED  BY <2>2 DEF Piece
<1>4. parts \in Seq(Lump)
  BY <1>1, ListAppend
<1>5. Document!Total(s.current) \in Int /\ Document!Total(longer) = Document!Total(s.current) + word
  <2>1. s.current \in Seq(Int) /\ word \in Int
    BY <1>1, SeqMonotonic DEF Piece
  <2>. QED  BY <2>1, TotalAppend, TotalIs
<1>. HIDE DEF longer, parts
<1>6. CASE s.current # <<>> /\ Document!Total(s.current) + word > Maximum
  <2>1. Document!AddWord(s, word) = [parts |-> parts, current |-> <<word>>]
    BY <1>6 DEF Document!AddWord, parts
  <2>. QED  BY <1>2, <1>4, <2>1 DEF WordSplits
<1>7. CASE ~(s.current # <<>> /\ Document!Total(s.current) + word > Maximum)
  <2>1. longer \in Lump
    <3>1. CASE s.current = <<>>
      <4>1. Len(longer) = 1
        BY <1>3, <3>1
      <4>. QED  BY <1>3, <4>1 DEF Lump
    <3>2. CASE s.current # <<>>
      <4>1. ~(Document!Total(longer) > Maximum)
        BY <1>5, <1>7, <3>2
      <4>. QED  BY <1>3, <4>1 DEF Lump
    <3>. QED  BY <3>1, <3>2
  <2>2. Document!AddWord(s, word) = [s EXCEPT !.current = longer]
    BY <1>7 DEF Document!AddWord, longer
  <2>. QED  BY <1>1, <1>3, <2>1, <2>2 DEF WordSplits
<1>. QED  BY <1>6, <1>7

NoWords == [parts |-> <<>>, current |-> <<>>]
PacksWords(f, sentence) ==
  f = [n \in 0..Len(sentence) |->
         IF n = 0 THEN NoWords ELSE Document!AddWord(f[n - 1], sentence[n])]

LEMMA PackedWordsFit ==
  ASSUME NEW sentence \in Piece, sentence # <<>>
  PROVE  Document!PackedWords(sentence) \in Seq(Lump) /\ Document!PackedWords(sentence) # <<>>
<1>. DEFINE m == Len(sentence)
            g == [q \in (1..m) \X WordSplits |-> Document!AddWord(q[2], sentence[q[1]])]
            f == CHOOSE h : PacksWords(h, sentence)
<1>1. m \in Nat /\ m >= 1 /\ \A n \in 1..m : sentence[n] \in Nat
  BY ListHas DEF Piece
<1>2. NoWords \in WordSplits
  <2>1. <<>> \in Lump
    <3>1. Document!Total(<<>>) = 0 /\ Maximum \in Nat /\ <<>> \in Piece
      BY TotalIs, DocumentAssumption DEF DocumentAssumption, Piece
    <3>. QED  BY <3>1 DEF Lump
  <2>. QED  BY <2>1 DEF NoWords, WordSplits
<1>3. /\ g \in [(1..m) \X WordSplits -> WordSplits]
      /\ \A n \in 1..m, s \in WordSplits : g[<<n, s>>] = Document!AddWord(s, sentence[n])
  BY <1>1, AddWordFits
<1>. HIDE DEF g
<1>4. PICK h : Goes(h, m, WordSplits, NoWords, g)
  <2>. HIDE DEF m
  <2>. QED  BY <1>1, <1>2, <1>3, StepByStep
<1>5. PacksWords(h, sentence)
  <2>1. /\ h \in [0..m -> WordSplits] /\ h[0] = NoWords
        /\ \A n \in 1..m : h[n] = g[<<n, h[n - 1]>>]
    BY <1>4 DEF Goes
  <2>2. ASSUME NEW n \in 0..m
        PROVE  h[n] = IF n = 0 THEN NoWords ELSE Document!AddWord(h[n - 1], sentence[n])
    <3>1. CASE n = 0
      BY <2>1, <3>1
    <3>2. CASE n # 0
      <4>1. n \in 1..m /\ n - 1 \in 0..m
        BY <1>1, <3>2
      <4>2. h[n - 1] \in WordSplits
        BY <2>1, <4>1
      <4>. QED  BY <1>3, <2>1, <3>2, <4>1, <4>2
    <3>. QED  BY <3>1, <3>2
  <2>. QED  BY <2>1, <2>2 DEF PacksWords
<1>6. PacksWords(f, sentence)
  BY <1>5
<1>7. Document!PackedWords(sentence) = Document!Closed(f[m])
  BY DEF Document!PackedWords, PacksWords, NoWords
<1>. HIDE DEF f
<1>8. f[0] = NoWords /\ \A n \in 1..m : f[n] = Document!AddWord(f[n - 1], sentence[n])
  <2>1. 0 \in 0..m /\ \A n \in 1..m : n \in 0..m /\ n # 0
    BY <1>1
  <2>. QED  BY <1>6, <2>1 DEF PacksWords
<1>. DEFINE T == {n \in 0..m : f[n] \in WordSplits}
<1>9. 0 \in T
  BY <1>1, <1>2, <1>8
<1>10. ASSUME NEW n \in 1..m, n - 1 \in T PROVE n \in T
  <2>1. f[n - 1] \in WordSplits /\ sentence[n] \in Nat /\ n \in 0..m
    BY <1>1, <1>10
  <2>. HIDE DEF m
  <2>2. f[n] = Document!AddWord(f[n - 1], sentence[n])
    BY <1>8
  <2>3. f[n] \in WordSplits
    BY <2>1, <2>2, AddWordFits
  <2>. QED  BY <2>1, <2>3
<1>. HIDE DEF T
<1>11. \A n \in 0..m : n \in T
  <2>. HIDE DEF m
  <2>. QED  BY <1>1, <1>9, <1>10, UpTo
<1>12. f[m] \in WordSplits /\ f[m].current # <<>>
  <2>1. m \in 1..m /\ m - 1 \in 0..m /\ f[m] = Document!AddWord(f[m - 1], sentence[m])
    <3>1. m \in 1..m /\ m - 1 \in 0..m
      BY <1>1
    <3>. QED  BY <1>8, <3>1
  <2>2. f[m - 1] \in WordSplits /\ sentence[m] \in Nat
    BY <1>1, <1>11, <2>1 DEF T
  <2>. HIDE DEF m
  <2>. QED  BY <2>1, <2>2, AddWordFits
<1>13. Document!Closed(f[m]) = Append(f[m].parts, f[m].current)
  BY <1>12 DEF Document!Closed
<1>. QED  BY <1>7, <1>12, <1>13, ListAppend DEF WordSplits

LEMMA CutFits ==
  ASSUME NEW p \in Piece, Document!Total(p) > Maximum
  PROVE  Document!Cut(p) \in Seq(FitText) /\ Document!Cut(p) # <<>>
<1>. DEFINE pieces == IF Len(p) = 1 THEN Document!Windows(p[1]) ELSE Document!PackedWords(p)
            m == Len(pieces)
<1>1. pieces \in Seq(Lump) /\ pieces # <<>>
  <2>1. CASE Len(p) = 1
    <3>1. p[1] \in Nat /\ p = <<p[1]>>
      BY <2>1, ListHas DEF Piece
    <3>2. p[1] > Maximum
      <4>. DEFINE word == p[1]
      <4>1. word \in Nat /\ p = <<word>>
        BY <3>1
      <4>. HIDE DEF word
      <4>2. Document!Total(p) = word
        BY <4>1, OneNumber
      <4>. QED  BY <4>2 DEF word
    <3>. QED  BY <2>1, <3>1, <3>2, WindowsFit
  <2>2. CASE Len(p) # 1
    <3>1. p # <<>>
      BY TotalIs, DocumentAssumption DEF DocumentAssumption
    <3>. QED  BY <2>2, <3>1, PackedWordsFit
  <2>. QED  BY <2>1, <2>2
<1>2. Document!Cut(p) = [k \in DOMAIN pieces |-> <<pieces[k]>>]
  BY DEF Document!Cut
<1>. HIDE DEF pieces
<1>3. m \in Nat /\ m >= 1 /\ DOMAIN pieces = 1..m /\ \A k \in 1..m : pieces[k] \in Lump
  BY <1>1, ListHas
<1>. HIDE DEF m
<1>4. Document!Cut(p) \in [1..m -> FitText]
  BY <1>2, <1>3, LumpsFit
<1>5. Document!Cut(p) \in Seq(FitText) /\ Len(Document!Cut(p)) = m
  BY <1>3, <1>4, ListOf
<1>. QED  BY <1>3, <1>5, EmptySeq

LEMMA ClosedFits ==
  ASSUME NEW s \in Splits
  PROVE  Document!Closed(s) \in Seq(FitText)
<1>1. s.parts \in Seq(FitText) /\ s.current \in Texts /\ Document!Tokens(s.current) <= Maximum
  BY DEF Splits
<1>2. s.current \in FitText
  <2>1. Document!Tokens(s.current) \in Int
    BY <1>1, TokensOfText
  <2>. QED  BY <1>1, <2>1, DocumentAssumption DEF FitText, DocumentAssumption
<1>3. Append(s.parts, s.current) \in Seq(FitText)
  BY <1>1, <1>2, ListAppend
<1>. QED  BY <1>1, <1>3 DEF Document!Closed

LEMMA AddSentenceFits ==
  ASSUME NEW s \in Splits, NEW p \in Piece
  PROVE  Document!AddSentence(s, p) \in Splits
<1>. DEFINE added == Document!AddSentence(s, p)
<1>1. Maximum \in Nat
  BY DocumentAssumption DEF DocumentAssumption
<1>2. /\ s.parts \in Seq(FitText) /\ s.current \in Texts /\ Document!Total(p) \in Int
      /\ Document!Tokens(s.current) <= Maximum /\ Document!Tokens(s.current) \in Int
  BY TokensOfText, TotalOfNat DEF Splits, Piece
<1>3. Document!Closed(s) \in Seq(FitText)
  BY ClosedFits
<1>4. CASE Document!Total(p) > Maximum
  <2>1. added = [parts |-> Document!Closed(s) \o Document!Cut(p), current |-> <<>>]
    BY <1>4 DEF Document!AddSentence
  <2>2. Document!Cut(p) \in Seq(FitText)
    BY <1>4, CutFits
  <2>3. Document!Closed(s) \o Document!Cut(p) \in Seq(FitText)
    BY <1>3, <2>2, ConcatProperties
  <2>4. <<>> \in Texts /\ Document!Tokens(<<>>) <= Maximum
    BY <1>1, TokensOfNothing DEF Texts
  <2>. QED  BY <2>1, <2>3, <2>4 DEF Splits
<1>5. CASE ~(Document!Total(p) > Maximum) /\ Document!Tokens(s.current) + Document!Total(p) > Maximum
  <2>1. added = [parts |-> Document!Closed(s), current |-> <<p>>]
    BY <1>5 DEF Document!AddSentence
  <2>2. <<p>> \in Texts /\ Document!Tokens(<<p>>) <= Maximum
    BY <1>1, <1>2, <1>5, OneSentence
  <2>. QED  BY <1>3, <2>1, <2>2 DEF Splits
<1>6. CASE ~(Document!Total(p) > Maximum) /\ ~(Document!Tokens(s.current) + Document!Total(p) > Maximum)
  <2>1. added = [s EXCEPT !.current = Append(@, p)]
    BY <1>6 DEF Document!AddSentence
  <2>2. Append(s.current, p) \in Texts
    BY <1>2, ListAppend DEF Texts
  <2>3. Document!Tokens(Append(s.current, p)) <= Maximum
    BY <1>1, <1>2, <1>6, TokensOfText
  <2>4. added.parts = s.parts /\ added.current = Append(s.current, p)
        /\ added \in [parts : Seq(FitText), current : Texts]
    BY <1>2, <2>1, <2>2 DEF Splits
  <2>. QED  BY <2>3, <2>4 DEF Splits
<1>. QED  BY <1>4, <1>5, <1>6

LEMMA AddSentenceSome ==
  ASSUME NEW s \in Splits, NEW p \in Piece
  PROVE  Document!Closed(Document!AddSentence(s, p)) # <<>>
<1>. DEFINE added == Document!AddSentence(s, p)
<1>1. added \in Splits
  BY AddSentenceFits
<1>2. added.parts # <<>> \/ added.current # <<>>
  <2>1. CASE Document!Total(p) > Maximum
    <3>1. added = [parts |-> Document!Closed(s) \o Document!Cut(p), current |-> <<>>]
      BY <2>1 DEF Document!AddSentence
    <3>2. Document!Cut(p) \in Seq(FitText) /\ Document!Cut(p) # <<>>
      BY <2>1, CutFits
    <3>3. Document!Closed(s) \in Seq(FitText)
      BY ClosedFits
    <3>4. Document!Closed(s) \o Document!Cut(p) # <<>>
      BY <3>2, <3>3, ConcatProperties, ListHas
    <3>. QED  BY <3>1, <3>4
  <2>2. CASE ~(Document!Total(p) > Maximum) /\ Document!Tokens(s.current) + Document!Total(p) > Maximum
    <3>1. added = [parts |-> Document!Closed(s), current |-> <<p>>]
      BY <2>2 DEF Document!AddSentence
    <3>. QED  BY <3>1
  <2>3. CASE ~(Document!Total(p) > Maximum) /\ ~(Document!Tokens(s.current) + Document!Total(p) > Maximum)
    <3>1. added = [s EXCEPT !.current = Append(@, p)]
      BY <2>3 DEF Document!AddSentence
    <3>2. s.current \in Texts
      BY DEF Splits
    <3>3. Append(s.current, p) # <<>>
      BY <3>2, ListAppend DEF Texts
    <3>4. added.current = Append(s.current, p)
      BY <3>1 DEF Splits
    <3>. QED  BY <3>3, <3>4
  <2>. QED  BY <2>1, <2>2, <2>3
<1>. HIDE DEF added
<1>3. CASE added.current = <<>>
  BY <1>2, <1>3 DEF Document!Closed, added
<1>4. CASE added.current # <<>>
  <2>1. added.parts \in Seq(FitText) /\ added.current \in FitText
    <3>1. added.current \in Texts /\ Document!Tokens(added.current) <= Maximum
      BY <1>1 DEF Splits
    <3>2. Document!Tokens(added.current) \in Int
      BY <3>1, TokensOfText
    <3>. QED  BY <1>1, <3>1, <3>2, DocumentAssumption DEF FitText, Splits, DocumentAssumption
  <2>2. Append(added.parts, added.current) # <<>>
    BY <2>1, ListAppend
  <2>. QED  BY <1>4, <2>2 DEF Document!Closed, added
<1>. QED  BY <1>3, <1>4

NothingSplit == [parts |-> <<>>, current |-> <<>>]
SplitsUp(f, text) ==
  f = [n \in 0..Len(text) |->
         IF n = 0 THEN NothingSplit ELSE Document!AddSentence(f[n - 1], text[n])]

LEMMA SplitFits ==
  ASSUME NEW text \in Texts
  PROVE  Document!Split(text) \in Seq(FitText) /\ Document!Split(text) # <<>>
<1>. DEFINE m == Len(text)
            g == [p \in (1..m) \X Splits |-> Document!AddSentence(p[2], text[p[1]])]
            f == CHOOSE h : SplitsUp(h, text)
<1>1. m \in Nat /\ \A n \in 1..m : text[n] \in Piece
  BY ListHas DEF Texts
<1>2. NothingSplit \in Splits
  <2>1. Document!Tokens(<<>>) <= Maximum
    BY TokensOfNothing, DocumentAssumption DEF DocumentAssumption
  <2>. QED  BY <2>1 DEF NothingSplit, Splits, Texts
<1>3. /\ g \in [(1..m) \X Splits -> Splits]
      /\ \A n \in 1..m, s \in Splits : g[<<n, s>>] = Document!AddSentence(s, text[n])
  BY <1>1, AddSentenceFits
<1>. HIDE DEF g
<1>4. PICK h : Goes(h, m, Splits, NothingSplit, g)
  <2>. HIDE DEF m
  <2>. QED  BY <1>1, <1>2, <1>3, StepByStep
<1>5. SplitsUp(h, text)
  <2>1. /\ h \in [0..m -> Splits] /\ h[0] = NothingSplit
        /\ \A n \in 1..m : h[n] = g[<<n, h[n - 1]>>]
    BY <1>4 DEF Goes
  <2>2. ASSUME NEW n \in 0..m
        PROVE  h[n] = IF n = 0 THEN NothingSplit ELSE Document!AddSentence(h[n - 1], text[n])
    <3>1. CASE n = 0
      BY <2>1, <3>1
    <3>2. CASE n # 0
      <4>1. n \in 1..m /\ n - 1 \in 0..m
        BY <1>1, <3>2
      <4>2. h[n - 1] \in Splits
        BY <2>1, <4>1
      <4>. QED  BY <1>3, <2>1, <3>2, <4>1, <4>2
    <3>. QED  BY <3>1, <3>2
  <2>. QED  BY <2>1, <2>2 DEF SplitsUp
<1>6. SplitsUp(f, text)
  BY <1>5
<1>. HIDE DEF f
<1>7. f[0] = NothingSplit /\ \A n \in 1..m : f[n] = Document!AddSentence(f[n - 1], text[n])
  <2>1. 0 \in 0..m /\ \A n \in 1..m : n \in 0..m /\ n # 0
    BY <1>1
  <2>. QED  BY <1>6, <2>1 DEF SplitsUp
<1>. DEFINE T == {n \in 0..m : f[n] \in Splits}
<1>8. 0 \in T
  BY <1>1, <1>2, <1>7
<1>9. ASSUME NEW n \in 1..m, n - 1 \in T PROVE n \in T
  BY <1>1, <1>7, <1>9, AddSentenceFits
<1>. HIDE DEF T
<1>10. \A n \in 0..m : n \in T
  <2>. HIDE DEF m
  <2>. QED  BY <1>1, <1>8, <1>9, UpTo
<1>11. m \in T
  <2>. HIDE DEF m
  <2>. QED  BY <1>1, <1>10
<1>12. Document!Closed(f[m]) \in Seq(FitText)
  BY <1>11, ClosedFits DEF T
<1>13. CASE Document!Tokens(text) <= Maximum
  <2>1. Document!Split(text) = <<text>>
    BY <1>13 DEF Document!Split
  <2>2. text \in FitText
    <3>1. Document!Tokens(text) \in Int /\ Maximum \in Int
      BY TokensOfText, DocumentAssumption DEF DocumentAssumption
    <3>. QED  BY <1>13, <3>1 DEF FitText
  <2>. QED  BY <2>1, <2>2
<1>14. CASE ~(Document!Tokens(text) <= Maximum)
  <2>1. Document!Split(text) = Document!Closed(f[m])
    BY <1>14 DEF Document!Split, f, SplitsUp, NothingSplit
  <2>2. m # 0
    <3>1. SUFFICES ASSUME m = 0 PROVE FALSE
      OBVIOUS
    <3>2. text = <<>>
      BY <1>1, <3>1, ListHas DEF Texts
    <3>. QED  BY <1>14, <3>2, TokensOfNothing, DocumentAssumption DEF DocumentAssumption
  <2>3. m \in 1..m /\ m - 1 \in 0..m
    BY <1>1, <2>2
  <2>4. f[m] = Document!AddSentence(f[m - 1], text[m])
    BY <1>7, <2>3
  <2>5. f[m - 1] \in Splits
    BY <1>10, <2>3 DEF T
  <2>6. Document!Closed(f[m]) # <<>>
    BY <1>1, <2>3, <2>4, <2>5, AddSentenceSome
  <2>. QED  BY <1>12, <2>1, <2>6
<1>. QED  BY <1>13, <1>14

-----------------------------------------------------------------------------
(* The blocks of a document (build_structure).                             *)

Titles == {b.title : b \in Blocks}
ZoneNames == {b.zone : b \in Blocks} \cup {"front_matter", "main_body", "abstract"}
Entry ==
  [type : {b.type : b \in Blocks}, text : Texts, zone : ZoneNames, section : Nat \cup {NONE},
   path : Seq(Titles), searchable : BOOLEAN]
Level == [id : Nat, title : Titles, level : {b.level : b \in Blocks}, path : Seq(Titles)]

\* Sections are numbered as they open, and an id stands for one path.
OpenOK(open, amount) ==
  /\ open \in Seq(Level)
  /\ \A i \in DOMAIN open : open[i].id <= amount
  /\ \A i, j \in DOMAIN open : open[i].id = open[j].id => open[i].path = open[j].path
  /\ \A i \in DOMAIN open, k \in DOMAIN enriched :
       open[i].id = enriched[k].section => open[i].path = enriched[k].path

EntriesOK(amount) ==
  /\ enriched \in Seq(Entry)
  /\ \A k \in DOMAIN enriched : enriched[k].section # NONE => enriched[k].section <= amount
  /\ \A k \in DOMAIN enriched : enriched[k].section = NONE => enriched[k].path = <<>>
  /\ \A k, l \in DOMAIN enriched :
       enriched[k].section = enriched[l].section => enriched[k].path = enriched[l].path

StructureInv ==
  sections \in Nat /\ zone \in ZoneNames /\ OpenOK(stack, sections) /\ EntriesOK(sections)

LEMMA StructureInvInit == Document!StructureInit => StructureInv
<1>. SUFFICES ASSUME Document!StructureInit PROVE StructureInv
  OBVIOUS
<1>1. zone = "front_matter" /\ stack = <<>> /\ sections = 0 /\ enriched = <<>>
  BY DEF Document!StructureInit
<1>2. DOMAIN stack = {} /\ DOMAIN enriched = {} /\ stack \in Seq(Level) /\ enriched \in Seq(Entry)
  BY <1>1
<1>. QED  BY <1>1, <1>2 DEF StructureInv, OpenOK, EntriesOK, ZoneNames

\* The highest of finitely many levels.
LEMMA GreatestUpTo ==
  ASSUME NEW n \in Nat, NEW A \in SUBSET (1..n)
  PROVE  Document!Max({0} \cup A) \in 0..n
<1>. DEFINE all == {0} \cup A
            bounds == {x \in 0..n : \A y \in all : y <= x}
<1>1. n \in bounds
  OBVIOUS
<1>2. bounds \in SUBSET Nat
  OBVIOUS
<1>3. PICK x \in bounds : \A y \in bounds : x <= y
  <2>. HIDE DEF bounds
  <2>. QED  BY <1>1, <1>2, LeastNat
<1>4. x \in all
  <2>1. SUFFICES ASSUME x \notin all PROVE FALSE
    OBVIOUS
  <2>2. x \in 1..n /\ x - 1 \in 0..n
    BY <1>3, <2>1
  <2>3. \A y \in all : y <= x - 1
    <3>1. \A y \in all : y <= x /\ y # x /\ y \in Int
      BY <1>3, <2>1
    <3>. QED  BY <2>2, <3>1
  <2>4. x - 1 \in bounds
    BY <2>2, <2>3
  <2>. QED  BY <1>3, <2>2, <2>4
<1>5. x \in all /\ \A y \in all : x >= y
  BY <1>3, <1>4
<1>6. Document!Max(all) \in all
  BY <1>5 DEF Document!Max
<1>7. all \subseteq 0..n
  OBVIOUS
<1>. HIDE DEF all
<1>8. Document!Max(all) \in 0..n
  BY <1>6, <1>7
<1>. QED  BY <1>8 DEF all

\* The stack a heading leaves: the sections above it, and its own.
Opens(b, open, m) ==
  /\ open \in Seq(Level) /\ open # <<>> /\ Len(open) = m + 1 /\ DOMAIN open = 1..(m + 1)
  /\ \A i \in 1..m : open[i] = stack[i]
  /\ open[m + 1].id = sections + 1 /\ open[m + 1].title = b.title
  /\ Len(open[m + 1].path) = m + 1 /\ open[m + 1].path[m + 1] = b.title
  /\ \A i \in 1..m : open[m + 1].path[i] = stack[i].title

LEMMA StackIs ==
  ASSUME StructureInv, NEW b \in Blocks
  PROVE  \E m \in 0..Len(stack) : Opens(b, Document!Stack(b), m)
<1>. DEFINE m == Document!Max({0} \cup {i \in DOMAIN stack : stack[i].level < b.level})
            parents == SubSeq(stack, 1, m)
            titles == [i \in DOMAIN parents |-> parents[i].title]
            path == Append(titles, b.title)
            new == [id |-> sections + 1, title |-> b.title, level |-> b.level, path |-> path]
            open == Append(parents, new)
<1>1. sections \in Nat /\ stack \in Seq(Level)
  BY DEF StructureInv, OpenOK
<1>2. Len(stack) \in Nat /\ DOMAIN stack = 1..Len(stack) /\ \A i \in 1..Len(stack) : stack[i] \in Level
  BY <1>1, ListHas
<1>3. m \in 0..Len(stack)
  <2>. DEFINE A == {i \in DOMAIN stack : stack[i].level < b.level}
  <2>1. A \in SUBSET (1..Len(stack))
    BY <1>2
  <2>. HIDE DEF A
  <2>2. Document!Max({0} \cup A) \in 0..Len(stack)
    BY <1>2, <2>1, GreatestUpTo
  <2>. QED  BY <2>2 DEF A
<1>. HIDE DEF m
<1>4. /\ parents \in Seq(Level) /\ Len(parents) = m /\ DOMAIN parents = 1..m
      /\ \A i \in 1..m : parents[i] = stack[i]
  <2>1. \A i \in 1..m : stack[i] \in Level
    BY <1>2, <1>3
  <2>2. m \in Int /\ m - 1 + 1 = m /\ (~(1 <= m) => m = 0)
    BY <1>2, <1>3
  <2>3. /\ parents \in Seq(Level) /\ Len(parents) = m
        /\ \A i \in 1..m : parents[i] = stack[1 + i - 1]
    BY <2>1, <2>2, SubSeqProperties
  <2>4. \A i \in 1..m : 1 + i - 1 = i
    OBVIOUS
  <2>. HIDE DEF parents
  <2>. QED  BY <2>3, <2>4, ListHas
<1>. HIDE DEF parents
<1>5. titles \in Seq(Titles) /\ Len(titles) = m /\ \A i \in 1..m : titles[i] = stack[i].title
  <2>1. titles \in [1..m -> Titles] /\ \A i \in 1..m : titles[i] = stack[i].title
    BY <1>2, <1>3, <1>4 DEF Level
  <2>2. m \in Nat
    BY <1>2, <1>3
  <2>. HIDE DEF titles
  <2>. QED  BY <2>1, <2>2, ListOf
<1>. HIDE DEF titles
<1>6. /\ path \in Seq(Titles) /\ Len(path) = m + 1 /\ path[m + 1] = b.title
      /\ \A i \in 1..m : path[i] = stack[i].title
  <2>1. b.title \in Titles
    BY DEF Titles
  <2>. QED  BY <1>5, <2>1, ListAppend
<1>. HIDE DEF path
<1>7. new \in Level
  <2>1. b.title \in Titles
    BY DEF Titles
  <2>. QED  BY <1>1, <1>6, <2>1 DEF Level
<1>8. new.id = sections + 1 /\ new.path = path /\ new.title = b.title
  OBVIOUS
<1>. HIDE DEF new
<1>9. /\ open \in Seq(Level) /\ open # <<>> /\ DOMAIN open = 1..(m + 1) /\ Len(open) = m + 1
      /\ \A i \in 1..m : open[i] = stack[i]
      /\ open[m + 1] = new
  BY <1>4, <1>7, ListAppend
<1>10. Document!Stack(b) = open
  BY DEF Document!Stack, open, new, path, titles, parents, m
<1>. HIDE DEF open
<1>11. Opens(b, open, m)
  BY <1>6, <1>8, <1>9 DEF Opens
<1>. QED  BY <1>3, <1>10, <1>11

LEMMA StackOpens ==
  ASSUME StructureInv, NEW b \in Blocks
  PROVE  /\ OpenOK(Document!Stack(b), sections + 1)
         /\ Document!Stack(b) # <<>>
<1>. DEFINE open == Document!Stack(b)
<1>1. /\ sections \in Nat /\ stack \in Seq(Level) /\ \A i \in DOMAIN stack : stack[i].id <= sections
      /\ \A i, j \in DOMAIN stack : stack[i].id = stack[j].id => stack[i].path = stack[j].path
      /\ \A i \in DOMAIN stack, k \in DOMAIN enriched :
           stack[i].id = enriched[k].section => stack[i].path = enriched[k].path
  BY DEF StructureInv, OpenOK
<1>2. Len(stack) \in Nat /\ DOMAIN stack = 1..Len(stack) /\ \A i \in 1..Len(stack) : stack[i] \in Level
  BY <1>1, ListHas
<1>3. PICK m \in 0..Len(stack) : Opens(b, open, m)
  BY StackIs
<1>. HIDE DEF open
<1>7. open[m + 1].id = sections + 1
  BY <1>3 DEF Opens
<1>8. /\ open \in Seq(Level) /\ open # <<>> /\ DOMAIN open = 1..(m + 1)
      /\ \A i \in 1..m : open[i] = stack[i]
  BY <1>3 DEF Opens
<1>9. \A i \in 1..(m + 1) : i = m + 1 \/ (i \in 1..m /\ i \in DOMAIN stack)
  BY <1>2, <1>3
<1>10. \A k \in DOMAIN enriched : enriched[k].section # sections + 1
  <2>. TAKE k \in DOMAIN enriched
  <2>1. /\ enriched[k].section \in Nat \cup {NONE}
        /\ enriched[k].section # NONE => enriched[k].section <= sections
    <3>1. enriched[k] \in Entry
      BY ListHas DEF StructureInv, EntriesOK
    <3>2. enriched[k].section \in Nat \cup {NONE}
      BY <3>1 DEF Entry
    <3>. QED  BY <3>2 DEF StructureInv, EntriesOK
  <2>. QED  BY <1>1, <2>1, AbsentAssumption
<1>11. \A i \in 1..m : open[i].id \in Nat /\ open[i].id <= sections
  <2>1. \A i \in 1..m : i \in 1..Len(stack)
    BY <1>2, <1>3
  <2>2. \A i \in 1..m : stack[i].id \in Nat /\ stack[i].id <= sections
    BY <1>1, <1>2, <2>1 DEF Level
  <2>. QED  BY <1>8, <2>2
<1>12. OpenOK(open, sections + 1)
  <2>1. \A i \in DOMAIN open : open[i].id <= sections + 1
    BY <1>1, <1>7, <1>8, <1>9, <1>11
  <2>2. \A i, j \in DOMAIN open : open[i].id = open[j].id => open[i].path = open[j].path
    <3>. TAKE i, j \in DOMAIN open
    <3>1. CASE i = m + 1 /\ j = m + 1
      BY <3>1
    <3>2. CASE i # m + 1 /\ j # m + 1
      BY <1>1, <1>8, <1>9, <3>2
    <3>3. CASE i = m + 1 /\ j # m + 1
      BY <1>1, <1>7, <1>8, <1>9, <1>11, <3>3
    <3>4. CASE i # m + 1 /\ j = m + 1
      BY <1>1, <1>7, <1>8, <1>9, <1>11, <3>4
    <3>. QED  BY <3>1, <3>2, <3>3, <3>4
  <2>3. \A i \in DOMAIN open, k \in DOMAIN enriched :
          open[i].id = enriched[k].section => open[i].path = enriched[k].path
    BY <1>1, <1>7, <1>8, <1>9, <1>10
  <2>. QED  BY <1>8, <2>1, <2>2, <2>3 DEF OpenOK
<1>. QED  BY <1>8, <1>12 DEF open

\* A block that is read joins the entries.
LEMMA EntryJoins ==
  ASSUME NEW amount \in Nat, NEW e \in Entry, EntriesOK(amount),
         enriched' = Append(enriched, e),
         NEW open, OpenOK(open, amount),
         \/ e.section = NONE /\ e.path = <<>>
         \/ \E i \in DOMAIN open : e.section = open[i].id /\ e.path = open[i].path
  PROVE  EntriesOK(amount)' /\ OpenOK(open, amount)'
<1>. DEFINE m == Len(enriched)
<1>1. /\ enriched \in Seq(Entry) /\ m \in Nat /\ DOMAIN enriched = 1..m
      /\ \A k \in 1..m : enriched[k] \in Entry
  BY ListHas DEF EntriesOK
<1>2. /\ enriched' \in Seq(Entry) /\ DOMAIN enriched' = 1..(m + 1)
      /\ \A k \in 1..m : enriched'[k] = enriched[k]
      /\ enriched'[m + 1] = e
  BY <1>1, ListAppend
<1>. HIDE DEF m
<1>3. \A k \in 1..(m + 1) : k = m + 1 \/ k \in 1..m
  BY <1>1
<1>4. /\ open \in Seq(Level) /\ \A i \in DOMAIN open : open[i].id <= amount /\ open[i].id # NONE
      /\ \A i, j \in DOMAIN open : open[i].id = open[j].id => open[i].path = open[j].path
      /\ \A i \in DOMAIN open, k \in 1..m :
           open[i].id = enriched[k].section => open[i].path = enriched[k].path
  <2>1. \A i \in DOMAIN open : open[i].id \in Nat
    <3>1. \A i \in DOMAIN open : open[i] \in Level
      BY ListHas DEF OpenOK
    <3>. QED  BY <3>1 DEF Level
  <2>. QED  BY <1>1, <2>1, AbsentAssumption DEF OpenOK
<1>5. /\ \A k \in 1..m : enriched[k].section # NONE => enriched[k].section <= amount
      /\ \A k \in 1..m : enriched[k].section = NONE => enriched[k].path = <<>>
      /\ \A k, l \in 1..m :
           enriched[k].section = enriched[l].section => enriched[k].path = enriched[l].path
  BY <1>1 DEF EntriesOK
<1>6. /\ e.section # NONE => e.section <= amount
      /\ e.section = NONE => e.path = <<>>
      /\ \A k \in 1..m : e.section = enriched[k].section => e.path = enriched[k].path
      /\ \A i \in DOMAIN open : open[i].id = e.section => open[i].path = e.path
  BY <1>4, <1>5
<1>7. EntriesOK(amount)'
  <2>1. \A k \in DOMAIN enriched' : enriched'[k].section # NONE => enriched'[k].section <= amount
    BY <1>2, <1>3, <1>5, <1>6
  <2>2. \A k \in DOMAIN enriched' : enriched'[k].section = NONE => enriched'[k].path = <<>>
    BY <1>2, <1>3, <1>5, <1>6
  <2>3. ASSUME NEW k \in DOMAIN enriched', NEW l \in DOMAIN enriched'
        PROVE  enriched'[k].section = enriched'[l].section => enriched'[k].path = enriched'[l].path
    <3>1. CASE k = m + 1 /\ l = m + 1
      BY <3>1
    <3>2. CASE k = m + 1 /\ l \in 1..m
      BY <1>2, <1>6, <3>2
    <3>3. CASE k \in 1..m /\ l = m + 1
      BY <1>2, <1>6, <3>3
    <3>4. CASE k \in 1..m /\ l \in 1..m
      BY <1>2, <1>5, <3>4
    <3>. QED  BY <1>2, <1>3, <3>1, <3>2, <3>3, <3>4
  <2>. QED  BY <1>2, <2>1, <2>2, <2>3 DEF EntriesOK
<1>8. OpenOK(open, amount)'
  <2>1. ASSUME NEW i \in DOMAIN open, NEW k \in DOMAIN enriched'
        PROVE  open[i].id = enriched'[k].section => open[i].path = enriched'[k].path
    <3>1. CASE k = m + 1
      BY <1>2, <1>6, <3>1
    <3>2. CASE k \in 1..m
      BY <1>2, <1>4, <3>2
    <3>. QED  BY <1>2, <1>3, <3>1, <3>2
  <2>. QED  BY <1>4, <2>1 DEF OpenOK
<1>. QED  BY <1>7, <1>8

\* What a block adds: an entry in the section on top of the stack.
Placed(e, open) ==
  IF open = <<>> THEN e.section = NONE /\ e.path = <<>>
  ELSE e.section = open[Len(open)].id /\ e.path = open[Len(open)].path

LEMMA ReadParts ==
  ASSUME StructureInv, Document!ReadBlock
  PROVE  /\ \/ stack' = stack /\ sections' = sections
            \/ \E b \in Blocks : stack' = Document!Stack(b) /\ sections' = sections + 1
         /\ sections' \in Nat /\ zone' \in ZoneNames
         /\ EntriesOK(sections') /\ OpenOK(stack', sections')
         /\ \E e \in Entry : enriched' = Append(enriched, e) /\ Placed(e, stack')
<1>. DEFINE Current(b) == IF Document!OpensSection(b) THEN Document!ZoneOfHeading(b) ELSE zone
            Enters(b, on) == Document!EntersBody(b, Current(b), on)
            Zone(b, on) == IF Enters(b, on) THEN "main_body"
                           ELSE Document!BlockZone(b, Current(b))
            Open(b) == IF Document!OpensSection(b) THEN Document!Stack(b) ELSE stack
            Section(b) == IF Open(b) = <<>> THEN [id |-> NONE, path |-> <<>>]
                          ELSE Open(b)[Len(Open(b))]
            EntryOf(b, on) ==
              [type |-> b.type, text |-> b.text, zone |-> Zone(b, on),
               section |-> Section(b).id, path |-> Section(b).path,
               searchable |-> Document!Searchable(b, Zone(b, on))]
<1>1. PICK b \in Blocks, on \in page..2 :
        /\ sections' = IF Document!OpensSection(b) THEN sections + 1 ELSE sections
        /\ stack' = Open(b)
        /\ zone' = IF Enters(b, on) \/ (Zone(b, on) # Current(b) /\ b.abstract = "explicit")
                   THEN Zone(b, on) ELSE Current(b)
        /\ enriched' = Append(enriched, EntryOf(b, on))
  BY DEF Document!ReadBlock
<1>. DEFINE amount == IF Document!OpensSection(b) THEN sections + 1 ELSE sections
            ahead == IF Enters(b, on) \/ (Zone(b, on) # Current(b) /\ b.abstract = "explicit")
                     THEN Zone(b, on) ELSE Current(b)
<1>2. amount \in Nat /\ EntriesOK(amount) /\ OpenOK(Open(b), amount)
  <2>1. CASE Document!OpensSection(b)
    <3>1. sections + 1 \in Nat /\ OpenOK(Document!Stack(b), sections + 1)
      BY StackOpens DEF StructureInv
    <3>2. EntriesOK(sections + 1)
      <4>1. \A k \in DOMAIN enriched : enriched[k] \in Entry
        BY ListHas DEF StructureInv, EntriesOK
      <4>2. \A k \in DOMAIN enriched : enriched[k].section \in Nat \cup {NONE}
        BY <4>1 DEF Entry
      <4>3. \A k \in DOMAIN enriched : enriched[k].section # NONE
              => enriched[k].section <= sections + 1
        BY <4>2 DEF StructureInv, EntriesOK
      <4>. QED  BY <4>3 DEF StructureInv, EntriesOK
    <3>. QED  BY <2>1, <3>1, <3>2
  <2>2. CASE ~Document!OpensSection(b)
    BY <2>2 DEF StructureInv
  <2>. QED  BY <2>1, <2>2
<1>3. Current(b) \in ZoneNames
  BY DEF StructureInv, Document!ZoneOfHeading, ZoneNames
<1>4. Zone(b, on) \in ZoneNames
  <2>. HIDE DEF Current
  <2>. QED  BY <1>3 DEF Document!BlockZone, ZoneNames
<1>5. ahead \in ZoneNames
  <2>. HIDE DEF Current, Zone
  <2>. QED  BY <1>3, <1>4
<1>6. /\ Section(b).id \in Nat \cup {NONE} /\ Section(b).path \in Seq(Titles)
      /\ \/ Section(b).id = NONE /\ Section(b).path = <<>>
         \/ \E i \in DOMAIN Open(b) : Section(b).id = Open(b)[i].id /\ Section(b).path = Open(b)[i].path
  <2>. HIDE DEF Open
  <2>1. CASE Open(b) = <<>>
    BY <2>1
  <2>2. CASE Open(b) # <<>>
    <3>1. Open(b) \in Seq(Level)
      BY <1>2 DEF OpenOK
    <3>2. Len(Open(b)) \in DOMAIN Open(b) /\ Open(b)[Len(Open(b))] \in Level
      BY <2>2, <3>1, ListHas
    <3>. QED  BY <2>2, <3>2 DEF Level
  <2>. QED  BY <2>1, <2>2
<1>7. EntryOf(b, on) \in Entry
  <2>. HIDE DEF Zone, Section
  <2>1. Document!Searchable(b, Zone(b, on)) \in BOOLEAN
    BY DEF Document!Searchable
  <2>2. b.text \in Texts
    <3>1. b.text \in Seq(Seq(Nat))
      BY DocumentAssumption DEF DocumentAssumption
    <3>. QED  BY <3>1 DEF Texts, Piece
  <2>. QED  BY <1>4, <1>6, <2>1, <2>2 DEF Entry
<1>8. EntryOf(b, on).section = Section(b).id /\ EntryOf(b, on).path = Section(b).path
  BY DEF EntryOf
<1>9. Placed(EntryOf(b, on), Open(b))
  <2>. HIDE DEF EntryOf, Open
  <2>. QED  BY <1>8 DEF Placed
<1>10. \/ Open(b) = stack /\ amount = sections
       \/ Open(b) = Document!Stack(b) /\ amount = sections + 1
  OBVIOUS
<1>11. /\ sections' = amount /\ stack' = Open(b) /\ zone' = ahead
       /\ enriched' = Append(enriched, EntryOf(b, on))
  BY <1>1 DEF amount, ahead
<1>. HIDE DEF amount, ahead, EntryOf, Open, Section, Current, Zone, Enters
<1>. QED  BY <1>2, <1>5, <1>7, <1>9, <1>10, <1>11

LEMMA StructureInvStep ==
  StructureInv /\ [Document!ReadBlock]_(Document!structureVars) => StructureInv'
<1>. SUFFICES ASSUME StructureInv, [Document!ReadBlock]_(Document!structureVars)
              PROVE  StructureInv'
  OBVIOUS
<1>1. CASE UNCHANGED Document!structureVars
  BY <1>1 DEF StructureInv, OpenOK, EntriesOK, Document!structureVars
<1>2. CASE Document!ReadBlock
  <2>1. /\ sections' \in Nat /\ zone' \in ZoneNames
        /\ EntriesOK(sections') /\ OpenOK(stack', sections')
    BY <1>2, ReadParts
  <2>2. PICK e \in Entry : enriched' = Append(enriched, e) /\ Placed(e, stack')
    BY <1>2, ReadParts
  <2>3. \/ e.section = NONE /\ e.path = <<>>
        \/ \E i \in DOMAIN stack' : e.section = stack'[i].id /\ e.path = stack'[i].path
    <3>1. CASE stack' = <<>>
      BY <2>2, <3>1 DEF Placed
    <3>2. CASE stack' # <<>>
      <4>1. stack' \in Seq(Level)
        BY <2>1 DEF OpenOK
      <4>2. Len(stack') \in DOMAIN stack'
        BY <3>2, <4>1, ListHas
      <4>. QED  BY <2>2, <3>2, <4>2 DEF Placed
    <3>. QED  BY <3>1, <3>2
  <2>4. PICK count, open, z :
          /\ sections' = count /\ stack' = open /\ zone' = z
          /\ count \in Nat /\ EntriesOK(count) /\ OpenOK(open, count) /\ z \in ZoneNames
          /\ \/ e.section = NONE /\ e.path = <<>>
             \/ \E i \in DOMAIN open : e.section = open[i].id /\ e.path = open[i].path
    BY <2>1, <2>3
  <2>5. EntriesOK(count)' /\ OpenOK(open, count)'
    BY <2>2, <2>4, EntryJoins
  <2>. QED  BY <2>4, <2>5 DEF StructureInv, EntriesOK, OpenOK
<1>. QED  BY <1>1, <1>2

-----------------------------------------------------------------------------
(* Packing (build_chunks).                                                 *)

Nowhere == [section |-> NONE, path |-> <<>>, zone |-> NONE]
Spots == {Document!Place(i) : i \in DOMAIN enriched} \cup {Nowhere}

\* Units of one place, and of more than the maximum only as one word.
UnitsCohere(units, place) ==
  /\ \A k \in DOMAIN units : Document!Place(units[k].block) = place
  /\ Document!Size(units) > Maximum => Len(units) = 1 /\ Document!OneWord(units[1].text)

IsAbove(parent, place) ==
  /\ parent.place.zone = place.zone
  /\ Document!IsStrictPrefix(parent.place.path, place.path)
  /\ Document!Size(parent.units) < Minimum

ContextOf == [place : Spots, units : Seq(UnitOf)]
ChunkOf ==
  {c \in [place : Spots, units : Seq(UnitOf), parents : Seq(ContextOf)] :
     /\ c.units # <<>> /\ UnitsCohere(c.units, c.place)
     /\ \A k \in DOMAIN c.parents : IsAbove(c.parents[k], c.place)}
PackingOf ==
  {p \in [chunks : Seq(ChunkOf), units : Seq(UnitOf), place : Spots] :
     UnitsCohere(p.units, p.place)}

LEMMA NoUnitsCohere == \A place : UnitsCohere(<<>>, place)
<1>1. ~(Document!Size(<<>>) > Maximum)
  BY SizeOfNothing, DocumentAssumption DEF DocumentAssumption
<1>. QED  BY <1>1 DEF UnitsCohere

LEMMA UnitsOfBlock ==
  ASSUME StructureInv, NEW i \in DOMAIN enriched
  PROVE  /\ Document!Units(i) \in Seq(UnitOf) /\ Document!Units(i) # <<>>
         /\ \A k \in DOMAIN Document!Units(i) :
              Document!Units(i)[k].block = i /\ Document!Units(i)[k].text \in FitText
<1>. DEFINE parts == Document!Split(enriched[i].text)
            m == Len(parts)
            units == [k \in DOMAIN parts |->
                        [block |-> i, part |-> k, type |-> enriched[i].type, text |-> parts[k]]]
<1>1. enriched[i].text \in Texts
  <2>1. enriched[i] \in Entry
    BY ListHas DEF StructureInv, EntriesOK
  <2>. QED  BY <2>1 DEF Entry
<1>2. parts \in Seq(FitText) /\ parts # <<>>
  BY <1>1, SplitFits
<1>. HIDE DEF parts
<1>3. m \in Nat /\ m >= 1 /\ DOMAIN parts = 1..m /\ \A k \in 1..m : parts[k] \in FitText
  BY <1>2, ListHas
<1>4. units \in [1..m -> UnitOf] /\ \A k \in 1..m : units[k].block = i /\ units[k].text \in FitText
  <2>1. ASSUME NEW k \in 1..m
        PROVE  /\ units[k] = [block |-> i, part |-> k, type |-> enriched[i].type, text |-> parts[k]]
               /\ units[k] \in UnitOf /\ units[k].block = i /\ units[k].text = parts[k]
    <3>1. units[k] = [block |-> i, part |-> k, type |-> enriched[i].type, text |-> parts[k]]
      BY <1>3
    <3>2. parts[k] \in Texts /\ k \in Nat
      BY <1>3 DEF FitText
    <3>. QED  BY <3>1, <3>2 DEF UnitOf
  <2>2. DOMAIN units = 1..m /\ units = [k \in 1..m |-> units[k]]
    BY <1>3
  <2>. HIDE DEF units
  <2>3. \A k \in 1..m : units[k].block = i /\ units[k].text = parts[k]
    BY <2>1
  <2>. QED  BY <1>3, <2>1, <2>2, <2>3
<1>5. Document!Units(i) = units
  BY DEF Document!Units, parts
<1>. HIDE DEF units
<1>6. units \in Seq(UnitOf) /\ DOMAIN units = 1..m /\ units # <<>>
  <2>1. units \in Seq(UnitOf) /\ Len(units) = m
    BY <1>3, <1>4, ListOf
  <2>. QED  BY <1>3, <2>1, ListHas
<1>. QED  BY <1>4, <1>5, <1>6

LEMMA FlushOK ==
  ASSUME NEW p \in PackingOf
  PROVE  /\ Document!Flush(p) \in PackingOf
         /\ Document!Flush(p).units = <<>> /\ Document!Flush(p).place = p.place
<1>1. /\ p.chunks \in Seq(ChunkOf) /\ p.units \in Seq(UnitOf) /\ p.place \in Spots
      /\ UnitsCohere(p.units, p.place)
  BY DEF PackingOf
<1>2. CASE p.units = <<>>
  BY <1>2 DEF Document!Flush
<1>3. CASE p.units # <<>>
  <2>. DEFINE new == [place |-> p.place, units |-> p.units, parents |-> <<>>]
              longer == Append(p.chunks, new)
              flushed == [p EXCEPT !.chunks = longer, !.units = <<>>]
  <2>1. new \in ChunkOf
    <3>1. new.parents = <<>> /\ new.units = p.units /\ new.place = p.place /\ DOMAIN <<>> = {}
      OBVIOUS
    <3>2. new \in [place : Spots, units : Seq(UnitOf), parents : Seq(ContextOf)]
      BY <1>1
    <3>. HIDE DEF new
    <3>. QED  BY <1>1, <1>3, <3>1, <3>2 DEF ChunkOf
  <2>2. Document!Flush(p) = flushed
    BY <1>3 DEF Document!Flush
  <2>. HIDE DEF new
  <2>3. longer \in Seq(ChunkOf)
    BY <1>1, <2>1, ListAppend
  <2>. HIDE DEF longer
  <2>4. /\ flushed.chunks = longer /\ flushed.units = <<>> /\ flushed.place = p.place
        /\ flushed \in [chunks : Seq(ChunkOf), units : Seq(UnitOf), place : Spots]
    <3>1. p \in [chunks : Seq(ChunkOf), units : Seq(UnitOf), place : Spots]
      BY DEF PackingOf
    <3>. DEFINE Lists == Seq(ChunkOf)
                Units == Seq(UnitOf)
    <3>2. <<>> \in Units
      OBVIOUS
    <3>. HIDE DEF Lists, Units
    <3>3. p \in [chunks : Lists, units : Units, place : Spots] /\ longer \in Lists
      BY <2>3, <3>1 DEF Lists, Units
    <3>4. /\ flushed.chunks = longer /\ flushed.units = <<>> /\ flushed.place = p.place
          /\ flushed \in [chunks : Lists, units : Units, place : Spots]
      BY <3>2, <3>3
    <3>. QED  BY <3>4 DEF Lists, Units
  <2>. HIDE DEF flushed
  <2>5. UnitsCohere(flushed.units, flushed.place)
    BY <2>4, NoUnitsCohere
  <2>. QED  BY <2>2, <2>4, <2>5 DEF PackingOf
<1>. QED  BY <1>2, <1>3

\* The packing in a place.
PackingAt(place) == {p \in PackingOf : p.place = place}

LEMMA AddUnitOK ==
  ASSUME NEW p \in PackingOf, NEW u \in UnitOf, u.text \in FitText,
         Document!Place(u.block) = p.place
  PROVE  Document!AddUnit(p, u) \in PackingAt(p.place)
<1>. DEFINE full == p.units # <<>> /\ Document!Size(p.units) + Document!Tokens(u.text) > Maximum
            open == IF full THEN [Document!Flush(p) EXCEPT !.place = Document!Place(u.block)] ELSE p
            longer == Append(open.units, u)
            added == [open EXCEPT !.units = longer]
<1>1. Document!AddUnit(p, u) = added
  BY DEF Document!AddUnit
<1>2. open \in PackingOf /\ open.place = p.place /\ (full => open.units = <<>>)
      /\ (~full => open.units = p.units)
  <2>1. CASE full
    <3>. DEFINE q == Document!Flush(p)
    <3>1. q \in PackingOf /\ q.units = <<>> /\ q.place = p.place
      BY FlushOK
    <3>2. open = [q EXCEPT !.place = q.place]
      BY <2>1, <3>1
    <3>. HIDE DEF q, full, open
    <3>3. [q EXCEPT !.place = q.place] = q
      BY <3>1 DEF PackingOf
    <3>. QED  BY <2>1, <3>1, <3>2, <3>3
  <2>2. CASE ~full
    BY <2>2
  <2>. QED  BY <2>1, <2>2
<1>3. /\ p.units \in Seq(UnitOf) /\ Document!Size(p.units) \in Int
      /\ Document!Tokens(u.text) \in Int /\ Maximum \in Nat
      /\ Document!Tokens(u.text) > Maximum => Document!OneWord(u.text)
  BY SizeOfUnits, TokensOfText, DocumentAssumption DEF PackingOf, UnitOf, FitText, DocumentAssumption
<1>4. open.units = <<>> \/ Document!Size(open.units) + Document!Tokens(u.text) <= Maximum
  <2>. HIDE DEF open
  <2>. QED  BY <1>2, <1>3
<1>. HIDE DEF full, open
<1>5. /\ open.chunks \in Seq(ChunkOf) /\ open.units \in Seq(UnitOf) /\ open.place \in Spots
      /\ UnitsCohere(open.units, open.place)
      /\ open \in [chunks : Seq(ChunkOf), units : Seq(UnitOf), place : Spots]
  BY <1>2 DEF PackingOf
<1>6. /\ longer \in Seq(UnitOf) /\ Len(longer) = Len(open.units) + 1
      /\ DOMAIN longer = 1..(Len(open.units) + 1) /\ Len(open.units) \in Nat
      /\ \A k \in 1..Len(open.units) : longer[k] = open.units[k]
      /\ longer[Len(open.units) + 1] = u
      /\ DOMAIN open.units = 1..Len(open.units)
  BY <1>5, ListAppend, ListHas
<1>7. /\ Document!Size(longer) = Document!Size(open.units) + Document!Tokens(u.text)
      /\ Document!Size(open.units) \in Int
  BY <1>5, SizeOfUnits
<1>. HIDE DEF longer
<1>8. UnitsCohere(longer, p.place)
  <2>1. \A k \in DOMAIN longer : Document!Place(longer[k].block) = p.place
    <3>1. \A k \in DOMAIN longer : k = Len(open.units) + 1 \/ k \in 1..Len(open.units)
      BY <1>6
    <3>2. \A k \in 1..Len(open.units) : Document!Place(open.units[k].block) = p.place
      BY <1>2, <1>5, <1>6 DEF UnitsCohere
    <3>. QED  BY <1>6, <3>1, <3>2
  <2>2. ASSUME Document!Size(longer) > Maximum PROVE Len(longer) = 1 /\ Document!OneWord(longer[1].text)
    <3>1. open.units = <<>>
      BY <1>3, <1>4, <1>7, <2>2
    <3>2. Len(open.units) = 0 /\ longer[1] = u /\ Len(longer) = 1
      <4>1. Len(open.units) = 0
        BY <3>1
      <4>. QED  BY <1>6, <4>1
    <3>3. Document!Size(longer) = Document!Tokens(u.text)
      BY <1>3, <1>7, <3>1, SizeOfNothing
    <3>. QED  BY <1>3, <2>2, <3>2, <3>3
  <2>. QED  BY <2>1, <2>2 DEF UnitsCohere
<1>9. /\ added.units = longer /\ added.place = p.place
      /\ added \in [chunks : Seq(ChunkOf), units : Seq(UnitOf), place : Spots]
  BY <1>2, <1>5, <1>6
<1>. HIDE DEF added
<1>. QED  BY <1>1, <1>8, <1>9 DEF PackingOf, PackingAt

AddsUnits(f, p, units) ==
  f = [n \in 0..Len(units) |-> IF n = 0 THEN p ELSE Document!AddUnit(f[n - 1], units[n])]

LEMMA AddUnitsSteps ==
  ASSUME NEW p \in PackingOf, NEW units \in Seq(UnitOf),
         \A k \in DOMAIN units : units[k].text \in FitText /\ Document!Place(units[k].block) = p.place
  PROVE  \E f :
           /\ f[0] = p /\ \A n \in 1..Len(units) : f[n] = Document!AddUnit(f[n - 1], units[n])
           /\ \A n \in 0..Len(units) : f[n] \in PackingAt(p.place)
           /\ Document!AddUnits(p, units) = f[Len(units)]
<1>. DEFINE m == Len(units)
            D == PackingAt(p.place)
            g == [q \in (1..m) \X D |-> Document!AddUnit(q[2], units[q[1]])]
            f == CHOOSE h : AddsUnits(h, p, units)
<1>1. m \in Nat /\ DOMAIN units = 1..m /\ \A n \in 1..m : units[n] \in UnitOf
  BY ListHas
<1>2. p \in D
  BY DEF PackingAt
<1>3. ASSUME NEW n \in 1..m, NEW q \in D PROVE Document!AddUnit(q, units[n]) \in D
  <2>1. q \in PackingOf /\ q.place = p.place
    BY DEF PackingAt
  <2>2. Document!AddUnit(q, units[n]) \in PackingAt(q.place)
    BY <1>1, <2>1, AddUnitOK
  <2>. QED  BY <2>1, <2>2
<1>4. /\ g \in [(1..m) \X D -> D]
      /\ \A n \in 1..m, q \in D : g[<<n, q>>] = Document!AddUnit(q, units[n])
  <2>. HIDE DEF D, m
  <2>. QED  BY <1>3
<1>. HIDE DEF g
<1>5. PICK h : Goes(h, m, D, p, g)
  <2>. HIDE DEF m, D
  <2>. QED  BY <1>1, <1>2, <1>4, StepByStep
<1>6. AddsUnits(h, p, units)
  <2>1. h \in [0..m -> D] /\ h[0] = p /\ \A n \in 1..m : h[n] = g[<<n, h[n - 1]>>]
    BY <1>5 DEF Goes
  <2>2. ASSUME NEW n \in 0..m
        PROVE  h[n] = IF n = 0 THEN p ELSE Document!AddUnit(h[n - 1], units[n])
    <3>1. CASE n = 0
      BY <2>1, <3>1
    <3>2. CASE n # 0
      <4>1. n \in 1..m /\ n - 1 \in 0..m
        BY <1>1, <3>2
      <4>2. h[n - 1] \in D
        BY <2>1, <4>1
      <4>. HIDE DEF D
      <4>. QED  BY <1>4, <2>1, <3>2, <4>1, <4>2
    <3>. QED  BY <3>1, <3>2
  <2>. QED  BY <2>1, <2>2 DEF AddsUnits
<1>7. AddsUnits(f, p, units)
  BY <1>6
<1>8. Document!AddUnits(p, units) = f[m]
  BY DEF Document!AddUnits, AddsUnits
<1>. HIDE DEF f
<1>9. f[0] = p /\ \A n \in 1..m : f[n] = Document!AddUnit(f[n - 1], units[n])
  <2>1. 0 \in 0..m /\ \A n \in 1..m : n \in 0..m /\ n # 0
    BY <1>1
  <2>. QED  BY <1>7, <2>1 DEF AddsUnits
<1>. DEFINE T == {n \in 0..m : f[n] \in D}
<1>10. 0 \in T
  BY <1>1, <1>2, <1>9
<1>11. ASSUME NEW n \in 1..m, n - 1 \in T PROVE n \in T
  <2>. HIDE DEF D
  <2>1. f[n - 1] \in D /\ n \in 0..m
    BY <1>11
  <2>2. f[n] \in D
    BY <1>3, <1>9, <2>1
  <2>. QED  BY <2>1, <2>2
<1>. HIDE DEF T
<1>12. \A n \in 0..m : n \in T
  <2>. HIDE DEF m
  <2>. QED  BY <1>1, <1>10, <1>11, UpTo
<1>13. \A n \in 0..m : f[n] \in D
  BY <1>12 DEF T
<1>. HIDE DEF D
<1>14. /\ f[0] = p /\ \A n \in 1..Len(units) : f[n] = Document!AddUnit(f[n - 1], units[n])
       /\ \A n \in 0..Len(units) : f[n] \in PackingAt(p.place)
       /\ Document!AddUnits(p, units) = f[Len(units)]
  BY <1>8, <1>9, <1>13 DEF D
<1>. HIDE DEF m
<1>. QED  BY <1>14

LEMMA AddUnitsOK ==
  ASSUME NEW p \in PackingOf, NEW units \in Seq(UnitOf),
         \A k \in DOMAIN units : units[k].text \in FitText /\ Document!Place(units[k].block) = p.place
  PROVE  Document!AddUnits(p, units) \in PackingOf
<1>1. PICK f : /\ \A n \in 0..Len(units) : f[n] \in PackingAt(p.place)
               /\ Document!AddUnits(p, units) = f[Len(units)]
  BY AddUnitsSteps
<1>2. Len(units) \in 0..Len(units)
  BY ListHas
<1>. QED  BY <1>1, <1>2 DEF PackingAt

\* Without a break the place is the same.
LEMMA SamePlace ==
  ASSUME StructureInv, NEW p \in PackingOf, p.units # <<>>, NEW i \in DOMAIN enriched,
         ~Document!Break(p.place, i)
  PROVE  p.place = Document!Place(i)
<1>1. p.place.section = enriched[i].section /\ p.place.zone = enriched[i].zone
  BY DEF Document!Break
<1>2. p.units \in Seq(UnitOf) /\ UnitsCohere(p.units, p.place)
  BY DEF PackingOf
<1>3. 1 \in DOMAIN p.units /\ p.units[1] \in UnitOf
  BY <1>2, ListHas
<1>. DEFINE k == p.units[1].block
<1>4. k \in DOMAIN enriched /\ p.place = Document!Place(k)
  BY <1>2, <1>3 DEF UnitsCohere, UnitOf
<1>. HIDE DEF k
<1>5. enriched[k].section = enriched[i].section /\ enriched[k].zone = enriched[i].zone
  BY <1>1, <1>4 DEF Document!Place
<1>6. enriched[k].path = enriched[i].path
  BY <1>4, <1>5 DEF StructureInv, EntriesOK
<1>7. Document!Place(k) = Document!Place(i)
  BY <1>5, <1>6 DEF Document!Place
<1>. QED  BY <1>4, <1>7

\* A packing without units may be taken anywhere.
LEMMA MovedOK ==
  ASSUME NEW p \in PackingOf, p.units = <<>>, NEW place \in Spots
  PROVE  LET moved == [p EXCEPT !.place = place] IN
         moved \in PackingOf /\ moved.units = <<>> /\ moved.place = place
         /\ moved.chunks = p.chunks
<1>. DEFINE moved == [p EXCEPT !.place = place]
            Lists == Seq(ChunkOf)
            Units == Seq(UnitOf)
<1>1. p \in [chunks : Lists, units : Units, place : Spots]
  BY DEF PackingOf
<1>. HIDE DEF Lists, Units
<1>2. /\ moved \in [chunks : Lists, units : Units, place : Spots]
      /\ moved.units = <<>> /\ moved.place = place /\ moved.chunks = p.chunks
  BY <1>1
<1>. HIDE DEF moved
<1>3. moved \in PackingOf
  BY <1>2, NoUnitsCohere DEF PackingOf, Lists, Units
<1>. QED  BY <1>2, <1>3 DEF moved

LEMMA AddBlockOK ==
  ASSUME StructureInv, NEW p \in PackingOf, NEW i \in DOMAIN enriched
  PROVE  Document!AddBlock(p, i) \in PackingOf
<1>. DEFINE ended == IF Document!Break(p.place, i) THEN Document!Flush(p) ELSE p
            open == IF ended.units = <<>> THEN [ended EXCEPT !.place = Document!Place(i)] ELSE ended
<1>1. ended \in PackingOf /\ (ended.units # <<>> => ended = p /\ ~Document!Break(p.place, i))
  BY FlushOK
<1>2. open \in PackingOf /\ open.place = Document!Place(i)
  <2>. HIDE DEF ended
  <2>1. CASE ended.units = <<>>
    <3>1. Document!Place(i) \in Spots
      BY DEF Spots
    <3>. QED  BY <1>1, <2>1, <3>1, MovedOK
  <2>2. CASE ended.units # <<>>
    <3>1. open = p /\ p.units # <<>> /\ ~Document!Break(p.place, i)
      BY <1>1, <2>2
    <3>. QED  BY <3>1, SamePlace
  <2>. QED  BY <2>1, <2>2
<1>3. Document!AddBlock(p, i) = IF enriched[i].searchable
                                  THEN Document!AddUnits(open, Document!Units(i)) ELSE p
  BY DEF Document!AddBlock
<1>. HIDE DEF open
<1>4. Document!AddUnits(open, Document!Units(i)) \in PackingOf
  BY <1>2, UnitsOfBlock, AddUnitsOK
<1>. QED  BY <1>3, <1>4

PacksUp(f) ==
  f = [i \in 0..Len(enriched) |->
         IF i = 0 THEN Document!NothingPacked ELSE Document!AddBlock(f[i - 1], i)]

LEMMA PackedSteps ==
  ASSUME StructureInv
  PROVE  \E f :
           /\ f[0] = Document!NothingPacked
           /\ \A n \in 1..Len(enriched) : f[n] = Document!AddBlock(f[n - 1], n)
           /\ \A n \in 0..Len(enriched) : f[n] \in PackingOf
           /\ Document!Packed = Document!Flush(f[Len(enriched)]).chunks
<1>. DEFINE m == Len(enriched)
            first == Document!NothingPacked
            g == [q \in (1..m) \X PackingOf |-> Document!AddBlock(q[2], q[1])]
            f == CHOOSE h : PacksUp(h)
<1>1. m \in Nat /\ DOMAIN enriched = 1..m
  BY ListHas DEF StructureInv, EntriesOK
<1>2. first \in PackingOf
  <2>1. UnitsCohere(<<>>, Nowhere)
    BY NoUnitsCohere
  <2>2. first = [chunks |-> <<>>, units |-> <<>>, place |-> Nowhere]
    BY DEF Document!NothingPacked, Nowhere
  <2>3. Nowhere \in Spots /\ <<>> \in Seq(ChunkOf) /\ <<>> \in Seq(UnitOf)
    BY DEF Spots
  <2>. QED  BY <2>1, <2>2, <2>3 DEF PackingOf
<1>. HIDE DEF first
<1>3. /\ g \in [(1..m) \X PackingOf -> PackingOf]
      /\ \A n \in 1..m, p \in PackingOf : g[<<n, p>>] = Document!AddBlock(p, n)
  <2>1. \A n \in 1..m, p \in PackingOf : Document!AddBlock(p, n) \in PackingOf
    BY <1>1, AddBlockOK
  <2>. HIDE DEF m
  <2>. QED  BY <2>1
<1>. HIDE DEF g
<1>4. PICK h : Goes(h, m, PackingOf, first, g)
  <2>. HIDE DEF m
  <2>. QED  BY <1>1, <1>2, <1>3, StepByStep
<1>5. PacksUp(h)
  <2>1. /\ h \in [0..m -> PackingOf] /\ h[0] = first
        /\ \A n \in 1..m : h[n] = g[<<n, h[n - 1]>>]
    BY <1>4 DEF Goes
  <2>2. ASSUME NEW n \in 0..m
        PROVE  h[n] = IF n = 0 THEN Document!NothingPacked ELSE Document!AddBlock(h[n - 1], n)
    <3>1. CASE n = 0
      BY <2>1, <3>1 DEF first
    <3>2. CASE n # 0
      <4>1. n \in 1..m /\ n - 1 \in 0..m
        BY <1>1, <3>2
      <4>2. h[n - 1] \in PackingOf
        BY <2>1, <4>1
      <4>. QED  BY <1>3, <2>1, <3>2, <4>1, <4>2
    <3>. QED  BY <3>1, <3>2
  <2>. QED  BY <2>1, <2>2 DEF PacksUp
<1>6. PacksUp(f)
  BY <1>5
<1>7. Document!Packed = Document!Flush(f[m]).chunks
  BY DEF Document!Packed, PacksUp
<1>. HIDE DEF f
<1>8. f[0] = first /\ \A n \in 1..m : f[n] = Document!AddBlock(f[n - 1], n)
  <2>1. 0 \in 0..m /\ \A n \in 1..m : n \in 0..m /\ n # 0
    BY <1>1
  <2>. QED  BY <1>6, <2>1 DEF PacksUp, first
<1>. DEFINE T == {n \in 0..m : f[n] \in PackingOf}
<1>9. 0 \in T
  BY <1>1, <1>2, <1>8
<1>10. ASSUME NEW n \in 1..m, n - 1 \in T PROVE n \in T
  BY <1>1, <1>8, <1>10, AddBlockOK
<1>. HIDE DEF T
<1>11. \A n \in 0..m : n \in T
  <2>. HIDE DEF m
  <2>. QED  BY <1>1, <1>9, <1>10, UpTo
<1>12. \A n \in 0..m : f[n] \in PackingOf
  BY <1>11 DEF T
<1>. QED  BY <1>7, <1>8, <1>12 DEF first

LEMMA PackedOK ==
  ASSUME StructureInv
  PROVE  Document!Packed \in Seq(ChunkOf)
<1>. DEFINE m == Len(enriched)
<1>1. PICK f : /\ \A n \in 0..m : f[n] \in PackingOf
               /\ Document!Packed = Document!Flush(f[m]).chunks
  BY PackedSteps
<1>2. m \in 0..m
  BY ListHas DEF StructureInv, EntriesOK
<1>3. Document!Flush(f[m]) \in PackingOf
  BY <1>1, <1>2, FlushOK
<1>. QED  BY <1>1, <1>3 DEF PackingOf

-----------------------------------------------------------------------------
(* Parent contexts (_absorb_small_parent_chunks).                          *)

LEMMA SpotPath ==
  ASSUME StructureInv, NEW place \in Spots
  PROVE  place.path \in Seq(Titles)
<1>1. \A i \in DOMAIN enriched : enriched[i].path \in Seq(Titles)
  <2>1. \A i \in DOMAIN enriched : enriched[i] \in Entry
    BY ListHas DEF StructureInv, EntriesOK
  <2>. QED  BY <2>1 DEF Entry
<1>2. CASE place = Nowhere
  BY <1>2 DEF Nowhere
<1>3. CASE \E i \in DOMAIN enriched : place = Document!Place(i)
  BY <1>1, <1>3 DEF Document!Place
<1>. QED  BY <1>2, <1>3 DEF Spots

LEMMA PrefixIs ==
  ASSUME NEW D, NEW p \in Seq(D), NEW q \in Seq(D)
  PROVE  Document!IsPrefix(p, q) <=>
           Len(p) <= Len(q) /\ \A i \in 1..Len(p) : p[i] = q[i]
<1>. DEFINE m == Len(p)
<1>1. m \in Nat /\ Len(q) \in Nat /\ (\A i \in 1..m : p[i] \in D) /\ \A i \in 1..Len(q) : q[i] \in D
  BY ListHas
<1>2. SubSeq(p, 1, m) = p
  BY SubSeqFull
<1>3. ASSUME m <= Len(q)
      PROVE  /\ SubSeq(q, 1, m) \in Seq(D) /\ Len(SubSeq(q, 1, m)) = m
             /\ \A i \in 1..m : SubSeq(q, 1, m)[i] = q[i]
  <2>1. \A i \in 1..m : q[i] \in D
    BY <1>1, <1>3
  <2>2. m \in Int /\ m - 1 + 1 = m /\ (~(1 <= m) => m = 0) /\ \A i \in 1..m : 1 + i - 1 = i
    BY <1>1
  <2>. HIDE DEF m
  <2>3. /\ SubSeq(q, 1, m) \in Seq(D) /\ Len(SubSeq(q, 1, m)) = IF 1 <= m THEN m - 1 + 1 ELSE 0
        /\ \A i \in 1..(m - 1 + 1) : SubSeq(q, 1, m)[i] = q[1 + i - 1]
    BY <2>1, <2>2, SubSeqProperties
  <2>. QED  BY <2>2, <2>3
<1>4. ASSUME m <= Len(q), \A i \in 1..m : p[i] = q[i] PROVE p = SubSeq(q, 1, m)
  BY <1>3, <1>4, SeqEqual
<1>. QED  BY <1>2, <1>3, <1>4 DEF Document!IsPrefix

LEMMA PrefixTransitive ==
  ASSUME NEW D, NEW p \in Seq(D), NEW q \in Seq(D), NEW r \in Seq(D),
         Document!IsStrictPrefix(p, q), Document!IsStrictPrefix(q, r)
  PROVE  Document!IsStrictPrefix(p, r)
<1>1. Len(p) \in Nat /\ Len(q) \in Nat /\ Len(r) \in Nat
  BY ListHas
<1>2. /\ Len(p) <= Len(q) /\ \A i \in 1..Len(p) : p[i] = q[i]
      /\ Len(q) <= Len(r) /\ \A i \in 1..Len(q) : q[i] = r[i]
  BY PrefixIs DEF Document!IsStrictPrefix
<1>3. p # q /\ q # r
  BY DEF Document!IsStrictPrefix
<1>4. Len(p) <= Len(r) /\ \A i \in 1..Len(p) : p[i] = r[i]
  BY <1>1, <1>2
<1>5. p # r
  <2>1. SUFFICES ASSUME p = r PROVE FALSE
    OBVIOUS
  <2>2. Len(p) = Len(q)
    BY <1>1, <1>2, <2>1
  <2>3. p = q
    BY <1>2, <2>2, SeqEqual
  <2>. QED  BY <1>3, <2>3
<1>. QED  BY <1>4, <1>5, PrefixIs DEF Document!IsStrictPrefix

LEMMA WithoutOne ==
  ASSUME NEW D, NEW s \in Seq(D), NEW i \in 1..Len(s)
  PROVE  Document!RemoveAt(s, i) \in Seq(D)
<1>1. Len(s) \in Nat /\ \A k \in 1..Len(s) : s[k] \in D
  BY ListHas
<1>2. SubSeq(s, 1, i - 1) \in Seq(D)
  <2>1. i - 1 \in Int /\ \A k \in 1..(i - 1) : s[k] \in D
    BY <1>1
  <2>. QED  BY <2>1, SubSeqProperties
<1>3. SubSeq(s, i + 1, Len(s)) \in Seq(D)
  <2>1. i + 1 \in Int /\ Len(s) \in Int /\ \A k \in (i + 1)..Len(s) : s[k] \in D
    BY <1>1
  <2>. QED  BY <2>1, SubSeqProperties
<1>. QED  BY <1>2, <1>3, ConcatProperties DEF Document!RemoveAt

ScanOf == [chunks : Seq(ChunkOf), index : Nat \ {0}]

LEMMA InheritsOK ==
  ASSUME StructureInv, NEW c \in ChunkOf, NEW d \in ChunkOf, Document!Absorbable(c, d)
  PROVE  [d EXCEPT !.parents = Document!Inherited(c)] \in ChunkOf
<1>. DEFINE new == [place |-> c.place, units |-> c.units]
            contexts == Append(c.parents, new)
            e == [d EXCEPT !.parents = contexts]
<1>1. /\ c \in [place : Spots, units : Seq(UnitOf), parents : Seq(ContextOf)]
      /\ d \in [place : Spots, units : Seq(UnitOf), parents : Seq(ContextOf)]
      /\ \A k \in DOMAIN c.parents : IsAbove(c.parents[k], c.place)
      /\ d.units # <<>> /\ UnitsCohere(d.units, d.place)
  BY DEF ChunkOf
<1>2. new \in ContextOf /\ new.place = c.place /\ new.units = c.units
  BY <1>1 DEF ContextOf
<1>3. IsAbove(new, d.place)
  BY <1>2 DEF IsAbove, Document!Absorbable
<1>. HIDE DEF new
<1>4. ASSUME NEW k \in DOMAIN c.parents PROVE IsAbove(c.parents[k], d.place)
  <2>. DEFINE parent == c.parents[k]
  <2>1. parent \in ContextOf
    BY <1>1, ListHas
  <2>2. /\ parent.place.zone = c.place.zone
        /\ Document!IsStrictPrefix(parent.place.path, c.place.path)
        /\ Document!Size(parent.units) < Minimum
    BY <1>1 DEF IsAbove
  <2>3. c.place.zone = d.place.zone /\ Document!IsStrictPrefix(c.place.path, d.place.path)
    BY DEF Document!Absorbable
  <2>4. /\ parent.place.path \in Seq(Titles) /\ c.place.path \in Seq(Titles)
        /\ d.place.path \in Seq(Titles)
    BY <1>1, <2>1, SpotPath DEF ContextOf
  <2>5. Document!IsStrictPrefix(parent.place.path, d.place.path)
    BY <2>2, <2>3, <2>4, PrefixTransitive
  <2>. QED  BY <2>2, <2>3, <2>5 DEF IsAbove
<1>5. c.parents \in Seq(ContextOf)
  BY <1>1
<1>6. /\ contexts \in Seq(ContextOf) /\ DOMAIN contexts = 1..(Len(c.parents) + 1)
      /\ \A k \in 1..Len(c.parents) : contexts[k] = c.parents[k]
      /\ contexts[Len(c.parents) + 1] = new
      /\ Len(c.parents) \in Nat /\ DOMAIN c.parents = 1..Len(c.parents)
  BY <1>2, <1>5, ListAppend, ListHas
<1>. HIDE DEF contexts
<1>7. \A k \in DOMAIN contexts : IsAbove(contexts[k], d.place)
  <2>1. \A k \in DOMAIN contexts : k = Len(c.parents) + 1 \/ k \in 1..Len(c.parents)
    BY <1>6
  <2>. QED  BY <1>3, <1>4, <1>6, <2>1
<1>8. /\ e \in [place : Spots, units : Seq(UnitOf), parents : Seq(ContextOf)]
      /\ e.place = d.place /\ e.units = d.units /\ e.parents = contexts
  BY <1>1, <1>6
<1>. HIDE DEF e
<1>9. e \in ChunkOf
  BY <1>1, <1>7, <1>8 DEF ChunkOf
<1>. QED  BY <1>9 DEF Document!Inherited, e, contexts, new

LEMMA AbsorbStepOK ==
  ASSUME StructureInv, NEW s \in ScanOf
  PROVE  Document!AbsorbStep(s) \in ScanOf
<1>. DEFINE i == s.index
            all == s.chunks
            next1 == Document!AbsorbStep(s)
<1>1. all \in Seq(ChunkOf) /\ i \in Nat \ {0} /\ s = [chunks |-> all, index |-> i]
  BY DEF ScanOf
<1>2. CASE i + 1 > Len(all)
  BY <1>2 DEF Document!AbsorbStep
<1>3. CASE ~(i + 1 > Len(all)) /\ Document!Absorbable(all[i], all[i + 1])
  <2>1. Len(all) \in Nat /\ i \in 1..Len(all) /\ i + 1 \in 1..Len(all)
        /\ all[i] \in ChunkOf /\ all[i + 1] \in ChunkOf
    BY <1>1, <1>3, ListHas
  <2>. DEFINE d == [all[i + 1] EXCEPT !.parents = Document!Inherited(all[i])]
              given == [all EXCEPT ![i + 1].parents = Document!Inherited(all[i])]
  <2>2. d \in ChunkOf
    BY <1>3, <2>1, InheritsOK
  <2>3. given = [all EXCEPT ![i + 1] = d]
    OBVIOUS
  <2>. HIDE DEF d, given
  <2>4. given \in Seq(ChunkOf) /\ Len(given) = Len(all)
    <3>. HIDE DEF i, all
    <3>. QED  BY <1>1, <2>1, <2>2, <2>3, ExceptSeq
  <2>5. Document!RemoveAt(given, i) \in Seq(ChunkOf)
    BY <2>1, <2>4, WithoutOne
  <2>6. next1 = [chunks |-> Document!RemoveAt(given, i), index |-> IF i > 1 THEN i - 1 ELSE i]
    BY <1>3 DEF Document!AbsorbStep, given
  <2>7. (IF i > 1 THEN i - 1 ELSE i) \in Nat \ {0}
    BY <1>1
  <2>. HIDE DEF i, next1
  <2>. QED  BY <2>5, <2>6, <2>7 DEF ScanOf, next1
<1>4. CASE ~(i + 1 > Len(all)) /\ ~Document!Absorbable(all[i], all[i + 1])
  <2>1. next1 = [s EXCEPT !.index = i + 1]
    BY <1>4 DEF Document!AbsorbStep
  <2>. QED  BY <1>1, <2>1 DEF ScanOf
<1>. QED  BY <1>2, <1>3, <1>4

ScansUp(f, all) ==
  f = [turn \in 0..(2 * Len(all)) |->
         IF turn = 0 THEN [chunks |-> all, index |-> 1] ELSE Document!AbsorbStep(f[turn - 1])]

LEMMA AbsorbedSteps ==
  ASSUME StructureInv, NEW all \in Seq(ChunkOf)
  PROVE  \E f :
           /\ f[0] = [chunks |-> all, index |-> 1]
           /\ \A n \in 1..(2 * Len(all)) : f[n] = Document!AbsorbStep(f[n - 1])
           /\ \A n \in 0..(2 * Len(all)) : f[n] \in ScanOf
           /\ Document!Absorbed(all) = f[2 * Len(all)].chunks
<1>. DEFINE m == 2 * Len(all)
            first == [chunks |-> all, index |-> 1]
            g == [q \in (1..m) \X ScanOf |-> Document!AbsorbStep(q[2])]
            f == CHOOSE h : ScansUp(h, all)
<1>1. m \in Nat
  BY ListHas
<1>2. first \in ScanOf
  BY DEF ScanOf
<1>3. /\ g \in [(1..m) \X ScanOf -> ScanOf]
      /\ \A n \in 1..m, s \in ScanOf : g[<<n, s>>] = Document!AbsorbStep(s)
  <2>. HIDE DEF m
  <2>. QED  BY AbsorbStepOK
<1>. HIDE DEF g
<1>4. PICK h : Goes(h, m, ScanOf, first, g)
  <2>. HIDE DEF m, first
  <2>. QED  BY <1>1, <1>2, <1>3, StepByStep
<1>5. ScansUp(h, all)
  <2>1. /\ h \in [0..m -> ScanOf] /\ h[0] = first
        /\ \A n \in 1..m : h[n] = g[<<n, h[n - 1]>>]
    BY <1>4 DEF Goes
  <2>. HIDE DEF first
  <2>2. ASSUME NEW n \in 0..m
        PROVE  h[n] = IF n = 0 THEN first ELSE Document!AbsorbStep(h[n - 1])
    <3>. HIDE DEF m
    <3>1. CASE n = 0
      BY <2>1, <3>1
    <3>2. CASE n # 0
      <4>1. n \in 1..m /\ n - 1 \in 0..m
        BY <1>1, <3>2
      <4>2. h[n - 1] \in ScanOf
        BY <2>1, <4>1
      <4>. QED  BY <1>3, <2>1, <3>2, <4>1, <4>2
    <3>. QED  BY <3>1, <3>2
  <2>. QED  BY <2>1, <2>2 DEF ScansUp, first
<1>6. ScansUp(f, all)
  BY <1>5
<1>7. Document!Absorbed(all) = f[m].chunks
  BY DEF Document!Absorbed, ScansUp
<1>. HIDE DEF f
<1>8. f[0] = first /\ \A n \in 1..m : f[n] = Document!AbsorbStep(f[n - 1])
  <2>1. 0 \in 0..m /\ \A n \in 1..m : n \in 0..m /\ n # 0
    <3>. HIDE DEF m
    <3>. QED  BY <1>1
  <2>. QED  BY <1>6, <2>1 DEF ScansUp, first
<1>. HIDE DEF m, first
<1>. DEFINE T == {n \in 0..m : f[n] \in ScanOf}
<1>9. 0 \in T
  BY <1>1, <1>2, <1>8
<1>10. ASSUME NEW n \in 1..m, n - 1 \in T PROVE n \in T
  BY <1>1, <1>8, <1>10, AbsorbStepOK
<1>. HIDE DEF T
<1>11. \A n \in 0..m : n \in T
  BY <1>1, <1>9, <1>10, UpTo
<1>12. \A n \in 0..m : f[n] \in ScanOf
  BY <1>11 DEF T
<1>13. \E h1 : /\ h1[0] = first /\ \A n \in 1..m : h1[n] = Document!AbsorbStep(h1[n - 1])
              /\ \A n \in 0..m : h1[n] \in ScanOf
              /\ Document!Absorbed(all) = h1[m].chunks
  BY <1>7, <1>8, <1>12
<1>. QED  BY <1>13 DEF first, m

LEMMA AbsorbedOK ==
  ASSUME StructureInv, NEW all \in Seq(ChunkOf)
  PROVE  Document!Absorbed(all) \in Seq(ChunkOf)
<1>. DEFINE m == 2 * Len(all)
<1>1. PICK f : /\ \A n \in 0..m : f[n] \in ScanOf
               /\ Document!Absorbed(all) = f[m].chunks
  BY AbsorbedSteps
<1>2. m \in 0..m
  BY ListHas
<1>. QED  BY <1>1, <1>2 DEF ScanOf

-----------------------------------------------------------------------------
(* Overlaps (_attach_overlap_contexts).                                    *)

LEMMA TailFits ==
  ASSUME NEW text \in Texts, NEW limit \in Nat
  PROVE  Document!TailWithin(text, limit) \in Int /\ Document!TailWithin(text, limit) <= limit
<1>. DEFINE words == Document!FlattenSeq(text)
            last == Document!Max({0} \cup {e \in DOMAIN words : words[e] <= limit})
            Most(amounts) == Document!Max({0} \cup (amounts \cap (1..limit)))
            sentences == Most({Document!Tokens(SubSeq(text, k, Len(text))) : k \in DOMAIN text})
            run == Most({Document!Total(SubSeq(words, k, last)) : k \in 1..last})
<1>1. ASSUME NEW amounts PROVE Most(amounts) \in 0..limit
  <2>1. amounts \cap (1..limit) \in SUBSET (1..limit)
    OBVIOUS
  <2>. QED  BY <2>1, GreatestUpTo
<1>2. Document!TailWithin(text, limit) = IF sentences > 0 THEN sentences ELSE IF run > 0 THEN run ELSE limit
  BY DEF Document!TailWithin
<1>. HIDE DEF Most
<1>3. sentences \in 0..limit /\ run \in 0..limit
  BY <1>1
<1>. HIDE DEF sentences, run
<1>. QED  BY <1>2, <1>3

\* What is taken from the end of a chunk, within the limit.
TakenOf(units) ==
  {t \in [left : Nat, tokens : Int, blocks : SUBSET {units[k].block : k \in DOMAIN units}] :
     t.left + t.tokens <= Overlap}

LEMMA TakeOverlapOK ==
  ASSUME NEW units \in Seq(UnitOf), NEW k \in DOMAIN units, NEW t \in TakenOf(units)
  PROVE  Document!TakeOverlap(t, units[k]) \in TakenOf(units)
<1>. DEFINE u == units[k]
            amount == Document!TailWithin(u.text, t.left)
            rest == IF Document!Tokens(u.text) <= t.left THEN t.left - amount ELSE 0
            more == [left |-> rest, tokens |-> t.tokens + amount, blocks |-> t.blocks \cup {u.block}]
            Members == {units[l].block : l \in DOMAIN units}
<1>1. /\ t \in [left : Nat, tokens : Int, blocks : SUBSET Members] /\ t.left + t.tokens <= Overlap
      /\ Overlap \in Nat
  BY DocumentAssumption DEF TakenOf, DocumentAssumption
<1>2. u \in UnitOf /\ u.block \in Members
  BY ListHas
<1>3. u.text \in Texts
  BY <1>2 DEF UnitOf
<1>. HIDE DEF u, Members
<1>4. CASE t.left = 0 \/ u.type # "paragraph"
  BY <1>4 DEF Document!TakeOverlap, u
<1>5. CASE ~(t.left = 0 \/ u.type # "paragraph")
  <2>1. amount \in Int /\ amount <= t.left
    BY <1>1, <1>3, TailFits
  <2>2. Document!TakeOverlap(t, u) = more
    BY <1>5 DEF Document!TakeOverlap
  <2>. HIDE DEF amount
  <2>3. rest \in Nat /\ rest + (t.tokens + amount) <= Overlap
    BY <1>1, <2>1
  <2>. HIDE DEF rest
  <2>4. /\ more \in [left : Nat, tokens : Int, blocks : SUBSET Members]
        /\ more.left + more.tokens <= Overlap
    BY <1>1, <1>2, <2>1, <2>3
  <2>. HIDE DEF more
  <2>. QED  BY <2>2, <2>4 DEF TakenOf, Members, u
<1>. QED  BY <1>4, <1>5

TakesUp(f, units) ==
  f = [n \in 0..Len(units) |->
         IF n = 0 THEN [left |-> Overlap, tokens |-> 0, blocks |-> {}]
         ELSE Document!TakeOverlap(f[n - 1], units[Len(units) + 1 - n])]

LEMMA EndOfOK ==
  ASSUME NEW units \in Seq(UnitOf)
  PROVE  Document!EndOf(units) \in TakenOf(units)
<1>. DEFINE m == Len(units)
            D == TakenOf(units)
            first == [left |-> Overlap, tokens |-> 0, blocks |-> {}]
            g == [q \in (1..m) \X D |-> Document!TakeOverlap(q[2], units[m + 1 - q[1]])]
            f == CHOOSE h : TakesUp(h, units)
<1>1. m \in Nat /\ DOMAIN units = 1..m /\ \A n \in 1..m : m + 1 - n \in DOMAIN units
  BY ListHas
<1>2. first \in D
  BY DocumentAssumption DEF TakenOf, DocumentAssumption
<1>3. \A n \in 1..m, t \in D : Document!TakeOverlap(t, units[m + 1 - n]) \in D
  BY <1>1, TakeOverlapOK
<1>4. /\ g \in [(1..m) \X D -> D]
      /\ \A n \in 1..m, t \in D : g[<<n, t>>] = Document!TakeOverlap(t, units[m + 1 - n])
  <2>. HIDE DEF D, m
  <2>. QED  BY <1>3
<1>. HIDE DEF g
<1>5. PICK h : Goes(h, m, D, first, g)
  <2>. HIDE DEF m, D, first
  <2>. QED  BY <1>1, <1>2, <1>4, StepByStep
<1>6. TakesUp(h, units)
  <2>1. h \in [0..m -> D] /\ h[0] = first /\ \A n \in 1..m : h[n] = g[<<n, h[n - 1]>>]
    BY <1>5 DEF Goes
  <2>. HIDE DEF first, D
  <2>2. ASSUME NEW n \in 0..m
        PROVE  h[n] = IF n = 0 THEN first ELSE Document!TakeOverlap(h[n - 1], units[m + 1 - n])
    <3>. HIDE DEF m
    <3>1. CASE n = 0
      BY <2>1, <3>1
    <3>2. CASE n # 0
      <4>1. n \in 1..m /\ n - 1 \in 0..m
        BY <1>1, <3>2
      <4>2. h[n - 1] \in D
        BY <2>1, <4>1
      <4>. QED  BY <1>4, <2>1, <3>2, <4>1, <4>2
    <3>. QED  BY <3>1, <3>2
  <2>. QED  BY <2>1, <2>2 DEF TakesUp, first
<1>7. TakesUp(f, units)
  BY <1>6
<1>8. Document!EndOf(units) = f[m]
  BY DEF Document!EndOf, TakesUp
<1>. HIDE DEF f
<1>9. f[0] = first /\ \A n \in 1..m : f[n] = Document!TakeOverlap(f[n - 1], units[m + 1 - n])
  <2>1. 0 \in 0..m /\ \A n \in 1..m : n \in 0..m /\ n # 0
    BY <1>1
  <2>. QED  BY <1>7, <2>1 DEF TakesUp, first
<1>. HIDE DEF first, D
<1>. DEFINE T == {n \in 0..m : f[n] \in D}
<1>10. 0 \in T
  BY <1>1, <1>2, <1>9
<1>11. ASSUME NEW n \in 1..m, n - 1 \in T PROVE n \in T
  BY <1>1, <1>3, <1>9, <1>11
<1>. HIDE DEF T
<1>12. m \in T
  <2>. HIDE DEF m
  <2>1. \A n \in 0..m : n \in T
    BY <1>1, <1>10, <1>11, UpTo
  <2>. QED  BY <1>1, <2>1
<1>. QED  BY <1>8, <1>12 DEF T, D

-----------------------------------------------------------------------------
(* Chunks respect sections, zones and limits.                              *)

\* The chunks as they are written: what is above, and the overlap of each.
LEMMA ChunksAre ==
  ASSUME StructureInv
  PROVE  \E all \in Seq(ChunkOf) :
           /\ DOMAIN Document!Chunks = DOMAIN all
           /\ \A i \in DOMAIN all :
                /\ Document!Chunks[i].place = all[i].place
                /\ Document!Chunks[i].units = all[i].units
                /\ Document!Chunks[i].parents = all[i].parents
                /\ Document!Chunks[i].overlap = Document!OverlapInto(all, i)
<1>. DEFINE all == Document!Absorbed(Document!Packed)
<1>1. all \in Seq(ChunkOf)
  BY PackedOK, AbsorbedOK
<1>2. Document!Chunks = [i \in DOMAIN all |->
        [place |-> all[i].place, units |-> all[i].units, parents |-> all[i].parents,
         overlap |-> Document!OverlapInto(all, i)]]
  BY DEF Document!Chunks
<1>. HIDE DEF all
<1>3. /\ DOMAIN Document!Chunks = DOMAIN all
      /\ \A i \in DOMAIN all :
           /\ Document!Chunks[i].place = all[i].place
           /\ Document!Chunks[i].units = all[i].units
           /\ Document!Chunks[i].parents = all[i].parents
           /\ Document!Chunks[i].overlap = Document!OverlapInto(all, i)
  BY <1>2
<1>. QED  BY <1>1, <1>3

\* A chunk is of the place of its first unit.
LEMMA ChunkPlace ==
  ASSUME NEW c \in ChunkOf
  PROVE  \E k \in DOMAIN enriched : c.place = Document!Place(k)
<1>1. c.units \in Seq(UnitOf) /\ c.units # <<>> /\ UnitsCohere(c.units, c.place)
  BY DEF ChunkOf
<1>2. 1 \in DOMAIN c.units /\ c.units[1] \in UnitOf
  BY <1>1, ListHas
<1>3. c.units[1].block \in DOMAIN enriched /\ c.place = Document!Place(c.units[1].block)
  BY <1>1, <1>2 DEF UnitsCohere, UnitOf
<1>. QED  BY <1>3

LEMMA OverlapOK ==
  ASSUME StructureInv, NEW all \in Seq(ChunkOf), NEW i \in DOMAIN all,
         Document!OverlapInto(all, i) # NONE
  PROVE  LET overlap == Document!OverlapInto(all, i) IN
         /\ i - 1 \in DOMAIN all
         /\ overlap.tokens <= Overlap
         /\ overlap.blocks \subseteq {all[i - 1].units[k].block : k \in DOMAIN all[i - 1].units}
         /\ all[i - 1].place = all[i].place
<1>. DEFINE taken == Document!EndOf(all[i - 1].units)
<1>1. Document!Continues(all, i) /\ Document!OverlapInto(all, i) = [tokens |-> taken.tokens, blocks |-> taken.blocks]
  BY DEF Document!OverlapInto
<1>2. i \in DOMAIN all /\ i - 1 \in DOMAIN all /\ all[i] \in ChunkOf /\ all[i - 1] \in ChunkOf
  <2>1. Len(all) \in Nat /\ DOMAIN all = 1..Len(all) /\ \A k \in DOMAIN all : all[k] \in ChunkOf
    BY ListHas
  <2>2. i > 1
    BY <1>1 DEF Document!Continues
  <2>3. i - 1 \in DOMAIN all
    BY <2>1, <2>2
  <2>. QED  BY <2>1, <2>3
<1>3. all[i - 1].place = all[i].place
  <2>1. PICK k \in DOMAIN enriched : all[i].place = Document!Place(k)
    BY <1>2, ChunkPlace
  <2>2. PICK l \in DOMAIN enriched : all[i - 1].place = Document!Place(l)
    BY <1>2, ChunkPlace
  <2>3. enriched[k].section = enriched[l].section /\ enriched[k].zone = enriched[l].zone
    BY <1>1, <2>1, <2>2 DEF Document!Continues, Document!Place
  <2>4. enriched[k].path = enriched[l].path
    BY <2>3 DEF StructureInv, EntriesOK
  <2>. QED  BY <2>1, <2>2, <2>3, <2>4 DEF Document!Place
<1>4. taken \in TakenOf(all[i - 1].units)
  <2>1. all[i - 1].units \in Seq(UnitOf)
    BY <1>2 DEF ChunkOf
  <2>. QED  BY <2>1, EndOfOK
<1>. HIDE DEF taken
<1>5. taken.tokens <= Overlap
      /\ taken.blocks \subseteq {all[i - 1].units[k].block : k \in DOMAIN all[i - 1].units}
  <2>1. /\ taken.left \in Nat /\ taken.tokens \in Int /\ taken.left + taken.tokens <= Overlap
        /\ Overlap \in Nat
    BY <1>4, DocumentAssumption DEF TakenOf, DocumentAssumption
  <2>2. taken.blocks \subseteq {all[i - 1].units[k].block : k \in DOMAIN all[i - 1].units}
    BY <1>4 DEF TakenOf
  <2>. QED  BY <2>1, <2>2
<1>. QED  BY <1>1, <1>2, <1>3, <1>5

LEMMA CoherentOK == StructureInv => Document!ChunksCoherent
<1>. SUFFICES ASSUME StructureInv PROVE Document!ChunksCoherent
  OBVIOUS
<1>1. PICK all \in Seq(ChunkOf) :
        /\ DOMAIN Document!Chunks = DOMAIN all
        /\ \A i \in DOMAIN all :
             /\ Document!Chunks[i].place = all[i].place
             /\ Document!Chunks[i].units = all[i].units
             /\ Document!Chunks[i].parents = all[i].parents
             /\ Document!Chunks[i].overlap = Document!OverlapInto(all, i)
  BY ChunksAre
<1>2. ASSUME NEW i \in DOMAIN Document!Chunks
      PROVE  LET c == Document!Chunks[i] IN
             /\ \A k \in DOMAIN c.units : Document!Place(c.units[k].block) = c.place
             /\ Document!Size(c.units) > Maximum => Len(c.units) = 1 /\ Document!OneWord(c.units[1].text)
             /\ \A k \in DOMAIN c.parents : IsAbove(c.parents[k], c.place)
  <2>1. all[i] \in ChunkOf
    BY <1>1, <1>2, ListHas
  <2>2. /\ UnitsCohere(all[i].units, all[i].place)
        /\ \A k \in DOMAIN all[i].parents : IsAbove(all[i].parents[k], all[i].place)
    BY <2>1 DEF ChunkOf
  <2>. QED  BY <1>1, <1>2, <2>2 DEF UnitsCohere
<1>3. ASSUME NEW i \in DOMAIN Document!Chunks, Document!Chunks[i].overlap # NONE
      PROVE  LET c == Document!Chunks[i] IN
             /\ c.overlap.tokens <= Overlap
             /\ c.overlap.blocks \subseteq
                  {Document!Chunks[i - 1].units[k].block : k \in DOMAIN Document!Chunks[i - 1].units}
             /\ Document!Chunks[i - 1].place = c.place
  <2>1. i \in DOMAIN all /\ Document!Chunks[i].overlap = Document!OverlapInto(all, i)
    BY <1>1
  <2>2. /\ i - 1 \in DOMAIN all
        /\ Document!OverlapInto(all, i).tokens <= Overlap
        /\ Document!OverlapInto(all, i).blocks \subseteq
             {all[i - 1].units[k].block : k \in DOMAIN all[i - 1].units}
        /\ all[i - 1].place = all[i].place
    BY <1>3, <2>1, OverlapOK
  <2>. QED  BY <1>1, <2>1, <2>2
<1>. QED  BY <1>2, <1>3 DEF Document!ChunksCoherent, IsAbove

\* A chunk of any document stays within one section and one zone, and within the maximum
\* unless it is a single word; its contexts are small texts of the sections above it, and
\* its overlap ends the chunk before it (build_chunks).
THEOREM ChunksRespectSections == Document!StructureSpec => []ChunksCoherent
<1>1. StructureInv => ChunksCoherent
  BY CoherentOK DEF ChunksCoherent
<1>. QED  BY <1>1, StructureInvInit, StructureInvStep, PTL DEF Document!StructureSpec

-----------------------------------------------------------------------------
(* Lists of lists, one after the other.                                    *)

Flattens(f, seqs) ==
  f[0] = <<>> /\ \A n \in 1..Len(seqs) : f[n] = f[n - 1] \o seqs[n]

Joins(f, seqs) ==
  f = [n \in 1..Len(seqs) |-> IF n = 1 THEN seqs[n] ELSE f[n - 1] \o seqs[n]]

LEMMA FlattensInto ==
  ASSUME NEW D, NEW seqs \in Seq(Seq(D)), NEW f, Flattens(f, seqs)
  PROVE  \A n \in 0..Len(seqs) : f[n] \in Seq(D)
<1>. DEFINE m == Len(seqs)
            T == {n \in 0..m : f[n] \in Seq(D)}
<1>1. m \in Nat /\ \A n \in 1..m : seqs[n] \in Seq(D)
  BY ListHas
<1>2. 0 \in T
  <2>1. f[0] = <<>> /\ <<>> \in Seq(D)
    BY DEF Flattens
  <2>2. 0 \in 0..m
    BY <1>1
  <2>. QED  BY <2>1, <2>2
<1>3. ASSUME NEW n \in 1..m, n - 1 \in T PROVE n \in T
  <2>1. f[n - 1] \in Seq(D)
    BY <1>3
  <2>2. f[n] = f[n - 1] \o seqs[n]
    BY DEF Flattens
  <2>3. f[n - 1] \o seqs[n] \in Seq(D)
    BY <1>1, <2>1, ConcatProperties
  <2>4. n \in 0..m
    BY <1>1
  <2>. QED  BY <2>2, <2>3, <2>4
<1>. HIDE DEF T
<1>4. \A n \in 0..m : n \in T
  <2>. HIDE DEF m
  <2>. QED  BY <1>1, <1>2, <1>3, UpTo
<1>. QED  BY <1>4 DEF T

LEMMA FlattensOnce ==
  ASSUME NEW seqs, Len(seqs) \in Nat, NEW f, NEW h, Flattens(f, seqs), Flattens(h, seqs)
  PROVE  \A n \in 0..Len(seqs) : f[n] = h[n]
<1>. DEFINE m == Len(seqs)
            T == {n \in 0..m : f[n] = h[n]}
<1>1. 0 \in T
  BY DEF Flattens
<1>2. ASSUME NEW n \in 1..m, n - 1 \in T PROVE n \in T
  <2>1. f[n - 1] = h[n - 1]
    BY <1>2
  <2>2. f[n] = f[n - 1] \o seqs[n] /\ h[n] = h[n - 1] \o seqs[n]
    BY DEF Flattens
  <2>3. n \in 0..m
    OBVIOUS
  <2>. QED  BY <2>1, <2>2, <2>3
<1>. HIDE DEF T
<1>3. \A n \in 0..m : n \in T
  <2>. HIDE DEF m
  <2>1. m \in Nat
    BY DEF m
  <2>. QED  BY <1>1, <1>2, <2>1, UpTo
<1>. QED  BY <1>3 DEF T

LEMMA FlattensExists ==
  ASSUME NEW D, NEW seqs \in Seq(Seq(D))
  PROVE  \E f : DOMAIN f = 0..Len(seqs) /\ Flattens(f, seqs)
<1>. DEFINE m == Len(seqs)
            S == Seq(D)
            g == [q \in (1..m) \X S |-> q[2] \o seqs[q[1]]]
<1>1. m \in Nat /\ \A n \in 1..m : seqs[n] \in S
  BY ListHas
<1>2. <<>> \in S
  OBVIOUS
<1>3. \A n \in 1..m, s \in S : s \o seqs[n] \in S
  BY <1>1, ConcatProperties
<1>. HIDE DEF S
<1>4. /\ g \in [(1..m) \X S -> S]
      /\ \A n \in 1..m, s \in S : g[<<n, s>>] = s \o seqs[n]
  <2>. HIDE DEF m
  <2>. QED  BY <1>3
<1>. HIDE DEF g
<1>5. PICK h : Goes(h, m, S, <<>>, g)
  <2>. HIDE DEF m
  <2>. QED  BY <1>1, <1>2, <1>4, StepByStep
<1>6. /\ h \in [0..m -> S] /\ h[0] = <<>> /\ \A n \in 1..m : h[n] = g[<<n, h[n - 1]>>]
  BY <1>5 DEF Goes
<1>7. \A n \in 1..m : h[n] = h[n - 1] \o seqs[n]
  <2>. TAKE n \in 1..m
  <2>1. n - 1 \in 0..m
    BY <1>1
  <2>2. h[n - 1] \in S
    BY <1>6, <2>1
  <2>. QED  BY <1>4, <1>6, <2>2
<1>. QED  BY <1>6, <1>7 DEF Flattens

\* The library's FlattenSeq is the last of the partial concatenations.
LEMMA FlatIs ==
  ASSUME NEW D, NEW seqs \in Seq(Seq(D)), NEW f, Flattens(f, seqs)
  PROVE  Document!FlattenSeq(seqs) = f[Len(seqs)] /\ Document!FlattenSeq(seqs) \in Seq(D)
<1>. DEFINE m == Len(seqs)
            h == CHOOSE h : Joins(h, seqs)
<1>1. m \in Nat /\ (\A n \in 1..m : seqs[n] \in Seq(D)) /\ (seqs # <<>> <=> m >= 1)
  BY ListHas
<1>2. \A n \in 0..m : f[n] \in Seq(D)
  BY FlattensInto
<1>3. CASE m = 0
  <2>1. seqs = <<>>
    BY <1>1, <1>3
  <2>. QED  BY <1>3, <2>1 DEF Flattens, Document!FlattenSeq
<1>4. CASE m # 0
  <2>1. Document!FlattenSeq(seqs) = h[m]
    BY <1>4 DEF Document!FlattenSeq, Joins
  <2>2. \E x : Joins(x, seqs)
    <3>. DEFINE x == [n \in 1..m |-> f[n]]
    <3>1. ASSUME NEW n \in 1..m PROVE x[n] = IF n = 1 THEN seqs[n] ELSE x[n - 1] \o seqs[n]
      <4>1. x[n] = f[n - 1] \o seqs[n]
        BY DEF Flattens
      <4>2. CASE n = 1
        <5>1. f[n - 1] = <<>>
          BY <4>2 DEF Flattens
        <5>2. <<>> \o seqs[n] = seqs[n]
          BY <1>1, ConcatEmptySeq
        <5>. QED  BY <4>1, <4>2, <5>1, <5>2
      <4>3. CASE n # 1
        <5>1. n - 1 \in 1..m
          BY <1>1, <4>3
        <5>2. x[n - 1] = f[n - 1]
          BY <5>1
        <5>. QED  BY <4>1, <4>3, <5>2
      <4>. QED  BY <4>2, <4>3
    <3>2. x = [n \in 1..m |-> x[n]]
      OBVIOUS
    <3>. HIDE DEF x
    <3>3. Joins(x, seqs)
      BY <3>1, <3>2 DEF Joins
    <3>. QED  BY <3>3
  <2>3. Joins(h, seqs)
    BY <2>2
  <2>. HIDE DEF h
  <2>4. \A n \in 1..m : h[n] = IF n = 1 THEN seqs[n] ELSE h[n - 1] \o seqs[n]
    BY <2>3 DEF Joins
  <2>. DEFINE all == [n \in 0..m |-> IF n = 0 THEN <<>> ELSE h[n]]
  <2>5. all[0] = <<>> /\ \A n \in 1..m : all[n] = h[n]
    BY <1>1
  <2>. HIDE DEF all
  <2>6. Flattens(all, seqs)
    <3>1. ASSUME NEW n \in 1..m PROVE all[n] = all[n - 1] \o seqs[n]
      <4>1. CASE n = 1
        <5>1. all[n - 1] = <<>> /\ all[n] = seqs[n]
          BY <2>4, <2>5, <4>1
        <5>2. <<>> \o seqs[n] = seqs[n]
          BY <1>1, ConcatEmptySeq
        <5>. QED  BY <5>1, <5>2
      <4>2. CASE n # 1
        <5>1. n - 1 \in 1..m
          BY <1>1, <4>2
        <5>2. all[n - 1] = h[n - 1]
          BY <2>5, <5>1
        <5>. QED  BY <2>4, <2>5, <4>2, <5>2
      <4>. QED  BY <4>1, <4>2
    <3>. QED  BY <2>5, <3>1 DEF Flattens
  <2>7. m \in 0..m /\ m \in 1..m
    BY <1>1, <1>4
  <2>8. all[m] = f[m]
    BY <1>1, <2>6, <2>7, FlattensOnce
  <2>. QED  BY <1>2, <2>1, <2>5, <2>7, <2>8
<1>. QED  BY <1>3, <1>4

LEMMA FlatAppend ==
  ASSUME NEW D, NEW seqs \in Seq(Seq(D)), NEW s \in Seq(D)
  PROVE  Document!FlattenSeq(Append(seqs, s)) = Document!FlattenSeq(seqs) \o s
<1>. DEFINE m == Len(seqs)
            longer == Append(seqs, s)
<1>1. /\ m \in Nat /\ longer \in Seq(Seq(D)) /\ Len(longer) = m + 1
      /\ \A n \in 1..m : longer[n] = seqs[n]
      /\ longer[m + 1] = s
  BY ListHas, ListAppend
<1>. HIDE DEF longer
<1>2. PICK f : Flattens(f, longer)
  BY <1>1, FlattensExists
<1>3. Flattens(f, seqs)
  <2>1. \A n \in 1..m : n \in 1..Len(longer)
    BY <1>1
  <2>. QED  BY <1>1, <1>2, <2>1 DEF Flattens
<1>4. Document!FlattenSeq(seqs) = f[m] /\ Document!FlattenSeq(longer) = f[m + 1]
  BY <1>1, <1>2, <1>3, FlatIs
<1>5. f[m + 1] = f[m] \o s
  <2>1. m + 1 \in 1..Len(longer) /\ (m + 1) - 1 = m
    BY <1>1
  <2>2. f[m + 1] = f[(m + 1) - 1] \o longer[m + 1]
    BY <1>2, <2>1 DEF Flattens
  <2>. QED  BY <1>1, <2>1, <2>2
<1>. QED  BY <1>4, <1>5 DEF longer

LEMMA FlatNothing == Document!FlattenSeq(<<>>) = <<>>
BY DEF Document!FlattenSeq

Joined(a, b, c) == (a \o b) \o c = a \o (b \o c)

LEMMA JoinThree ==
  ASSUME NEW D, NEW a \in Seq(D), NEW b \in Seq(D), NEW c \in Seq(D)
  PROVE  Joined(a, b, c)
BY ConcatAssociative DEF Joined

\* Two neighbours that become one list change nothing.
LEMMA FlatMerge ==
  ASSUME NEW D, NEW seqs \in Seq(Seq(D)), NEW less \in Seq(Seq(D)),
         NEW i \in 1..Len(less), Len(seqs) = Len(less) + 1,
         \A n \in 1..(i - 1) : less[n] = seqs[n],
         less[i] = seqs[i] \o seqs[i + 1],
         \A n \in (i + 1)..Len(less) : less[n] = seqs[n + 1]
  PROVE  Document!FlattenSeq(less) = Document!FlattenSeq(seqs)
<1>. DEFINE m == Len(less)
<1>1. m \in Nat /\ \A n \in 1..(m + 1) : seqs[n] \in Seq(D)
  BY ListHas
<1>2. PICK f : Flattens(f, seqs)
  BY FlattensExists
<1>3. \A n \in 0..(m + 1) : f[n] \in Seq(D)
  BY <1>2, FlattensInto
<1>4. f[0] = <<>> /\ \A n \in 1..(m + 1) : f[n] = f[n - 1] \o seqs[n]
  BY <1>2 DEF Flattens
<1>. DEFINE h == [n \in 0..m |-> IF n < i THEN f[n] ELSE f[n + 1]]
<1>5. \A n \in 0..m : (n < i => h[n] = f[n]) /\ (~(n < i) => h[n] = f[n + 1])
  OBVIOUS
<1>6. i \in Nat /\ i >= 1 /\ i <= m
  BY <1>1
<1>. HIDE DEF h
<1>7. ASSUME NEW n \in 1..m PROVE h[n] = h[n - 1] \o less[n]
  <2>1. CASE n < i
    <3>1. n - 1 \in 0..m /\ n - 1 < i /\ n \in 0..m /\ n \in 1..(i - 1) /\ n \in 1..(m + 1)
      BY <1>1, <1>6, <2>1
    <3>2. h[n] = f[n] /\ h[n - 1] = f[n - 1]
      BY <1>5, <2>1, <3>1
    <3>3. less[n] = seqs[n] /\ f[n] = f[n - 1] \o seqs[n]
      BY <1>4, <3>1
    <3>. QED  BY <3>2, <3>3
  <2>2. CASE n = i
    <3>. HIDE DEF m
    <3>1. /\ i - 1 \in 0..m /\ i - 1 < i /\ i \in 0..m /\ ~(i < i)
          /\ i \in 1..(m + 1) /\ i + 1 \in 1..(m + 1) /\ (i + 1) - 1 = i
      <4>1. i - 1 \in 0..m /\ i \in 0..m
        BY <1>1, <1>6
      <4>2. i \in 1..(m + 1) /\ i + 1 \in 1..(m + 1)
        BY <1>1, <1>6
      <4>3. i - 1 < i /\ ~(i < i) /\ (i + 1) - 1 = i
        BY <1>6
      <4>. QED  BY <4>1, <4>2, <4>3
    <3>2. h[i] = f[i + 1] /\ h[i - 1] = f[i - 1]
      BY <1>5, <3>1
    <3>3. f[i + 1] = f[(i + 1) - 1] \o seqs[i + 1] /\ f[i] = f[i - 1] \o seqs[i]
      BY <1>4, <3>1
    <3>4. i - 1 \in 0..(m + 1)
      BY <1>1, <3>1
    <3>5. f[i - 1] \in Seq(D) /\ seqs[i] \in Seq(D) /\ seqs[i + 1] \in Seq(D)
      BY <1>1, <1>3, <3>1, <3>4
    <3>6. (f[i - 1] \o seqs[i]) \o seqs[i + 1] = f[i - 1] \o (seqs[i] \o seqs[i + 1])
      <4>1. Joined(f[i - 1], seqs[i], seqs[i + 1])
        BY <3>5, JoinThree
      <4>. QED  BY <4>1 DEF Joined
    <3>7. h[i] = h[i - 1] \o less[i]
      BY <3>1, <3>2, <3>3, <3>6
    <3>. QED  BY <2>2, <3>7
  <2>3. CASE n > i
    <3>. HIDE DEF m
    <3>1. /\ n - 1 \in 0..m /\ ~(n - 1 < i) /\ n \in 0..m /\ ~(n < i)
          /\ n \in (i + 1)..m /\ n + 1 \in 1..(m + 1)
          /\ (n + 1) - 1 = n /\ (n - 1) + 1 = n
      <4>1. n \in Nat /\ i + 1 <= n /\ n <= m
        BY <1>1, <1>6, <2>3
      <4>2. n - 1 \in 0..m /\ n \in 0..m
        BY <1>1, <1>6, <4>1
      <4>3. n \in (i + 1)..m /\ n + 1 \in 1..(m + 1)
        BY <1>1, <1>6, <4>1
      <4>4. ~(n - 1 < i) /\ ~(n < i)
        BY <1>6, <4>1
      <4>5. (n + 1) - 1 = n /\ (n - 1) + 1 = n
        BY <4>1
      <4>. QED  BY <4>2, <4>3, <4>4, <4>5
    <3>2. h[n] = f[n + 1] /\ h[n - 1] = f[(n - 1) + 1]
      BY <1>5, <3>1
    <3>3. less[n] = seqs[n + 1]
      BY <3>1 DEF m
    <3>4. f[n + 1] = f[(n + 1) - 1] \o seqs[n + 1]
      BY <1>4, <3>1
    <3>5. f[(n - 1) + 1] = f[n] /\ f[(n + 1) - 1] = f[n]
      BY <3>1
    <3>. QED  BY <3>2, <3>3, <3>4, <3>5
  <2>4. n < i \/ n = i \/ n > i
    BY <1>1, <1>6
  <2>. QED  BY <2>1, <2>2, <2>3, <2>4
<1>8. Flattens(h, less)
  <2>1. 0 \in 0..m /\ 0 < i
    BY <1>1, <1>6
  <2>2. h[0] = <<>>
    BY <1>4, <1>5, <2>1
  <2>. QED  BY <1>7, <2>2 DEF Flattens
<1>9. Document!FlattenSeq(less) = h[m]
  BY <1>8, FlatIs
<1>10. Document!FlattenSeq(seqs) = f[m + 1]
  BY <1>2, FlatIs
<1>11. m \in 0..m /\ ~(m < i)
  BY <1>1, <1>6
<1>. QED  BY <1>5, <1>9, <1>10, <1>11

-----------------------------------------------------------------------------
(* Sections come in the order in which they were opened.                   *)

Rank(section) == IF section = NONE THEN 0 ELSE section

\* A section of the stack is named by the titles up to it, and has an entry.
Named(open) ==
  \A i \in DOMAIN open :
    Len(open[i].path) = i /\ \A j \in 1..i : open[i].path[j] = open[j].title
Seen(open) ==
  \A i \in DOMAIN open :
    \E k \in DOMAIN enriched : enriched[k].section = open[i].id /\ enriched[k].path = open[i].path

\* An earlier section stands at the first n titles of the path.
Ancestor(e, n) ==
  \E l \in DOMAIN enriched :
    /\ enriched[l].path = SubSeq(e.path, 1, n)
    /\ enriched[l].section \in Nat /\ enriched[l].section < e.section

StackOrdered ==
  /\ stack = <<>> => sections = 0
  /\ stack # <<>> => sections >= 1 /\ stack[Len(stack)].id = sections
  /\ Named(stack) /\ Seen(stack)

EntriesOrdered ==
  /\ \A k, l \in DOMAIN enriched : k <= l => Rank(enriched[k].section) <= Rank(enriched[l].section)
  /\ \A k \in DOMAIN enriched : Rank(enriched[k].section) <= sections
  /\ \A k \in DOMAIN enriched :
       enriched[k].section # NONE => enriched[k].section >= 1 /\ enriched[k].path # <<>>
  /\ \A k \in DOMAIN enriched : \A n \in 1..(Len(enriched[k].path) - 1) : Ancestor(enriched[k], n)

OrderInv == StructureInv /\ StackOrdered /\ EntriesOrdered

LEMMA OrderInvInit == Document!StructureInit => OrderInv
<1>. SUFFICES ASSUME Document!StructureInit PROVE OrderInv
  OBVIOUS
<1>1. StructureInv
  BY StructureInvInit
<1>2. stack = <<>> /\ sections = 0 /\ enriched = <<>>
  BY DEF Document!StructureInit
<1>3. DOMAIN stack = {} /\ DOMAIN enriched = {}
  BY <1>2
<1>4. StackOrdered
  BY <1>2, <1>3 DEF StackOrdered, Named, Seen
<1>5. EntriesOrdered
  BY <1>3 DEF EntriesOrdered
<1>. QED  BY <1>1, <1>4, <1>5 DEF OrderInv

\* The first titles of a path of the stack are the path of a section above it.
LEMMA PathAbove ==
  ASSUME NEW open \in Seq(Level), NEW m \in 0..Len(stack), NEW n \in 1..m,
         stack \in Seq(Level), Named(stack),
         NEW path \in Seq(Titles), Len(path) = m + 1,
         \A i \in 1..m : path[i] = stack[i].title
  PROVE  SubSeq(path, 1, n) = stack[n].path
<1>1. /\ Len(stack) \in Nat /\ DOMAIN stack = 1..Len(stack)
      /\ \A i \in 1..Len(stack) : stack[i] \in Level
  BY ListHas
<1>2. n \in 1..Len(stack) /\ n \in Nat /\ n >= 1 /\ m \in Nat /\ n <= m
  BY <1>1
<1>3. stack[n].path \in Seq(Titles) /\ Len(stack[n].path) = n
      /\ \A j \in 1..n : stack[n].path[j] = stack[j].title
  BY <1>1, <1>2 DEF Named, Level
<1>4. \A j \in 1..(m + 1) : path[j] \in Titles
  BY ListHas
<1>5. /\ SubSeq(path, 1, n) \in Seq(Titles) /\ Len(SubSeq(path, 1, n)) = n
      /\ \A j \in 1..n : SubSeq(path, 1, n)[j] = path[j]
  <2>1. \A j \in 1..n : path[j] \in Titles
    BY <1>2, <1>4
  <2>2. n \in Int /\ n - 1 + 1 = n /\ 1 <= n /\ \A j \in 1..n : 1 + j - 1 = j
    BY <1>2
  <2>3. /\ SubSeq(path, 1, n) \in Seq(Titles)
        /\ Len(SubSeq(path, 1, n)) = IF 1 <= n THEN n - 1 + 1 ELSE 0
        /\ \A j \in 1..(n - 1 + 1) : SubSeq(path, 1, n)[j] = path[1 + j - 1]
    BY <2>1, <2>2, SubSeqProperties
  <2>. QED  BY <2>2, <2>3
<1>6. \A j \in 1..n : SubSeq(path, 1, n)[j] = stack[n].path[j]
  <2>1. \A j \in 1..n : j \in 1..m
    BY <1>2
  <2>. QED  BY <1>3, <1>5, <2>1
<1>. QED  BY <1>3, <1>5, <1>6, SeqEqual

\* The entry that is read goes last, in the last section.
LEMMA LastEntry ==
  ASSUME EntriesOK(sections), EntriesOrdered, sections \in Nat,
         NEW amount \in Nat, sections <= amount,
         NEW e \in Entry, enriched' = Append(enriched, e), Rank(e.section) = amount,
         e.section # NONE => e.section >= 1 /\ e.path # <<>>,
         \A n \in 1..(Len(e.path) - 1) : Ancestor(e, n)
  PROVE  /\ \A k, l \in DOMAIN enriched' :
              k <= l => Rank(enriched'[k].section) <= Rank(enriched'[l].section)
         /\ \A k \in DOMAIN enriched' : Rank(enriched'[k].section) <= amount
         /\ \A k \in DOMAIN enriched' :
              enriched'[k].section # NONE => enriched'[k].section >= 1 /\ enriched'[k].path # <<>>
         /\ \A k \in DOMAIN enriched' :
              \A n \in 1..(Len(enriched'[k].path) - 1) : Ancestor(enriched[k], n)'
<1>. DEFINE m == Len(enriched)
            after == enriched'
<1>1. /\ enriched \in Seq(Entry) /\ m \in Nat /\ DOMAIN enriched = 1..m
      /\ \A k \in 1..m : enriched[k] \in Entry
  BY ListHas DEF EntriesOK
<1>2. /\ after \in Seq(Entry) /\ DOMAIN after = 1..(m + 1)
      /\ \A k \in 1..m : after[k] = enriched[k]
      /\ after[m + 1] = e
  BY <1>1, ListAppend
<1>. HIDE DEF m, after
<1>3. \A k \in 1..(m + 1) : k = m + 1 \/ k \in 1..m
  BY <1>1
<1>4. ASSUME NEW k \in 1..m PROVE Rank(enriched[k].section) \in Nat /\ Rank(enriched[k].section) <= sections
  <2>1. enriched[k].section \in Nat \cup {NONE}
    BY <1>1 DEF Entry
  <2>. QED  BY <1>1, <2>1 DEF Rank, EntriesOrdered
<1>5. ASSUME NEW k \in 1..(m + 1), NEW l \in 1..(m + 1), k <= l
      PROVE  Rank(after[k].section) <= Rank(after[l].section)
  <2>1. CASE l = m + 1 /\ k = m + 1
    BY <1>2, <2>1
  <2>2. CASE l = m + 1 /\ k \in 1..m
    BY <1>2, <1>4, <2>2
  <2>3. CASE l \in 1..m /\ k \in 1..m
    <3>1. Rank(enriched[k].section) <= Rank(enriched[l].section)
      BY <1>1, <1>5, <2>3 DEF EntriesOrdered
    <3>. QED  BY <1>2, <2>3, <3>1
  <2>4. ~(l \in 1..m /\ k = m + 1)
    BY <1>1, <1>5
  <2>. QED  BY <1>3, <2>1, <2>2, <2>3, <2>4
<1>6. ASSUME NEW k \in 1..(m + 1)
      PROVE  /\ Rank(after[k].section) <= amount
             /\ after[k].section # NONE => after[k].section >= 1 /\ after[k].path # <<>>
  <2>1. CASE k = m + 1
    BY <1>2, <2>1
  <2>2. CASE k \in 1..m
    <3>1. Rank(enriched[k].section) <= amount
      BY <1>4, <2>2
    <3>2. enriched[k].section # NONE => enriched[k].section >= 1 /\ enriched[k].path # <<>>
      BY <1>1, <2>2 DEF EntriesOrdered
    <3>. QED  BY <1>2, <2>2, <3>1, <3>2
  <2>. QED  BY <1>3, <2>1, <2>2
<1>7. ASSUME NEW k \in 1..(m + 1), NEW n \in 1..(Len(after[k].path) - 1)
      PROVE  \E l \in DOMAIN after :
               /\ after[l].path = SubSeq(after[k].path, 1, n)
               /\ after[l].section \in Nat /\ after[l].section < after[k].section
  <2>. DEFINE x == after[k]
  <2>1. \E l \in 1..m : /\ enriched[l].path = SubSeq(x.path, 1, n)
                        /\ enriched[l].section \in Nat /\ enriched[l].section < x.section
    <3>1. CASE k = m + 1
      <4>1. x = e /\ Ancestor(e, n)
        BY <1>2, <1>7, <3>1
      <4>. QED  BY <1>1, <4>1 DEF Ancestor
    <3>2. CASE k \in 1..m
      <4>1. x = enriched[k]
        BY <1>2, <3>2
      <4>2. Ancestor(x, n)
        BY <1>1, <1>7, <3>2, <4>1 DEF EntriesOrdered
      <4>. QED  BY <1>1, <4>2 DEF Ancestor
    <3>. QED  BY <1>3, <3>1, <3>2
  <2>. HIDE DEF x
  <2>2. PICK l \in 1..m : /\ enriched[l].path = SubSeq(x.path, 1, n)
                          /\ enriched[l].section \in Nat /\ enriched[l].section < x.section
    BY <2>1
  <2>3. l \in 1..(m + 1) /\ after[l] = enriched[l]
    BY <1>1, <1>2
  <2>. QED  BY <1>2, <2>2, <2>3 DEF x
<1>8. \A k \in DOMAIN after : \A n \in 1..(Len(after[k].path) - 1) : Ancestor(enriched[k], n)'
  <2>. TAKE k \in DOMAIN after
  <2>. TAKE n \in 1..(Len(after[k].path) - 1)
  <2>1. \E l \in DOMAIN after :
          /\ after[l].path = SubSeq(after[k].path, 1, n)
          /\ after[l].section \in Nat /\ after[l].section < after[k].section
    BY <1>2, <1>7
  <2>. QED  BY <2>1 DEF Ancestor, after
<1>. QED  BY <1>2, <1>5, <1>6, <1>8 DEF after

LEMMA SeenStays ==
  ASSUME EntriesOK(sections), NEW e \in Entry, enriched' = Append(enriched, e),
         NEW open, DOMAIN open \subseteq Nat,
         \A i \in DOMAIN open :
           \/ e.section = open[i].id /\ e.path = open[i].path
           \/ \E k \in DOMAIN enriched :
                enriched[k].section = open[i].id /\ enriched[k].path = open[i].path
  PROVE  Seen(open)'
<1>. DEFINE m == Len(enriched)
            after == enriched'
<1>1. /\ enriched \in Seq(Entry) /\ m \in Nat /\ DOMAIN enriched = 1..m
  BY ListHas DEF EntriesOK
<1>2. /\ DOMAIN after = 1..(m + 1)
      /\ \A k \in 1..m : after[k] = enriched[k]
      /\ after[m + 1] = e
  BY <1>1, ListAppend
<1>. HIDE DEF m, after
<1>3. m + 1 \in 1..(m + 1) /\ \A k \in 1..m : k \in 1..(m + 1)
  BY <1>1
<1>4. ASSUME NEW i \in DOMAIN open
      PROVE  \E k \in DOMAIN after : after[k].section = open[i].id /\ after[k].path = open[i].path
  <2>1. CASE e.section = open[i].id /\ e.path = open[i].path
    BY <1>2, <1>3, <2>1
  <2>2. CASE \E k \in DOMAIN enriched :
               enriched[k].section = open[i].id /\ enriched[k].path = open[i].path
    <3>1. PICK k \in 1..m : enriched[k].section = open[i].id /\ enriched[k].path = open[i].path
      BY <1>1, <2>2
    <3>. QED  BY <1>2, <1>3, <3>1
  <2>. QED  BY <2>1, <2>2
<1>. QED  BY <1>4 DEF Seen, after

LEMMA OrderInvStep ==
  OrderInv /\ [Document!ReadBlock]_(Document!structureVars) => OrderInv'
<1>. SUFFICES ASSUME OrderInv, [Document!ReadBlock]_(Document!structureVars)
              PROVE  OrderInv'
  OBVIOUS
<1>1. StructureInv /\ StructureInv'
  BY StructureInvStep DEF OrderInv
<1>2. CASE UNCHANGED Document!structureVars
  <2>1. UNCHANGED <<stack, sections, enriched>>
    BY <1>2 DEF Document!structureVars
  <2>2. StackOrdered'
    BY <2>1 DEF OrderInv, StackOrdered, Named, Seen
  <2>3. EntriesOrdered'
    BY <2>1 DEF OrderInv, EntriesOrdered, Ancestor
  <2>. QED  BY <1>1, <2>2, <2>3 DEF OrderInv
<1>3. CASE Document!ReadBlock
  <2>1. PICK e \in Entry : enriched' = Append(enriched, e) /\ Placed(e, stack')
    BY <1>1, <1>3, ReadParts
  <2>2. /\ \/ stack' = stack /\ sections' = sections
           \/ \E b \in Blocks : stack' = Document!Stack(b) /\ sections' = sections + 1
        /\ sections' \in Nat
    BY <1>1, <1>3, ReadParts
  <2>3. /\ sections \in Nat /\ stack \in Seq(Level) /\ EntriesOK(sections) /\ StackOrdered
        /\ EntriesOrdered /\ Len(stack) \in Nat /\ DOMAIN stack = 1..Len(stack)
        /\ \A i \in 1..Len(stack) : stack[i] \in Level
    BY <1>1, ListHas DEF OrderInv, StructureInv, OpenOK
  <2>4. CASE stack' = stack /\ sections' = sections
    <3>1. CASE stack = <<>>
      <4>1. e.section = NONE /\ e.path = <<>> /\ sections = 0 /\ DOMAIN stack = {}
        BY <2>1, <2>3, <2>4, <3>1 DEF Placed, StackOrdered
      <4>2. Rank(e.section) = sections /\ Len(e.path) = 0
        BY <4>1 DEF Rank
      <4>3. \A n \in 1..(Len(e.path) - 1) : Ancestor(e, n)
        BY <4>2
      <4>4. EntriesOrdered'
        BY <2>1, <2>3, <2>4, <4>1, <4>2, <4>3, LastEntry DEF EntriesOrdered
      <4>5. StackOrdered'
        BY <2>4, <3>1, <4>1 DEF StackOrdered, Named, Seen
      <4>. QED  BY <1>1, <4>4, <4>5 DEF OrderInv
    <3>2. CASE stack # <<>>
      <4>. DEFINE top == Len(stack)
      <4>1. top \in 1..Len(stack) /\ e.section = stack[top].id /\ e.path = stack[top].path
        BY <2>1, <2>3, <2>4, <3>2, ListHas DEF Placed
      <4>2. sections >= 1 /\ e.section = sections /\ e.section \in Nat /\ e.section # NONE
        <5>1. sections >= 1 /\ stack[top].id = sections
          BY <2>3, <3>2 DEF StackOrdered
        <5>. QED  BY <2>3, <4>1, <5>1, AbsentAssumption
      <4>3. PICK k \in DOMAIN enriched : enriched[k].section = e.section /\ enriched[k].path = e.path
        BY <2>3, <4>1 DEF StackOrdered, Seen
      <4>4. e.path # <<>>
        BY <2>3, <4>2, <4>3 DEF EntriesOrdered
      <4>5. \A n \in 1..(Len(e.path) - 1) : Ancestor(e, n)
        BY <2>3, <4>3 DEF EntriesOrdered, Ancestor
      <4>6. Rank(e.section) = sections
        BY <4>2 DEF Rank
      <4>7. EntriesOrdered'
        <5>1. sections <= sections /\ e.section >= 1
          BY <2>3, <4>2
        <5>. QED  BY <2>1, <2>3, <2>4, <4>4, <4>5, <4>6, <5>1, LastEntry DEF EntriesOrdered
      <4>8. Seen(stack)'
        <5>1. \A i \in DOMAIN stack : \E l \in DOMAIN enriched :
                enriched[l].section = stack[i].id /\ enriched[l].path = stack[i].path
          BY <2>3 DEF StackOrdered, Seen
        <5>2. PICK open : stack' = open /\ stack = open
          BY <2>4
        <5>3. Seen(open)'
          <6>1. DOMAIN open \subseteq Nat
            BY <2>3, <5>2
          <6>. QED  BY <2>1, <2>3, <5>1, <5>2, <6>1, SeenStays
        <5>. QED  BY <5>2, <5>3 DEF Seen
      <4>9. StackOrdered'
        BY <2>3, <2>4, <3>2, <4>8 DEF StackOrdered, Named
      <4>. QED  BY <1>1, <4>7, <4>9 DEF OrderInv
    <3>. QED  BY <3>1, <3>2
  <2>5. CASE \E b \in Blocks : stack' = Document!Stack(b) /\ sections' = sections + 1
    <3>1. PICK b \in Blocks : stack' = Document!Stack(b) /\ sections' = sections + 1
      BY <2>5
    <3>2. PICK m \in 0..Len(stack) : Opens(b, Document!Stack(b), m)
      BY <1>1, StackIs
    <3>3. PICK open : stack' = open /\ open = Document!Stack(b)
      BY <3>1
    <3>4. /\ open \in Seq(Level) /\ open # <<>> /\ Len(open) = m + 1 /\ DOMAIN open = 1..(m + 1)
          /\ \A i \in 1..m : open[i] = stack[i]
          /\ open[m + 1].id = sections + 1 /\ open[m + 1].title = b.title
          /\ Len(open[m + 1].path) = m + 1 /\ open[m + 1].path[m + 1] = b.title
          /\ \A i \in 1..m : open[m + 1].path[i] = stack[i].title
      BY <3>2, <3>3 DEF Opens
    <3>5. m \in Nat /\ \A i \in 1..(m + 1) : i = m + 1 \/ i \in 1..m
      BY <2>3
    <3>6. \A i \in 1..m : i \in 1..Len(stack)
      BY <2>3
    <3>7. e.section = sections + 1 /\ e.path = open[m + 1].path
      BY <2>1, <3>3, <3>4 DEF Placed
    <3>8. e.path \in Seq(Titles) /\ Len(e.path) = m + 1 /\ e.path # <<>>
      <4>1. e.path \in Seq(Titles)
        BY DEF Entry
      <4>. QED  BY <3>4, <3>5, <3>7, <4>1, ListHas
    <3>9. e.section # NONE /\ e.section >= 1 /\ Rank(e.section) = sections + 1
      BY <2>3, <3>7, AbsentAssumption DEF Rank
    <3>10. ASSUME NEW n \in 1..(Len(e.path) - 1) PROVE Ancestor(e, n)
      <4>1. n \in 1..m
        BY <3>5, <3>8
      <4>2. SubSeq(e.path, 1, n) = stack[n].path
        <5>1. Named(stack)
          BY <2>3 DEF StackOrdered
        <5>2. \A i \in 1..m : e.path[i] = stack[i].title
          BY <3>4, <3>7
        <5>. QED  BY <2>3, <3>8, <4>1, <5>1, <5>2, PathAbove
      <4>3. PICK k \in DOMAIN enriched :
              enriched[k].section = stack[n].id /\ enriched[k].path = stack[n].path
        BY <2>3, <3>6, <4>1 DEF StackOrdered, Seen
      <4>4. stack[n].id \in Nat /\ stack[n].id <= sections
        BY <1>1, <2>3, <3>6, <4>1 DEF StructureInv, OpenOK, Level
      <4>5. enriched[k].section < e.section
        BY <2>3, <3>7, <4>3, <4>4
      <4>. QED  BY <4>2, <4>3, <4>4, <4>5 DEF Ancestor
    <3>11. EntriesOrdered'
      <4>1. sections + 1 \in Nat /\ sections <= sections + 1
        BY <2>3
      <4>. QED  BY <2>1, <2>3, <3>1, <3>8, <3>9, <3>10, <4>1, LastEntry DEF EntriesOrdered
    <3>12. Seen(open)'
      <4>1. DOMAIN open \subseteq Nat
        BY <3>4
      <4>2. ASSUME NEW i \in DOMAIN open
            PROVE  \/ e.section = open[i].id /\ e.path = open[i].path
                   \/ \E k \in DOMAIN enriched :
                        enriched[k].section = open[i].id /\ enriched[k].path = open[i].path
        <5>1. CASE i = m + 1
          BY <3>4, <3>7, <5>1
        <5>2. CASE i \in 1..m
          <6>1. open[i] = stack[i] /\ i \in DOMAIN stack
            BY <2>3, <3>4, <3>6, <5>2
          <6>. QED  BY <2>3, <6>1 DEF StackOrdered, Seen
        <5>. QED  BY <3>4, <3>5, <5>1, <5>2
      <4>. QED  BY <2>1, <2>3, <4>1, <4>2, SeenStays
    <3>13. Named(open)
      <4>1. ASSUME NEW i \in 1..(m + 1)
            PROVE  Len(open[i].path) = i /\ \A j \in 1..i : open[i].path[j] = open[j].title
        <5>1. CASE i = m + 1
          <6>1. \A j \in 1..m : open[i].path[j] = open[j].title
            BY <3>4, <5>1
          <6>2. \A j \in 1..i : j = m + 1 \/ j \in 1..m
            BY <3>5, <5>1
          <6>. QED  BY <3>4, <5>1, <6>1, <6>2
        <5>2. CASE i \in 1..m
          <6>1. i \in DOMAIN stack /\ open[i] = stack[i]
            BY <2>3, <3>4, <3>6, <5>2
          <6>2. \A j \in 1..i : j \in 1..m
            BY <3>5, <5>2
          <6>3. Len(stack[i].path) = i /\ \A j \in 1..i : stack[i].path[j] = stack[j].title
            BY <2>3, <6>1 DEF StackOrdered, Named
          <6>. QED  BY <3>4, <6>1, <6>2, <6>3
        <5>. QED  BY <3>5, <5>1, <5>2
      <4>. QED  BY <3>4, <4>1 DEF Named
    <3>14. StackOrdered'
      <4>1. Seen(stack)'
        BY <3>3, <3>12 DEF Seen
      <4>2. Named(stack')
        BY <3>3, <3>13
      <4>3. stack' # <<>> /\ stack'[Len(stack')].id = sections' /\ sections' >= 1
        BY <2>3, <3>1, <3>3, <3>4
      <4>4. Named(stack)'
        BY <4>2 DEF Named
      <4>. QED  BY <4>1, <4>3, <4>4 DEF StackOrdered
    <3>. QED  BY <1>1, <3>11, <3>14 DEF OrderInv
  <2>. QED  BY <2>2, <2>4, <2>5
<1>. QED  BY <1>2, <1>3

-----------------------------------------------------------------------------
(* Packing keeps every unit, in order.                                     *)

LEMMA MapAppend ==
  ASSUME NEW D, NEW E, NEW w \in [D -> E], NEW s \in Seq(D)
  PROVE  /\ [i \in DOMAIN s |-> w[s[i]]] \in Seq(E)
         /\ Len([i \in DOMAIN s |-> w[s[i]]]) = Len(s)
         /\ \A x \in D : [i \in DOMAIN Append(s, x) |-> w[Append(s, x)[i]]]
                         = Append([i \in DOMAIN s |-> w[s[i]]], w[x])
<1>. DEFINE mapped == [i \in DOMAIN s |-> w[s[i]]]
            m == Len(s)
<1>1. m \in Nat /\ DOMAIN s = 1..m /\ \A i \in 1..m : s[i] \in D
  BY ListHas
<1>2. mapped \in [1..m -> E] /\ \A i \in 1..m : mapped[i] = w[s[i]]
  BY <1>1
<1>. HIDE DEF mapped
<1>3. mapped \in Seq(E) /\ Len(mapped) = m
  BY <1>1, <1>2, ListOf
<1>4. ASSUME NEW x \in D
      PROVE  [i \in DOMAIN Append(s, x) |-> w[Append(s, x)[i]]] = Append(mapped, w[x])
  <2>. DEFINE longer == Append(s, x)
              both == [i \in DOMAIN longer |-> w[longer[i]]]
              after == Append(mapped, w[x])
  <2>1. /\ DOMAIN longer = 1..(m + 1)
        /\ \A i \in 1..m : longer[i] = s[i]
        /\ longer[m + 1] = x
    BY ListAppend
  <2>2. w[x] \in E
    OBVIOUS
  <2>3. /\ after \in Seq(E) /\ Len(after) = m + 1
        /\ \A i \in 1..m : after[i] = mapped[i]
        /\ after[m + 1] = w[x]
    BY <1>3, <2>2, ListAppend
  <2>4. DOMAIN both = 1..(m + 1) /\ \A i \in 1..(m + 1) : both[i] = w[longer[i]]
    BY <2>1
  <2>5. both = [i \in 1..(m + 1) |-> both[i]]
    BY <2>4
  <2>. HIDE DEF both, after, longer
  <2>6. \A i \in 1..(m + 1) : both[i] = after[i]
    <3>1. \A i \in 1..(m + 1) : i = m + 1 \/ i \in 1..m
      BY <1>1
    <3>. QED  BY <1>2, <2>1, <2>3, <2>4, <3>1
  <2>7. after \in [1..(m + 1) -> E]
    BY <2>3, LenProperties
  <2>8. both = after
    BY <2>5, <2>6, <2>7
  <2>. QED  BY <2>8 DEF both, after, longer
<1>. QED  BY <1>3, <1>4 DEF mapped

UnitsIn(all) == [k \in DOMAIN all |-> all[k].units]
UnitsHeld(p) == Document!FlattenSeq(UnitsIn(p.chunks)) \o p.units

LEMMA UnitsInAre ==
  ASSUME NEW all \in Seq(ChunkOf)
  PROVE  /\ UnitsIn(all) \in Seq(Seq(UnitOf)) /\ Len(UnitsIn(all)) = Len(all)
         /\ \A c \in ChunkOf : UnitsIn(Append(all, c)) = Append(UnitsIn(all), c.units)
<1>. DEFINE w == [c \in ChunkOf |-> c.units]
            E == Seq(UnitOf)
<1>1. w \in [ChunkOf -> E] /\ \A c \in ChunkOf : w[c] = c.units
  BY DEF ChunkOf
<1>. HIDE DEF w, E
<1>2. ASSUME NEW s \in Seq(ChunkOf) PROVE UnitsIn(s) = [k \in DOMAIN s |-> w[s[k]]]
  <2>1. \A k \in DOMAIN s : s[k] \in ChunkOf
    BY ListHas
  <2>2. \A k \in DOMAIN s : s[k].units = w[s[k]]
    BY <1>1, <2>1
  <2>. QED  BY <2>2 DEF UnitsIn
<1>3. UnitsIn(all) \in Seq(E) /\ Len(UnitsIn(all)) = Len(all)
  BY <1>1, <1>2, MapAppend
<1>4. ASSUME NEW c \in ChunkOf PROVE UnitsIn(Append(all, c)) = Append(UnitsIn(all), c.units)
  <2>1. Append(all, c) \in Seq(ChunkOf)
    BY ListAppend
  <2>2. UnitsIn(Append(all, c)) = [k \in DOMAIN Append(all, c) |-> w[Append(all, c)[k]]]
    BY <1>2, <2>1
  <2>3. UnitsIn(all) = [k \in DOMAIN all |-> w[all[k]]]
    BY <1>2
  <2>4. [k \in DOMAIN Append(all, c) |-> w[Append(all, c)[k]]]
          = Append([k \in DOMAIN all |-> w[all[k]]], w[c])
    BY <1>1, MapAppend
  <2>. QED  BY <1>1, <2>2, <2>3, <2>4
<1>. QED  BY <1>3, <1>4 DEF E

\* What comes after a chunk is of no earlier section; in its place, it did not fit.
FollowsAt(c, place, text) ==
  /\ Rank(c.place.section) <= Rank(place.section)
  /\ c.place = place => Document!Size(c.units) + Document!Tokens(text) > Maximum
Follows(c, d) == FollowsAt(c, d.place, d.units[1].text)
InOrder(all) == \A k \in 1..(Len(all) - 1) : Follows(all[k], all[k + 1])
Plain(all) == \A k \in DOMAIN all : all[k].parents = <<>>

\* No chunk yet, or the next one may begin with this text in this place.
NextIs(all, place, text) == all # <<>> => FollowsAt(all[Len(all)], place, text)

Sorted(p) ==
  /\ Plain(p.chunks) /\ InOrder(p.chunks)
  /\ p.units # <<>> => NextIs(p.chunks, p.place, p.units[1].text)

LEMMA OneMore ==
  ASSUME NEW all \in Seq(ChunkOf), NEW c \in ChunkOf, Plain(all), InOrder(all),
         c.parents = <<>>, NextIs(all, c.place, c.units[1].text)
  PROVE  Plain(Append(all, c)) /\ InOrder(Append(all, c))
<1>. DEFINE m == Len(all)
            longer == Append(all, c)
<1>1. /\ m \in Nat /\ DOMAIN all = 1..m /\ (all # <<>> <=> m >= 1)
      /\ Len(longer) = m + 1 /\ DOMAIN longer = 1..(m + 1)
      /\ \A i \in 1..m : longer[i] = all[i]
      /\ longer[m + 1] = c
  BY ListHas, ListAppend
<1>. HIDE DEF m, longer
<1>2. Plain(longer)
  <2>1. \A k \in 1..(m + 1) : k = m + 1 \/ k \in 1..m
    BY <1>1
  <2>. QED  BY <1>1, <2>1 DEF Plain
<1>3. ASSUME NEW k \in 1..m PROVE Follows(longer[k], longer[k + 1])
  <2>1. CASE k = m
    <3>1. longer[k] = all[m] /\ longer[k + 1] = c /\ all # <<>>
      BY <1>1, <2>1
    <3>. QED  BY <3>1 DEF NextIs, Follows, m
  <2>2. CASE k # m
    <3>1. k \in 1..(m - 1) /\ k + 1 \in 1..m
      BY <1>1, <2>2
    <3>2. longer[k] = all[k] /\ longer[k + 1] = all[k + 1]
      BY <1>1, <3>1
    <3>3. Follows(all[k], all[k + 1])
      BY <3>1 DEF InOrder, m
    <3>. QED  BY <3>2, <3>3
  <2>. QED  BY <2>1, <2>2
<1>4. (m + 1) - 1 = m
  BY <1>1
<1>. QED  BY <1>1, <1>2, <1>3, <1>4 DEF InOrder, longer

LEMMA FlushKeeps ==
  ASSUME NEW p \in PackingOf, Sorted(p)
  PROVE  /\ Sorted(Document!Flush(p)) /\ UnitsHeld(Document!Flush(p)) = UnitsHeld(p)
         /\ p.units = <<>> => Document!Flush(p) = p
         /\ p.units # <<>> =>
              /\ Document!Flush(p).chunks # <<>>
              /\ LET last == Document!Flush(p).chunks[Len(Document!Flush(p).chunks)] IN
                 last.place = p.place /\ last.units = p.units
<1>1. CASE p.units = <<>>
  BY <1>1 DEF Document!Flush
<1>2. CASE p.units # <<>>
  <2>. DEFINE new == [place |-> p.place, units |-> p.units, parents |-> <<>>]
              longer == Append(p.chunks, new)
              flushed == Document!Flush(p)
  <2>1. p.chunks \in Seq(ChunkOf) /\ p.units \in Seq(UnitOf)
    BY DEF PackingOf
  <2>2. new \in ChunkOf
    <3>1. p.place \in Spots /\ UnitsCohere(p.units, p.place)
      BY DEF PackingOf
    <3>2. new.parents = <<>> /\ new.units = p.units /\ new.place = p.place /\ DOMAIN <<>> = {}
      OBVIOUS
    <3>3. new \in [place : Spots, units : Seq(UnitOf), parents : Seq(ContextOf)]
      BY <2>1, <3>1
    <3>. HIDE DEF new
    <3>. QED  BY <1>2, <3>1, <3>2, <3>3 DEF ChunkOf
  <2>3. new.parents = <<>> /\ new.units = p.units /\ new.place = p.place
    OBVIOUS
  <2>. HIDE DEF new
  <2>4. flushed.chunks = longer /\ flushed.units = <<>>
    <3>1. flushed = [p EXCEPT !.chunks = longer, !.units = <<>>]
      BY <1>2 DEF Document!Flush, new
    <3>. HIDE DEF longer, flushed
    <3>. QED  BY <3>1 DEF PackingOf
  <2>5. /\ longer # <<>> /\ Len(longer) = Len(p.chunks) + 1 /\ longer[Len(p.chunks) + 1] = new
        /\ longer \in Seq(ChunkOf)
    BY <2>1, <2>2, ListAppend
  <2>6. Plain(longer) /\ InOrder(longer)
    <3>1. NextIs(p.chunks, new.place, new.units[1].text)
      BY <1>2, <2>3 DEF Sorted
    <3>. QED  BY <2>1, <2>2, <2>3, <3>1, OneMore DEF Sorted
  <2>7. UnitsIn(longer) = Append(UnitsIn(p.chunks), p.units) /\ UnitsIn(p.chunks) \in Seq(Seq(UnitOf))
    BY <2>1, <2>2, <2>3, UnitsInAre
  <2>8. Document!FlattenSeq(UnitsIn(longer)) = UnitsHeld(p)
    BY <2>1, <2>7, FlatAppend DEF UnitsHeld
  <2>9. Document!FlattenSeq(UnitsIn(longer)) \o <<>> = Document!FlattenSeq(UnitsIn(longer))
    <3>1. UnitsIn(longer) \in Seq(Seq(UnitOf))
      BY <2>5, UnitsInAre
    <3>2. Document!FlattenSeq(UnitsIn(longer)) \in Seq(UnitOf)
      BY <3>1, FlattensExists, FlatIs
    <3>. QED  BY <3>2, ConcatEmptySeq
  <2>. HIDE DEF longer, flushed
  <2>10. Sorted(flushed) /\ UnitsHeld(flushed) = UnitsHeld(p)
    BY <2>4, <2>6, <2>8, <2>9 DEF Sorted, UnitsHeld
  <2>. QED  BY <1>2, <2>3, <2>4, <2>5, <2>10 DEF flushed
<1>. QED  BY <1>1, <1>2

LEMMA UnitsHeldAre ==
  ASSUME NEW p \in PackingOf
  PROVE  Document!FlattenSeq(UnitsIn(p.chunks)) \in Seq(UnitOf) /\ UnitsHeld(p) \in Seq(UnitOf)
<1>1. p.chunks \in Seq(ChunkOf) /\ p.units \in Seq(UnitOf)
  BY DEF PackingOf
<1>2. UnitsIn(p.chunks) \in Seq(Seq(UnitOf))
  BY <1>1, UnitsInAre
<1>3. Document!FlattenSeq(UnitsIn(p.chunks)) \in Seq(UnitOf)
  BY <1>2, FlattensExists, FlatIs
<1>. QED  BY <1>1, <1>3, ConcatProperties DEF UnitsHeld

LEMMA SpotSection ==
  ASSUME StructureInv, NEW place \in Spots
  PROVE  place.section \in Nat \cup {NONE} /\ Rank(place.section) \in Nat
<1>1. place.section \in Nat \cup {NONE}
  <2>1. CASE place = Nowhere
    BY <2>1 DEF Nowhere
  <2>2. CASE \E i \in DOMAIN enriched : place = Document!Place(i)
    <3>1. \A i \in DOMAIN enriched : enriched[i] \in Entry
      BY ListHas DEF StructureInv, EntriesOK
    <3>2. \A i \in DOMAIN enriched : enriched[i].section \in Nat \cup {NONE}
      BY <3>1 DEF Entry
    <3>. QED  BY <2>2, <3>2 DEF Document!Place
  <2>. QED  BY <2>1, <2>2 DEF Spots
<1>. QED  BY <1>1 DEF Rank

LEMMA AddUnitKeeps ==
  ASSUME StructureInv, NEW p \in PackingOf, NEW u \in UnitOf, u.text \in FitText,
         Document!Place(u.block) = p.place, Sorted(p),
         p.units = <<>> => NextIs(p.chunks, p.place, u.text)
  PROVE  LET q == Document!AddUnit(p, u) IN
         Sorted(q) /\ q.units # <<>> /\ UnitsHeld(q) = UnitsHeld(p) \o <<u>>
<1>. DEFINE full == p.units # <<>> /\ Document!Size(p.units) + Document!Tokens(u.text) > Maximum
            open == IF full THEN [Document!Flush(p) EXCEPT !.place = Document!Place(u.block)] ELSE p
            longer == Append(open.units, u)
            added == [open EXCEPT !.units = longer]
<1>1. Document!AddUnit(p, u) = added
  BY DEF Document!AddUnit
<1>2. /\ open \in PackingOf /\ open.place = p.place /\ Sorted(open) /\ UnitsHeld(open) = UnitsHeld(p)
      /\ open.units = <<>> => NextIs(open.chunks, p.place, u.text)
  <2>1. CASE full
    <3>. DEFINE q == Document!Flush(p)
    <3>1. q \in PackingOf /\ q.units = <<>> /\ q.place = p.place
      BY FlushOK
    <3>2. open = [q EXCEPT !.place = q.place]
      BY <2>1, <3>1
    <3>3. /\ Sorted(q) /\ UnitsHeld(q) = UnitsHeld(p) /\ q.chunks # <<>>
          /\ q.chunks[Len(q.chunks)].place = p.place /\ q.chunks[Len(q.chunks)].units = p.units
      BY <2>1, FlushKeeps
    <3>4. Rank(p.place.section) <= Rank(p.place.section)
      <4>1. p.place.section \in Nat \cup {NONE}
        BY SpotSection DEF PackingOf
      <4>. QED  BY <4>1 DEF Rank
    <3>5. NextIs(q.chunks, p.place, u.text)
      BY <2>1, <3>3, <3>4 DEF NextIs, FollowsAt
    <3>. HIDE DEF q, full, open
    <3>6. [q EXCEPT !.place = q.place] = q
      BY <3>1 DEF PackingOf
    <3>. QED  BY <3>1, <3>2, <3>3, <3>5, <3>6
  <2>2. CASE ~full
    BY <2>2
  <2>. QED  BY <2>1, <2>2
<1>. HIDE DEF full, open
<1>3. /\ open.chunks \in Seq(ChunkOf) /\ open.units \in Seq(UnitOf)
      /\ open \in [chunks : Seq(ChunkOf), units : Seq(UnitOf), place : Spots]
  BY <1>2 DEF PackingOf
<1>4. /\ longer \in Seq(UnitOf) /\ longer # <<>> /\ Len(open.units) \in Nat
      /\ \A k \in 1..Len(open.units) : longer[k] = open.units[k]
      /\ longer[Len(open.units) + 1] = u
      /\ open.units # <<>> <=> Len(open.units) >= 1
      /\ longer = open.units \o <<u>>
  BY <1>3, ListAppend, ListHas, AppendIsConcat
<1>. HIDE DEF longer
<1>5. NextIs(open.chunks, p.place, longer[1].text)
  <2>1. CASE open.units = <<>>
    <3>1. Len(open.units) = 0
      BY <1>4, <2>1
    <3>2. longer[1] = u
      BY <1>4, <3>1
    <3>. QED  BY <1>2, <2>1, <3>2
  <2>2. CASE open.units # <<>>
    <3>1. 1 \in 1..Len(open.units)
      BY <1>4, <2>2
    <3>2. longer[1] = open.units[1]
      BY <1>4, <3>1
    <3>. QED  BY <1>2, <2>2, <3>2 DEF Sorted
  <2>. QED  BY <2>1, <2>2
<1>6. added.chunks = open.chunks /\ added.units = longer /\ added.place = p.place
  BY <1>2, <1>3
<1>. HIDE DEF added
<1>7. Sorted(added)
  BY <1>2, <1>5, <1>6 DEF Sorted
<1>8. UnitsHeld(added) = UnitsHeld(p) \o <<u>>
  <2>. DEFINE before == Document!FlattenSeq(UnitsIn(open.chunks))
  <2>1. before \in Seq(UnitOf)
    BY <1>2, UnitsHeldAre
  <2>2. <<u>> \in Seq(UnitOf)
    <3>1. Append(<<>>, u) \in Seq(UnitOf)
      BY EmptySeq, ListAppend
    <3>. QED  BY <3>1
  <2>. HIDE DEF before
  <2>3. Joined(before, open.units, <<u>>)
    BY <1>3, <2>1, <2>2, JoinThree
  <2>4. UnitsHeld(added) = before \o (open.units \o <<u>>)
    BY <1>4, <1>6 DEF UnitsHeld, before
  <2>5. UnitsHeld(p) = before \o open.units
    BY <1>2 DEF UnitsHeld, before
  <2>. QED  BY <2>3, <2>4, <2>5 DEF Joined
<1>. QED  BY <1>1, <1>4, <1>6, <1>7, <1>8

LEMMA AddUnitsKeeps ==
  ASSUME StructureInv, NEW p \in PackingOf, Sorted(p), NEW units \in Seq(UnitOf), units # <<>>,
         \A k \in DOMAIN units : units[k].text \in FitText /\ Document!Place(units[k].block) = p.place,
         p.units = <<>> => NextIs(p.chunks, p.place, units[1].text)
  PROVE  LET q == Document!AddUnits(p, units) IN
         /\ q \in PackingOf /\ q.place = p.place
         /\ Sorted(q) /\ q.units # <<>> /\ UnitsHeld(q) = UnitsHeld(p) \o units
<1>. DEFINE m == Len(units)
            Taken(n) == SubSeq(units, 1, n)
<1>1. /\ m \in Nat /\ m >= 1 /\ DOMAIN units = 1..m
      /\ \A n \in 1..m : units[n] \in UnitOf
  BY ListHas
<1>2. PICK f :
         /\ f[0] = p /\ \A n \in 1..m : f[n] = Document!AddUnit(f[n - 1], units[n])
         /\ \A n \in 0..m : f[n] \in PackingAt(p.place)
         /\ Document!AddUnits(p, units) = f[m]
  BY AddUnitsSteps
<1>. DEFINE T == {n \in 0..m : /\ Sorted(f[n]) /\ (n >= 1 => f[n].units # <<>>)
                               /\ UnitsHeld(f[n]) = UnitsHeld(p) \o Taken(n)}
<1>3. 0 \in T
  <2>1. Taken(0) = <<>>
    BY SubSeqEmpty
  <2>2. UnitsHeld(p) \o <<>> = UnitsHeld(p)
    BY UnitsHeldAre, ConcatEmptySeq
  <2>. HIDE DEF Taken
  <2>3. Sorted(f[0]) /\ UnitsHeld(f[0]) = UnitsHeld(p) \o Taken(0)
    BY <1>2, <2>1, <2>2
  <2>4. 0 \in 0..m /\ ~(0 >= 1)
    BY <1>1
  <2>. QED  BY <2>3, <2>4
<1>4. ASSUME NEW n \in 1..m, n - 1 \in T PROVE n \in T
  <2>. DEFINE r == f[n - 1]
              u == units[n]
  <2>1. n - 1 \in 0..m /\ n \in 0..m /\ n >= 1
    BY <1>1
  <2>2. r \in PackingOf /\ r.place = p.place /\ Sorted(r) /\ UnitsHeld(r) = UnitsHeld(p) \o Taken(n - 1)
    BY <1>2, <1>4, <2>1 DEF PackingAt
  <2>3. u \in UnitOf /\ u.text \in FitText /\ Document!Place(u.block) = r.place
    BY <1>1, <2>2
  <2>4. r.units = <<>> => NextIs(r.chunks, r.place, u.text)
    <3>1. CASE n = 1
      BY <1>2, <3>1
    <3>2. CASE n # 1
      <4>1. n - 1 >= 1
        BY <2>1, <3>2
      <4>. QED  BY <1>4, <4>1
    <3>. QED  BY <3>1, <3>2
  <2>5. f[n] = Document!AddUnit(r, u)
    BY <1>2
  <2>. HIDE DEF r, u, Taken
  <2>6. Sorted(f[n]) /\ f[n].units # <<>> /\ UnitsHeld(f[n]) = UnitsHeld(r) \o <<u>>
    BY <2>2, <2>3, <2>4, <2>5, AddUnitKeeps
  <2>7. Taken(n) = Taken(n - 1) \o <<u>>
    <3>1. 1 \in 1..Len(units) /\ n \in 1..Len(units)
      BY <1>1
    <3>. QED  BY <3>1, SubSeqRecursiveSecond DEF Taken, u
  <2>8. Taken(n - 1) \in Seq(UnitOf) /\ <<u>> \in Seq(UnitOf) /\ UnitsHeld(p) \in Seq(UnitOf)
    <3>1. Taken(n - 1) \in Seq(UnitOf)
      <4>1. n - 1 \in Int /\ \A k \in 1..(n - 1) : units[k] \in UnitOf
        BY <1>1
      <4>. QED  BY <4>1, SubSeqProperties DEF Taken
    <3>2. Append(<<>>, u) \in Seq(UnitOf)
      BY <2>3, EmptySeq, ListAppend
    <3>3. <<u>> \in Seq(UnitOf)
      BY <3>2
    <3>. QED  BY <3>1, <3>3, UnitsHeldAre
  <2>9. Joined(UnitsHeld(p), Taken(n - 1), <<u>>)
    BY <2>8, JoinThree
  <2>10. UnitsHeld(f[n]) = UnitsHeld(p) \o Taken(n)
    BY <2>2, <2>6, <2>7, <2>9 DEF Joined
  <2>. QED  BY <2>1, <2>6, <2>10
<1>. HIDE DEF T
<1>5. m \in T
  <2>. HIDE DEF m
  <2>1. \A n \in 0..m : n \in T
    BY <1>1, <1>3, <1>4, UpTo
  <2>. QED  BY <1>1, <2>1
<1>6. Taken(m) = units
  BY SubSeqFull
<1>7. m \in 0..m
  BY <1>1
<1>8. f[m] \in PackingOf /\ f[m].place = p.place
  BY <1>2, <1>7 DEF PackingAt
<1>9. Sorted(f[m]) /\ f[m].units # <<>> /\ UnitsHeld(f[m]) = UnitsHeld(p) \o Taken(m)
  BY <1>1, <1>5 DEF T
<1>. QED  BY <1>2, <1>6, <1>8, <1>9

BlockUnits ==
  [i \in DOMAIN enriched |-> IF enriched[i].searchable THEN Document!Units(i) ELSE <<>>]

\* After n blocks: nothing was packed, or units of one of them are under way.
UnderWay(p, n) ==
  /\ p.units = <<>> => p.chunks = <<>>
  /\ p.units # <<>> => \E k \in 1..n : p.place = Document!Place(k)

LEMMA AddBlockKeeps ==
  ASSUME OrderInv, NEW p \in PackingOf, Sorted(p), NEW i \in DOMAIN enriched, UnderWay(p, i - 1)
  PROVE  LET q == Document!AddBlock(p, i) IN
         Sorted(q) /\ UnderWay(q, i) /\ UnitsHeld(q) = UnitsHeld(p) \o BlockUnits[i]
<1>. DEFINE ended == IF Document!Break(p.place, i) THEN Document!Flush(p) ELSE p
            open == IF ended.units = <<>> THEN [ended EXCEPT !.place = Document!Place(i)] ELSE ended
            units == Document!Units(i)
            place == Document!Place(i)
            q == Document!AddBlock(p, i)
<1>0. /\ StructureInv /\ Len(enriched) \in Nat /\ DOMAIN enriched = 1..Len(enriched)
      /\ i \in 1..Len(enriched) /\ i \in Nat /\ place \in Spots
  BY ListHas DEF OrderInv, StructureInv, EntriesOK, Spots
<1>1. q = IF enriched[i].searchable THEN Document!AddUnits(open, units) ELSE p
  BY DEF Document!AddBlock
<1>2. /\ units \in Seq(UnitOf) /\ units # <<>>
      /\ \A k \in DOMAIN units : units[k].block = i /\ units[k].text \in FitText
  BY <1>0, UnitsOfBlock
<1>. HIDE DEF q, units
<1>3. CASE ~enriched[i].searchable
  <2>1. q = p /\ BlockUnits[i] = <<>>
    BY <1>1, <1>3 DEF BlockUnits
  <2>2. UnitsHeld(p) \o <<>> = UnitsHeld(p)
    BY UnitsHeldAre, ConcatEmptySeq
  <2>3. UnderWay(p, i)
    <3>1. \A k \in 1..(i - 1) : k \in 1..i
      BY <1>0
    <3>. QED  BY <3>1 DEF UnderWay
  <2>. QED  BY <2>1, <2>2, <2>3 DEF q
<1>4. CASE enriched[i].searchable
  <2>1. q = Document!AddUnits(open, units) /\ BlockUnits[i] = units
    BY <1>1, <1>4 DEF BlockUnits, units
  <2>2. /\ open \in PackingOf /\ open.place = place /\ Sorted(open) /\ UnitsHeld(open) = UnitsHeld(p)
        /\ open.units = <<>> => NextIs(open.chunks, place, units[1].text)
    <3>1. CASE p.units = <<>>
      <4>1. ended = p /\ p.chunks = <<>>
        BY <3>1, FlushKeeps DEF UnderWay
      <4>2. open = [p EXCEPT !.place = place]
        BY <3>1, <4>1
      <4>. HIDE DEF ended, open, place
      <4>3. /\ open \in PackingOf /\ open.units = <<>> /\ open.place = place
            /\ open.chunks = p.chunks
        BY <1>0, <3>1, <4>2, MovedOK
      <4>4. Sorted(open)
        BY <4>3 DEF Sorted
      <4>5. UnitsHeld(open) = UnitsHeld(p)
        BY <3>1, <4>3 DEF UnitsHeld
      <4>6. NextIs(open.chunks, place, units[1].text)
        BY <4>1, <4>3 DEF NextIs
      <4>. QED  BY <4>3, <4>4, <4>5, <4>6
    <3>2. CASE p.units # <<>> /\ ~Document!Break(p.place, i)
      <4>1. open = p
        BY <3>2
      <4>. QED  BY <1>0, <3>2, <4>1, SamePlace
    <3>3. CASE p.units # <<>> /\ Document!Break(p.place, i)
      <4>. DEFINE flushed == Document!Flush(p)
      <4>1. flushed \in PackingOf /\ flushed.units = <<>>
        BY FlushOK
      <4>2. /\ Sorted(flushed) /\ UnitsHeld(flushed) = UnitsHeld(p) /\ flushed.chunks # <<>>
            /\ flushed.chunks[Len(flushed.chunks)].place = p.place
        BY <3>3, FlushKeeps
      <4>3. open = [flushed EXCEPT !.place = place]
        BY <3>3, <4>1
      <4>. HIDE DEF ended, open, place, flushed
      <4>4. /\ open \in PackingOf /\ open.units = <<>> /\ open.place = place
            /\ open.chunks = flushed.chunks
        BY <1>0, <4>1, <4>3, MovedOK
      <4>5. Sorted(open)
        BY <4>2, <4>4 DEF Sorted
      <4>6. UnitsHeld(open) = UnitsHeld(p)
        BY <4>1, <4>2, <4>4 DEF UnitsHeld
      <4>7. p.place # place
        BY <3>3 DEF Document!Break, Document!Place, place
      <4>8. Rank(p.place.section) <= Rank(place.section)
        <5>1. PICK k \in 1..(i - 1) : p.place = Document!Place(k)
          BY <3>3 DEF UnderWay
        <5>2. k \in DOMAIN enriched /\ k <= i
          BY <1>0
        <5>3. Rank(enriched[k].section) <= Rank(enriched[i].section)
          BY <5>2 DEF OrderInv, EntriesOrdered
        <5>. QED  BY <5>1, <5>3 DEF Document!Place, place
      <4>9. NextIs(open.chunks, place, units[1].text)
        BY <4>2, <4>4, <4>7, <4>8 DEF NextIs, FollowsAt
      <4>. QED  BY <4>4, <4>5, <4>6, <4>9
    <3>. QED  BY <3>1, <3>2, <3>3
  <2>. HIDE DEF open
  <2>3. \A k \in DOMAIN units : units[k].text \in FitText /\ Document!Place(units[k].block) = open.place
    BY <1>2, <2>2
  <2>4. /\ q \in PackingOf /\ q.place = open.place
        /\ Sorted(q) /\ q.units # <<>> /\ UnitsHeld(q) = UnitsHeld(open) \o units
    BY <1>0, <1>2, <2>1, <2>2, <2>3, AddUnitsKeeps
  <2>5. UnderWay(q, i)
    <3>1. i \in 1..i
      BY <1>0
    <3>. QED  BY <2>2, <2>4, <3>1 DEF UnderWay
  <2>. QED  BY <2>1, <2>2, <2>4, <2>5 DEF q
<1>. QED  BY <1>3, <1>4

LEMMA BlockUnitsAre ==
  ASSUME StructureInv
  PROVE  BlockUnits \in Seq(Seq(UnitOf)) /\ Len(BlockUnits) = Len(enriched)
<1>. DEFINE m == Len(enriched)
            D == Seq(UnitOf)
<1>1. m \in Nat /\ DOMAIN enriched = 1..m
  BY ListHas DEF StructureInv, EntriesOK
<1>2. \A i \in 1..m : Document!Units(i) \in D
  BY <1>1, UnitsOfBlock
<1>3. <<>> \in D
  BY EmptySeq
<1>. HIDE DEF D, m
<1>4. BlockUnits \in [1..m -> D]
  BY <1>1, <1>2, <1>3 DEF BlockUnits
<1>5. BlockUnits \in Seq(D) /\ Len(BlockUnits) = m
  BY <1>1, <1>4, ListOf
<1>. QED  BY <1>5 DEF D, m

\* The packed chunks hold the units of the searchable blocks, once and in their order.
LEMMA PackedKeeps ==
  ASSUME OrderInv
  PROVE  /\ Plain(Document!Packed) /\ InOrder(Document!Packed)
         /\ Document!FlattenSeq(UnitsIn(Document!Packed)) = Document!FlattenSeq(BlockUnits)
<1>. DEFINE m == Len(enriched)
<1>0. StructureInv /\ m \in Nat /\ DOMAIN enriched = 1..m
  BY ListHas DEF OrderInv, StructureInv, EntriesOK
<1>1. PICK f :
        /\ f[0] = Document!NothingPacked
        /\ \A n \in 1..m : f[n] = Document!AddBlock(f[n - 1], n)
        /\ \A n \in 0..m : f[n] \in PackingOf
        /\ Document!Packed = Document!Flush(f[m]).chunks
  BY <1>0, PackedSteps
<1>2. BlockUnits \in Seq(Seq(UnitOf)) /\ Len(BlockUnits) = m
  BY <1>0, BlockUnitsAre
<1>3. PICK g : Flattens(g, BlockUnits)
  BY <1>2, FlattensExists
<1>4. g[0] = <<>> /\ \A n \in 1..m : g[n] = g[n - 1] \o BlockUnits[n]
  BY <1>2, <1>3 DEF Flattens
<1>5. Document!FlattenSeq(BlockUnits) = g[m]
  BY <1>2, <1>3, FlatIs
<1>. DEFINE T == {n \in 0..m : Sorted(f[n]) /\ UnderWay(f[n], n) /\ UnitsHeld(f[n]) = g[n]}
<1>6. 0 \in T
  <2>1. f[0].chunks = <<>> /\ f[0].units = <<>>
    BY <1>1 DEF Document!NothingPacked
  <2>2. Sorted(f[0])
    <3>1. Plain(<<>>)
      BY DEF Plain
    <3>2. InOrder(<<>>)
      <4>1. 1..(Len(<<>>) - 1) = {}
        OBVIOUS
      <4>. QED  BY <4>1 DEF InOrder
    <3>. QED  BY <2>1, <3>1, <3>2 DEF Sorted
  <2>3. UnderWay(f[0], 0)
    BY <2>1 DEF UnderWay
  <2>4. UnitsHeld(f[0]) = <<>>
    <3>1. UnitsIn(<<>>) = <<>>
      BY DEF UnitsIn
    <3>2. <<>> \o <<>> = <<>>
      OBVIOUS
    <3>. QED  BY <2>1, <3>1, <3>2, FlatNothing DEF UnitsHeld
  <2>. QED  BY <1>0, <1>4, <2>2, <2>3, <2>4
<1>7. ASSUME NEW n \in 1..m, n - 1 \in T PROVE n \in T
  <2>. DEFINE p == f[n - 1]
  <2>1. n \in 0..m /\ n - 1 \in 0..m /\ n \in DOMAIN enriched
    BY <1>0
  <2>2. p \in PackingOf /\ Sorted(p) /\ UnderWay(p, n - 1) /\ UnitsHeld(p) = g[n - 1]
    BY <1>1, <1>7, <2>1
  <2>3. f[n] = Document!AddBlock(p, n)
    BY <1>1
  <2>. HIDE DEF p
  <2>4. Sorted(f[n]) /\ UnderWay(f[n], n) /\ UnitsHeld(f[n]) = UnitsHeld(p) \o BlockUnits[n]
    BY <2>1, <2>2, <2>3, AddBlockKeeps
  <2>5. UnitsHeld(f[n]) = g[n]
    BY <1>4, <2>2, <2>4
  <2>. QED  BY <2>1, <2>4, <2>5
<1>. HIDE DEF T
<1>8. m \in T
  <2>. HIDE DEF m
  <2>1. \A n \in 0..m : n \in T
    BY <1>0, <1>6, <1>7, UpTo
  <2>. QED  BY <1>0, <2>1
<1>. DEFINE last == f[m]
            flushed == Document!Flush(last)
<1>9. last \in PackingOf /\ Sorted(last) /\ UnitsHeld(last) = g[m]
  BY <1>0, <1>1, <1>8 DEF T
<1>. HIDE DEF last
<1>10. Sorted(flushed) /\ UnitsHeld(flushed) = g[m] /\ flushed \in PackingOf /\ flushed.units = <<>>
  BY <1>9, FlushKeeps, FlushOK
<1>11. UnitsHeld(flushed) = Document!FlattenSeq(UnitsIn(flushed.chunks))
  <2>1. Document!FlattenSeq(UnitsIn(flushed.chunks)) \in Seq(UnitOf)
    BY <1>10, UnitsHeldAre
  <2>2. Document!FlattenSeq(UnitsIn(flushed.chunks)) \o <<>>
          = Document!FlattenSeq(UnitsIn(flushed.chunks))
    BY <2>1, ConcatEmptySeq
  <2>. QED  BY <1>10, <2>2 DEF UnitsHeld
<1>12. Document!Packed = flushed.chunks
  BY <1>1 DEF last
<1>. QED  BY <1>5, <1>10, <1>11, <1>12 DEF Sorted

-----------------------------------------------------------------------------
(* Absorbing keeps every text.                                             *)

LEMMA RemovedIs ==
  ASSUME NEW D, NEW s \in Seq(D), NEW i \in 1..Len(s)
  PROVE  LET less == Document!RemoveAt(s, i) IN
         /\ less \in Seq(D) /\ Len(less) = Len(s) - 1
         /\ \A j \in 1..(i - 1) : less[j] = s[j]
         /\ \A j \in i..(Len(s) - 1) : less[j] = s[j + 1]
<1>. DEFINE m == Len(s)
            head == SubSeq(s, 1, i - 1)
            tail == SubSeq(s, i + 1, m)
<1>1. m \in Nat /\ (\A k \in 1..m : s[k] \in D) /\ i \in Nat /\ i >= 1 /\ i <= m
  BY ListHas
<1>2. /\ head \in Seq(D) /\ Len(head) = i - 1
      /\ \A j \in 1..(i - 1) : head[j] = s[j]
  <2>1. i - 1 \in Int /\ \A k \in 1..(i - 1) : s[k] \in D
    BY <1>1
  <2>2. /\ i - 1 - 1 + 1 = i - 1 /\ (~(1 <= i - 1) => i - 1 = 0)
        /\ \A j \in 1..(i - 1) : 1 + j - 1 = j
    BY <1>1
  <2>. HIDE DEF m
  <2>3. /\ head \in Seq(D) /\ Len(head) = IF 1 <= i - 1 THEN i - 1 - 1 + 1 ELSE 0
        /\ \A j \in 1..(i - 1 - 1 + 1) : head[j] = s[1 + j - 1]
    BY <2>1, SubSeqProperties
  <2>. HIDE DEF head
  <2>. QED  BY <2>2, <2>3
<1>3. /\ tail \in Seq(D) /\ Len(tail) = m - i
      /\ \A j \in 1..(m - i) : tail[j] = s[i + j]
  <2>1. i + 1 \in Int /\ m \in Int /\ \A k \in (i + 1)..m : s[k] \in D
    BY <1>1
  <2>2. /\ m - (i + 1) + 1 = m - i /\ (~(i + 1 <= m) => m - i = 0)
        /\ \A j \in 1..(m - i) : (i + 1) + j - 1 = i + j
    BY <1>1
  <2>. HIDE DEF m
  <2>3. /\ tail \in Seq(D) /\ Len(tail) = IF i + 1 <= m THEN m - (i + 1) + 1 ELSE 0
        /\ \A j \in 1..(m - (i + 1) + 1) : tail[j] = s[(i + 1) + j - 1]
    BY <2>1, SubSeqProperties
  <2>. HIDE DEF tail
  <2>. QED  BY <2>2, <2>3
<1>. DEFINE less == head \o tail
<1>4. Document!RemoveAt(s, i) = less
  BY DEF Document!RemoveAt
<1>. HIDE DEF head, tail, m
<1>5. /\ less \in Seq(D) /\ Len(less) = Len(head) + Len(tail)
      /\ \A j \in 1..(Len(head) + Len(tail)) :
           less[j] = IF j <= Len(head) THEN head[j] ELSE tail[j - Len(head)]
  BY <1>2, <1>3, ConcatProperties
<1>. HIDE DEF less
<1>6. Len(head) + Len(tail) = m - 1
  BY <1>1, <1>2, <1>3
<1>7. ASSUME NEW j \in 1..(i - 1) PROVE less[j] = s[j]
  <2>1. j \in 1..(m - 1) /\ j <= i - 1
    BY <1>1
  <2>. QED  BY <1>2, <1>5, <1>6, <2>1
<1>8. ASSUME NEW j \in i..(m - 1) PROVE less[j] = s[j + 1]
  <2>1. /\ j \in 1..(m - 1) /\ ~(j <= i - 1) /\ j - (i - 1) \in 1..(m - i)
        /\ i + (j - (i - 1)) = j + 1
    BY <1>1
  <2>2. less[j] = tail[j - (i - 1)]
    BY <1>2, <1>5, <1>6, <2>1
  <2>. QED  BY <1>3, <2>1, <2>2
<1>. QED  BY <1>4, <1>5, <1>6, <1>7, <1>8 DEF m

\* A chunk with the contexts of another.
Given(d, contexts) == [d EXCEPT !.parents = contexts]

LEMMA TextsAre ==
  ASSUME NEW c \in ChunkOf
  PROVE  /\ Document!TextsOf(c) \in Seq(UnitOf)
         /\ c.parents = <<>> => Document!TextsOf(c) = c.units
<1>. DEFINE E == Seq(UnitOf)
            w == [p \in ContextOf |-> p.units]
            above == [k \in DOMAIN c.parents |-> c.parents[k].units]
<1>1. w \in [ContextOf -> E] /\ \A p \in ContextOf : w[p] = p.units
  BY DEF ContextOf
<1>. HIDE DEF w
<1>2. c.parents \in Seq(ContextOf) /\ c.units \in E
  BY DEF ChunkOf
<1>. HIDE DEF E
<1>3. above \in Seq(E)
  <2>1. \A k \in DOMAIN c.parents : c.parents[k] \in ContextOf
    BY <1>2, ListHas
  <2>2. above = [k \in DOMAIN c.parents |-> w[c.parents[k]]]
    BY <1>1, <2>1
  <2>3. [k \in DOMAIN c.parents |-> w[c.parents[k]]] \in Seq(E)
    BY <1>1, <1>2, MapAppend
  <2>. QED  BY <2>2, <2>3
<1>4. Document!TextsOf(c) = Document!FlattenSeq(Append(above, c.units))
  BY DEF Document!TextsOf
<1>5. c.parents = <<>> => above = <<>>
  OBVIOUS
<1>. HIDE DEF above
<1>6. Document!TextsOf(c) = Document!FlattenSeq(above) \o c.units /\ Document!FlattenSeq(above) \in E
  <2>1. above \in Seq(Seq(UnitOf)) /\ c.units \in Seq(UnitOf)
    BY <1>2, <1>3 DEF E
  <2>2. Document!FlattenSeq(Append(above, c.units)) = Document!FlattenSeq(above) \o c.units
    BY <2>1, FlatAppend
  <2>3. Document!FlattenSeq(above) \in Seq(UnitOf)
    BY <2>1, FlattensExists, FlatIs
  <2>. QED  BY <1>4, <2>2, <2>3 DEF E
<1>7. Document!TextsOf(c) \in Seq(UnitOf)
  BY <1>2, <1>6, ConcatProperties DEF E
<1>8. ASSUME c.parents = <<>> PROVE Document!TextsOf(c) = c.units
  <2>1. Document!FlattenSeq(above) = <<>>
    BY <1>5, <1>8, FlatNothing
  <2>2. <<>> \o c.units = c.units
    BY <1>2, ConcatEmptySeq DEF E
  <2>. QED  BY <1>6, <2>1, <2>2
<1>. QED  BY <1>7, <1>8

\* The following chunk gets the texts of the absorbed one before its own.
LEMMA AbsorbedTexts ==
  ASSUME StructureInv, NEW c \in ChunkOf, NEW d \in ChunkOf, d.parents = <<>>,
         Document!Absorbable(c, d)
  PROVE  LET e == Given(d, Document!Inherited(c)) IN
         /\ e \in ChunkOf /\ e.place = d.place /\ e.units = d.units
         /\ Document!TextsOf(e) = Document!TextsOf(c) \o Document!TextsOf(d)
<1>. DEFINE contexts == Document!Inherited(c)
            e == Given(d, contexts)
            new == [place |-> c.place, units |-> c.units]
            Above(s) == [k \in DOMAIN s |-> s[k].units]
            w == [p \in ContextOf |-> p.units]
<1>1. e \in ChunkOf
  BY InheritsOK DEF Given
<1>2. /\ c.parents \in Seq(ContextOf) /\ c.units \in Seq(UnitOf) /\ d.units \in Seq(UnitOf)
      /\ d \in [place : Spots, units : Seq(UnitOf), parents : Seq(ContextOf)]
      /\ c.place \in Spots
  BY DEF ChunkOf
<1>3. new \in ContextOf /\ new.units = c.units
  BY <1>2 DEF ContextOf
<1>4. contexts = Append(c.parents, new)
  BY DEF Document!Inherited
<1>. HIDE DEF contexts
<1>5. e.place = d.place /\ e.units = d.units /\ e.parents = contexts
  BY <1>2 DEF Given
<1>. HIDE DEF e, new
<1>6. w \in [ContextOf -> Seq(UnitOf)] /\ \A p \in ContextOf : w[p] = p.units
  BY DEF ContextOf
<1>. HIDE DEF w
<1>7. ASSUME NEW s \in Seq(ContextOf) PROVE Above(s) = [k \in DOMAIN s |-> w[s[k]]]
  <2>1. \A k \in DOMAIN s : s[k] \in ContextOf
    BY ListHas
  <2>. QED  BY <1>6, <2>1
<1>8. /\ Above(c.parents) \in Seq(Seq(UnitOf))
      /\ Above(contexts) = Append(Above(c.parents), c.units)
  <2>. DEFINE E == Seq(UnitOf)
  <2>1. w \in [ContextOf -> E]
    BY <1>6
  <2>. HIDE DEF E
  <2>2. contexts \in Seq(ContextOf)
    BY <1>2, <1>3, <1>4, ListAppend
  <2>3. Above(c.parents) = [k \in DOMAIN c.parents |-> w[c.parents[k]]]
    BY <1>2, <1>7
  <2>4. Above(contexts) = [k \in DOMAIN contexts |-> w[contexts[k]]]
    BY <1>7, <2>2
  <2>. HIDE DEF Above
  <2>5. [k \in DOMAIN c.parents |-> w[c.parents[k]]] \in Seq(E)
    BY <1>2, <2>1, MapAppend
  <2>6. [k \in DOMAIN Append(c.parents, new) |-> w[Append(c.parents, new)[k]]]
          = Append([k \in DOMAIN c.parents |-> w[c.parents[k]]], w[new])
    <3>1. PICK s \in Seq(ContextOf) : s = c.parents
      BY <1>2
    <3>2. \A x \in ContextOf : [k \in DOMAIN Append(s, x) |-> w[Append(s, x)[k]]]
                              = Append([k \in DOMAIN s |-> w[s[k]]], w[x])
      BY <2>1, MapAppend
    <3>. QED  BY <1>3, <3>1, <3>2
  <2>7. w[new] = c.units
    BY <1>3, <1>6
  <2>. QED  BY <1>4, <2>3, <2>4, <2>5, <2>6, <2>7 DEF E
<1>9. /\ Document!TextsOf(e) = Document!FlattenSeq(Append(Above(contexts), d.units))
      /\ Document!TextsOf(c) = Document!FlattenSeq(Append(Above(c.parents), c.units))
  BY <1>5 DEF Document!TextsOf
<1>. HIDE DEF Above
<1>10. Document!TextsOf(e) = Document!FlattenSeq(Above(contexts)) \o d.units
  <2>1. Above(contexts) \in Seq(Seq(UnitOf))
    <3>. DEFINE E == Seq(UnitOf)
    <3>1. Above(c.parents) \in Seq(E) /\ c.units \in E
      BY <1>2, <1>8
    <3>. HIDE DEF E
    <3>2. Append(Above(c.parents), c.units) \in Seq(E)
      BY <3>1, ListAppend
    <3>. QED  BY <1>8, <3>2 DEF E
  <2>. QED  BY <1>2, <1>9, <2>1, FlatAppend
<1>11. Document!TextsOf(d) = d.units
  BY TextsAre
<1>. QED  BY <1>1, <1>5, <1>8, <1>9, <1>10, <1>11 DEF e, contexts

\* After two neighbours, no third one.
LEMMA NoSecond ==
  ASSUME OrderInv, Document!PathsDistinct, Minimum \in Nat, 2 * Minimum <= Maximum + 2,
         NEW c \in ChunkOf, NEW e \in ChunkOf, NEW d \in ChunkOf, Follows(c, e),
         Document!Absorbable(e, d), ~Document!Absorbable(c, e)
  PROVE  ~Document!Absorbable(c, d)
<1>. SUFFICES ASSUME Document!Absorbable(c, d) PROVE FALSE
  OBVIOUS
<1>1. /\ StructureInv /\ EntriesOrdered /\ Maximum \in Nat
      /\ enriched \in Seq(Entry) /\ \A k \in DOMAIN enriched : enriched[k] \in Entry
  <2>1. StructureInv /\ EntriesOrdered
    BY DEF OrderInv
  <2>. QED  BY <2>1, ListHas, DocumentAssumption DEF StructureInv, EntriesOK, DocumentAssumption
<1>2. PICK k \in DOMAIN enriched : c.place = Document!Place(k)
  BY ChunkPlace
<1>3. PICK l \in DOMAIN enriched : e.place = Document!Place(l)
  BY ChunkPlace
<1>4. /\ enriched[k].section # NONE /\ enriched[l].section # NONE
      /\ enriched[k].zone = enriched[l].zone
  BY <1>2, <1>3 DEF Document!Absorbable, Document!Place
<1>5. /\ enriched[k].section \in Nat /\ enriched[l].section \in Nat
      /\ enriched[k].section <= enriched[l].section
  <2>1. enriched[k].section \in Nat \cup {NONE} /\ enriched[l].section \in Nat \cup {NONE}
    BY <1>1 DEF Entry
  <2>2. Rank(enriched[k].section) <= Rank(enriched[l].section)
    BY <1>2, <1>3 DEF Follows, FollowsAt, Document!Place
  <2>. QED  BY <1>4, <2>1, <2>2 DEF Rank
<1>. DEFINE p == enriched[k].path
            q == enriched[l].path
            r == d.place.path
<1>6. /\ p \in Seq(Titles) /\ q \in Seq(Titles) /\ r \in Seq(Titles)
      /\ Len(p) \in Nat /\ Len(q) \in Nat /\ Len(q) >= 1
  <2>1. p \in Seq(Titles) /\ q \in Seq(Titles)
    BY <1>1 DEF Entry
  <2>2. r \in Seq(Titles)
    BY <1>1, SpotPath DEF ChunkOf
  <2>3. q # <<>>
    BY <1>1, <1>4 DEF EntriesOrdered
  <2>. QED  BY <2>1, <2>2, <2>3, ListHas
<1>7. Document!IsStrictPrefix(p, r) /\ Document!IsStrictPrefix(q, r)
  BY <1>2, <1>3 DEF Document!Absorbable, Document!Place
<1>8. ~Document!IsStrictPrefix(p, q)
  BY <1>2, <1>3, <1>4 DEF Document!Absorbable, Document!Place
<1>. HIDE DEF p, q, r
<1>9. /\ Len(p) <= Len(r) /\ \A i \in 1..Len(p) : p[i] = r[i]
      /\ Len(q) <= Len(r) /\ \A i \in 1..Len(q) : q[i] = r[i]
  BY <1>6, <1>7, PrefixIs DEF Document!IsStrictPrefix
<1>10. CASE Len(p) < Len(q)
  <2>1. Len(p) <= Len(q) /\ \A i \in 1..Len(p) : i \in 1..Len(q)
    BY <1>6, <1>10
  <2>2. \A i \in 1..Len(p) : p[i] = q[i]
    BY <1>9, <2>1
  <2>3. p # q
    BY <1>6, <1>10
  <2>. QED  BY <1>6, <1>8, <2>1, <2>2, <2>3, PrefixIs DEF Document!IsStrictPrefix
<1>11. CASE Len(p) = Len(q)
  <2>1. p = q
    BY <1>6, <1>9, <1>11, SeqEqual
  <2>2. enriched[k].section = enriched[l].section
    BY <2>1 DEF Document!PathsDistinct, p, q
  <2>3. c.place = e.place
    BY <1>2, <1>3, <1>4, <2>1, <2>2 DEF Document!Place, p, q
  <2>4. Document!Size(c.units) + Document!Tokens(e.units[1].text) > Maximum
    BY <2>3 DEF Follows, FollowsAt
  <2>5. /\ c.units \in Seq(UnitOf) /\ e.units \in Seq(UnitOf) /\ e.units # <<>>
        /\ e.units[1].text \in Texts
    <3>1. c.units \in Seq(UnitOf) /\ e.units \in Seq(UnitOf) /\ e.units # <<>>
      BY DEF ChunkOf
    <3>2. e.units[1] \in UnitOf
      BY <3>1, ListHas
    <3>. QED  BY <3>1, <3>2 DEF UnitOf
  <2>6. /\ Document!Size(c.units) \in Int /\ Document!Size(e.units) \in Int
        /\ Document!Tokens(e.units[1].text) \in Int
        /\ Document!Tokens(e.units[1].text) <= Document!Size(e.units)
    BY <2>5, SizeOfUnits, TokensOfText, FirstUnit
  <2>7. Document!Size(c.units) < Minimum /\ Document!Size(e.units) < Minimum
    BY DEF Document!Absorbable
  <2>. QED  BY <1>1, <2>4, <2>6, <2>7
<1>12. CASE Len(p) > Len(q)
  <2>1. Len(q) \in 1..(Len(p) - 1)
    BY <1>6, <1>12
  <2>2. PICK n \in DOMAIN enriched :
          /\ enriched[n].path = SubSeq(p, 1, Len(q))
          /\ enriched[n].section \in Nat /\ enriched[n].section < enriched[k].section
    BY <1>1, <2>1 DEF EntriesOrdered, Ancestor, p
  <2>3. SubSeq(p, 1, Len(q)) = q
    <3>1. Len(q) <= Len(p) /\ \A i \in 1..Len(q) : i \in 1..Len(p)
      BY <1>6, <1>12
    <3>2. \A i \in 1..Len(q) : q[i] = p[i]
      BY <1>9, <3>1
    <3>3. Document!IsPrefix(q, p)
      BY <1>6, <3>1, <3>2, PrefixIs
    <3>4. SubSeq(q, 1, Len(q)) = q
      BY <1>6, SubSeqFull
    <3>. QED  BY <3>3, <3>4 DEF Document!IsPrefix
  <2>4. enriched[n].section = enriched[l].section
    BY <2>2, <2>3 DEF Document!PathsDistinct, q
  <2>. QED  BY <1>5, <2>2, <2>4
<1>. QED  BY <1>6, <1>10, <1>11, <1>12

TextsIn(all) == [k \in DOMAIN all |-> Document!TextsOf(all[k])]

LEMMA TextsInAre ==
  ASSUME NEW all \in Seq(ChunkOf)
  PROVE  /\ TextsIn(all) \in Seq(Seq(UnitOf)) /\ Len(TextsIn(all)) = Len(all)
         /\ \A k \in 1..Len(all) : TextsIn(all)[k] = Document!TextsOf(all[k])
<1>. DEFINE E == Seq(UnitOf)
            m == Len(all)
<1>1. m \in Nat /\ DOMAIN all = 1..m /\ \A k \in 1..m : all[k] \in ChunkOf
  BY ListHas
<1>2. \A k \in 1..m : Document!TextsOf(all[k]) \in E
  BY <1>1, TextsAre
<1>. HIDE DEF E, m
<1>3. /\ TextsIn(all) \in [1..m -> E]
      /\ \A k \in 1..m : TextsIn(all)[k] = Document!TextsOf(all[k])
  BY <1>1, <1>2 DEF TextsIn
<1>. QED  BY <1>1, <1>3, ListOf DEF E, m

\* Below the index no chunk goes into the next one; above it nothing was handed on.
Scanned(all, i) ==
  /\ InOrder(all)
  /\ \A j \in 1..(i - 1) : j + 1 <= Len(all) => ~Document!Absorbable(all[j], all[j + 1])
  /\ \A j \in DOMAIN all : j > i + 1 => all[j].parents = <<>>
  /\ i + 1 <= Len(all) =>
       all[i + 1].parents = <<>> \/ ~Document!Absorbable(all[i], all[i + 1])

\* The chunks when the i-th has gone into the next one.
GoneInto(all, less, i) ==
  /\ less \in Seq(ChunkOf) /\ Len(less) = Len(all) - 1 /\ DOMAIN less = 1..(Len(all) - 1)
  /\ \A j \in 1..(i - 1) : less[j] = all[j]
  /\ less[i] = Given(all[i + 1], Document!Inherited(all[i]))
  /\ \A j \in (i + 1)..(Len(all) - 1) : less[j] = all[j + 1]

LEMMA GoesInto ==
  ASSUME StructureInv, NEW s \in ScanOf, s.index + 1 <= Len(s.chunks),
         Document!Absorbable(s.chunks[s.index], s.chunks[s.index + 1])
  PROVE  LET t == Document!AbsorbStep(s) IN
         /\ GoneInto(s.chunks, t.chunks, s.index)
         /\ t.index = IF s.index > 1 THEN s.index - 1 ELSE s.index
<1>. DEFINE i == s.index
            all == s.chunks
            m == Len(all)
            d == Given(all[i + 1], Document!Inherited(all[i]))
            given == [all EXCEPT ![i + 1].parents = Document!Inherited(all[i])]
            less == Document!RemoveAt(given, i)
            t == Document!AbsorbStep(s)
<1>1. /\ all \in Seq(ChunkOf) /\ i \in Nat /\ i >= 1 /\ m \in Nat
      /\ i \in 1..m /\ i + 1 \in 1..m /\ DOMAIN all = 1..m
      /\ all[i] \in ChunkOf /\ all[i + 1] \in ChunkOf
  <2>1. all \in Seq(ChunkOf) /\ i \in Nat /\ i >= 1
    BY DEF ScanOf
  <2>2. m \in Nat /\ DOMAIN all = 1..m
    BY <2>1, ListHas
  <2>3. i + 1 \in 1..m /\ i \in 1..m
    BY <2>1, <2>2
  <2>. QED  BY <2>1, <2>2, <2>3, ListHas
<1>2. ~(i + 1 > m)
  BY <1>1
<1>3. t = [chunks |-> less, index |-> IF i > 1 THEN i - 1 ELSE i]
  BY <1>2 DEF Document!AbsorbStep
<1>4. d \in ChunkOf
  BY <1>1, InheritsOK DEF Given
<1>5. given = [all EXCEPT ![i + 1] = d]
  BY DEF Given
<1>. HIDE DEF d, given, less, t
<1>6. /\ given \in Seq(ChunkOf) /\ Len(given) = m /\ given[i + 1] = d
      /\ \A j \in 1..m : j # i + 1 => given[j] = all[j]
  <2>1. given \in Seq(ChunkOf) /\ Len(given) = m
    <3>. HIDE DEF i, all
    <3>. QED  BY <1>1, <1>4, <1>5, ExceptSeq
  <2>2. given[i + 1] = d /\ \A j \in 1..m : j # i + 1 => given[j] = all[j]
    <3>. HIDE DEF i, all, m
    <3>. QED  BY <1>1, <1>5
  <2>. QED  BY <2>1, <2>2
<1>. HIDE DEF i, all, m
<1>7. /\ less \in Seq(ChunkOf) /\ Len(less) = m - 1
      /\ \A j \in 1..(i - 1) : less[j] = given[j]
      /\ \A j \in i..(m - 1) : less[j] = given[j + 1]
  BY <1>1, <1>6, RemovedIs DEF less
<1>8. DOMAIN less = 1..(m - 1)
  BY <1>7, ListHas
<1>9. \A j \in 1..(i - 1) : less[j] = all[j]
  <2>1. \A j \in 1..(i - 1) : j \in 1..m /\ j # i + 1
    BY <1>1
  <2>. QED  BY <1>6, <1>7, <2>1
<1>10. less[i] = d
  <2>1. i \in i..(m - 1)
    BY <1>1
  <2>. QED  BY <1>6, <1>7, <2>1
<1>11. \A j \in (i + 1)..(m - 1) : less[j] = all[j + 1]
  <2>1. \A j \in (i + 1)..(m - 1) : j \in i..(m - 1) /\ j + 1 \in 1..m /\ j + 1 # i + 1
    BY <1>1
  <2>. QED  BY <1>6, <1>7, <2>1
<1>12. GoneInto(all, less, i)
  BY <1>7, <1>8, <1>9, <1>10, <1>11 DEF GoneInto, d, m
<1>13. t.chunks = less /\ t.index = IF i > 1 THEN i - 1 ELSE i
  BY <1>3
<1>. QED  BY <1>12, <1>13 DEF t, i, all

\* Where a section follows one above it, they are not of one place.
LEMMA NotOfOnePlace ==
  ASSUME OrderInv, NEW c \in ChunkOf, NEW e \in ChunkOf, NEW d \in ChunkOf,
         Follows(c, e), Follows(e, d), Document!Absorbable(e, d)
  PROVE  Follows(c, d)
<1>1. /\ StructureInv /\ EntriesOrdered
  BY DEF OrderInv
<1>2. PICK k \in DOMAIN enriched : e.place = Document!Place(k)
  BY ChunkPlace
<1>3. PICK l \in DOMAIN enriched : d.place = Document!Place(l)
  BY ChunkPlace
<1>4. /\ c.place \in Spots /\ d.place \in Spots /\ e.place \in Spots
  BY DEF ChunkOf
<1>5. /\ c.place.section \in Nat \cup {NONE} /\ Rank(c.place.section) \in Nat
      /\ e.place.section \in Nat \cup {NONE} /\ Rank(e.place.section) \in Nat
      /\ d.place.section \in Nat \cup {NONE} /\ Rank(d.place.section) \in Nat
  BY <1>1, <1>4, SpotSection
<1>6. /\ Rank(c.place.section) <= Rank(e.place.section)
      /\ Rank(e.place.section) <= Rank(d.place.section)
  BY DEF Follows, FollowsAt
<1>7. c.place # d.place
  <2>1. SUFFICES ASSUME c.place = d.place PROVE FALSE
    OBVIOUS
  <2>2. Rank(e.place.section) = Rank(d.place.section)
    BY <1>5, <1>6, <2>1
  <2>3. e.place.section # NONE /\ e.place.section >= 1
    <3>1. e.place.section # NONE
      BY DEF Document!Absorbable
    <3>. QED  BY <1>1, <1>2, <3>1 DEF EntriesOrdered, Document!Place
  <2>4. e.place.section = d.place.section
    BY <1>5, <2>2, <2>3 DEF Rank
  <2>5. enriched[k].section = enriched[l].section
    BY <1>2, <1>3, <2>4 DEF Document!Place
  <2>6. enriched[k].path = enriched[l].path
    BY <1>1, <2>5 DEF StructureInv, EntriesOK
  <2>7. e.place.path = d.place.path
    BY <1>2, <1>3, <2>6 DEF Document!Place
  <2>. QED  BY <2>7 DEF Document!Absorbable, Document!IsStrictPrefix
<1>. QED  BY <1>5, <1>6, <1>7 DEF Follows, FollowsAt

\* Two chunks of one section and zone that do not fit in one are not both small.
SmallJoin == Minimum \in Nat /\ 2 * Minimum <= Maximum + 2

LEMMA ScanStaysInOrder ==
  ASSUME OrderInv, NEW all \in Seq(ChunkOf), NEW less, NEW i \in 1..(Len(all) - 1),
         GoneInto(all, less, i), InOrder(all), Document!Absorbable(all[i], all[i + 1])
  PROVE  InOrder(less)
<1>. DEFINE m == Len(all)
<1>1. /\ m \in Nat /\ DOMAIN all = 1..m /\ (\A k \in 1..m : all[k] \in ChunkOf)
      /\ i \in Nat /\ i >= 1 /\ i + 1 <= m
  BY ListHas
<1>2. /\ Len(less) = m - 1
      /\ \A j \in 1..(i - 1) : less[j] = all[j]
      /\ less[i] = Given(all[i + 1], Document!Inherited(all[i]))
      /\ \A j \in (i + 1)..(m - 1) : less[j] = all[j + 1]
  BY DEF GoneInto
<1>3. \A j \in 1..(m - 1) : Follows(all[j], all[j + 1])
  BY DEF InOrder
<1>. HIDE DEF m
<1>4. less[i].place = all[i + 1].place /\ less[i].units = all[i + 1].units
  <2>1. all[i + 1] \in ChunkOf
    BY <1>1
  <2>2. all[i + 1] \in [place : Spots, units : Seq(UnitOf), parents : Seq(ContextOf)]
    BY <2>1 DEF ChunkOf
  <2>3. PICK d \in [place : Spots, units : Seq(UnitOf), parents : Seq(ContextOf)] : d = all[i + 1]
    BY <2>2
  <2>. QED  BY <1>2, <2>3 DEF Given
<1>5. ASSUME NEW j \in 1..((m - 1) - 1) PROVE Follows(less[j], less[j + 1])
  <2>1. CASE j + 1 < i
    <3>1. j \in 1..(i - 1) /\ j + 1 \in 1..(i - 1) /\ j \in 1..(m - 1)
      BY <1>1, <2>1
    <3>. QED  BY <1>2, <1>3, <3>1
  <2>2. CASE j + 1 = i
    <3>1. /\ j \in 1..(i - 1) /\ j \in 1..(m - 1) /\ i \in 1..(m - 1)
          /\ j \in 1..m /\ i \in 1..m /\ i + 1 \in 1..m
      BY <1>1, <2>2
    <3>2. Follows(all[j], all[i]) /\ Follows(all[i], all[i + 1])
      BY <1>3, <2>2, <3>1
    <3>3. all[j] \in ChunkOf /\ all[i] \in ChunkOf /\ all[i + 1] \in ChunkOf
      BY <1>1, <3>1
    <3>4. Follows(all[j], all[i + 1])
      BY <3>2, <3>3, NotOfOnePlace
    <3>. QED  BY <1>2, <1>4, <2>2, <3>1, <3>4 DEF Follows
  <2>3. CASE j = i
    <3>1. i + 1 \in (i + 1)..(m - 1) /\ i + 1 \in 1..(m - 1)
      BY <1>1, <2>3
    <3>2. Follows(all[i + 1], all[(i + 1) + 1]) /\ less[i + 1] = all[(i + 1) + 1]
      BY <1>2, <1>3, <3>1
    <3>. QED  BY <1>4, <2>3, <3>2 DEF Follows, FollowsAt
  <2>4. CASE j > i
    <3>1. j \in (i + 1)..(m - 1) /\ j + 1 \in (i + 1)..(m - 1) /\ j + 1 \in 1..(m - 1)
      BY <1>1, <2>4
    <3>. QED  BY <1>2, <1>3, <3>1
  <2>. QED  BY <1>1, <2>1, <2>2, <2>3, <2>4
<1>. QED  BY <1>2, <1>5 DEF InOrder

LEMMA AbsorbKeeps ==
  ASSUME OrderInv, Document!PathsDistinct, SmallJoin,
         NEW s \in ScanOf, Scanned(s.chunks, s.index)
  PROVE  LET t == Document!AbsorbStep(s) IN
         /\ Scanned(t.chunks, t.index)
         /\ Document!FlattenSeq(TextsIn(t.chunks)) = Document!FlattenSeq(TextsIn(s.chunks))
<1>. DEFINE i == s.index
            all == s.chunks
            m == Len(all)
            t == Document!AbsorbStep(s)
<1>1. /\ all \in Seq(ChunkOf) /\ i \in Nat /\ i >= 1 /\ m \in Nat /\ DOMAIN all = 1..m
      /\ s = [chunks |-> all, index |-> i]
      /\ \A k \in 1..m : all[k] \in ChunkOf
  <2>1. all \in Seq(ChunkOf) /\ i \in Nat /\ i >= 1 /\ s = [chunks |-> all, index |-> i]
    BY DEF ScanOf
  <2>. QED  BY <2>1, ListHas
<1>2. /\ InOrder(all)
      /\ \A j \in 1..(i - 1) : j + 1 <= m => ~Document!Absorbable(all[j], all[j + 1])
      /\ \A j \in 1..m : j > i + 1 => all[j].parents = <<>>
      /\ i + 1 <= m => all[i + 1].parents = <<>> \/ ~Document!Absorbable(all[i], all[i + 1])
  BY <1>1 DEF Scanned
<1>3. CASE i + 1 > m
  BY <1>3 DEF Document!AbsorbStep
<1>4. CASE ~(i + 1 > m) /\ ~Document!Absorbable(all[i], all[i + 1])
  <2>1. t = [s EXCEPT !.index = i + 1]
    BY <1>4 DEF Document!AbsorbStep
  <2>. HIDE DEF t, m, all, i
  <2>2. t.chunks = all /\ t.index = i + 1
    BY <1>1, <2>1
  <2>3. \A j \in 1..((i + 1) - 1) : j + 1 <= m => ~Document!Absorbable(all[j], all[j + 1])
    <3>1. \A j \in 1..((i + 1) - 1) : j = i \/ j \in 1..(i - 1)
      BY <1>1
    <3>. QED  BY <1>2, <1>4, <3>1
  <2>4. /\ \A j \in 1..m : j > (i + 1) + 1 => all[j].parents = <<>>
        /\ (i + 1) + 1 <= m => all[(i + 1) + 1].parents = <<>>
    <3>1. (i + 1) + 1 > i + 1 /\ \A j \in 1..m : j > (i + 1) + 1 => j > i + 1
      BY <1>1
    <3>2. (i + 1) + 1 <= m => (i + 1) + 1 \in 1..m
      BY <1>1
    <3>. QED  BY <1>2, <3>1, <3>2
  <2>5. Scanned(all, i + 1)
    BY <1>1, <1>2, <2>3, <2>4 DEF Scanned, m
  <2>. QED  BY <2>2, <2>5 DEF t, all
<1>5. CASE ~(i + 1 > m) /\ Document!Absorbable(all[i], all[i + 1])
  <2>. DEFINE less == t.chunks
              new == IF i > 1 THEN i - 1 ELSE i
              d == all[i + 1]
  <2>1. /\ i + 1 <= m /\ i \in 1..m /\ i + 1 \in 1..m /\ i \in 1..(m - 1)
        /\ all[i] \in ChunkOf /\ d \in ChunkOf
    BY <1>1, <1>5
  <2>2. d.parents = <<>>
    BY <1>2, <1>5, <2>1
  <2>3. GoneInto(all, less, i) /\ t.index = new
    <3>1. StructureInv
      BY DEF OrderInv
    <3>. QED  BY <1>5, <2>1, <3>1, GoesInto
  <2>. HIDE DEF t, less
  <2>4. /\ less \in Seq(ChunkOf) /\ Len(less) = m - 1 /\ DOMAIN less = 1..(m - 1)
        /\ \A j \in 1..(i - 1) : less[j] = all[j]
        /\ less[i] = Given(d, Document!Inherited(all[i]))
        /\ \A j \in (i + 1)..(m - 1) : less[j] = all[j + 1]
    BY <2>3 DEF GoneInto
  <2>5. InOrder(less)
    BY <1>1, <1>2, <1>5, <2>1, <2>3, ScanStaysInOrder
  <2>6. /\ less[i].place = d.place
        /\ Document!TextsOf(less[i]) = Document!TextsOf(all[i]) \o Document!TextsOf(d)
    <3>1. StructureInv
      BY DEF OrderInv
    <3>. QED  BY <1>5, <2>1, <2>2, <2>4, <3>1, AbsorbedTexts
  <2>. HIDE DEF d, m, all, i
  <2>7. ASSUME NEW j \in 1..(new - 1), j + 1 <= m - 1
        PROVE  ~Document!Absorbable(less[j], less[j + 1])
    <3>1. /\ j \in 1..(i - 1) /\ j + 1 \in 1..(i - 1) /\ j + 1 <= m
      BY <1>1, <2>7
    <3>. QED  BY <1>2, <2>4, <3>1
  <2>8. \A j \in 1..(m - 1) : j > i => less[j].parents = <<>>
    <3>1. ASSUME NEW j \in 1..(m - 1), j > i PROVE less[j].parents = <<>>
      <4>1. j \in (i + 1)..(m - 1) /\ j + 1 \in 1..m /\ j + 1 > i + 1
        BY <1>1, <3>1
      <4>. QED  BY <1>2, <2>4, <4>1
    <3>. QED  BY <3>1
  <2>9. \A j \in 1..(m - 1) : j > new + 1 => less[j].parents = <<>>
    <3>1. \A j \in 1..(m - 1) : j > new + 1 => j > i
      BY <1>1
    <3>. QED  BY <2>8, <3>1
  <2>10. ASSUME new + 1 <= m - 1
         PROVE  less[new + 1].parents = <<>> \/ ~Document!Absorbable(less[new], less[new + 1])
    <3>1. CASE i > 1
      <4>. DEFINE c == all[i - 1]
      <4>1. /\ i - 1 \in 1..(i - 1) /\ (i - 1) + 1 = i /\ i - 1 \in 1..m /\ i - 1 \in 1..(m - 1)
            /\ i <= m /\ new = i - 1 /\ new + 1 = i
        BY <1>1, <2>1, <3>1
      <4>2. c \in ChunkOf /\ less[new] = c
        BY <1>1, <2>4, <4>1
      <4>3. ~Document!Absorbable(c, all[i])
        BY <1>2, <4>1
      <4>4. Follows(c, all[i])
        <5>1. Follows(all[i - 1], all[(i - 1) + 1])
          BY <1>2, <4>1 DEF InOrder, m
        <5>. QED  BY <4>1, <5>1
      <4>. HIDE DEF c
      <4>5. ~Document!Absorbable(c, d)
        BY <1>5, <2>1, <4>2, <4>3, <4>4, NoSecond DEF d, SmallJoin
      <4>6. ~Document!Absorbable(c, less[i])
        BY <2>6, <4>5 DEF Document!Absorbable
      <4>. QED  BY <4>1, <4>2, <4>6
    <3>2. CASE ~(i > 1)
      <4>1. new + 1 \in 1..(m - 1) /\ new + 1 > i
        BY <1>1, <2>10, <3>2
      <4>. QED  BY <2>8, <4>1
    <3>. QED  BY <3>1, <3>2
  <2>11. Scanned(less, new)
    <3>. HIDE DEF new
    <3>. QED  BY <2>4, <2>5, <2>7, <2>9, <2>10 DEF Scanned
  <2>12. Document!FlattenSeq(TextsIn(less)) = Document!FlattenSeq(TextsIn(all))
    <3>. DEFINE before == TextsIn(all)
                after == TextsIn(less)
    <3>1. /\ before \in Seq(Seq(UnitOf)) /\ Len(before) = m
          /\ \A k \in 1..m : before[k] = Document!TextsOf(all[k])
      BY <1>1, TextsInAre DEF m
    <3>2. /\ after \in Seq(Seq(UnitOf)) /\ Len(after) = m - 1
          /\ \A k \in 1..(m - 1) : after[k] = Document!TextsOf(less[k])
      BY <2>4, TextsInAre
    <3>. HIDE DEF before, after
    <3>3. \A k \in 1..(i - 1) : after[k] = before[k]
      <4>1. \A k \in 1..(i - 1) : k \in 1..m /\ k \in 1..(m - 1)
        BY <1>1, <2>1
      <4>. QED  BY <2>4, <3>1, <3>2, <4>1
    <3>4. after[i] = before[i] \o before[i + 1]
      BY <2>1, <2>6, <3>1, <3>2 DEF d
    <3>5. \A k \in (i + 1)..(m - 1) : after[k] = before[k + 1]
      <4>1. \A k \in (i + 1)..(m - 1) : k + 1 \in 1..m /\ k \in 1..(m - 1)
        BY <1>1, <2>1
      <4>. QED  BY <2>4, <3>1, <3>2, <4>1
    <3>6. /\ i \in 1..Len(after) /\ Len(before) = Len(after) + 1
          /\ \A k \in (i + 1)..Len(after) : after[k] = before[k + 1]
      BY <1>1, <2>1, <3>1, <3>2, <3>5
    <3>7. Document!FlattenSeq(after) = Document!FlattenSeq(before)
      BY <3>1, <3>2, <3>3, <3>4, <3>6, FlatMerge
    <3>. QED  BY <3>7 DEF before, after
  <2>. QED  BY <2>3, <2>11, <2>12 DEF t, less, all
<1>. QED  BY <1>3, <1>4, <1>5

LEMMA AbsorbedKeeps ==
  ASSUME OrderInv, Document!PathsDistinct, SmallJoin,
         NEW all \in Seq(ChunkOf), Plain(all), InOrder(all)
  PROVE  /\ Document!Absorbed(all) \in Seq(ChunkOf)
         /\ Document!FlattenSeq(TextsIn(Document!Absorbed(all))) = Document!FlattenSeq(TextsIn(all))
<1>. DEFINE m == 2 * Len(all)
            texts == Document!FlattenSeq(TextsIn(all))
<1>1. StructureInv /\ Len(all) \in Nat /\ DOMAIN all = 1..Len(all)
  BY ListHas DEF OrderInv
<1>2. PICK f :
        /\ f[0] = [chunks |-> all, index |-> 1]
        /\ \A n \in 1..m : f[n] = Document!AbsorbStep(f[n - 1])
        /\ \A n \in 0..m : f[n] \in ScanOf
        /\ Document!Absorbed(all) = f[m].chunks
  BY <1>1, AbsorbedSteps
<1>3. m \in Nat
  BY <1>1
<1>. HIDE DEF m
<1>. DEFINE T == {n \in 0..m : /\ Scanned(f[n].chunks, f[n].index)
                               /\ Document!FlattenSeq(TextsIn(f[n].chunks)) = texts}
<1>4. 0 \in T
  <2>1. f[0].chunks = all /\ f[0].index = 1
    BY <1>2
  <2>2. Scanned(all, 1)
    <3>1. \A j \in DOMAIN all : all[j].parents = <<>>
      BY DEF Plain
    <3>2. 1 + 1 <= Len(all) => 1 + 1 \in DOMAIN all
      BY <1>1
    <3>3. \A j \in 1..(1 - 1) : FALSE
      OBVIOUS
    <3>. QED  BY <3>1, <3>2, <3>3 DEF Scanned
  <2>3. 0 \in 0..m
    BY <1>3
  <2>. QED  BY <2>1, <2>2, <2>3
<1>5. ASSUME NEW n \in 1..m, n - 1 \in T PROVE n \in T
  <2>1. n - 1 \in 0..m /\ n \in 0..m
    BY <1>3
  <2>. DEFINE s == f[n - 1]
  <2>2. s \in ScanOf /\ Scanned(s.chunks, s.index) /\ Document!FlattenSeq(TextsIn(s.chunks)) = texts
    BY <1>2, <1>5, <2>1
  <2>3. f[n] = Document!AbsorbStep(s)
    BY <1>2
  <2>. HIDE DEF s, texts
  <2>4. /\ Scanned(f[n].chunks, f[n].index)
        /\ Document!FlattenSeq(TextsIn(f[n].chunks)) = texts
    BY <2>2, <2>3, AbsorbKeeps
  <2>. QED  BY <2>1, <2>4
<1>. HIDE DEF T
<1>6. \A n \in 0..m : n \in T
  BY <1>3, <1>4, <1>5, UpTo
<1>7. m \in 0..m
  BY <1>3
<1>8. m \in T
  BY <1>6, <1>7
<1>. QED  BY <1>2, <1>7, <1>8 DEF T, ScanOf

\* Units of the packed chunks are all their texts.
LEMMA PlainTexts ==
  ASSUME NEW all \in Seq(ChunkOf), Plain(all)
  PROVE  TextsIn(all) = UnitsIn(all)
<1>1. \A k \in DOMAIN all : all[k] \in ChunkOf
  BY ListHas
<1>2. \A k \in DOMAIN all : Document!TextsOf(all[k]) = all[k].units
  BY <1>1, TextsAre DEF Plain
<1>. QED  BY <1>2 DEF TextsIn, UnitsIn

LEMMA NothingLostOK ==
  ASSUME OrderInv, SmallJoin
  PROVE  Document!NothingLost
<1>. SUFFICES ASSUME Document!PathsDistinct PROVE Document!NothingLost
  BY DEF Document!NothingLost
<1>. DEFINE packed == Document!Packed
            absorbed == Document!Absorbed(packed)
            texts == [i \in DOMAIN Document!Chunks |-> Document!TextsOf(Document!Chunks[i])]
<1>1. /\ StructureInv /\ packed \in Seq(ChunkOf)
      /\ Plain(packed) /\ InOrder(packed)
      /\ Document!FlattenSeq(UnitsIn(packed)) = Document!FlattenSeq(BlockUnits)
  BY PackedKeeps, PackedOK DEF OrderInv
<1>. HIDE DEF packed
<1>2. Document!FlattenSeq(TextsIn(absorbed)) = Document!FlattenSeq(BlockUnits)
  BY <1>1, AbsorbedKeeps, PlainTexts
<1>3. Document!Chunks = [i \in DOMAIN absorbed |->
        [place |-> absorbed[i].place, units |-> absorbed[i].units, parents |-> absorbed[i].parents,
         overlap |-> Document!OverlapInto(absorbed, i)]]
  BY DEF Document!Chunks, packed
<1>. HIDE DEF absorbed
<1>4. texts = TextsIn(absorbed)
  <2>1. /\ DOMAIN Document!Chunks = DOMAIN absorbed
        /\ \A i \in DOMAIN absorbed :
             /\ Document!Chunks[i].units = absorbed[i].units
             /\ Document!Chunks[i].parents = absorbed[i].parents
    BY <1>3
  <2>2. \A i \in DOMAIN absorbed :
          Document!TextsOf(Document!Chunks[i]) = Document!TextsOf(absorbed[i])
    BY <2>1 DEF Document!TextsOf
  <2>. QED  BY <2>1, <2>2 DEF TextsIn
<1>5. Document!FlattenSeq(texts) = Document!FlattenSeq(BlockUnits)
  BY <1>2, <1>4
<1>. QED  BY <1>5 DEF Document!NothingLost, BlockUnits

\* Each part of each searchable block of any document is in its chunks once and in document
\* order, whatever was split, packed and absorbed (build_chunks), when no heading is
\* repeated on one path and two small texts of one section fit in one chunk.
THEOREM NoTextIsLost ==
  ASSUME SmallJoin
  PROVE  Document!StructureSpec => []Document!NothingLost
<1>1. OrderInv => Document!NothingLost
  BY NothingLostOK
<1>. QED  BY <1>1, OrderInvInit, OrderInvStep, PTL DEF Document!StructureSpec

-----------------------------------------------------------------------------
(* What a parse writes (parse_paper).                                      *)

WordsRead == [length : Nat, kind : {"sound", "control", "replaced", "garbled"}]
FormulasRead == [kind : {"sound", "control", "replaced", "broken"}, risky : BOOLEAN]

LEMMA ParsingConstants ==
  /\ Pages \in Nat /\ DocumentMinimum \in Nat /\ PageMinimum \in Nat
  /\ NONE \notin WordsRead /\ NONE \notin FormulasRead /\ NONE \notin HtmlRead
  /\ \A words \in NativeTexts : words = NONE \/ words \in WordsRead
  /\ \A latex \in LatexRead : latex \in FormulasRead
  /\ \A raw \in RawBlocks :
       /\ raw.source \in {"title", "paragraph", "equation_interline", "image", "table", "page_header"}
       /\ raw.words = NONE \/ raw.words \in WordsRead
       /\ raw.latex = NONE \/ raw.latex \in FormulasRead
       /\ raw.source \in {"title", "paragraph"} => raw.image = NONE
BY ParsingAssumption DEF ParsingAssumption, WordsRead, FormulasRead

Issues ==
  {"missing_latex", "missing_equation_image", "table_html_empty", "missing_table_image",
   "empty_block", "mineru_text_coverage_low", "control_character", "replacement_character",
   "text_character_coverage_low", "formula", "empty_figure", "empty_table"}
BlockTypes == {"title", "paragraph", "equation", "figure", "table", "page_metadata"}
BlockOf ==
  [page : 1..Pages, order : Nat, type : BlockTypes, words : WordsRead \cup {NONE},
   latex : FormulasRead \cup {NONE}, latex_raw : FormulasRead \cup {NONE},
   html : {raw.html : raw \in RawBlocks} \cup {NONE, "cells"},
   image : {raw.image : raw \in RawBlocks} \cup {NONE},
   issues : SUBSET Issues, enabled : BOOLEAN]

LEMMA SameCardinality == \A S : Parsed!Cardinality(S) = Cardinality(S)
BY DEF Parsed!Cardinality, Cardinality

\* Furniture and empty blocks are disabled at once.
Hollow(b) == b.type \in {"title", "paragraph", "figure"} /\ b.words = NONE /\ b.image = NONE

\* A block as it is until it is validated.
Unjudged(b) ==
  /\ b \in BlockOf
  /\ b.enabled <=> b.type # "page_metadata" /\ ~Hollow(b)
  /\ b.type \in {"title", "paragraph"} => b.image = NONE
  /\ b.latex = NONE => b.latex_raw = NONE

MineruOK == mineru \in Seq([raw : RawBlocks, page : 1..Pages])
NativeOK == native \in [1..Pages -> NativeTexts]

LEMMA ConvertOK ==
  ASSUME MineruOK, NEW i \in DOMAIN mineru
  PROVE  LET b == Parsed!Convert(i) IN
         /\ Unjudged(b)
         /\ b.page = mineru[i].page /\ b.type = Parsed!SourceTypes[mineru[i].raw.source]
         /\ b.image = mineru[i].raw.image
         /\ b.latex = mineru[i].raw.latex /\ b.latex_raw = mineru[i].raw.latex
         /\ b.order = Cardinality({j \in 1..(i - 1) : mineru[j].page = mineru[i].page})
<1>. DEFINE raw == mineru[i].raw
            p == mineru[i].page
            earlier == {j \in 1..(i - 1) : mineru[j].page = mineru[i].page}
            place == Cardinality(earlier)
            kind == Parsed!SourceTypes[raw.source]
            words == Parsed!Words(raw)
            issues == Parsed!StructuralIssues(raw)
            usable == raw.source # "page_header" /\ "empty_block" \notin issues
            b == [page |-> p, order |-> place, type |-> kind, words |-> words, latex |-> raw.latex,
                  latex_raw |-> raw.latex, html |-> raw.html, image |-> raw.image,
                  issues |-> issues, enabled |-> usable]
<1>1. Len(mineru) \in Nat /\ i \in 1..Len(mineru) /\ raw \in RawBlocks /\ p \in 1..Pages
  <2>1. mineru[i] \in [raw : RawBlocks, page : 1..Pages]
    BY ListHas DEF MineruOK
  <2>. QED  BY <2>1, ListHas DEF MineruOK
<1>2. Parsed!Convert(i) = b
  BY SameCardinality DEF Parsed!Convert
<1>3. place \in Nat
  <2>1. IsFiniteSet(1..(i - 1))
    BY <1>1, FS_Interval
  <2>2. IsFiniteSet(earlier)
    BY <2>1, FS_Subset
  <2>. QED  BY <2>2, FS_CardinalityType
<1>. HIDE DEF place, raw, p
<1>4. /\ raw.source \in {"title", "paragraph", "equation_interline", "image", "table", "page_header"}
      /\ raw.words = NONE \/ raw.words \in WordsRead
      /\ raw.latex = NONE \/ raw.latex \in FormulasRead
      /\ raw.source \in {"title", "paragraph"} => raw.image = NONE
  BY <1>1, ParsingConstants
<1>5. /\ raw.source = "title" => kind = "title"
      /\ raw.source = "paragraph" => kind = "paragraph"
      /\ raw.source = "equation_interline" => kind = "equation"
      /\ raw.source = "image" => kind = "figure"
      /\ raw.source = "table" => kind = "table"
      /\ raw.source = "page_header" => kind = "page_metadata"
  BY DEF Parsed!SourceTypes
<1>6. issues \subseteq Issues
  BY DEF Parsed!StructuralIssues, Issues
<1>7. "empty_block" \in issues <=>
        /\ raw.source \notin {"page_header", "equation_interline", "table"}
        /\ raw.words = NONE /\ raw.image = NONE
  BY DEF Parsed!StructuralIssues
<1>8. /\ words \in WordsRead \cup {NONE}
      /\ raw.source # "equation_interline" => words = raw.words
  BY <1>4 DEF Parsed!Words
<1>. HIDE DEF kind, words, issues
<1>9. usable <=> kind # "page_metadata"
                 /\ ~(kind \in {"title", "paragraph", "figure"} /\ words = NONE /\ raw.image = NONE)
  BY <1>4, <1>5, <1>7, <1>8
<1>10. kind \in BlockTypes /\ (kind \in {"title", "paragraph"} => raw.image = NONE)
  BY <1>4, <1>5 DEF BlockTypes
<1>11. usable \in BOOLEAN
  OBVIOUS
<1>. HIDE DEF usable
<1>12. b \in BlockOf
  <2>1. raw.html \in {r.html : r \in RawBlocks} \cup {NONE, "cells"}
        /\ raw.image \in {r.image : r \in RawBlocks} \cup {NONE}
        /\ raw.latex \in FormulasRead \cup {NONE}
    BY <1>1, <1>4
  <2>. QED  BY <1>1, <1>3, <1>6, <1>8, <1>10, <1>11, <2>1 DEF BlockOf
<1>13. Unjudged(b)
  BY <1>9, <1>10, <1>12 DEF Unjudged, Hollow
<1>. QED  BY <1>2, <1>13 DEF raw, p, kind, place

\* A block keeps its place and the length of its words.
StaysInPlace(b, c) ==
  /\ c.page = b.page /\ c.order = b.order /\ c.type = b.type /\ c.image = b.image
  /\ Parsed!Length(c.words) = Parsed!Length(b.words)

LEMMA WithTableOK ==
  ASSUME NEW b, Unjudged(b), b.type = "table"
  PROVE  LET c == Parsed!WithTable(b) IN
         Unjudged(c) /\ StaysInPlace(b, c) /\ c.html = "cells" /\ c.latex = b.latex /\ c.latex_raw = b.latex_raw
<1>. DEFINE c == Parsed!WithTable(b)
<1>1. b \in BlockOf
  BY DEF Unjudged
<1>2. /\ c \in BlockOf /\ c.page = b.page /\ c.order = b.order /\ c.type = b.type /\ c.image = b.image
      /\ c.words = b.words /\ c.html = "cells" /\ c.latex = b.latex /\ c.latex_raw = b.latex_raw
      /\ c.enabled = TRUE
  BY <1>1 DEF Parsed!WithTable, BlockOf
<1>. HIDE DEF c
<1>. QED  BY <1>2 DEF Unjudged, Hollow, StaysInPlace, c

LEMMA WithFormulaOK ==
  ASSUME NEW b, Unjudged(b), b.type = "equation", NEW latex \in LatexRead
  PROVE  LET c == Parsed!WithFormula(b, latex) IN
         Unjudged(c) /\ StaysInPlace(b, c) /\ c.latex = latex /\ c.html = b.html
<1>. DEFINE c == Parsed!WithFormula(b, latex)
<1>1. b \in BlockOf /\ latex \in FormulasRead /\ latex # NONE
  BY ParsingConstants DEF Unjudged
<1>2. /\ c \in BlockOf /\ c.page = b.page /\ c.order = b.order /\ c.type = b.type /\ c.image = b.image
      /\ c.words = b.words /\ c.html = b.html /\ c.latex = latex /\ c.latex_raw = b.latex_raw
      /\ c.enabled = TRUE
  BY <1>1 DEF Parsed!WithFormula, BlockOf
<1>. HIDE DEF c
<1>. QED  BY <1>1, <1>2 DEF Unjudged, Hollow, StaysInPlace, c

\* What is removed from words or LaTeX is at most a control character.
CleanOf(value, clean) ==
  /\ clean = NONE <=> value = NONE
  /\ value # NONE => clean.kind = IF value.kind = "control" THEN "sound" ELSE value.kind
  /\ Parsed!Length(clean) = Parsed!Length(value)

LEMMA CleanWords ==
  ASSUME NEW value \in WordsRead \cup {NONE}
  PROVE  Parsed!Clean(value) \in WordsRead \cup {NONE} /\ CleanOf(value, Parsed!Clean(value))
<1>1. CASE value = NONE
  BY <1>1 DEF Parsed!Clean, CleanOf
<1>2. CASE value # NONE /\ value.kind = "control"
  <2>. DEFINE clean == [value EXCEPT !.kind = "sound"]
  <2>1. clean \in WordsRead /\ clean.kind = "sound" /\ clean.length = value.length
    BY <1>2 DEF WordsRead
  <2>2. Parsed!Clean(value) = clean
    BY <1>2 DEF Parsed!Clean
  <2>3. clean # NONE
    BY <2>1, ParsingConstants
  <2>. HIDE DEF clean
  <2>. QED  BY <1>2, <2>1, <2>2, <2>3 DEF CleanOf, Parsed!Length
<1>3. CASE value # NONE /\ value.kind # "control"
  <2>1. Parsed!Clean(value) = value
    BY <1>3 DEF Parsed!Clean
  <2>. QED  BY <1>3, <2>1 DEF CleanOf
<1>. QED  BY <1>1, <1>2, <1>3

CleanLatexOf(value, clean) ==
  /\ clean = NONE <=> value = NONE
  /\ value # NONE => clean.kind = IF value.kind = "control" THEN "sound" ELSE value.kind

LEMMA CleanLatex ==
  ASSUME NEW value \in FormulasRead \cup {NONE}
  PROVE  Parsed!Clean(value) \in FormulasRead \cup {NONE} /\ CleanLatexOf(value, Parsed!Clean(value))
<1>1. CASE value = NONE
  BY <1>1 DEF Parsed!Clean, CleanLatexOf
<1>2. CASE value # NONE /\ value.kind = "control"
  <2>. DEFINE clean == [value EXCEPT !.kind = "sound"]
  <2>1. clean \in FormulasRead /\ clean.kind = "sound"
    BY <1>2 DEF FormulasRead
  <2>2. Parsed!Clean(value) = clean
    BY <1>2 DEF Parsed!Clean
  <2>3. clean # NONE
    BY <2>1, ParsingConstants
  <2>. HIDE DEF clean
  <2>. QED  BY <1>2, <2>1, <2>2, <2>3 DEF CleanLatexOf
<1>3. CASE value # NONE /\ value.kind # "control"
  <2>1. Parsed!Clean(value) = value
    BY <1>3 DEF Parsed!Clean
  <2>. QED  BY <1>3, <2>1 DEF CleanLatexOf
<1>. QED  BY <1>1, <1>2, <1>3

\* Validation enables what can be read, and nothing else.
LEMMA ValidateOK ==
  ASSUME NEW b, Unjudged(b)
  PROVE  LET c == Parsed!Validate(b) IN
         /\ StaysInPlace(b, c) /\ c.html = b.html /\ c.latex = Parsed!Clean(b.latex)
         /\ c.enabled <=> Parsed!Legible(c)
<1>. DEFINE s == Parsed!Sanitized(b)
            c == Parsed!Validate(b)
            found == Parsed!Findings(b)
            words == Parsed!Clean(b.words)
            latex == Parsed!Clean(b.latex)
            raw == Parsed!Clean(b.latex_raw)
<1>1. /\ b \in BlockOf /\ b.words \in WordsRead \cup {NONE}
      /\ b.latex \in FormulasRead \cup {NONE} /\ b.latex_raw \in FormulasRead \cup {NONE}
      /\ b.type \in BlockTypes /\ b.enabled \in BOOLEAN
      /\ b.enabled <=> b.type # "page_metadata" /\ ~Hollow(b)
      /\ b.type \in {"title", "paragraph"} => b.image = NONE
      /\ b.latex = NONE => b.latex_raw = NONE
  BY DEF Unjudged, BlockOf
<1>2. /\ words \in WordsRead \cup {NONE} /\ CleanOf(b.words, words)
      /\ latex \in FormulasRead \cup {NONE} /\ CleanLatexOf(b.latex, latex)
      /\ raw \in FormulasRead \cup {NONE} /\ CleanLatexOf(b.latex_raw, raw)
  BY <1>1, CleanWords, CleanLatex
<1>. HIDE DEF words, latex, raw
<1>3. /\ s.page = b.page /\ s.order = b.order /\ s.type = b.type /\ s.image = b.image
      /\ s.html = b.html /\ s.words = words /\ s.latex = latex /\ s.latex_raw = raw
      /\ s.enabled = b.enabled
      /\ s \in BlockOf
  BY <1>1, <1>2 DEF Parsed!Sanitized, BlockOf, words, latex, raw
<1>4. c = [s EXCEPT !.issues = @ \cup found, !.enabled = @ /\ found \subseteq {"control_character"}]
  BY DEF Parsed!Validate
<1>5. /\ found \subseteq {"control_character"} <=>
           /\ ~("replaced" \in Parsed!Kinds(b))
           /\ ~(b.type \in {"title", "paragraph"} /\ words # NONE /\ words.kind = "garbled")
           /\ ~(b.type = "equation" /\ Parsed!HardError(Parsed!Latex(s)))
           /\ ~(b.type = "figure" /\ b.words = NONE)
           /\ ~(b.type = "table" /\ b.words = NONE /\ b.html = NONE /\ b.image = NONE)
  <2>. HIDE DEF s
  <2>1. /\ "replacement_character" \in found <=> "replaced" \in Parsed!Kinds(b)
        /\ "text_character_coverage_low" \in found <=>
             b.type \in {"title", "paragraph"} /\ s.words # NONE /\ s.words.kind = "garbled"
        /\ "formula" \in found <=> b.type = "equation" /\ Parsed!HardError(Parsed!Latex(s))
        /\ "empty_figure" \in found <=> b.type = "figure" /\ b.words = NONE
        /\ "empty_table" \in found <=>
             b.type = "table" /\ b.words = NONE /\ b.html = NONE /\ b.image = NONE
    BY DEF Parsed!Findings, Parsed!TextTypes, s
  <2>2. found \subseteq {"control_character", "replacement_character", "text_character_coverage_low",
                        "formula", "empty_figure", "empty_table"}
    BY DEF Parsed!Findings
  <2>. HIDE DEF found
  <2>3. found \subseteq {"control_character"} <=>
          /\ "replacement_character" \notin found /\ "text_character_coverage_low" \notin found
          /\ "formula" \notin found /\ "empty_figure" \notin found /\ "empty_table" \notin found
    BY <2>2
  <2>. QED  BY <1>3, <2>1, <2>3
<1>. HIDE DEF s, found
<1>6. /\ c.page = b.page /\ c.order = b.order /\ c.type = b.type /\ c.image = b.image
      /\ c.html = b.html /\ c.words = words /\ c.latex = latex /\ c.latex_raw = raw
      /\ c.enabled <=> b.enabled /\ found \subseteq {"control_character"}
  <2>1. s \in [page : 1..Pages, order : Nat, type : BlockTypes, words : WordsRead \cup {NONE},
               latex : FormulasRead \cup {NONE}, latex_raw : FormulasRead \cup {NONE},
               html : {r.html : r \in RawBlocks} \cup {NONE, "cells"},
               image : {r.image : r \in RawBlocks} \cup {NONE},
               issues : SUBSET Issues, enabled : BOOLEAN]
    BY <1>3 DEF BlockOf
  <2>. HIDE DEF c
  <2>2. /\ c.page = s.page /\ c.order = s.order /\ c.type = s.type /\ c.image = s.image
        /\ c.html = s.html /\ c.words = s.words /\ c.latex = s.latex /\ c.latex_raw = s.latex_raw
    BY <1>4, <2>1
  <2>3. c.enabled = (s.enabled /\ found \subseteq {"control_character"})
    BY <1>4, <2>1
  <2>. QED  BY <1>3, <2>2, <2>3
<1>. HIDE DEF c
<1>7. /\ "replaced" \in Parsed!Kinds(b) <=>
           \/ b.words # NONE /\ b.words.kind = "replaced"
           \/ b.latex # NONE /\ b.latex.kind = "replaced"
           \/ b.latex_raw # NONE /\ b.latex_raw.kind = "replaced"
      /\ Parsed!Kinds(c) \cap {"control", "replaced"} = {} <=>
           /\ words # NONE => words.kind \notin {"control", "replaced"}
           /\ latex # NONE => latex.kind \notin {"control", "replaced"}
           /\ raw # NONE => raw.kind \notin {"control", "replaced"}
  BY <1>6 DEF Parsed!Kinds
<1>8. Parsed!Kinds(c) \cap {"control", "replaced"} = {} <=> ~("replaced" \in Parsed!Kinds(b))
  <2>1. /\ words # NONE => (words.kind \notin {"control", "replaced"} <=> b.words.kind # "replaced")
        /\ words # NONE <=> b.words # NONE
    BY <1>2 DEF CleanOf
  <2>2. /\ latex # NONE => (latex.kind \notin {"control", "replaced"} <=> b.latex.kind # "replaced")
        /\ latex # NONE <=> b.latex # NONE
    BY <1>2 DEF CleanLatexOf
  <2>3. /\ raw # NONE => (raw.kind \notin {"control", "replaced"} <=> b.latex_raw.kind # "replaced")
        /\ raw # NONE <=> b.latex_raw # NONE
    BY <1>2 DEF CleanLatexOf
  <2>. QED  BY <1>7, <2>1, <2>2, <2>3
<1>9. Parsed!Latex(s) = latex
  <2>1. latex = NONE => raw = NONE
    BY <1>1, <1>2 DEF CleanLatexOf
  <2>. QED  BY <1>3, <2>1 DEF Parsed!Latex
<1>10. Parsed!HardError(Parsed!Latex(s)) <=> latex = NONE \/ latex.kind \in {"broken", "control"}
  BY <1>9 DEF Parsed!HardError
<1>11. words = NONE <=> b.words = NONE
  BY <1>2 DEF CleanOf
<1>12. /\ words # NONE => words.kind \in {"sound", "control", "replaced", "garbled"}
       /\ latex # NONE => latex.kind \in {"sound", "control", "replaced", "broken"}
  BY <1>2 DEF WordsRead, FormulasRead
<1>13. StaysInPlace(b, c)
  BY <1>2, <1>6 DEF StaysInPlace, CleanOf
<1>14. c.enabled <=> Parsed!Legible(c)
  <2>1. Parsed!Legible(c) <=>
          /\ c.type # "page_metadata"
          /\ Parsed!Rendered(c) \/ (c.type = "table" /\ c.image # NONE)
          /\ Parsed!Kinds(c) \cap {"control", "replaced"} = {}
          /\ c.type = "equation" => c.latex.kind = "sound"
          /\ c.type \in {"title", "paragraph"} /\ c.words # NONE => c.words.kind = "sound"
    BY DEF Parsed!Legible, Parsed!TextTypes
  <2>2. c.enabled <=> /\ b.type # "page_metadata" /\ ~Hollow(b)
                      /\ ~("replaced" \in Parsed!Kinds(b))
                      /\ ~(b.type \in {"title", "paragraph"} /\ words # NONE /\ words.kind = "garbled")
                      /\ ~(b.type = "equation" /\ (latex = NONE \/ latex.kind \in {"broken", "control"}))
                      /\ ~(b.type = "figure" /\ b.words = NONE)
                      /\ ~(b.type = "table" /\ b.words = NONE /\ b.html = NONE /\ b.image = NONE)
    BY <1>1, <1>5, <1>6, <1>10
  <2>3. CASE b.type \in {"title", "paragraph"}
    <3>1. Hollow(b) <=> b.words = NONE
      BY <1>1, <2>3 DEF Hollow
    <3>2. Parsed!Rendered(c) <=> words # NONE
      BY <1>6, <2>3 DEF Parsed!Rendered
    <3>3. CASE words = NONE
      BY <1>6, <1>11, <2>1, <2>2, <2>3, <3>1, <3>2, <3>3
    <3>4. CASE words # NONE
      <4>1. Parsed!Kinds(c) \cap {"control", "replaced"} = {} => words.kind \notin {"control", "replaced"}
        BY <1>7, <3>4
      <4>. QED  BY <1>6, <1>8, <1>11, <1>12, <2>1, <2>2, <2>3, <3>1, <3>2, <3>4, <4>1
    <3>. QED  BY <3>3, <3>4
  <2>4. CASE b.type = "figure"
    <3>1. Parsed!Rendered(c) <=> words # NONE
      BY <1>6, <2>4 DEF Parsed!Rendered
    <3>2. b.words # NONE => ~Hollow(b)
      BY DEF Hollow
    <3>. QED  BY <1>6, <1>8, <1>11, <2>1, <2>2, <2>4, <3>1, <3>2
  <2>5. CASE b.type = "equation"
    <3>1. Parsed!Rendered(c) <=> latex # NONE
      BY <1>6, <2>5 DEF Parsed!Rendered
    <3>2. ~Hollow(b)
      BY <2>5 DEF Hollow
    <3>3. latex # NONE /\ Parsed!Kinds(c) \cap {"control", "replaced"} = {} => latex.kind \notin {"control", "replaced"}
      BY <1>7
    <3>. QED  BY <1>6, <1>8, <1>12, <2>1, <2>2, <2>5, <3>1, <3>2, <3>3
  <2>6. CASE b.type = "table"
    <3>1. Parsed!Rendered(c) <=> words # NONE \/ c.html # NONE
      BY <1>6, <2>6 DEF Parsed!Rendered
    <3>2. ~Hollow(b)
      BY <2>6 DEF Hollow
    <3>. QED  BY <1>6, <1>8, <1>11, <2>1, <2>2, <2>6, <3>1, <3>2
  <2>7. CASE b.type = "page_metadata"
    BY <1>6, <2>1, <2>2, <2>7
  <2>. QED  BY <1>1, <2>3, <2>4, <2>5, <2>6, <2>7 DEF BlockTypes
<1>. QED  BY <1>6, <1>13, <1>14 DEF c, latex

-----------------------------------------------------------------------------
(* The text layer of pages that MinerU took for pictures.                  *)

LEMMA SameTotal == \A numbers : Parsed!Total(numbers) = Document!Total(numbers)
BY DEF Parsed!Total, Document!Total

LEMMA LengthIs ==
  ASSUME NEW words \in WordsRead \cup {NONE}
  PROVE  Parsed!Length(words) \in Nat
BY DEF Parsed!Length, WordsRead

\* The text of a page in a list of blocks.
OnPage(q, s) == Parsed!Total([i \in DOMAIN s |-> Parsed!TextOn(q, s[i])])

LEMMA TextOnIs ==
  ASSUME NEW b \in BlockOf, NEW q
  PROVE  Parsed!TextOn(q, b) \in Nat
<1>1. b.words \in WordsRead \cup {NONE}
  BY DEF BlockOf
<1>. QED  BY <1>1, LengthIs DEF Parsed!TextOn

LEMMA OnPageIs ==
  ASSUME NEW q, NEW s \in Seq(BlockOf)
  PROVE  /\ OnPage(q, s) \in Nat
         /\ \A b \in BlockOf : OnPage(q, Append(s, b)) = OnPage(q, s) + Parsed!TextOn(q, b)
<1>. DEFINE w == [b \in BlockOf |-> Parsed!TextOn(q, b)]
<1>1. w \in [BlockOf -> Int] /\ \A b \in BlockOf : w[b] = Parsed!TextOn(q, b)
  BY TextOnIs
<1>. HIDE DEF w
<1>2. ASSUME NEW t \in Seq(BlockOf) PROVE OnPage(q, t) = Document!Total([i \in DOMAIN t |-> w[t[i]]])
  <2>1. \A i \in DOMAIN t : t[i] \in BlockOf
    BY ListHas
  <2>2. [i \in DOMAIN t |-> Parsed!TextOn(q, t[i])] = [i \in DOMAIN t |-> w[t[i]]]
    BY <1>1, <2>1
  <2>. QED  BY <2>2, SameTotal DEF OnPage
<1>3. ASSUME NEW b \in BlockOf PROVE OnPage(q, Append(s, b)) = OnPage(q, s) + Parsed!TextOn(q, b)
  <2>1. Append(s, b) \in Seq(BlockOf)
    BY ListAppend
  <2>2. Document!Total([i \in DOMAIN Append(s, b) |-> w[Append(s, b)[i]]])
          = Document!Total([i \in DOMAIN s |-> w[s[i]]]) + w[b]
    BY <1>1, TotalOfList
  <2>. QED  BY <1>1, <1>2, <2>1, <2>2
<1>4. OnPage(q, s) \in Nat
  <2>. DEFINE numbers == [i \in DOMAIN s |-> Parsed!TextOn(q, s[i])]
  <2>1. Len(s) \in Nat /\ DOMAIN s = 1..Len(s) /\ \A i \in DOMAIN s : s[i] \in BlockOf
    BY ListHas
  <2>2. numbers \in [1..Len(s) -> Nat]
    BY <2>1, TextOnIs
  <2>3. numbers \in Seq(Nat)
    BY <2>1, <2>2, ListOf
  <2>. HIDE DEF numbers
  <2>4. Document!Total(numbers) \in Nat
    BY <2>3, TotalOfNat
  <2>. QED  BY <2>4, SameTotal DEF OnPage, numbers
<1>. QED  BY <1>3, <1>4

LEMMA GreatestIn ==
  ASSUME NEW n \in Nat, NEW A \in SUBSET (0..n), A # {}
  PROVE  \E x \in A : \A y \in A : x >= y
<1>. DEFINE bounds == {x \in 0..n : \A y \in A : y <= x}
<1>1. n \in bounds
  OBVIOUS
<1>2. bounds \in SUBSET Nat
  OBVIOUS
<1>3. PICK x \in bounds : \A y \in bounds : x <= y
  <2>. HIDE DEF bounds
  <2>. QED  BY <1>1, <1>2, LeastNat
<1>4. x \in 0..n /\ \A y \in A : y <= x
  OBVIOUS
<1>5. x \in A
  <2>1. SUFFICES ASSUME x \notin A PROVE FALSE
    OBVIOUS
  <2>2. \A y \in A : y <= x - 1
    BY <1>4, <2>1
  <2>3. x - 1 \in 0..n
    <3>1. PICK y \in A : TRUE
      OBVIOUS
    <3>2. y \in 0..n /\ y <= x - 1
      BY <2>2
    <3>. HIDE DEF bounds
    <3>. QED  BY <1>4, <3>2
  <2>4. x - 1 \in bounds
    BY <2>2, <2>3
  <2>5. x <= x - 1
    <3>. HIDE DEF bounds
    <3>. QED  BY <1>3, <2>4
  <2>. QED  BY <1>4, <2>5
<1>. QED  BY <1>4, <1>5

LEMMA FreeOrderIs ==
  ASSUME NEW bound \in Nat, blocks \in Seq(BlockOf),
         \A i \in DOMAIN blocks : blocks[i].order <= bound, NEW q
  PROVE  /\ Parsed!FreeOrder(q) \in Nat
         /\ \A i \in DOMAIN blocks : blocks[i].page = q => blocks[i].order < Parsed!FreeOrder(q)
<1>. DEFINE orders == Parsed!OrdersOn(q)
            Top(x) == \A y \in orders : x >= y
            top == CHOOSE x \in orders : Top(x)
<1>1. \A i \in DOMAIN blocks : blocks[i] \in BlockOf /\ blocks[i].order \in 0..bound
  <2>1. \A i \in DOMAIN blocks : blocks[i] \in BlockOf
    BY ListHas
  <2>. QED  BY <2>1 DEF BlockOf
<1>2. orders = {blocks[i].order : i \in {j \in DOMAIN blocks : blocks[j].page = q}}
  BY DEF Parsed!OrdersOn, Parsed!Range
<1>3. orders \in SUBSET (0..bound)
  BY <1>1, <1>2
<1>4. \A i \in DOMAIN blocks : blocks[i].page = q => blocks[i].order \in orders
  BY <1>2
<1>5. Parsed!FreeOrder(q) = IF orders = {} THEN 0 ELSE top + 1
  BY DEF Parsed!FreeOrder, Parsed!Max
<1>. HIDE DEF orders
<1>6. CASE orders = {}
  BY <1>4, <1>5, <1>6
<1>7. CASE orders # {}
  <2>1. \E x \in orders : Top(x)
    BY <1>3, <1>7, GreatestIn
  <2>2. top \in orders /\ Top(top)
    <3>. HIDE DEF Top
    <3>. QED  BY <2>1
  <2>. HIDE DEF top
  <2>3. top \in 0..bound /\ \A x \in orders : x < top + 1
    <3>1. top \in 0..bound /\ \A x \in orders : x \in 0..bound
      BY <1>3, <2>2
    <3>2. ASSUME NEW x \in orders PROVE x < top + 1
      <4>1. x \in Nat /\ top \in Nat /\ top >= x
        BY <2>2, <3>1
      <4>. QED  BY <4>1
    <3>. QED  BY <3>1, <3>2
  <2>. QED  BY <1>4, <1>5, <1>7, <2>3
<1>. QED  BY <1>6, <1>7

LEMMA NativeBlockOK ==
  ASSUME NativeOK, NEW q \in 1..Pages, Parsed!FallsBack(q), Parsed!FreeOrder(q) \in Nat
  PROVE  LET b == Parsed!NativeBlock(q) IN
         /\ Unjudged(b) /\ b.page = q /\ b.order = Parsed!FreeOrder(q)
         /\ b.type = "paragraph" /\ b.image = NONE
         /\ Parsed!TextOn(q, b) = Parsed!InLayer(q)
         /\ \A r : r # q => Parsed!TextOn(r, b) = 0
<1>. DEFINE b == Parsed!NativeBlock(q)
            order == Parsed!FreeOrder(q)
            words == native[q]
<1>1. words = NONE \/ words \in WordsRead
  BY ParsingConstants DEF NativeOK
<1>2. words # NONE
  <2>1. SUFFICES ASSUME words = NONE PROVE FALSE
    OBVIOUS
  <2>2. Parsed!InLayer(q) = 0
    BY <2>1 DEF Parsed!InLayer, Parsed!Length
  <2>3. Parsed!InLayer(q) > PageMinimum
    BY DEF Parsed!FallsBack, Parsed!Exceeds
  <2>. QED  BY <2>2, <2>3, ParsingConstants
<1>. HIDE DEF words, order
<1>3. b = [page |-> q, order |-> order, type |-> "paragraph", words |-> words,
           latex |-> NONE, latex_raw |-> NONE, html |-> NONE, image |-> NONE,
           issues |-> {"mineru_text_coverage_low"}, enabled |-> TRUE]
  BY DEF Parsed!NativeBlock, words, order
<1>4. order \in Nat
  BY DEF order
<1>. HIDE DEF b
<1>5. /\ b.page = q /\ b.order = order /\ b.type = "paragraph" /\ b.words = words
      /\ b.latex = NONE /\ b.latex_raw = NONE /\ b.image = NONE /\ b.enabled = TRUE
  BY <1>3
<1>6. b \in BlockOf
  <2>1. {"mineru_text_coverage_low"} \in SUBSET Issues /\ "paragraph" \in BlockTypes
    BY DEF Issues, BlockTypes
  <2>2. words \in WordsRead \cup {NONE} /\ NONE \in FormulasRead \cup {NONE}
    BY <1>1
  <2>. QED  BY <1>3, <1>4, <2>1, <2>2 DEF BlockOf
<1>7. Unjudged(b)
  BY <1>2, <1>5, <1>6 DEF Unjudged, Hollow
<1>8. Parsed!TextOn(q, b) = Parsed!InLayer(q)
  BY <1>5 DEF Parsed!TextOn, Parsed!TextTypes, Parsed!InLayer, words
<1>9. \A r : r # q => Parsed!TextOn(r, b) = 0
  BY <1>5 DEF Parsed!TextOn
<1>. QED  BY <1>5, <1>7, <1>8, <1>9 DEF b, order

\* Blocks have names of their own.
Apart(s) ==
  \A i, j \in DOMAIN s : i # j => <<s[i].page, s[i].order>> # <<s[j].page, s[j].order>>

\* Pages MinerU took for pictures have their text.
PaperOn(s) == Parsed!Total([n \in 1..Pages |-> OnPage(n, s)])
Covered(s) ==
  \/ ~Parsed!Exceeds(Parsed!InPaper, PaperOn(s), DocumentMinimum)
  \/ \A n \in 1..Pages : ~Parsed!Exceeds(Parsed!InLayer(n), OnPage(n, s), PageMinimum)

BuiltOK ==
  /\ blocks \in Seq(BlockOf)
  /\ \A i \in DOMAIN blocks : Unjudged(blocks[i])
  /\ \E bound \in Nat : \A i \in DOMAIN blocks : blocks[i].order <= bound
  /\ Apart(blocks)

\* The blocks, and what the layers of the first n pages add to them.
Longer(s, n) ==
  /\ s \in Seq(BlockOf) /\ Len(s) >= Len(blocks)
  /\ \A i \in DOMAIN s : Unjudged(s[i])
  /\ \A i \in 1..Len(blocks) : s[i] = blocks[i]
  /\ \A i \in DOMAIN s : i > Len(blocks) =>
       s[i].page \in 1..n /\ s[i].order = Parsed!FreeOrder(s[i].page) /\ s[i].type = "paragraph"
  /\ Apart(s)
  /\ \A q \in 1..Pages :
       OnPage(q, s) = OnPage(q, blocks) + IF q <= n /\ Parsed!FallsBack(q) THEN Parsed!InLayer(q) ELSE 0

LEMMA InLayerIs ==
  ASSUME NativeOK, NEW q \in 1..Pages
  PROVE  Parsed!InLayer(q) \in Nat
<1>1. native[q] = NONE \/ native[q] \in WordsRead
  BY ParsingConstants DEF NativeOK
<1>. QED  BY <1>1, LengthIs DEF Parsed!InLayer

LEMMA FreeOrderFree ==
  ASSUME BuiltOK, NEW q
  PROVE  /\ Parsed!FreeOrder(q) \in Nat
         /\ \A i \in DOMAIN blocks : blocks[i].page = q => blocks[i].order < Parsed!FreeOrder(q)
<1>1. PICK bound \in Nat : \A i \in DOMAIN blocks : blocks[i].order <= bound
  BY DEF BuiltOK
<1>2. blocks \in Seq(BlockOf)
  BY DEF BuiltOK
<1>. QED  BY <1>1, <1>2, FreeOrderIs

LEMMA LongerByOne ==
  ASSUME NativeOK, BuiltOK, NEW n \in 1..Pages, NEW s, Longer(s, n - 1)
  PROVE  IF Parsed!FallsBack(n) THEN Longer(Append(s, Parsed!NativeBlock(n)), n) ELSE Longer(s, n)
<1>. DEFINE b == Parsed!NativeBlock(n)
            t == Append(s, b)
            m == Len(s)
<1>1. n \in Nat /\ Pages \in Nat /\ n >= 1 /\ n - 1 \in Nat
  BY ParsingConstants
<1>2. /\ s \in Seq(BlockOf) /\ m >= Len(blocks) /\ m \in Nat /\ DOMAIN s = 1..m
      /\ Len(blocks) \in Nat /\ DOMAIN blocks = 1..Len(blocks)
      /\ \A i \in 1..m : Unjudged(s[i]) /\ s[i] \in BlockOf
      /\ \A i \in 1..Len(blocks) : s[i] = blocks[i]
      /\ \A i \in 1..m : i > Len(blocks) =>
           /\ s[i].page \in 1..(n - 1) /\ s[i].order = Parsed!FreeOrder(s[i].page)
           /\ s[i].type = "paragraph"
      /\ Apart(s)
  <2>1. s \in Seq(BlockOf) /\ blocks \in Seq(BlockOf)
    BY DEF Longer, BuiltOK
  <2>2. m \in Nat /\ DOMAIN s = 1..m /\ Len(blocks) \in Nat /\ DOMAIN blocks = 1..Len(blocks)
        /\ \A i \in 1..m : s[i] \in BlockOf
    BY <2>1, ListHas
  <2>. QED  BY <2>1, <2>2 DEF Longer
<1>3. \A q \in 1..Pages :
        /\ OnPage(q, s) = OnPage(q, blocks)
                          + IF q <= n - 1 /\ Parsed!FallsBack(q) THEN Parsed!InLayer(q) ELSE 0
        /\ OnPage(q, blocks) \in Nat /\ Parsed!InLayer(q) \in Nat
  <2>1. blocks \in Seq(BlockOf)
    BY DEF BuiltOK
  <2>. QED  BY <2>1, OnPageIs, InLayerIs DEF Longer
<1>. HIDE DEF m, b
<1>4. CASE ~Parsed!FallsBack(n)
  <2>1. \A q \in 1..Pages :
          OnPage(q, s) = OnPage(q, blocks)
                         + IF q <= n /\ Parsed!FallsBack(q) THEN Parsed!InLayer(q) ELSE 0
    <3>1. \A q \in 1..Pages : q <= n /\ Parsed!FallsBack(q) <=> q <= n - 1 /\ Parsed!FallsBack(q)
      BY <1>1, <1>4
    <3>. QED  BY <1>3, <3>1
  <2>2. \A i \in 1..m : i > Len(blocks) => s[i].page \in 1..n
    BY <1>1, <1>2
  <2>. QED  BY <1>2, <1>4, <2>1, <2>2 DEF Longer, m
<1>5. CASE Parsed!FallsBack(n)
  <2>1. /\ Parsed!FreeOrder(n) \in Nat
        /\ \A i \in DOMAIN blocks : blocks[i].page = n => blocks[i].order < Parsed!FreeOrder(n)
    BY FreeOrderFree
  <2>2. /\ Unjudged(b) /\ b.page = n /\ b.order = Parsed!FreeOrder(n)
        /\ b.type = "paragraph" /\ b.image = NONE
        /\ Parsed!TextOn(n, b) = Parsed!InLayer(n)
        /\ \A r : r # n => Parsed!TextOn(r, b) = 0
    BY <1>5, <2>1, NativeBlockOK DEF b
  <2>3. b \in BlockOf
    BY <2>2 DEF Unjudged
  <2>4. /\ t \in Seq(BlockOf) /\ Len(t) = m + 1 /\ DOMAIN t = 1..(m + 1)
        /\ \A i \in 1..m : t[i] = s[i]
        /\ t[m + 1] = b
    BY <1>2, <2>3, ListAppend DEF m
  <2>5. \A q \in 1..Pages : OnPage(q, t) = OnPage(q, s) + Parsed!TextOn(q, b)
    BY <1>2, <2>3, OnPageIs
  <2>. HIDE DEF t
  <2>6. \A q \in 1..Pages :
          OnPage(q, t) = OnPage(q, blocks)
                         + IF q <= n /\ Parsed!FallsBack(q) THEN Parsed!InLayer(q) ELSE 0
    <3>1. CASE Parsed!FallsBack(n)
      <4>1. ASSUME NEW q \in 1..Pages, q # n
            PROVE  OnPage(q, t) = OnPage(q, blocks)
                                  + IF q <= n /\ Parsed!FallsBack(q) THEN Parsed!InLayer(q) ELSE 0
        <5>1. Parsed!TextOn(q, b) = 0 /\ (q <= n <=> q <= n - 1)
          BY <1>1, <2>2, <4>1
        <5>2. OnPage(q, t) = OnPage(q, s)
          <6>1. OnPage(q, s) \in Nat
            BY <1>2, OnPageIs
          <6>. QED  BY <2>5, <5>1, <6>1
        <5>. QED  BY <1>3, <5>1, <5>2
      <4>2. OnPage(n, t) = OnPage(n, blocks) + Parsed!InLayer(n)
        <5>1. OnPage(n, s) = OnPage(n, blocks) /\ OnPage(n, blocks) \in Nat
          BY <1>1, <1>3
        <5>. QED  BY <2>2, <2>5, <5>1
      <4>. QED  BY <1>1, <1>5, <4>1, <4>2
    <3>. QED  BY <1>5, <3>1
  <2>7. ASSUME NEW i \in 1..m PROVE <<s[i].page, s[i].order>> # <<b.page, b.order>>
    <3>1. CASE i > Len(blocks)
      BY <1>1, <1>2, <2>2, <3>1
    <3>2. CASE ~(i > Len(blocks))
      <4>1. i \in 1..Len(blocks) /\ s[i] = blocks[i] /\ blocks[i] \in BlockOf
        BY <1>2, <3>2
      <4>2. blocks[i].order \in Nat
        BY <4>1 DEF BlockOf
      <4>. QED  BY <1>2, <2>1, <2>2, <4>1, <4>2
    <3>. QED  BY <3>1, <3>2
  <2>8. Apart(t)
    <3>1. SUFFICES ASSUME NEW i \in 1..(m + 1), NEW j \in 1..(m + 1), i # j
                   PROVE  <<t[i].page, t[i].order>> # <<t[j].page, t[j].order>>
      BY <2>4 DEF Apart
    <3>2. CASE i \in 1..m /\ j \in 1..m
      BY <1>2, <2>4, <3>1, <3>2 DEF Apart
    <3>3. CASE i = m + 1
      <4>1. j \in 1..m
        BY <1>2, <3>1, <3>3
      <4>2. <<s[j].page, s[j].order>> # <<b.page, b.order>>
        BY <2>7, <4>1
      <4>. QED  BY <2>4, <3>3, <4>1, <4>2
    <3>4. CASE j = m + 1
      <4>1. i \in 1..m
        BY <1>2, <3>1, <3>4
      <4>2. <<s[i].page, s[i].order>> # <<b.page, b.order>>
        BY <2>7, <4>1
      <4>. QED  BY <2>4, <3>4, <4>1, <4>2
    <3>. QED  BY <1>2, <3>2, <3>3, <3>4
  <2>9. ASSUME NEW i \in 1..(m + 1)
        PROVE  /\ Unjudged(t[i])
               /\ i > Len(blocks) => t[i].page \in 1..n /\ t[i].order = Parsed!FreeOrder(t[i].page)
                                     /\ t[i].type = "paragraph"
    <3>1. CASE i \in 1..m
      BY <1>1, <1>2, <2>4, <3>1
    <3>2. CASE i = m + 1
      BY <1>1, <2>2, <2>4, <3>2
    <3>. QED  BY <1>2, <3>1, <3>2
  <2>10. Len(t) >= Len(blocks) /\ \A i \in 1..Len(blocks) : t[i] = blocks[i]
    BY <1>2, <2>4
  <2>11. Longer(t, n)
    BY <2>4, <2>6, <2>8, <2>9, <2>10 DEF Longer
  <2>. QED  BY <1>5, <2>11 DEF t, b
<1>. QED  BY <1>4, <1>5

Augments(f) ==
  f = [n \in 0..Pages |->
         IF n = 0 THEN blocks
         ELSE IF Parsed!FallsBack(n) THEN Append(f[n - 1], Parsed!NativeBlock(n))
         ELSE f[n - 1]]

LEMMA AugmentOK ==
  ASSUME NativeOK, BuiltOK
  PROVE  \E s : Longer(s, Pages) /\ (Parsed!AugmentNativeText => blocks' = s)
<1>. DEFINE D == Seq(BlockOf)
            one(n, s) == IF Parsed!FallsBack(n) THEN Append(s, Parsed!NativeBlock(n)) ELSE s
            g == [p \in (1..Pages) \X D |-> one(p[1], p[2])]
            f == CHOOSE h : Augments(h)
<1>1. Pages \in Nat /\ blocks \in D
  BY ParsingConstants DEF BuiltOK
<1>2. ASSUME NEW n \in 1..Pages, NEW s \in D PROVE one(n, s) \in D
  <2>1. CASE Parsed!FallsBack(n)
    <3>1. Parsed!FreeOrder(n) \in Nat
      BY FreeOrderFree
    <3>2. Parsed!NativeBlock(n) \in BlockOf
      BY <2>1, <3>1, NativeBlockOK DEF Unjudged
    <3>. QED  BY <2>1, <3>2, ListAppend
  <2>. QED  BY <2>1
<1>3. g \in [(1..Pages) \X D -> D] /\ \A n \in 1..Pages, s \in D : g[<<n, s>>] = one(n, s)
  <2>. HIDE DEF D, one
  <2>. QED  BY <1>2
<1>. HIDE DEF g
<1>4. PICK h : Goes(h, Pages, D, blocks, g)
  <2>. HIDE DEF D
  <2>. QED  BY <1>1, <1>3, StepByStep
<1>5. Augments(h)
  <2>1. h \in [0..Pages -> D] /\ h[0] = blocks /\ \A n \in 1..Pages : h[n] = g[<<n, h[n - 1]>>]
    BY <1>4 DEF Goes
  <2>2. ASSUME NEW n \in 0..Pages PROVE h[n] = IF n = 0 THEN blocks ELSE one(n, h[n - 1])
    <3>1. CASE n = 0
      BY <2>1, <3>1
    <3>2. CASE n # 0
      <4>1. n \in 1..Pages /\ n - 1 \in 0..Pages
        BY <1>1, <3>2
      <4>2. h[n - 1] \in D
        BY <2>1, <4>1
      <4>. QED  BY <1>3, <2>1, <3>2, <4>1, <4>2
    <3>. QED  BY <3>1, <3>2
  <2>. QED  BY <2>1, <2>2 DEF Augments
<1>6. Augments(f)
  BY <1>5
<1>. HIDE DEF f
<1>7. f[0] = blocks /\ \A n \in 1..Pages : f[n] = one(n, f[n - 1])
  <2>1. \A n \in 0..Pages : f[n] = IF n = 0 THEN blocks ELSE one(n, f[n - 1])
    BY <1>6 DEF Augments
  <2>2. ASSUME NEW n \in 1..Pages PROVE f[n] = one(n, f[n - 1])
    <3>1. n \in 0..Pages /\ n # 0
      BY <1>1
    <3>. QED  BY <2>1, <3>1
  <2>3. 0 \in 0..Pages
    BY <1>1
  <2>. QED  BY <2>1, <2>2, <2>3
<1>. DEFINE T == {n \in 0..Pages : Longer(f[n], n)}
<1>8. 0 \in T
  <2>1. Longer(blocks, 0)
    <3>1. Len(blocks) \in Nat /\ DOMAIN blocks = 1..Len(blocks)
      BY ListHas DEF BuiltOK
    <3>2. \A q \in 1..Pages : OnPage(q, blocks) \in Nat
      BY OnPageIs DEF BuiltOK
    <3>3. \A q \in 1..Pages : ~(q <= 0)
      OBVIOUS
    <3>4. \A q \in 1..Pages :
            OnPage(q, blocks) = OnPage(q, blocks)
                                + IF q <= 0 /\ Parsed!FallsBack(q) THEN Parsed!InLayer(q) ELSE 0
      BY <3>2, <3>3
    <3>. QED  BY <3>1, <3>4 DEF Longer, BuiltOK
  <2>. QED  BY <1>1, <1>7, <2>1
<1>9. ASSUME NEW n \in 1..Pages, n - 1 \in T PROVE n \in T
  <2>1. Longer(f[n - 1], n - 1)
    BY <1>9
  <2>2. Longer(one(n, f[n - 1]), n)
    BY <2>1, LongerByOne
  <2>. HIDE DEF one
  <2>. QED  BY <1>1, <1>7, <2>2
<1>. HIDE DEF T, one
<1>10. \A n \in 0..Pages : n \in T
  BY <1>1, <1>8, <1>9, UpTo
<1>11. Longer(f[Pages], Pages)
  BY <1>1, <1>10 DEF T
<1>12. Parsed!AugmentNativeText => blocks' = f[Pages]
  BY DEF Parsed!AugmentNativeText, f, Augments
<1>. QED  BY <1>11, <1>12

\* Every page that falls back has its text, and has it once.
LEMMA LongerCovers ==
  ASSUME NativeOK, BuiltOK, NEW s, Longer(s, Pages)
  PROVE  Covered(s)
<1>1. \A q \in 1..Pages : OnPage(q, blocks) \in Nat /\ Parsed!InLayer(q) \in Nat
  BY OnPageIs, InLayerIs DEF BuiltOK
<1>2. \A q \in 1..Pages : Parsed!Extracted(q) = OnPage(q, blocks)
  BY DEF Parsed!Extracted, OnPage
<1>3. \A q \in 1..Pages :
        OnPage(q, s) = OnPage(q, blocks) + IF Parsed!FallsBack(q) THEN Parsed!InLayer(q) ELSE 0
  <2>1. \A q \in 1..Pages : q <= Pages
    OBVIOUS
  <2>. QED  BY <2>1 DEF Longer
<1>4. Parsed!ExtractedInPaper = PaperOn(blocks)
  <2>1. [n \in 1..Pages |-> Parsed!Extracted(n)] = [n \in 1..Pages |-> OnPage(n, blocks)]
    BY <1>2
  <2>. QED  BY <2>1 DEF Parsed!ExtractedInPaper, PaperOn
<1>5. CASE Parsed!Exceeds(Parsed!InPaper, Parsed!ExtractedInPaper, DocumentMinimum)
  <2>1. ASSUME NEW q \in 1..Pages
        PROVE  ~Parsed!Exceeds(Parsed!InLayer(q), OnPage(q, s), PageMinimum)
    <3>1. CASE Parsed!FallsBack(q)
      <4>1. OnPage(q, s) = OnPage(q, blocks) + Parsed!InLayer(q)
        BY <1>3, <3>1
      <4>2. ~(2 * Parsed!InLayer(q) > 3 * OnPage(q, s))
        BY <1>1, <4>1
      <4>. QED  BY <4>2 DEF Parsed!Exceeds
    <3>2. CASE ~Parsed!FallsBack(q)
      <4>1. OnPage(q, s) = OnPage(q, blocks)
        BY <1>1, <1>3, <3>2
      <4>2. ~Parsed!Exceeds(Parsed!InLayer(q), Parsed!Extracted(q), PageMinimum)
        BY <1>5, <3>2 DEF Parsed!FallsBack
      <4>. QED  BY <1>2, <4>1, <4>2
    <3>. QED  BY <3>1, <3>2
  <2>. QED  BY <2>1 DEF Covered
<1>6. CASE ~Parsed!Exceeds(Parsed!InPaper, Parsed!ExtractedInPaper, DocumentMinimum)
  <2>1. \A q \in 1..Pages : OnPage(q, s) = OnPage(q, blocks)
    <3>1. \A q \in 1..Pages : ~Parsed!FallsBack(q)
      BY <1>6 DEF Parsed!FallsBack
    <3>. QED  BY <1>1, <1>3, <3>1
  <2>2. [n \in 1..Pages |-> OnPage(n, s)] = [n \in 1..Pages |-> OnPage(n, blocks)]
    BY <2>1
  <2>. QED  BY <1>4, <1>6, <2>2 DEF Covered, PaperOn
<1>. QED  BY <1>5, <1>6

\* Blocks are counted page by page.
LEMMA BuildOK ==
  ASSUME MineruOK, Parsed!BuildDocument
  PROVE  BuiltOK' /\ DOMAIN blocks' = DOMAIN mineru /\ Len(blocks') = Len(mineru)
<1>. DEFINE m == Len(mineru)
            new == [i \in DOMAIN mineru |-> Parsed!Convert(i)]
            earlier(i) == {j \in 1..(i - 1) : mineru[j].page = mineru[i].page}
<1>1. m \in Nat /\ DOMAIN mineru = 1..m
  BY ListHas DEF MineruOK
<1>2. blocks' = new
  BY DEF Parsed!BuildDocument
<1>3. \A i \in 1..m : /\ Unjudged(new[i]) /\ new[i] \in BlockOf /\ new[i].page = mineru[i].page
                      /\ new[i].order = Cardinality(earlier(i))
  BY <1>1, ConvertOK DEF Unjudged
<1>4. DOMAIN new = 1..m /\ new \in Seq(BlockOf) /\ Len(new) = m
  <2>1. DOMAIN new = 1..m
    BY <1>1
  <2>2. new \in [1..m -> BlockOf]
    <3>1. new = [i \in 1..m |-> new[i]]
      BY <1>1
    <3>. HIDE DEF new
    <3>. QED  BY <1>3, <3>1
  <2>. HIDE DEF new
  <2>. QED  BY <1>1, <2>1, <2>2, ListOf
<1>. HIDE DEF new, m
<1>5. ASSUME NEW i \in 1..m
      PROVE  IsFiniteSet(earlier(i)) /\ Cardinality(earlier(i)) \in Nat /\ Cardinality(earlier(i)) <= m
  <2>1. i - 1 \in Nat /\ i - 1 <= m /\ IsFiniteSet(1..(i - 1)) /\ Cardinality(1..(i - 1)) = i - 1
    BY <1>1, FS_Interval
  <2>2. earlier(i) \in SUBSET (1..(i - 1))
    OBVIOUS
  <2>. HIDE DEF earlier
  <2>3. IsFiniteSet(earlier(i)) /\ Cardinality(earlier(i)) <= Cardinality(1..(i - 1))
    BY <2>1, <2>2, FS_Subset
  <2>4. Cardinality(earlier(i)) \in Nat
    BY <2>3, FS_CardinalityType
  <2>. QED  BY <1>1, <2>1, <2>3, <2>4
<1>6. ASSUME NEW i \in 1..m, NEW j \in 1..m, i < j, mineru[i].page = mineru[j].page
      PROVE  Cardinality(earlier(i)) # Cardinality(earlier(j))
  <2>1. earlier(i) \in SUBSET earlier(j)
    BY <1>1, <1>6
  <2>2. earlier(i) # earlier(j)
    <3>1. i \in earlier(j)
      BY <1>1, <1>6
    <3>2. i \notin earlier(i)
      BY <1>1
    <3>. QED  BY <3>1, <3>2
  <2>3. IsFiniteSet(earlier(j))
    BY <1>5
  <2>. HIDE DEF earlier
  <2>. QED  BY <2>1, <2>2, <2>3, FS_Subset
<1>. HIDE DEF earlier
<1>7. Apart(new)
  <2>1. SUFFICES ASSUME NEW i \in 1..m, NEW j \in 1..m, i # j, new[i].page = new[j].page
                 PROVE  new[i].order # new[j].order
    BY <1>4 DEF Apart
  <2>2. mineru[i].page = mineru[j].page
    BY <1>3, <2>1
  <2>3. CASE i < j
    BY <1>3, <1>6, <2>2, <2>3
  <2>4. CASE j < i
    BY <1>3, <1>6, <2>2, <2>4
  <2>. QED  BY <1>1, <2>1, <2>3, <2>4
<1>8. \A i \in 1..m : new[i].order <= m
  BY <1>3, <1>5
<1>9. \E bound \in Nat : \A i \in DOMAIN new : new[i].order <= bound
  BY <1>1, <1>4, <1>8
<1>. QED  BY <1>2, <1>3, <1>4, <1>7, <1>9 DEF BuiltOK, m

\* Blocks that keep their places and lengths keep their names and what they cover.
Keeps(s, t) == DOMAIN t = DOMAIN s /\ \A i \in DOMAIN s : StaysInPlace(s[i], t[i])

LEMMA KeepsPlaces ==
  ASSUME NEW s, NEW t, Keeps(s, t), Apart(s)
  PROVE  Apart(t)
BY DEF Keeps, StaysInPlace, Apart

LEMMA KeepsText ==
  ASSUME NEW s, NEW t, Keeps(s, t)
  PROVE  /\ \A q : OnPage(q, t) = OnPage(q, s)
         /\ Covered(s) => Covered(t)
<1>1. ASSUME NEW q PROVE OnPage(q, t) = OnPage(q, s)
  <2>1. \A i \in DOMAIN s : Parsed!TextOn(q, t[i]) = Parsed!TextOn(q, s[i])
    BY DEF Keeps, StaysInPlace, Parsed!TextOn
  <2>2. [i \in DOMAIN t |-> Parsed!TextOn(q, t[i])] = [i \in DOMAIN s |-> Parsed!TextOn(q, s[i])]
    BY <2>1 DEF Keeps
  <2>. QED  BY <2>2 DEF OnPage
<1>2. PaperOn(t) = PaperOn(s)
  <2>1. [n \in 1..Pages |-> OnPage(n, t)] = [n \in 1..Pages |-> OnPage(n, s)]
    BY <1>1
  <2>. QED  BY <2>1 DEF PaperOn
<1>. QED  BY <1>1, <1>2 DEF Covered

LEMMA SameStays ==
  ASSUME NEW s
  PROVE  Keeps(s, s)
BY DEF Keeps, StaysInPlace

\* What the workers left on disk.
CacheOK ==
  \A key \in DOMAIN cache :
    /\ key[2] # NONE
    /\ key[1] = "table" => cache[key] \in HtmlRead
    /\ key[1] = "formula" => cache[key] \in LatexRead

\* The blocks of MinerU come first; what follows is text.
Traced(i) ==
  /\ blocks[i].type = Parsed!SourceTypes[mineru[i].raw.source]
  /\ blocks[i].image = mineru[i].raw.image
FromMineru ==
  /\ DOMAIN mineru \subseteq DOMAIN blocks
  /\ \A i \in DOMAIN mineru : Traced(i)
  /\ \A i \in DOMAIN blocks \ DOMAIN mineru : blocks[i].type = "paragraph"
AsRead ==
  \A i \in DOMAIN mineru :
    blocks[i].latex = mineru[i].raw.latex /\ blocks[i].latex_raw = mineru[i].raw.latex
Filled ==
  /\ blocks \in Seq(BlockOf)
  /\ \A i \in DOMAIN blocks : Unjudged(blocks[i])
  /\ Apart(blocks) /\ Covered(blocks) /\ FromMineru

\* A table or a formula has what a worker read from its image.
TableIs(i) ==
  LET b == blocks[i]
      key == Parsed!TableKey(b)
  IN b.type = "table" /\ b.image \notin Missing /\ ~Parsed!Shared(i) /\ key \in DOMAIN cache /\ cache[key] = "cells"
       => b.html = "cells"
FormulaIn(i) == <<"formula", blocks[i].image, mineru[i].raw.latex>>
Unread(i) ==
  /\ blocks[i].type = "equation" /\ blocks[i].image \notin Missing
  /\ Parsed!HardError(mineru[i].raw.latex) /\ FormulaIn(i) \in DOMAIN cache

ParsingInv ==
  /\ stage \in {"idle", "normalizing", "augmenting", "tables", "formulas", "validating", "written", "died"}
  /\ parses \in Nat /\ next \in Nat /\ next >= 1
  /\ CacheOK
  /\ stage # "idle" => parses > 0
  /\ parses > 0 => MineruOK /\ NativeOK
  /\ stage \in {"normalizing", "augmenting"} => next = 1
  /\ stage = "augmenting" => BuiltOK /\ FromMineru
  /\ stage \in {"augmenting", "tables", "formulas"} => AsRead
  /\ stage \in {"tables", "formulas", "validating"} => Filled
  /\ stage = "tables" /\ host => \A i \in DOMAIN mineru : i < next => TableIs(i)
  /\ stage \in {"formulas", "validating"} /\ host => \A i \in DOMAIN mineru : TableIs(i)
  /\ stage = "validating" /\ host => \A i \in DOMAIN mineru : Unread(i) => blocks[i].latex = cache[FormulaIn(i)]
  /\ stage = "written" =>
       /\ Apart(blocks) /\ Covered(blocks) /\ FromMineru
       /\ \A i \in DOMAIN blocks : blocks[i].enabled <=> Parsed!Legible(blocks[i])
       /\ host => \A i \in DOMAIN mineru :
            /\ TableIs(i)
            /\ Unread(i) => blocks[i].latex = Parsed!Clean(cache[FormulaIn(i)])

LEMMA ParsingInvStarts == Parsed!ParsingInit => ParsingInv
<1>1. Parsed!ParsingInit => CacheOK
  <2>1. DOMAIN <<>> = {}
    OBVIOUS
  <2>. QED  BY <2>1 DEF Parsed!ParsingInit, CacheOK
<1>. QED  BY <1>1 DEF Parsed!ParsingInit, ParsingInv

LEMMA StartParseKeeps == ParsingInv /\ Parsed!StartParse => ParsingInv'
<1>1. SUFFICES ASSUME ParsingInv, Parsed!StartParse PROVE ParsingInv'
  OBVIOUS
<1>2. /\ parses' = parses + 1 /\ stage' = "normalizing" /\ next' = 1 /\ cache' = cache
      /\ parses \in Nat
  BY <1>1 DEF Parsed!StartParse, ParsingInv
<1>3. (MineruOK /\ NativeOK)'
  <2>1. CASE parses = 0
    <3>0. PICK n \in 1..MaxRaw : \E raw \in [1..n -> RawBlocks], on \in [1..n -> 1..Pages] :
            mineru' = [i \in 1..n |-> [raw |-> raw[i], page |-> on[i]]]
      BY <1>1, <2>1 DEF Parsed!StartParse
    <3>1. PICK raw \in [1..n -> RawBlocks], on \in [1..n -> 1..Pages] :
            mineru' = [i \in 1..n |-> [raw |-> raw[i], page |-> on[i]]]
      BY <3>0
    <3>2. native' \in [1..Pages -> NativeTexts]
      BY <1>1, <2>1 DEF Parsed!StartParse
    <3>3. n \in Nat
      BY ParsingConstants
    <3>4. mineru' \in [1..n -> [raw : RawBlocks, page : 1..Pages]]
      BY <3>1
    <3>5. mineru' \in Seq([raw : RawBlocks, page : 1..Pages])
      BY <3>3, <3>4, ListOf
    <3>. QED  BY <3>2, <3>5 DEF MineruOK, NativeOK
  <2>2. CASE parses # 0
    <3>1. UNCHANGED <<mineru, native>> /\ parses > 0
      BY <1>1, <1>2, <2>2 DEF Parsed!StartParse
    <3>. QED  BY <1>1, <3>1 DEF ParsingInv, MineruOK, NativeOK
  <2>. QED  BY <2>1, <2>2
<1>. QED  BY <1>1, <1>2, <1>3 DEF ParsingInv, CacheOK

LEMMA BuildKeeps == ParsingInv /\ Parsed!BuildDocument => ParsingInv'
<1>1. SUFFICES ASSUME ParsingInv, Parsed!BuildDocument PROVE ParsingInv'
  OBVIOUS
<1>2. /\ stage = "normalizing" /\ stage' = "augmenting" /\ blocks' = [i \in DOMAIN mineru |-> Parsed!Convert(i)]
      /\ UNCHANGED <<mineru, native, cache, host, next, parses>>
  BY <1>1 DEF Parsed!BuildDocument
<1>3. MineruOK /\ NativeOK /\ CacheOK /\ next = 1 /\ parses \in Nat /\ parses > 0
  BY <1>1, <1>2 DEF ParsingInv
<1>4. BuiltOK' /\ DOMAIN blocks' = DOMAIN mineru
  BY <1>1, <1>3, BuildOK
<1>5. \A i \in DOMAIN mineru :
        LET b == blocks'[i] IN
        /\ b.type = Parsed!SourceTypes[mineru[i].raw.source] /\ b.image = mineru[i].raw.image
        /\ b.latex = mineru[i].raw.latex /\ b.latex_raw = mineru[i].raw.latex
  BY <1>2, <1>3, ConvertOK
<1>6. (FromMineru /\ AsRead)'
  <2>1. mineru' = mineru /\ Parsed!SourceTypes' = Parsed!SourceTypes
    BY <1>2 DEF Parsed!SourceTypes
  <2>. QED  BY <1>4, <1>5, <2>1 DEF FromMineru, AsRead, Traced
<1>7. (MineruOK /\ NativeOK /\ CacheOK)'
  BY <1>2, <1>3 DEF MineruOK, NativeOK, CacheOK
<1>. QED  BY <1>2, <1>3, <1>4, <1>6, <1>7 DEF ParsingInv

LEMMA AugmentKeeps == ParsingInv /\ Parsed!AugmentNativeText => ParsingInv'
<1>1. SUFFICES ASSUME ParsingInv, Parsed!AugmentNativeText PROVE ParsingInv'
  OBVIOUS
<1>2. /\ stage = "augmenting" /\ stage' = "tables"
      /\ UNCHANGED <<mineru, native, cache, host, next, parses>>
  BY <1>1 DEF Parsed!AugmentNativeText
<1>3. MineruOK /\ NativeOK /\ CacheOK /\ BuiltOK /\ FromMineru /\ AsRead /\ next = 1 /\ parses \in Nat /\ parses > 0
  BY <1>1, <1>2 DEF ParsingInv
<1>4. PICK s : Longer(s, Pages) /\ blocks' = s
  BY <1>1, <1>3, AugmentOK
<1>5. Covered(s)
  BY <1>3, <1>4, LongerCovers
<1>6. /\ s \in Seq(BlockOf) /\ Apart(s) /\ DOMAIN s = 1..Len(s) /\ Len(s) \in Nat
      /\ DOMAIN blocks = 1..Len(blocks) /\ Len(blocks) \in Nat /\ Len(s) >= Len(blocks)
      /\ \A i \in DOMAIN s : Unjudged(s[i])
      /\ \A i \in 1..Len(blocks) : s[i] = blocks[i]
      /\ \A i \in DOMAIN s : i > Len(blocks) => s[i].type = "paragraph"
  <2>1. s \in Seq(BlockOf) /\ blocks \in Seq(BlockOf)
    BY <1>3, <1>4 DEF Longer, BuiltOK
  <2>. QED  BY <1>4, <2>1, ListHas DEF Longer
<1>7. Covered(blocks)' /\ Apart(blocks)'
  <2>1. native' = native
    BY <1>2
  <2>3. Covered(blocks)' = Covered(s)
    BY <1>4, <2>1 DEF Covered, PaperOn, OnPage, Parsed!InPaper, Parsed!InLayer
  <2>4. Apart(blocks)' = Apart(s)
    BY <1>4 DEF Apart
  <2>. QED  BY <1>5, <1>6, <2>3, <2>4
<1>8. DOMAIN mineru \subseteq DOMAIN s /\ \A i \in DOMAIN mineru : s[i] = blocks[i]
  BY <1>3, <1>6 DEF FromMineru
<1>9. \A i \in DOMAIN s \ DOMAIN mineru : s[i].type = "paragraph"
  <2>1. SUFFICES ASSUME NEW i \in DOMAIN s \ DOMAIN mineru PROVE s[i].type = "paragraph"
    OBVIOUS
  <2>2. CASE i > Len(blocks)
    BY <1>6, <2>2
  <2>3. CASE ~(i > Len(blocks))
    <3>1. i \in 1..Len(blocks)
      BY <1>6, <2>3
    <3>. QED  BY <1>3, <1>6, <3>1 DEF FromMineru
  <2>. QED  BY <2>2, <2>3
<1>10. (FromMineru /\ AsRead)'
  <2>1. mineru' = mineru
    BY <1>2
  <2>. QED  BY <1>3, <1>4, <1>8, <1>9, <2>1 DEF FromMineru, AsRead, Traced
<1>11. Filled'
  BY <1>4, <1>6, <1>7, <1>10 DEF Filled
<1>12. \A i \in DOMAIN mineru' : ~(i < next')
  BY <1>2, <1>3, ListHas DEF MineruOK
<1>13. (MineruOK /\ NativeOK /\ CacheOK)'
  BY <1>2, <1>3 DEF MineruOK, NativeOK, CacheOK
<1>. QED  BY <1>2, <1>3, <1>10, <1>11, <1>12, <1>13 DEF ParsingInv

LEMMA StoredOne ==
  ASSUME NEW key, NEW value, NEW results, DOMAIN results = {key}, results[key] = value
  PROVE  LET stored == Parsed!Stored(results) IN
         /\ DOMAIN stored = {key} \cup DOMAIN cache
         /\ stored[key] = value
         /\ \A k \in DOMAIN cache : k # key => stored[k] = cache[k]
BY DEF Parsed!Stored

\* What one turn of the recovery of tables may do.
LEMMA TurnIs ==
  ASSUME CacheOK, Filled, next \in Nat, next >= 1, Parsed!RecoverTable
  PROVE  LET b == blocks[next]
             key == Parsed!TableKey(b)
         IN
         /\ next \in DOMAIN blocks
         /\ \/ blocks' = blocks
            \/ b.type = "table" /\ blocks' = [blocks EXCEPT ![next] = Parsed!WithTable(b)]
         /\ \/ cache' = cache
            \/ /\ b.type = "table" /\ b.image # NONE
               /\ \E html \in HtmlRead : cache' = Parsed!Stored([k \in {key} |-> html])
         /\ b.type = "table" /\ b.html # "cells" /\ b.image # NONE /\ host /\ b.image \notin Missing
              /\ key \in DOMAIN cache' /\ cache'[key] = "cells"
              => blocks' = [blocks EXCEPT ![next] = Parsed!WithTable(b)]
<1>. DEFINE b == blocks[next]
            key == Parsed!TableKey(b)
            tried == Parsed!UnreadTable(b) /\ host /\ b.image \notin Missing
            taken == [blocks EXCEPT ![next] = Parsed!WithTable(b)]
            Take(html) == blocks' = IF html = "cells" THEN taken ELSE blocks
            Goal == /\ \/ blocks' = blocks
                       \/ b.type = "table" /\ blocks' = taken
                    /\ \/ cache' = cache
                       \/ /\ b.type = "table" /\ b.image # NONE
                          /\ \E html \in HtmlRead : cache' = Parsed!Stored([k \in {key} |-> html])
                    /\ tried /\ key \in DOMAIN cache' /\ cache'[key] = "cells" => blocks' = taken
<1>1. next <= Len(blocks)
      /\ IF ~tried THEN UNCHANGED <<blocks, cache>>
         ELSE IF Parsed!Found(key) # NONE THEN Take(Parsed!Found(key)) /\ UNCHANGED cache
         ELSE \/ UNCHANGED <<blocks, cache>>
              \/ \E html \in HtmlRead : Take(html) /\ cache' = Parsed!Stored([k \in {key} |-> html])
  BY DEF Parsed!RecoverTable
<1>2. next \in DOMAIN blocks
  <2>1. Len(blocks) \in Nat /\ DOMAIN blocks = 1..Len(blocks)
    BY ListHas DEF Filled
  <2>. QED  BY <1>1, <2>1
<1>3. tried <=> b.type = "table" /\ b.html # "cells" /\ b.image # NONE /\ host /\ b.image \notin Missing
  BY DEF Parsed!UnreadTable
<1>4. key[1] = "table"
  BY DEF Parsed!TableKey
<1>. SUFFICES Goal
  BY <1>2, <1>3
<1>. HIDE DEF b, key, tried, taken
<1>5. CASE ~tried
  BY <1>1, <1>5
<1>6. CASE tried /\ Parsed!Found(key) # NONE
  <2>1. key \in DOMAIN cache /\ Parsed!Found(key) = cache[key]
    BY <1>6 DEF Parsed!Found
  <2>. QED  BY <1>1, <1>3, <1>6, <2>1
<1>7. CASE tried /\ Parsed!Found(key) = NONE
  <2>1. key \notin DOMAIN cache
    <3>1. key \in DOMAIN cache => cache[key] \in HtmlRead /\ Parsed!Found(key) = cache[key]
      BY <1>4 DEF CacheOK, Parsed!Found
    <3>. QED  BY <1>7, <3>1, ParsingConstants
  <2>2. CASE UNCHANGED <<blocks, cache>>
    BY <2>1, <2>2
  <2>3. CASE \E html \in HtmlRead : Take(html) /\ cache' = Parsed!Stored([k \in {key} |-> html])
    <3>1. PICK html \in HtmlRead : Take(html) /\ cache' = Parsed!Stored([k \in {key} |-> html])
      BY <2>3
    <3>2. cache'[key] = html
      <4>. DEFINE results == [k \in {key} |-> html]
      <4>1. cache' = Parsed!Stored(results)
        BY <3>1
      <4>2. DOMAIN results = {key} /\ results[key] = html
        OBVIOUS
      <4>. HIDE DEF results
      <4>. QED  BY <4>1, <4>2, StoredOne
    <3>. QED  BY <1>3, <1>7, <3>1, <3>2
  <2>. QED  BY <1>1, <1>7, <2>2, <2>3
<1>. QED  BY <1>5, <1>6, <1>7

LEMMA TableKeeps == ParsingInv /\ Parsed!RecoverTable => ParsingInv'
<1>. SUFFICES ASSUME ParsingInv, Parsed!RecoverTable PROVE ParsingInv'
  OBVIOUS
<1>. DEFINE b == blocks[next]
            key == Parsed!TableKey(b)
            taken == [blocks EXCEPT ![next] = Parsed!WithTable(b)]
<1>1. stage = "tables" /\ next' = next + 1 /\ UNCHANGED <<mineru, native, host, stage, parses>>
  BY DEF Parsed!RecoverTable
<1>2. /\ MineruOK /\ NativeOK /\ CacheOK /\ Filled /\ AsRead /\ next \in Nat /\ next >= 1
      /\ parses \in Nat /\ parses > 0
      /\ host => \A i \in DOMAIN mineru : i < next => TableIs(i)
  BY <1>1 DEF ParsingInv
<1>3. /\ next \in DOMAIN blocks
      /\ \/ blocks' = blocks
         \/ b.type = "table" /\ blocks' = taken
      /\ \/ cache' = cache
         \/ /\ b.type = "table" /\ b.image # NONE
            /\ \E html \in HtmlRead : cache' = Parsed!Stored([k \in {key} |-> html])
      /\ b.type = "table" /\ b.html # "cells" /\ b.image # NONE /\ host /\ b.image \notin Missing
           /\ key \in DOMAIN cache' /\ cache'[key] = "cells"
           => blocks' = taken
  BY <1>2, TurnIs
<1>4. /\ DOMAIN blocks = 1..Len(blocks) /\ Len(blocks) \in Nat /\ blocks \in Seq(BlockOf)
      /\ \A i \in DOMAIN blocks : Unjudged(blocks[i])
  BY <1>2, ListHas DEF Filled
<1>5. b.type = "table" =>
        LET c == Parsed!WithTable(b) IN
        /\ Unjudged(c) /\ c \in BlockOf /\ StaysInPlace(b, c) /\ c.html = "cells"
        /\ c.latex = b.latex /\ c.latex_raw = b.latex_raw
  BY <1>3, <1>4, WithTableOK DEF Unjudged
<1>6. /\ blocks' \in Seq(BlockOf) /\ DOMAIN blocks' = DOMAIN blocks
      /\ \A i \in DOMAIN blocks :
           /\ Unjudged(blocks'[i]) /\ StaysInPlace(blocks[i], blocks'[i])
           /\ blocks'[i].latex = blocks[i].latex /\ blocks'[i].latex_raw = blocks[i].latex_raw
           /\ i # next => blocks'[i] = blocks[i]
           /\ blocks[i].html = "cells" => blocks'[i].html = "cells"
      /\ blocks' = taken => blocks'[next].html = "cells" \/ b.type # "table"
  <2>1. CASE blocks' = blocks
    BY <1>3, <1>4, <1>5, <2>1 DEF StaysInPlace
  <2>2. CASE b.type = "table" /\ blocks' = taken
    <3>. DEFINE c == Parsed!WithTable(b)
    <3>1. /\ Unjudged(c) /\ c \in BlockOf /\ StaysInPlace(b, c) /\ c.html = "cells"
          /\ c.latex = b.latex /\ c.latex_raw = b.latex_raw
      BY <1>5, <2>2
    <3>. HIDE DEF c
    <3>2. /\ taken = [blocks EXCEPT ![next] = c]
          /\ DOMAIN taken = DOMAIN blocks /\ taken[next] = c
          /\ \A i \in DOMAIN blocks : i # next => taken[i] = blocks[i]
      BY <1>3 DEF c
    <3>. HIDE DEF taken
    <3>3. taken \in Seq(BlockOf)
      <4>1. \A i \in 1..Len(blocks) : taken[i] \in BlockOf
        BY <1>3, <1>4, <3>1, <3>2 DEF Unjudged
      <4>2. taken = [i \in 1..Len(blocks) |-> taken[i]]
        BY <1>4, <3>2
      <4>3. taken \in [1..Len(blocks) -> BlockOf]
        BY <4>1, <4>2
      <4>. QED  BY <1>4, <4>3, ListOf
    <3>4. ASSUME NEW i \in DOMAIN blocks
          PROVE  /\ Unjudged(taken[i]) /\ StaysInPlace(blocks[i], taken[i])
                 /\ taken[i].latex = blocks[i].latex /\ taken[i].latex_raw = blocks[i].latex_raw
                 /\ i # next => taken[i] = blocks[i]
                 /\ blocks[i].html = "cells" => taken[i].html = "cells"
      <4>1. CASE i = next
        BY <3>1, <3>2, <4>1
      <4>2. CASE i # next
        BY <1>4, <3>2, <4>2 DEF StaysInPlace
      <4>. QED  BY <4>1, <4>2
    <3>. QED  BY <2>2, <3>1, <3>2, <3>3, <3>4
  <2>. QED  BY <1>3, <2>1, <2>2
<1>. HIDE DEF taken
<1>7. Apart(blocks') /\ Covered(blocks')
  <2>1. Keeps(blocks, blocks')
    BY <1>6 DEF Keeps
  <2>. QED  BY <1>2, <2>1, KeepsPlaces, KeepsText DEF Filled
<1>8. (FromMineru /\ AsRead)'
  <2>1. mineru' = mineru /\ FromMineru /\ AsRead
    BY <1>1, <1>2 DEF Filled
  <2>2. \A i \in DOMAIN blocks : blocks'[i].type = blocks[i].type /\ blocks'[i].image = blocks[i].image
    BY <1>6 DEF StaysInPlace
  <2>. QED  BY <1>6, <2>1, <2>2 DEF FromMineru, AsRead, Traced
<1>9. Filled'
  <2>1. Covered(blocks)' /\ Apart(blocks)'
    BY <1>1, <1>7 DEF Covered, PaperOn, OnPage, Apart, Parsed!InPaper, Parsed!InLayer
  <2>. QED  BY <1>6, <1>8, <2>1 DEF Filled
<1>10. key[1] = "table" /\ key[2] = b.image
  BY DEF Parsed!TableKey
<1>11. CacheOK'
  <2>1. CASE cache' = cache
    BY <1>2, <2>1 DEF CacheOK
  <2>2. CASE b.type = "table" /\ b.image # NONE
             /\ \E html \in HtmlRead : cache' = Parsed!Stored([k \in {key} |-> html])
    <3>1. PICK html \in HtmlRead : cache' = Parsed!Stored([k \in {key} |-> html])
      BY <2>2
    <3>2. /\ DOMAIN cache' = {key} \cup DOMAIN cache /\ cache'[key] = html
          /\ \A k \in DOMAIN cache : k # key => cache'[k] = cache[k]
      <4>. DEFINE results == [k \in {key} |-> html]
                  stored == Parsed!Stored(results)
      <4>. HIDE DEF key
      <4>1. cache' = stored
        BY <3>1
      <4>2. DOMAIN results = {key} /\ results[key] = html
        OBVIOUS
      <4>. HIDE DEF results
      <4>3. /\ DOMAIN stored = {key} \cup DOMAIN cache /\ stored[key] = html
            /\ \A k \in DOMAIN cache : k # key => stored[k] = cache[k]
        BY <4>2, StoredOne
      <4>. HIDE DEF stored
      <4>. QED  BY <4>1, <4>3
    <3>. HIDE DEF key, b
    <3>. QED  BY <1>2, <1>10, <2>2, <3>2 DEF CacheOK
  <2>. QED  BY <1>3, <2>1, <2>2
<1>12. ASSUME host, NEW i \in DOMAIN mineru, i < next + 1 PROVE TableIs(i)'
  <2>1. /\ i \in DOMAIN blocks /\ FromMineru /\ mineru' = mineru
        /\ blocks'[i].type = blocks[i].type /\ blocks'[i].image = blocks[i].image
        /\ i \in Nat
    <3>1. i \in DOMAIN blocks /\ FromMineru
      BY <1>2 DEF Filled, FromMineru
    <3>. QED  BY <1>1, <1>4, <1>6, <3>1 DEF StaysInPlace
  <2>2. Parsed!TableKey(blocks[i])' = Parsed!TableKey(blocks[i])
    BY <2>1 DEF Parsed!TableKey
  <2>3. SUFFICES ASSUME blocks[i].type = "table", blocks[i].image \notin Missing, ~Parsed!Shared(i),
                        Parsed!TableKey(blocks[i]) \in DOMAIN cache',
                        cache'[Parsed!TableKey(blocks[i])] = "cells"
                 PROVE  blocks'[i].html = "cells"
    <3>1. Parsed!Shared(i)' <=> Parsed!Shared(i)
      BY <2>1 DEF Parsed!Shared
    <3>. QED  BY <2>1, <2>2, <3>1 DEF TableIs
  <2>4. CASE i = next
    <3>1. CASE b.html = "cells"
      BY <1>6, <2>1, <2>4, <3>1
    <3>2. CASE b.html # "cells"
      <4>1. b.image # NONE
        BY <1>10, <1>11, <2>3, <2>4 DEF CacheOK
      <4>2. blocks' = taken
        BY <1>3, <1>12, <2>3, <2>4, <3>2, <4>1
      <4>. QED  BY <1>6, <2>3, <2>4, <4>2
    <3>. QED  BY <3>1, <3>2
  <2>5. CASE i # next
    <3>1. i < next
      BY <1>2, <1>12, <2>1, <2>5
    <3>2. Parsed!TableKey(blocks[i]) \in DOMAIN cache
          /\ cache[Parsed!TableKey(blocks[i])] = "cells"
      <4>1. CASE cache' = cache
        BY <2>3, <4>1
      <4>2. CASE b.type = "table" /\ \E html \in HtmlRead : cache' = Parsed!Stored([k \in {key} |-> html])
        <5>1. next \in DOMAIN mineru
          <6>1. next \notin DOMAIN mineru => b.type = "paragraph"
            BY <1>3, <2>1 DEF FromMineru
          <6>. QED  BY <4>2, <6>1
        <5>2. b.image # blocks[i].image
          <6>1. mineru[next].raw.image # mineru[i].raw.image
            BY <2>3, <2>5, <5>1 DEF Parsed!Shared
          <6>. QED  BY <2>1, <5>1, <6>1 DEF FromMineru, Traced
        <5>3. Parsed!TableKey(blocks[i])[2] = blocks[i].image
          BY DEF Parsed!TableKey
        <5>4. PICK html \in HtmlRead : cache' = Parsed!Stored([k \in {key} |-> html])
          BY <4>2
        <5>5. /\ DOMAIN cache' = {key} \cup DOMAIN cache
              /\ \A k \in DOMAIN cache : k # key => cache'[k] = cache[k]
          <6>. DEFINE results == [k \in {key} |-> html]
                      stored == Parsed!Stored(results)
          <6>. HIDE DEF key
          <6>1. cache' = stored
            BY <5>4
          <6>2. DOMAIN results = {key} /\ results[key] = html
            OBVIOUS
          <6>. HIDE DEF results
          <6>3. /\ DOMAIN stored = {key} \cup DOMAIN cache
                /\ \A k \in DOMAIN cache : k # key => stored[k] = cache[k]
            BY <6>2, StoredOne
          <6>. HIDE DEF stored
          <6>. QED  BY <6>1, <6>3
        <5>6. Parsed!TableKey(blocks[i]) # key
          BY <1>10, <5>2, <5>3
        <5>. QED  BY <2>3, <5>5, <5>6
      <4>. QED  BY <1>3, <4>1, <4>2
    <3>3. TableIs(i)
      BY <1>2, <1>12, <3>1
    <3>4. blocks[i].html = "cells"
      BY <2>3, <3>2, <3>3 DEF TableIs
    <3>. QED  BY <1>6, <2>1, <3>4
  <2>. QED  BY <2>4, <2>5
<1>13. (MineruOK /\ NativeOK)'
  BY <1>1, <1>2 DEF MineruOK, NativeOK
<1>. QED  BY <1>1, <1>2, <1>8, <1>9, <1>11, <1>12, <1>13 DEF ParsingInv

LEMMA TablesDoneKeeps == ParsingInv /\ Parsed!TablesDone => ParsingInv'
<1>. SUFFICES ASSUME ParsingInv, Parsed!TablesDone PROVE ParsingInv'
  OBVIOUS
<1>1. /\ stage = "tables" /\ next > Len(blocks) /\ stage' = "formulas"
      /\ mineru' = mineru /\ native' = native /\ blocks' = blocks /\ cache' = cache /\ host' = host
      /\ next' = next /\ parses' = parses
  BY DEF Parsed!TablesDone
<1>2. /\ MineruOK /\ NativeOK /\ CacheOK /\ Filled /\ AsRead /\ next \in Nat /\ next >= 1
      /\ parses \in Nat /\ parses > 0
      /\ host => \A i \in DOMAIN mineru : i < next => TableIs(i)
  BY <1>1 DEF ParsingInv
<1>3. host => \A i \in DOMAIN mineru : TableIs(i)
  <2>1. \A i \in DOMAIN mineru : i < next
    <3>1. DOMAIN blocks = 1..Len(blocks) /\ Len(blocks) \in Nat /\ DOMAIN mineru \subseteq DOMAIN blocks
      BY <1>2, ListHas DEF Filled, FromMineru
    <3>. QED  BY <1>1, <1>2, <3>1
  <2>. QED  BY <1>2, <2>1
<1>4. /\ (MineruOK /\ NativeOK /\ CacheOK /\ AsRead)'
      /\ host' => \A i \in DOMAIN mineru' : TableIs(i)'
  BY <1>1, <1>2, <1>3 DEF MineruOK, NativeOK, CacheOK, AsRead, TableIs, Parsed!TableKey, Parsed!Shared
<1>5. Filled'
  BY <1>1, <1>2 DEF Filled, FromMineru, Traced, Apart, Covered, PaperOn, OnPage, Parsed!InPaper, Parsed!InLayer
<1>. QED  BY <1>1, <1>2, <1>4, <1>5 DEF ParsingInv

LEMMA ParseDiesKeeps == ParsingInv /\ Parsed!ParseDies => ParsingInv'
<1>. SUFFICES ASSUME ParsingInv, Parsed!ParseDies PROVE ParsingInv'
  OBVIOUS
<1>1. /\ stage' = "died" /\ next' = 1 /\ stage # "idle"
      /\ mineru' = mineru /\ native' = native /\ cache' = cache /\ parses' = parses
  BY DEF Parsed!ParseDies
<1>2. (MineruOK /\ NativeOK /\ CacheOK)' /\ parses \in Nat /\ parses > 0
  BY <1>1 DEF ParsingInv, MineruOK, NativeOK, CacheOK
<1>. QED  BY <1>1, <1>2 DEF ParsingInv

\* What the worker for formulas may leave on disk.
LEMMA AnswersAre ==
  ASSUME CacheOK, Filled, Parsed!RecoverFormulas
  PROVE  /\ CacheOK'
         /\ \A key \in DOMAIN cache' : key[1] = "table" => key \in DOMAIN cache /\ cache'[key] = cache[key]
         /\ ~host => cache' = cache /\ blocks' = blocks
         /\ host => blocks' = [i \in DOMAIN blocks |->
              IF Parsed!Readable(blocks[i]) /\ Parsed!FormulaKey(blocks[i]) \in DOMAIN cache'
                THEN Parsed!WithFormula(blocks[i], cache'[Parsed!FormulaKey(blocks[i])]) ELSE blocks[i]]
<1>1. CASE ~host
  <2>1. cache' = cache /\ blocks' = blocks
    BY <1>1 DEF Parsed!RecoverFormulas
  <2>. QED  BY <1>1, <2>1 DEF CacheOK
<1>2. CASE host
  <2>. DEFINE keys == {Parsed!FormulaKey(b) : b \in {c \in Parsed!Range(blocks) : Parsed!Readable(c)}}
              jobs == keys \ DOMAIN cache
              shown == [i \in DOMAIN blocks |->
                 IF Parsed!Readable(blocks[i]) /\ Parsed!FormulaKey(blocks[i]) \in DOMAIN cache'
                   THEN Parsed!WithFormula(blocks[i], cache'[Parsed!FormulaKey(blocks[i])]) ELSE blocks[i]]
  <2>1. PICK written \in SUBSET jobs : \E answer \in [written -> LatexRead] :
          cache' = Parsed!Stored(answer) /\ blocks' = shown
    BY <1>2 DEF Parsed!RecoverFormulas
  <2>2. PICK answer \in [written -> LatexRead] : cache' = Parsed!Stored(answer) /\ blocks' = shown
    BY <2>1
  <2>3. \A key \in written : key[1] = "formula" /\ key[2] # NONE /\ key \notin DOMAIN cache
    <3>1. \A key \in keys : key[1] = "formula" /\ key[2] # NONE
      BY DEF Parsed!FormulaKey, Parsed!Readable
    <3>. HIDE DEF keys
    <3>. QED  BY <3>1
  <2>. HIDE DEF jobs, shown
  <2>4. /\ DOMAIN cache' = written \cup DOMAIN cache
        /\ \A key \in written : cache'[key] \in LatexRead
        /\ \A key \in DOMAIN cache : cache'[key] = cache[key]
    BY <2>2, <2>3 DEF Parsed!Stored
  <2>5. CacheOK'
    BY <2>3, <2>4 DEF CacheOK
  <2>6. \A key \in DOMAIN cache' : key[1] = "table" => key \in DOMAIN cache /\ cache'[key] = cache[key]
    BY <2>3, <2>4
  <2>. QED  BY <1>2, <2>2, <2>5, <2>6 DEF shown
<1>. QED  BY <1>1, <1>2

LEMMA FormulasKeep == ParsingInv /\ Parsed!RecoverFormulas => ParsingInv'
<1>. SUFFICES ASSUME ParsingInv, Parsed!RecoverFormulas PROVE ParsingInv'
  OBVIOUS
<1>1. /\ stage = "formulas" /\ stage' = "validating"
      /\ mineru' = mineru /\ native' = native /\ host' = host /\ next' = next /\ parses' = parses
  BY DEF Parsed!RecoverFormulas
<1>2. /\ MineruOK /\ NativeOK /\ CacheOK /\ Filled /\ AsRead /\ next \in Nat /\ next >= 1
      /\ parses \in Nat /\ parses > 0
      /\ host => \A i \in DOMAIN mineru : TableIs(i)
  BY <1>1 DEF ParsingInv
<1>3. /\ CacheOK'
      /\ \A key \in DOMAIN cache' : key[1] = "table" => key \in DOMAIN cache /\ cache'[key] = cache[key]
      /\ ~host => cache' = cache /\ blocks' = blocks
      /\ host => blocks' = [i \in DOMAIN blocks |->
           IF Parsed!Readable(blocks[i]) /\ Parsed!FormulaKey(blocks[i]) \in DOMAIN cache'
             THEN Parsed!WithFormula(blocks[i], cache'[Parsed!FormulaKey(blocks[i])]) ELSE blocks[i]]
  BY <1>2, AnswersAre
<1>4. /\ DOMAIN blocks = 1..Len(blocks) /\ Len(blocks) \in Nat /\ blocks \in Seq(BlockOf)
      /\ \A i \in DOMAIN blocks : blocks[i] \in BlockOf /\ Unjudged(blocks[i])
  BY <1>2, ListHas DEF Filled
<1>5. /\ DOMAIN blocks' = DOMAIN blocks
      /\ \A i \in DOMAIN blocks :
           \/ blocks'[i] = blocks[i]
           \/ /\ Parsed!Readable(blocks[i]) /\ Parsed!FormulaKey(blocks[i]) \in DOMAIN cache'
              /\ blocks'[i] = Parsed!WithFormula(blocks[i], cache'[Parsed!FormulaKey(blocks[i])])
  <2>1. CASE ~host
    BY <1>3, <2>1
  <2>2. CASE host
    BY <1>3, <2>2
  <2>. QED  BY <2>1, <2>2
<1>6. ASSUME NEW b, Parsed!Readable(b), Parsed!FormulaKey(b) \in DOMAIN cache'
      PROVE  b.type = "equation" /\ cache'[Parsed!FormulaKey(b)] \in LatexRead
  <2>1. Parsed!FormulaKey(b)[1] = "formula"
    BY DEF Parsed!FormulaKey
  <2>2. b.type = "equation"
    BY <1>6 DEF Parsed!Readable, Parsed!Doubtful
  <2>3. cache'[Parsed!FormulaKey(b)] \in LatexRead
    <3>. DEFINE key == Parsed!FormulaKey(b)
    <3>. HIDE DEF key
    <3>1. key[1] = "formula" /\ key \in DOMAIN cache'
      BY <1>6, <2>1 DEF key
    <3>2. cache'[key] \in LatexRead
      BY <1>3, <3>1 DEF CacheOK
    <3>. QED  BY <3>2 DEF key
  <2>. QED  BY <2>2, <2>3
<1>7. ASSUME NEW i \in DOMAIN blocks
      PROVE  /\ Unjudged(blocks'[i]) /\ blocks'[i] \in BlockOf /\ StaysInPlace(blocks[i], blocks'[i])
             /\ blocks[i].type # "equation" => blocks'[i] = blocks[i]
  <2>1. CASE blocks'[i] = blocks[i]
    BY <1>4, <2>1 DEF StaysInPlace
  <2>2. CASE /\ Parsed!Readable(blocks[i]) /\ Parsed!FormulaKey(blocks[i]) \in DOMAIN cache'
             /\ blocks'[i] = Parsed!WithFormula(blocks[i], cache'[Parsed!FormulaKey(blocks[i])])
    <3>1. blocks[i].type = "equation" /\ cache'[Parsed!FormulaKey(blocks[i])] \in LatexRead
      BY <1>6, <2>2
    <3>2. Unjudged(blocks'[i]) /\ StaysInPlace(blocks[i], blocks'[i])
      BY <1>4, <2>2, <3>1, WithFormulaOK
    <3>. QED  BY <3>1, <3>2 DEF Unjudged
  <2>. QED  BY <1>5, <2>1, <2>2
<1>8. blocks' \in Seq(BlockOf)
  <2>. DEFINE new == blocks'
  <2>1. DOMAIN new = 1..Len(blocks) /\ \A i \in 1..Len(blocks) : new[i] \in BlockOf
    BY <1>4, <1>5, <1>7
  <2>2. new = [i \in 1..Len(blocks) |-> new[i]]
    <3>1. CASE ~host
      <4>1. blocks = [i \in 1..Len(blocks) |-> blocks[i]]
        BY <1>4
      <4>. QED  BY <1>3, <3>1, <4>1
    <3>2. CASE host
      BY <1>3, <1>4, <3>2
    <3>. QED  BY <3>1, <3>2
  <2>. HIDE DEF new
  <2>3. new \in [1..Len(blocks) -> BlockOf]
    BY <2>1, <2>2
  <2>4. new \in Seq(BlockOf)
    BY <1>4, <2>3, ListOf
  <2>. QED  BY <2>4 DEF new
<1>9. Apart(blocks') /\ Covered(blocks')
  <2>1. Keeps(blocks, blocks')
    BY <1>5, <1>7 DEF Keeps
  <2>. QED  BY <1>2, <2>1, KeepsPlaces, KeepsText DEF Filled
<1>10. \A i \in DOMAIN blocks : blocks'[i].type = blocks[i].type /\ blocks'[i].image = blocks[i].image
  BY <1>7 DEF StaysInPlace
<1>11. FromMineru'
  <2>1. mineru' = mineru /\ FromMineru
    BY <1>1, <1>2 DEF Filled
  <2>. QED  BY <1>5, <1>10, <2>1 DEF FromMineru, Traced
<1>12. Filled'
  <2>1. Covered(blocks)' /\ Apart(blocks)'
    BY <1>1, <1>9 DEF Covered, PaperOn, OnPage, Apart, Parsed!InPaper, Parsed!InLayer
  <2>2. \A i \in DOMAIN blocks' : Unjudged(blocks'[i])
    BY <1>5, <1>7
  <2>. QED  BY <1>8, <1>11, <2>1, <2>2 DEF Filled
<1>13. \A i \in DOMAIN mineru : i \in DOMAIN blocks
  BY <1>2 DEF Filled, FromMineru
<1>14. ASSUME host, NEW i \in DOMAIN mineru PROVE TableIs(i)'
  <2>1. Parsed!TableKey(blocks[i])' = Parsed!TableKey(blocks[i])
    BY <1>10, <1>13 DEF Parsed!TableKey
  <2>2. Parsed!Shared(i)' <=> Parsed!Shared(i)
    BY <1>1 DEF Parsed!Shared
  <2>3. SUFFICES ASSUME blocks[i].type = "table", blocks[i].image \notin Missing, ~Parsed!Shared(i),
                        Parsed!TableKey(blocks[i]) \in DOMAIN cache',
                        cache'[Parsed!TableKey(blocks[i])] = "cells"
                 PROVE  blocks'[i].html = "cells"
    BY <1>10, <1>13, <2>1, <2>2 DEF TableIs
  <2>4. Parsed!TableKey(blocks[i])[1] = "table"
    BY DEF Parsed!TableKey
  <2>5. Parsed!TableKey(blocks[i]) \in DOMAIN cache
        /\ cache[Parsed!TableKey(blocks[i])] = "cells"
    BY <1>3, <2>3, <2>4
  <2>6. blocks[i].html = "cells"
    BY <1>2, <1>14, <2>3, <2>5 DEF TableIs
  <2>. QED  BY <1>7, <1>13, <2>3, <2>6
<1>15. ASSUME host, NEW i \in DOMAIN mineru, Unread(i)' PROVE blocks'[i].latex = cache'[FormulaIn(i)']
  <2>. DEFINE b == blocks[i]
              key == Parsed!FormulaKey(b)
  <2>1. /\ i \in DOMAIN blocks /\ b.type = "equation" /\ b.image \notin Missing
        /\ Parsed!HardError(mineru[i].raw.latex)
    BY <1>1, <1>10, <1>13, <1>15 DEF Unread, Parsed!HardError
  <2>2. Parsed!Latex(b) = mineru[i].raw.latex
    BY <1>2 DEF AsRead, Parsed!Latex
  <2>3. FormulaIn(i)' = key
    BY <1>1, <1>10, <1>13, <2>2 DEF FormulaIn, Parsed!FormulaKey
  <2>4. key \in DOMAIN cache'
    BY <1>15, <2>3 DEF Unread
  <2>5. b.image # NONE
    <3>1. key[2] = b.image
      BY DEF Parsed!FormulaKey
    <3>. HIDE DEF key
    <3>. QED  BY <1>3, <2>4, <3>1 DEF CacheOK
  <2>6. Parsed!Readable(b)
    BY <2>1, <2>2, <2>5 DEF Parsed!Readable, Parsed!Doubtful
  <2>7. blocks'[i] = Parsed!WithFormula(b, cache'[key])
    BY <1>3, <1>15, <2>1, <2>4, <2>6
  <2>8. cache'[key] \in LatexRead
    BY <1>6, <2>4, <2>6
  <2>9. blocks'[i].latex = cache'[key]
    BY <1>4, <2>1, <2>7, <2>8, WithFormulaOK
  <2>. QED  BY <2>3, <2>9
<1>16. (MineruOK /\ NativeOK)'
  BY <1>1, <1>2 DEF MineruOK, NativeOK
<1>. QED  BY <1>1, <1>2, <1>3, <1>12, <1>14, <1>15, <1>16 DEF ParsingInv

LEMMA ValidateKeeps == ParsingInv /\ Parsed!ValidateDocument => ParsingInv'
<1>. SUFFICES ASSUME ParsingInv, Parsed!ValidateDocument PROVE ParsingInv'
  OBVIOUS
<1>1. /\ stage = "validating" /\ stage' = "written"
      /\ blocks' = [i \in DOMAIN blocks |-> Parsed!Validate(blocks[i])]
      /\ mineru' = mineru /\ native' = native /\ cache' = cache /\ host' = host /\ next' = next
      /\ parses' = parses
  BY DEF Parsed!ValidateDocument
<1>2. /\ MineruOK /\ NativeOK /\ CacheOK /\ Filled /\ next \in Nat /\ next >= 1
      /\ parses \in Nat /\ parses > 0
      /\ host => \A i \in DOMAIN mineru : TableIs(i)
      /\ host => \A i \in DOMAIN mineru : Unread(i) => blocks[i].latex = cache[FormulaIn(i)]
  BY <1>1 DEF ParsingInv
<1>3. ASSUME NEW i \in DOMAIN blocks
      PROVE  /\ StaysInPlace(blocks[i], blocks'[i]) /\ blocks'[i].html = blocks[i].html
             /\ blocks'[i].latex = Parsed!Clean(blocks[i].latex)
             /\ blocks'[i].enabled <=> Parsed!Legible(blocks'[i])
  <2>1. Unjudged(blocks[i])
    BY <1>2 DEF Filled
  <2>2. blocks'[i] = Parsed!Validate(blocks[i])
    BY <1>1
  <2>. QED  BY <2>1, <2>2, ValidateOK
<1>4. DOMAIN blocks' = DOMAIN blocks
  BY <1>1
<1>5. Apart(blocks') /\ Covered(blocks')
  <2>1. Keeps(blocks, blocks')
    BY <1>3, <1>4 DEF Keeps
  <2>. QED  BY <1>2, <2>1, KeepsPlaces, KeepsText DEF Filled
<1>6. Covered(blocks)' /\ Apart(blocks)'
  BY <1>1, <1>5 DEF Covered, PaperOn, OnPage, Apart, Parsed!InPaper, Parsed!InLayer
<1>7. \A i \in DOMAIN blocks : blocks'[i].type = blocks[i].type /\ blocks'[i].image = blocks[i].image
  BY <1>3 DEF StaysInPlace
<1>8. FromMineru /\ \A i \in DOMAIN mineru : i \in DOMAIN blocks
  BY <1>2 DEF Filled, FromMineru
<1>9. FromMineru'
  BY <1>1, <1>4, <1>7, <1>8 DEF FromMineru, Traced
<1>10. ASSUME host, NEW i \in DOMAIN mineru
       PROVE  /\ TableIs(i)'
              /\ Unread(i)' => blocks'[i].latex = Parsed!Clean(cache'[FormulaIn(i)'])
  <2>1. /\ blocks'[i].type = blocks[i].type /\ blocks'[i].image = blocks[i].image
        /\ blocks'[i].html = blocks[i].html /\ blocks'[i].latex = Parsed!Clean(blocks[i].latex)
    BY <1>3, <1>7, <1>8
  <2>2. TableIs(i)'
    <3>1. Parsed!TableKey(blocks[i])' = Parsed!TableKey(blocks[i])
      BY <2>1 DEF Parsed!TableKey
    <3>2. Parsed!Shared(i)' <=> Parsed!Shared(i)
      BY <1>1 DEF Parsed!Shared
    <3>3. TableIs(i)
      BY <1>2, <1>10
    <3>. QED  BY <1>1, <2>1, <3>1, <3>2, <3>3 DEF TableIs
  <2>3. FormulaIn(i)' = FormulaIn(i)
    BY <1>1, <2>1 DEF FormulaIn
  <2>4. Unread(i)' => Unread(i)
    BY <1>1, <2>1, <2>3 DEF Unread, Parsed!HardError
  <2>5. Unread(i) => blocks[i].latex = cache[FormulaIn(i)]
    BY <1>2, <1>10
  <2>6. Unread(i)' => blocks'[i].latex = Parsed!Clean(cache'[FormulaIn(i)'])
    BY <1>1, <2>1, <2>3, <2>4, <2>5
  <2>. QED  BY <2>2, <2>6
<1>11. \A i \in DOMAIN blocks' : (blocks[i].enabled)' <=> Parsed!Legible(blocks[i])'
  <2>1. SUFFICES ASSUME NEW i \in DOMAIN blocks
                 PROVE  (blocks[i].enabled)' <=> Parsed!Legible(blocks[i])'
    BY <1>4
  <2>2. Parsed!Legible(blocks[i])' <=> Parsed!Legible(blocks'[i])
    BY DEF Parsed!Legible, Parsed!Rendered, Parsed!Kinds, Parsed!TextTypes
  <2>. QED  BY <1>3, <2>2
<1>12. (MineruOK /\ NativeOK /\ CacheOK)'
  BY <1>1, <1>2 DEF MineruOK, NativeOK, CacheOK
<1>. QED  BY <1>1, <1>2, <1>6, <1>9, <1>10, <1>11, <1>12 DEF ParsingInv

LEMMA ParsingInvKept == ParsingInv /\ [Parsed!ParsingNext]_Parsed!parsingVars => ParsingInv'
<1>1. SUFFICES ASSUME ParsingInv, [Parsed!ParsingNext]_Parsed!parsingVars PROVE ParsingInv'
  OBVIOUS
<1>2. CASE UNCHANGED Parsed!parsingVars
  <2>1. /\ mineru' = mineru /\ native' = native /\ blocks' = blocks /\ cache' = cache
        /\ host' = host /\ stage' = stage /\ next' = next /\ parses' = parses
    BY <1>2 DEF Parsed!parsingVars
  <2>2. /\ MineruOK' <=> MineruOK
        /\ NativeOK' <=> NativeOK
        /\ CacheOK' <=> CacheOK
        /\ AsRead' <=> AsRead
    BY <2>1 DEF MineruOK, NativeOK, CacheOK, AsRead
  <2>3. FromMineru' <=> FromMineru
    BY <2>1 DEF FromMineru, Traced
  <2>4. Apart(blocks)' <=> Apart(blocks)
    BY <2>1 DEF Apart
  <2>5. Covered(blocks)' <=> Covered(blocks)
    BY <2>1 DEF Covered, PaperOn, OnPage, Parsed!InPaper, Parsed!InLayer
  <2>6. (BuiltOK' <=> BuiltOK) /\ (Filled' <=> Filled)
    BY <2>1, <2>3, <2>4, <2>5 DEF BuiltOK, Filled
  <2>7. \A i : TableIs(i)' <=> TableIs(i)
    BY <2>1 DEF TableIs, Parsed!TableKey, Parsed!Shared
  <2>8. \A i : (Unread(i)' <=> Unread(i)) /\ FormulaIn(i)' = FormulaIn(i)
    BY <2>1 DEF Unread, FormulaIn
  <2>. QED  BY <1>1, <2>1, <2>2, <2>3, <2>4, <2>5, <2>6, <2>7, <2>8 DEF ParsingInv
<1>. QED  BY <1>1, <1>2, StartParseKeeps, BuildKeeps, AugmentKeeps, TableKeeps, TablesDoneKeeps,
             FormulasKeep, ValidateKeeps, ParseDiesKeeps DEF Parsed!ParsingNext

LEMMA ParsingInvGives == ParsingInv => Parsed!NothingLost
<1>1. SUFFICES ASSUME ParsingInv, stage = "written" PROVE Parsed!NothingLost
  BY DEF Parsed!NothingLost
<1>2. /\ Apart(blocks) /\ Covered(blocks) /\ FromMineru /\ CacheOK
      /\ \A i \in DOMAIN blocks : blocks[i].enabled <=> Parsed!Legible(blocks[i])
      /\ host => \A i \in DOMAIN mineru :
           /\ TableIs(i)
           /\ Unread(i) => blocks[i].latex = Parsed!Clean(cache[FormulaIn(i)])
  BY <1>1 DEF ParsingInv
<1>3. \/ ~Parsed!Exceeds(Parsed!InPaper, Parsed!ExtractedInPaper, DocumentMinimum)
      \/ \A n \in 1..Pages : ~Parsed!Exceeds(Parsed!InLayer(n), Parsed!Extracted(n), PageMinimum)
  BY <1>2 DEF Covered, PaperOn, OnPage, Parsed!ExtractedInPaper, Parsed!Extracted
<1>4. ASSUME host, NEW i \in DOMAIN mineru, blocks[i].image \notin Missing,
             Parsed!Reading(blocks[i], i) # NONE, ~Parsed!Shared(i)
      PROVE  /\ blocks[i].type = "table" /\ Parsed!Reading(blocks[i], i) = "cells" => blocks[i].html = "cells"
             /\ blocks[i].type = "equation" /\ Parsed!HardError(mineru[i].raw.latex)
                  => blocks[i].latex = Parsed!Clean(Parsed!Reading(blocks[i], i))
  <2>1. TableIs(i) /\ (Unread(i) => blocks[i].latex = Parsed!Clean(cache[FormulaIn(i)]))
    BY <1>2, <1>4
  <2>2. CASE blocks[i].type = "table"
    <3>1. Parsed!Reading(blocks[i], i) = Parsed!Found(Parsed!TableKey(blocks[i]))
      BY <2>2 DEF Parsed!Reading, Parsed!TableKey
    <3>2. Parsed!TableKey(blocks[i]) \in DOMAIN cache
          /\ Parsed!Reading(blocks[i], i) = cache[Parsed!TableKey(blocks[i])]
      BY <1>4, <3>1 DEF Parsed!Found
    <3>. QED  BY <1>4, <2>1, <2>2, <3>2 DEF TableIs
  <2>3. CASE blocks[i].type = "equation"
    <3>1. Parsed!Reading(blocks[i], i) = Parsed!Found(FormulaIn(i))
      BY <2>3 DEF Parsed!Reading, FormulaIn
    <3>2. FormulaIn(i) \in DOMAIN cache /\ Parsed!Reading(blocks[i], i) = cache[FormulaIn(i)]
      BY <1>4, <3>1 DEF Parsed!Found
    <3>. QED  BY <1>4, <2>1, <2>3, <3>2 DEF Unread
  <2>. QED  BY <2>2, <2>3
<1>. QED  BY <1>1, <1>2, <1>3, <1>4 DEF Parsed!NothingLost, Apart

\* Nothing of a paper is lost between MinerU's output and its chunks: the document that a
\* parse writes has all that could be read (augment_native_pdf_text, the recoveries and
\* validate_canonical_document), and the chunks all of its searchable text.
THEOREM NothingIsLost ==
  ASSUME SmallJoin
  PROVE  Parsed!ParsingSpec /\ Document!StructureSpec => []NothingLost
<1>1. Parsed!ParsingSpec => []Parsed!NothingLost
  BY ParsingInvStarts, ParsingInvKept, ParsingInvGives, PTL DEF Parsed!ParsingSpec
<1>2. Document!StructureSpec => []Document!NothingLost
  BY NoTextIsLost
<1>. QED  BY <1>1, <1>2, PTL DEF NothingLost
=============================================================================
