---------------------------- MODULE ServicesProofs ----------------------------
(***************************************************************************)
(* What the services around a corpus promise: uploads, batches and         *)
(* curators that work on the same files, for any number of them, any       *)
(* papers, faults, killed processes, restarts and cancellations;           *)
(* downloads; the events of a Run; a question and its answer; searches of  *)
(* the academic sources.                                                   *)
(***************************************************************************)
EXTENDS Services, FiniteSetTheorems, SequenceTheorems, WellFoundedInduction, TLAPS

Tasks == Library!Tasks

\* The fields of a call's local state; a call at one of these places is about a paper.
AboutPaper == {"ingest", "copy", "precheck", "lock", "mineru", "normalize", "write",
               "resolved", "verified", "renamed"}

IsTask(r) ==
  /\ DOMAIN r = {"pc", "paper", "todo", "force", "source", "seen", "layer", "records"}
  /\ r.todo \subseteq Papers
  /\ r.pc \in AboutPaper => r.paper \in Papers

LibraryShape ==
  /\ DOMAIN task = Tasks /\ task = [t \in Tasks |-> task[t]]
  /\ \A t \in Tasks : IsTask(task[t])
  /\ artifacts = [p \in Papers |-> artifacts[p]]

\* The steps a call takes by itself.
CallStep(t) ==
  \/ t \in Jobs /\ Library!StartUpload(t)
  \/ t \in Batches /\ (Library!StartBatch(t) \/ Library!NextFile(t))
  \/ t \in Jobs \cup Batches /\ Library!ParseStep(t)
  \/ t \in Curators /\ Library!CuratorStep(t)

\* Nothing a call knows or writes changes.
LibraryRests == UNCHANGED <<raw, artifacts, paper, catalog, works, task, orphan, outlived, disturbed>>

-----------------------------------------------------------------------------
(* Every step of the composition is a step of one call, the exception that *)
(* a refused report raises in one, the death of some, the end of a MinerU  *)
(* that outlived its call, or none of the library's business.              *)
LEMMA LibraryCases ==
  ASSUME [Next]_vars
  PROVE  \/ \E t \in Tasks : CallStep(t)
         \/ \E t \in Jobs : Library!Reports(t) /\ Library!ParseRaises(t)
         \/ \E ts \in SUBSET Tasks : Library!Killed(ts)
         \/ \E t \in Library!Parses : Library!OrphanEnds(t)
         \/ LibraryRests
<1>1. ASSUME NEW j \in Jobs, ManagerStep(j) /\ UNCHANGED libraryVars
      PROVE  LibraryRests
  BY <1>1 DEF libraryVars, LibraryRests
<1>2. ASSUME NEW j \in Jobs, TaskStep(j)
      PROVE  \E t \in Tasks : CallStep(t)
  BY <1>2 DEF TaskStep, CallStep, Tasks, Library!Tasks, Library!Parses
<1>3. ASSUME NEW j \in Jobs, Refused(j)
      PROVE  Library!Reports(j) /\ Library!ParseRaises(j)
  BY <1>3 DEF Refused
<1>4. ASSUME NEW j \in Jobs, IndexFails(j) \/ TaskEnds(j)
      PROVE  LibraryRests
  BY <1>4 DEF IndexFails, TaskEnds, libraryVars, LibraryRests
<1>5. ASSUME WebRestart
      PROVE  \E ts \in SUBSET Tasks : Library!Killed(ts)
  <2>1. Jobs \in SUBSET Tasks
    BY DEF Tasks, Library!Tasks, Library!Parses
  <2>. QED  BY <1>5, <2>1 DEF WebRestart
<1>6. ASSUME NEW b \in Batches, Library!BatchStep(b)
      PROVE  \E t \in Tasks : CallStep(t)
  BY <1>6 DEF Library!BatchStep, CallStep, Tasks, Library!Tasks, Library!Parses
<1>7. ASSUME NEW c \in Curators, Library!CuratorStep(c)
      PROVE  \E t \in Tasks : CallStep(t)
  BY <1>7 DEF CallStep, Tasks, Library!Tasks
<1>8. ASSUME NEW t \in Batches \cup Curators, KillCommand(t)
      PROVE  \E ts \in SUBSET Tasks : Library!Killed(ts)
  <2>1. {t} \in SUBSET Tasks
    BY DEF Tasks, Library!Tasks, Library!Parses
  <2>. QED  BY <1>8, <2>1 DEF KillCommand
<1>9. ASSUME UNCHANGED vars
      PROVE  LibraryRests
  BY <1>9 DEF vars, libraryVars, LibraryRests
<1>10. ASSUME NEW t \in Jobs \cup Batches, Library!OrphanEnds(t)
       PROVE  \E u \in Library!Parses : Library!OrphanEnds(u)
  BY <1>10 DEF Library!Parses
<1>. QED  BY <1>1, <1>2, <1>3, <1>4, <1>5, <1>6, <1>7, <1>8, <1>9, <1>10 DEF Next, StepOf

-----------------------------------------------------------------------------
(* A call changes its own state only, and keeps its fields.                *)

LEMMA OnlyItself ==
  ASSUME LibraryShape, NEW t \in Tasks, \E r : Library!Set(t, r)
  PROVE  /\ task' = [u \in Tasks |-> task'[u]] /\ DOMAIN task' = Tasks
         /\ \A u \in Tasks \ {t} : task'[u] = task[u]
         /\ \A r : Library!Set(t, r) => task'[t] = r
BY DEF LibraryShape, Library!Set

\* A call that goes to MinerU has just taken the lock and keeps what it was asked.
Takes(t) ==
  /\ Library!TakeParseLock(t)
  /\ task'[t].paper = task[t].paper /\ task'[t].force = task[t].force
  /\ task'[t].layer = task[t].layer

Becomes(t) == IsTask(task'[t]) /\ (task'[t].pc = "mineru" => Takes(t))

LEMMA CallBecomes ==
  ASSUME LibraryShape, NEW t \in Tasks, CallStep(t) \/ Library!ParseRaises(t)
  PROVE  (\E r : Library!Set(t, r)) /\ Becomes(t)
<1>0. IsTask(task[t]) /\ t \in DOMAIN task
  BY DEF LibraryShape
<1>. USE DEF Library!Goto
<1>1. ASSUME Library!StartUpload(t) PROVE (\E r : Library!Set(t, r)) /\ Becomes(t)
  <2>1. \E r : Library!Set(t, r)
    BY <1>1 DEF Library!StartUpload
  <2>2. Becomes(t)
    BY <1>1, <1>0 DEF Library!StartUpload, IsTask, AboutPaper, Library!Idle, Becomes, Library!Set
  <2>. QED  BY <2>1, <2>2
<1>2. ASSUME Library!StartBatch(t) PROVE (\E r : Library!Set(t, r)) /\ Becomes(t)
  <2>1. PICK files \in SUBSET Papers \ {{}}, force \in BOOLEAN :
          Library!Set(t, [Library!Idle EXCEPT !.pc = "next", !.todo = files, !.force = force])
    BY <1>2 DEF Library!StartBatch
  <2>2. task'[t] = [Library!Idle EXCEPT !.pc = "next", !.todo = files, !.force = force]
    BY <1>0, <2>1 DEF Library!Set
  <2>3. files \subseteq Papers
    BY <2>1
  <2>4. Becomes(t)
    BY <2>2, <2>3 DEF IsTask, AboutPaper, Library!Idle, Becomes
  <2>. QED  BY <2>1, <2>4
<1>3. ASSUME Library!NextFile(t) PROVE (\E r : Library!Set(t, r)) /\ Becomes(t)
  <2>1. CASE task[t].todo = {}
    BY <1>3, <2>1, <1>0
    DEF Library!NextFile, IsTask, AboutPaper, Becomes, Library!Set
  <2>2. CASE task[t].todo # {}
    <3>1. PICK p \in task[t].todo :
            Library!Set(t, [task[t] EXCEPT !.pc = "ingest", !.paper = p,
                                           !.todo = task[t].todo \ {p}, !.layer = "auto"])
      BY <1>3, <2>2 DEF Library!NextFile
    <3>2. task'[t] = [task[t] EXCEPT !.pc = "ingest", !.paper = p,
                                     !.todo = task[t].todo \ {p}, !.layer = "auto"]
      BY <1>0, <3>1 DEF Library!Set
    <3>3. p \in Papers /\ task[t].todo \ {p} \subseteq Papers
      BY <1>0, <3>1 DEF IsTask
    <3>4. Becomes(t)
      BY <1>0, <3>2, <3>3 DEF IsTask, AboutPaper, Becomes
    <3>. QED  BY <3>1, <3>4
  <2>. QED  BY <2>1, <2>2
<1>4. ASSUME Library!Ingest(t) PROVE (\E r : Library!Set(t, r)) /\ Becomes(t)
  <2>1. \E r : Library!Set(t, r)
    BY <1>4 DEF Library!Ingest
  <2>2. CASE raw[task[t].paper] # NONE
    <3>1. task'[t] = [task[t] EXCEPT !.pc = "precheck", !.source = raw[task[t].paper].file]
      BY <1>4, <1>0, <2>2 DEF Library!Ingest, Library!PaperOf, Library!Set
    <3>. QED  BY <1>4, <1>0, <3>1 DEF Library!Ingest, Library!At, IsTask, AboutPaper, Becomes
  <2>3. CASE raw[task[t].paper] = NONE
    <3>1. task'[t] = [task[t] EXCEPT !.pc = "copy"]
      BY <1>4, <1>0, <2>3 DEF Library!Ingest, Library!PaperOf, Library!Set
    <3>. QED  BY <1>4, <1>0, <3>1 DEF Library!Ingest, Library!At, IsTask, AboutPaper, Becomes
  <2>. QED  BY <2>1, <2>2, <2>3
<1>5. ASSUME Library!CopyDone(t) PROVE (\E r : Library!Set(t, r)) /\ Becomes(t)
  <2>1. \E r : Library!Set(t, r)
    BY <1>5 DEF Library!CopyDone
  <2>2. Becomes(t)
    BY <1>5, <1>0 DEF Library!CopyDone, Library!At, IsTask, AboutPaper, Becomes, Library!Set
  <2>. QED  BY <2>1, <2>2
<1>6. ASSUME Library!Precheck(t) PROVE (\E r : Library!Set(t, r)) /\ Becomes(t)
  <2>1. \E r : Library!Set(t, r)
    BY <1>6 DEF Library!Precheck
  <2>2. Becomes(t)
    BY <1>6, <1>0 DEF Library!Precheck, Library!At, IsTask, AboutPaper, Becomes, Library!Set
  <2>. QED  BY <2>1, <2>2
<1>7. ASSUME Library!TakeParseLock(t) PROVE (\E r : Library!Set(t, r)) /\ Becomes(t)
  <2>1. \E r : Library!Set(t, r)
    BY <1>7 DEF Library!TakeParseLock
  <2>2. Becomes(t)
    BY <1>7, <1>0 DEF Library!TakeParseLock, Takes, Library!At, IsTask, AboutPaper, Becomes, Library!Set
  <2>. QED  BY <2>1, <2>2
<1>8. ASSUME Library!MineruDone(t) PROVE (\E r : Library!Set(t, r)) /\ Becomes(t)
  <2>1. \E r : Library!Set(t, r)
    BY <1>8 DEF Library!MineruDone
  <2>2. Becomes(t)
    BY <1>8, <1>0 DEF Library!MineruDone, Library!At, IsTask, AboutPaper, Becomes, Library!Set
  <2>. QED  BY <2>1, <2>2
<1>9. ASSUME Library!Normalize(t) PROVE (\E r : Library!Set(t, r)) /\ Becomes(t)
  <2>1. \E r : Library!Set(t, r)
    BY <1>9 DEF Library!Normalize
  <2>2. Becomes(t)
    BY <1>9, <1>0 DEF Library!Normalize, Library!At, IsTask, AboutPaper, Becomes, Library!Set
  <2>. QED  BY <2>1, <2>2
<1>10. ASSUME Library!WriteDocument(t) PROVE (\E r : Library!Set(t, r)) /\ Becomes(t)
  <2>1. \E r : Library!Set(t, r)
    BY <1>10 DEF Library!WriteDocument
  <2>2. Becomes(t)
    BY <1>10, <1>0 DEF Library!WriteDocument, IsTask, AboutPaper, Becomes, Library!Set
  <2>. QED  BY <2>1, <2>2
<1>11. ASSUME Library!SourceMissing(t) PROVE (\E r : Library!Set(t, r)) /\ Becomes(t)
  <2>1. \E r : Library!Set(t, r)
    BY <1>11 DEF Library!SourceMissing, Library!ParseRaises
  <2>2. Becomes(t)
    BY <1>11, <1>0 DEF Library!SourceMissing, Library!ParseRaises, IsTask, AboutPaper, Library!Idle, Becomes, Library!Set
  <2>. QED  BY <2>1, <2>2
<1>12. ASSUME Library!ToolFails(t) PROVE (\E r : Library!Set(t, r)) /\ Becomes(t)
  <2>1. \E r : Library!Set(t, r)
    BY <1>12 DEF Library!ToolFails, Library!ParseRaises
  <2>2. Becomes(t)
    BY <1>12, <1>0 DEF Library!ToolFails, Library!ParseRaises, IsTask, AboutPaper, Library!Idle, Becomes, Library!Set
  <2>. QED  BY <2>1, <2>2
<1>13. ASSUME Library!Scan(t) PROVE (\E r : Library!Set(t, r)) /\ Becomes(t)
  <2>1. \E r : Library!Set(t, r)
    BY <1>13 DEF Library!Scan
  <2>2. Becomes(t)
    BY <1>13, <1>0 DEF Library!Scan, IsTask, AboutPaper, Becomes, Library!Set
  <2>. QED  BY <2>1, <2>2
<1>14. ASSUME Library!PublishCatalog(t) PROVE (\E r : Library!Set(t, r)) /\ Becomes(t)
  <2>1. \E r : Library!Set(t, r)
    BY <1>14 DEF Library!PublishCatalog
  <2>2. Becomes(t)
    BY <1>14, <1>0 DEF Library!PublishCatalog, IsTask, AboutPaper, Becomes, Library!Set
  <2>. QED  BY <2>1, <2>2
<1>15. ASSUME Library!PublishWorks(t) PROVE (\E r : Library!Set(t, r)) /\ Becomes(t)
  <2>1. \E r : Library!Set(t, r)
    BY <1>15 DEF Library!PublishWorks
  <2>2. Becomes(t)
    BY <1>15, <1>0 DEF Library!PublishWorks, IsTask, AboutPaper, Library!Idle, Becomes, Library!Set
  <2>. QED  BY <2>1, <2>2
<1>16. ASSUME Library!StartEnrichment(t) PROVE (\E r : Library!Set(t, r)) /\ Becomes(t)
  <2>1. \E r : Library!Set(t, r)
    BY <1>16 DEF Library!StartEnrichment
  <2>2. Becomes(t)
    BY <1>16, <1>0 DEF Library!StartEnrichment, IsTask, AboutPaper, Library!Idle, Becomes, Library!Set
  <2>. QED  BY <2>1, <2>2
<1>17. ASSUME Library!Enrich(t) PROVE (\E r : Library!Set(t, r)) /\ Becomes(t)
  <2>1. \E r : Library!Set(t, r)
    BY <1>17 DEF Library!Enrich, Library!Rename
  <2>2. Becomes(t)
    BY <1>17, <1>0 DEF Library!Enrich, Library!Rename, Library!At, IsTask, AboutPaper, Becomes, Library!Set
  <2>. QED  BY <2>1, <2>2
<1>18. ASSUME Library!NormalizeVerified(t) PROVE (\E r : Library!Set(t, r)) /\ Becomes(t)
  <2>1. \E r : Library!Set(t, r)
    BY <1>18 DEF Library!NormalizeVerified
  <2>2. Becomes(t)
    BY <1>18, <1>0 DEF Library!NormalizeVerified, IsTask, AboutPaper, Library!Idle, Becomes, Library!Set
  <2>. QED  BY <2>1, <2>2
<1>19. ASSUME Library!RenameVerified(t) PROVE (\E r : Library!Set(t, r)) /\ Becomes(t)
  <2>1. \E r : Library!Set(t, r)
    BY <1>19 DEF Library!RenameVerified, Library!Rename
  <2>2. Becomes(t)
    BY <1>19, <1>0 DEF Library!RenameVerified, Library!Rename, Library!At, IsTask, AboutPaper, Becomes, Library!Set
  <2>. QED  BY <2>1, <2>2
<1>20. ASSUME Library!WriteVerified(t) PROVE (\E r : Library!Set(t, r)) /\ Becomes(t)
  <2>1. \E r : Library!Set(t, r)
    BY <1>20 DEF Library!WriteVerified
  <2>2. Becomes(t)
    BY <1>20, <1>0 DEF Library!WriteVerified, IsTask, AboutPaper, Becomes, Library!Set
  <2>. QED  BY <2>1, <2>2
<1>21. ASSUME Library!RollBackRename(t) PROVE (\E r : Library!Set(t, r)) /\ Becomes(t)
  <2>1. \E r : Library!Set(t, r)
    BY <1>21 DEF Library!RollBackRename
  <2>2. Becomes(t)
    BY <1>21, <1>0 DEF Library!RollBackRename, IsTask, AboutPaper, Library!Idle, Becomes, Library!Set
  <2>. QED  BY <2>1, <2>2
<1>22. ASSUME Library!CheckFails(t) PROVE (\E r : Library!Set(t, r)) /\ Becomes(t)
  <2>1. \E r : Library!Set(t, r)
    BY <1>22 DEF Library!CheckFails
  <2>2. Becomes(t)
    BY <1>22, <1>0 DEF Library!CheckFails, IsTask, AboutPaper, Library!Idle, Becomes, Library!Set
  <2>. QED  BY <2>1, <2>2
<1>23. ASSUME Library!ParseRaises(t) PROVE (\E r : Library!Set(t, r)) /\ Becomes(t)
  <2>1. \E r : Library!Set(t, r)
    BY <1>23 DEF Library!ParseRaises
  <2>2. Becomes(t)
    BY <1>23, <1>0 DEF Library!ParseRaises, IsTask, AboutPaper, Library!Idle, Becomes, Library!Set
  <2>. QED  BY <2>1, <2>2
<1>. QED  BY <1>1, <1>2, <1>3, <1>4, <1>5, <1>6, <1>7, <1>8, <1>9, <1>10, <1>11, <1>12, <1>13, <1>14, <1>15, <1>16, <1>17, <1>18, <1>19, <1>20, <1>21, <1>22, <1>23 DEF CallStep, Library!ParseStep, Library!CuratorStep

-----------------------------------------------------------------------------
(* Only the run under the parse lock of a paper writes its artifacts.      *)
LEMMA OnlyMineruWrites ==
  ASSUME LibraryShape, NEW t \in Tasks, CallStep(t) \/ Library!ParseRaises(t)
  PROVE  \/ artifacts' = artifacts
         \/ /\ t \in Library!Parses /\ task[t].pc = "mineru" /\ task'[t].pc # "mineru"
            /\ artifacts' = [p \in Papers |-> artifacts'[p]]
            /\ \A p \in Papers : p # task[t].paper => artifacts'[p] = artifacts[p]
<1>1. ASSUME Library!MineruDone(t), t \in Jobs \cup Batches
      PROVE  /\ t \in Library!Parses /\ task[t].pc = "mineru" /\ task'[t].pc # "mineru"
             /\ artifacts' = [p \in Papers |-> artifacts'[p]]
             /\ \A p \in Papers : p # task[t].paper => artifacts'[p] = artifacts[p]
  <2>1. t \in Library!Parses /\ task[t].pc = "mineru"
    BY <1>1 DEF Library!MineruDone, Library!At, Library!Parses
  <2>2. task'[t] = [task[t] EXCEPT !.pc = "normalize"]
    BY <1>1 DEF Library!MineruDone, Library!Goto, Library!Set, LibraryShape
  <2>3. task'[t].pc # "mineru"
    BY <2>2 DEF LibraryShape, IsTask, AboutPaper
  <2>4. PICK made : artifacts' = [artifacts EXCEPT ![task[t].paper] = made]
    BY <1>1 DEF Library!MineruDone, Library!PaperOf
  <2>5. /\ artifacts' = [p \in Papers |-> artifacts'[p]]
        /\ \A p \in Papers : p # task[t].paper => artifacts'[p] = artifacts[p]
    BY <2>4 DEF LibraryShape
  <2>. QED  BY <2>1, <2>3, <2>5
<1>2. ASSUME CallStep(t) \/ Library!ParseRaises(t),
             ~(Library!MineruDone(t) /\ t \in Jobs \cup Batches)
      PROVE  artifacts' = artifacts
  BY <1>2
  DEF CallStep, Library!ParseStep, Library!CuratorStep, Library!StartUpload, Library!StartBatch,
      Library!NextFile, Library!Ingest, Library!CopyDone, Library!Precheck,
      Library!TakeParseLock, Library!Normalize, Library!WriteDocument, Library!SourceMissing,
      Library!ToolFails, Library!ParseRaises, Library!Scan, Library!PublishCatalog,
      Library!PublishWorks, Library!StartEnrichment, Library!Enrich, Library!Rename,
      Library!NormalizeVerified, Library!RenameVerified, Library!WriteVerified,
      Library!RollBackRename, Library!CheckFails, Library!libraryVars
<1>. QED  BY <1>1, <1>2

LEMMA ChildrenRest ==
  ASSUME NEW t \in Tasks, CallStep(t) \/ Library!ParseRaises(t)
  PROVE  orphan' = orphan /\ outlived' = outlived
BY DEF CallStep, Library!ParseStep, Library!CuratorStep, Library!StartUpload, Library!StartBatch,
       Library!NextFile, Library!Ingest, Library!CopyDone, Library!Precheck, Library!MineruDone,
       Library!TakeParseLock, Library!Normalize, Library!WriteDocument, Library!SourceMissing,
       Library!ToolFails, Library!ParseRaises, Library!Scan, Library!PublishCatalog,
       Library!PublishWorks, Library!StartEnrichment, Library!Enrich, Library!Rename,
       Library!NormalizeVerified, Library!RenameVerified, Library!WriteVerified,
       Library!RollBackRename, Library!CheckFails, Library!childVars

LEMMA CallKeepsShape ==
  ASSUME LibraryShape, NEW t \in Tasks, CallStep(t) \/ Library!ParseRaises(t)
  PROVE  LibraryShape' /\ \A u \in Tasks \ {t} : task'[u] = task[u]
<1>1. (\E r : Library!Set(t, r)) /\ Becomes(t)
  BY CallBecomes
<1>2. task' = [u \in Tasks |-> task'[u]] /\ \A u \in Tasks \ {t} : task'[u] = task[u]
  BY <1>1, OnlyItself
<1>3. \A u \in Tasks : IsTask(task'[u])
  BY <1>1, <1>2 DEF Becomes, LibraryShape
<1>4. artifacts' = [p \in Papers |-> artifacts'[p]]
  BY OnlyMineruWrites DEF LibraryShape
<1>. QED  BY <1>2, <1>3, <1>4 DEF LibraryShape

\* A killed process leaves the files, and its calls are over.
LEMMA KilledEnds ==
  ASSUME LibraryShape, NEW ts \in SUBSET Tasks, Library!Killed(ts)
  PROVE  /\ LibraryShape' /\ artifacts' = artifacts /\ paper' = paper
         /\ \A t \in Tasks : task'[t] = IF t \in ts THEN [Library!Idle EXCEPT !.pc = "raised"]
                                                    ELSE task[t]
<1>1. task' = [t \in Tasks |-> IF t \in ts THEN [Library!Idle EXCEPT !.pc = "raised"] ELSE task[t]]
      /\ artifacts' = artifacts /\ paper' = paper
  BY DEF Library!Killed, Library!libraryVars, Tasks
<1>2. IsTask([Library!Idle EXCEPT !.pc = "raised"])
  BY DEF Library!Idle, IsTask, AboutPaper
<1>3. \A t \in Tasks : IsTask(task'[t])
  BY <1>1, <1>2 DEF LibraryShape
<1>. QED  BY <1>1, <1>3 DEF LibraryShape

\* A MinerU that outlived its call writes the artifacts of its paper and nothing else.
LEMMA OrphanWrites ==
  ASSUME LibraryShape, NEW t \in Library!Parses, Library!OrphanEnds(t)
  PROVE  /\ LibraryShape' /\ UNCHANGED <<raw, paper, catalog, works, task, outlived, disturbed>>
         /\ orphan[t] # NONE /\ orphan' = [orphan EXCEPT ![t] = NONE]
         /\ \A p \in Papers : p # orphan[t].paper => artifacts'[p] = artifacts[p]
<1>1. /\ UNCHANGED <<raw, paper, catalog, works, task, outlived, disturbed>>
      /\ orphan[t] # NONE /\ orphan' = [orphan EXCEPT ![t] = NONE]
  BY DEF Library!OrphanEnds, Library!catalogVars
<1>2. /\ artifacts' = [p \in Papers |-> artifacts'[p]]
      /\ \A p \in Papers : p # orphan[t].paper => artifacts'[p] = artifacts[p]
  <2>1. CASE artifacts' = artifacts
    BY <2>1 DEF LibraryShape
  <2>2. CASE artifacts' # artifacts
    <3>1. PICK made : artifacts' = [artifacts EXCEPT ![orphan[t].paper] = made]
      BY <2>2 DEF Library!OrphanEnds
    <3>. QED  BY <3>1 DEF LibraryShape
  <2>. QED  BY <2>1, <2>2
<1>3. LibraryShape'
  BY <1>1, <1>2 DEF LibraryShape, IsTask
<1>. QED  BY <1>1, <1>2, <1>3

-----------------------------------------------------------------------------
(* MineruOnce                                                              *)

\* A MinerU without its call works on a paper on which one has outlived its call.
OrphansKnown ==
  /\ DOMAIN orphan = Library!Parses
  /\ \A t \in Library!Parses : orphan[t] # NONE => orphan[t].paper \in outlived

MineruInv == LibraryShape /\ OrphansKnown /\ MineruOnce

LEMMA MineruInit == Init => MineruInv
BY DEF Init, Library!IngestionInit, MineruInv, LibraryShape, IsTask, AboutPaper, MineruOnce, OrphansKnown,
       Library!MineruOnce, Library!At, Library!Idle, Tasks, Library!Tasks

LEMMA MineruStep == MineruInv /\ [Next]_vars => MineruInv'
<1> SUFFICES ASSUME MineruInv, [Next]_vars
             PROVE  MineruInv'
  OBVIOUS
<1>. USE DEF MineruInv
<1>1. Library!Parses \subseteq Tasks
  BY DEF Tasks, Library!Tasks
<1>. DEFINE Runs(t) == task[t].pc = "mineru"
<1>2. \A t, u \in Library!Parses : Runs(t) /\ Runs(u) /\ t # u => task[t].paper # task[u].paper
  BY DEF MineruOnce, Library!MineruOnce, Library!At, Library!PaperOf
<1>3. \A t \in Library!Parses :
        Runs(t) /\ ~task[t].force /\ task[t].paper \notin outlived
          => Library!Found(task[t].paper, task[t].layer) = NONE
  BY DEF MineruOnce, Library!MineruOnce, Library!At, Library!PaperOf
<1>4. ASSUME NEW c \in Tasks, CallStep(c) \/ Library!ParseRaises(c)
      PROVE  MineruInv'
  <2>1. LibraryShape' /\ \A u \in Tasks \ {c} : task'[u] = task[u]
    BY <1>4, CallKeepsShape
  <2>2. Becomes(c) /\ orphan' = orphan /\ outlived' = outlived
    BY <1>4, CallBecomes, ChildrenRest
  <2>0. OrphansKnown'
    BY <2>2 DEF OrphansKnown
  <2>3. CASE task'[c].pc # "mineru"
    <3>1. \A t \in Library!Parses : Runs(t)' => t # c /\ Runs(t) /\ task'[t] = task[t]
      BY <1>1, <2>1, <2>3
    <3>2. \A t \in Library!Parses : Runs(t)' => artifacts'[task[t].paper] = artifacts[task[t].paper]
      <4>1. \A t \in Library!Parses : Runs(t) => task[t].paper \in Papers
        BY <1>1 DEF LibraryShape, IsTask, AboutPaper
      <4>2. \A t \in Library!Parses : Runs(t)' /\ c \in Library!Parses /\ Runs(c)
              => task[t].paper # task[c].paper
        BY <3>1, <1>2
      <4>. QED  BY <1>4, <3>1, <4>1, <4>2, OnlyMineruWrites
    <3>3. \A t, u \in Library!Parses :
            Runs(t)' /\ Runs(u)' /\ t # u => task'[t].paper # task'[u].paper
      BY <3>1, <1>2
    <3>4. ASSUME NEW t \in Library!Parses, Runs(t)', ~task'[t].force, task'[t].paper \notin outlived'
          PROVE  (Library!Found(task[t].paper, task[t].layer) = NONE)'
      <4>1. Library!Found(task[t].paper, task[t].layer) = NONE
        BY <2>2, <3>1, <3>4, <1>3
      <4>. QED  BY <4>1, <3>1, <3>2, <3>4 DEF Library!Found
    <3>. QED  BY <2>0, <2>1, <3>3, <3>4 DEF MineruOnce, Library!MineruOnce, Library!At, Library!PaperOf
  <2>4. CASE task'[c].pc = "mineru"
    <3>1. Takes(c)
      BY <2>2, <2>4 DEF Becomes
    <3>2. artifacts' = artifacts
      BY <3>1 DEF Takes, Library!TakeParseLock, Library!libraryVars
    <3>3. \A t \in Library!Parses : Runs(t) => task[t].paper # task[c].paper
      BY <3>1 DEF Takes, Library!TakeParseLock, Library!LockFree, Library!ParseLocked, Library!At,
                  Library!PaperOf
    <3>4. \A t \in Library!Parses \ {c} : Runs(t)' => Runs(t) /\ task'[t] = task[t]
      BY <1>1, <2>1
    <3>5. \A t, u \in Library!Parses :
            Runs(t)' /\ Runs(u)' /\ t # u => task'[t].paper # task'[u].paper
      BY <3>1, <3>3, <3>4, <1>2 DEF Takes
    <3>6. ASSUME NEW t \in Library!Parses, Runs(t)', ~task'[t].force, task'[t].paper \notin outlived'
          PROVE  (Library!Found(task[t].paper, task[t].layer) = NONE)'
      <4>1. CASE t = c
        <5>1. ~task[c].force
          BY <3>1, <3>6, <4>1 DEF Takes
        <5>2. Library!Found(task[c].paper, task[c].layer) = NONE
          <6>. SUFFICES ASSUME Library!Found(task[c].paper, task[c].layer) # NONE
                        PROVE  FALSE
            OBVIOUS
          <6>1. task'[c] = [task[c] EXCEPT !.pc = "normalize",
                              !.layer = Library!Found(task[c].paper, task[c].layer)]
            BY <3>1, <5>1
            DEF Takes, Library!TakeParseLock, Library!PaperOf, Library!Set, LibraryShape
          <6>. QED  BY <6>1, <2>4 DEF LibraryShape, IsTask
        <5>. QED  BY <5>2, <4>1, <3>1, <3>2 DEF Takes, Library!Found
      <4>2. CASE t # c
        <5>1. Runs(t) /\ task'[t] = task[t]
          BY <3>4, <3>6, <4>2
        <5>2. Library!Found(task[t].paper, task[t].layer) = NONE
          BY <2>2, <5>1, <3>6, <1>3
        <5>. QED  BY <5>1, <5>2, <3>2 DEF Library!Found
      <4>. QED  BY <4>1, <4>2
    <3>. QED  BY <2>0, <2>1, <3>5, <3>6 DEF MineruOnce, Library!MineruOnce, Library!At, Library!PaperOf
  <2>. QED  BY <2>3, <2>4
<1>5. ASSUME NEW ts \in SUBSET Tasks, Library!Killed(ts)
      PROVE  MineruInv'
  <2>1. LibraryShape' /\ artifacts' = artifacts
    BY <1>5, KilledEnds
  <2>2. \A t \in Tasks : Runs(t)' => Runs(t) /\ task'[t] = task[t]
    BY <1>5, KilledEnds DEF Library!Idle
  <2>3. \A t, u \in Library!Parses :
          Runs(t)' /\ Runs(u)' /\ t # u => task'[t].paper # task'[u].paper
    BY <1>1, <1>2, <2>2
  <2>4. /\ outlived \subseteq outlived' /\ DOMAIN orphan' = Library!Parses
        /\ \A t \in Library!Parses : orphan'[t] # NONE => orphan'[t].paper \in outlived'
    <3>1. PICK left \in SUBSET {t \in ts \cap Library!Parses : Library!At(t, "mineru")} :
            /\ orphan' = [t \in Library!Parses |->
                 IF t \in left THEN [paper |-> Library!PaperOf(t), layer |-> task[t].layer]
                 ELSE orphan[t]]
            /\ outlived' = outlived \cup {Library!PaperOf(t) : t \in left}
      BY <1>5 DEF Library!Killed
    <3>2. ASSUME NEW t \in Library!Parses, orphan'[t] # NONE PROVE orphan'[t].paper \in outlived'
      <4>1. CASE t \in left
        <5>1. orphan'[t].paper = Library!PaperOf(t)
          BY <3>1, <4>1
        <5>. QED  BY <3>1, <4>1, <5>1
      <4>2. CASE t \notin left
        <5>1. orphan'[t] = orphan[t]
          BY <3>1, <4>2
        <5>. QED  BY <3>1, <3>2, <5>1 DEF OrphansKnown
      <4>. QED  BY <4>1, <4>2
    <3>. QED  BY <3>1, <3>2
  <2>5. ASSUME NEW t \in Library!Parses, Runs(t)', ~task'[t].force, task'[t].paper \notin outlived'
        PROVE  (Library!Found(task[t].paper, task[t].layer) = NONE)'
    <3>1. Runs(t) /\ task'[t] = task[t]
      BY <1>1, <2>2, <2>5
    <3>2. Library!Found(task[t].paper, task[t].layer) = NONE
      BY <3>1, <2>4, <2>5, <1>3
    <3>. QED  BY <3>1, <3>2, <2>1 DEF Library!Found
  <2>6. OrphansKnown'
    BY <2>4 DEF OrphansKnown
  <2>. QED  BY <2>1, <2>3, <2>5, <2>6 DEF MineruOnce, Library!MineruOnce, Library!At, Library!PaperOf
<1>6. CASE LibraryRests
  BY <1>6 DEF LibraryRests, LibraryShape, OrphansKnown, IsTask, AboutPaper, MineruOnce,
              Library!MineruOnce, Library!At, Library!PaperOf, Library!Found
<1>7. ASSUME NEW c \in Library!Parses, Library!OrphanEnds(c)
      PROVE  MineruInv'
  <2>1. /\ LibraryShape' /\ task' = task /\ outlived' = outlived
        /\ orphan[c] # NONE /\ orphan' = [orphan EXCEPT ![c] = NONE]
        /\ \A p \in Papers : p # orphan[c].paper => artifacts'[p] = artifacts[p]
    BY <1>7, OrphanWrites
  <2>2. orphan[c].paper \in outlived
    BY <2>1 DEF OrphansKnown
  <2>3. OrphansKnown'
    BY <2>1 DEF OrphansKnown
  <2>4. ASSUME NEW t \in Library!Parses, Runs(t), ~task[t].force, task[t].paper \notin outlived
        PROVE  (Library!Found(task[t].paper, task[t].layer) = NONE)'
    <3>1. task[t].paper \in Papers
      BY <1>1, <2>4 DEF LibraryShape, IsTask, AboutPaper
    <3>2. artifacts'[task[t].paper] = artifacts[task[t].paper]
      BY <2>1, <2>2, <2>4, <3>1
    <3>3. Library!Found(task[t].paper, task[t].layer) = NONE
      BY <2>4, <1>3
    <3>. QED  BY <2>1, <3>2, <3>3 DEF Library!Found
  <2>. QED  BY <1>2, <2>1, <2>3, <2>4 DEF MineruOnce, Library!MineruOnce, Library!At, Library!PaperOf
<1>. QED  BY <1>4, <1>5, <1>6, <1>7, LibraryCases DEF Tasks, Library!Tasks, Library!Parses

(* MinerU never works for two calls on one paper, and never does again     *)
(* what lies there whole (parse_paper: the parse lock, and the artifacts   *)
(* looked up under it), unless it is told to or a MinerU went on after its *)
(* call was killed: the lock does not cover that one, and what it writes   *)
(* may come after the look.                                                *)
THEOREM OneMineruRun == Spec => []MineruOnce
<1>1. Init => MineruInv
  BY MineruInit
<1>2. MineruInv /\ [Next]_vars => MineruInv'
  BY MineruStep
<1>3. MineruInv => MineruOnce
  BY DEF MineruInv
<1>. QED  BY <1>1, <1>2, <1>3, PTL DEF Spec

-----------------------------------------------------------------------------
(* CatalogFollowsPapers                                                    *)

\* Between the scan of a rebuild and its last file, and before a scan that comes.
Publishing(t) == task[t].pc \in {"publish", "publish_works"}
Owes(t) ==
  \/ task[t].pc = "scan"
  \/ t \in Batches /\ task[t].pc \in {"next", "ingest", "copy", "precheck", "lock", "mineru",
                                       "normalize", "write"}

\* Unless something was disturbed: rebuilds do not overlap, and when no scan is owed
\* the rebuild that is under way has read the documents as they are, or the catalogues
\* describe them.
CatalogInv ==
  /\ LibraryShape /\ disturbed \in BOOLEAN
  /\ ~disturbed =>
       /\ \A t, u \in Tasks : Publishing(t) /\ Publishing(u) => t = u
       /\ (\A t \in Tasks : ~Owes(t)) =>
            /\ \A t \in Tasks : Publishing(t) => task[t].records = paper
            /\ \A t \in Tasks : task[t].pc = "publish_works" => catalog = paper
            /\ (\A t \in Tasks : ~Publishing(t)) =>
                 catalog = paper /\ works = Library!WorkCatalog(paper)

\* A step that touches no document and no catalogue and owes what it owed.
Quiet(t) ==
  /\ ~disturbed /\ UNCHANGED <<paper, catalog, works>>
  /\ ~Publishing(t) /\ ~Publishing(t)'
  /\ Owes(t) => Owes(t)'

\* A step that writes a document: a scan is owed from now on.
Writes(t) ==
  /\ ~disturbed /\ UNCHANGED <<catalog, works>>
  /\ ~Publishing(t) /\ ~Publishing(t)' /\ Owes(t)'

LEMMA CallKinds ==
  ASSUME LibraryShape, disturbed \in BOOLEAN, ~disturbed', NEW t \in Tasks,
         CallStep(t) \/ (Library!Reports(t) /\ Library!ParseRaises(t))
  PROVE  \/ Quiet(t) \/ Writes(t)
         \/ Library!Scan(t) \/ Library!PublishCatalog(t) \/ Library!PublishWorks(t)
<1>0. IsTask(task[t]) /\ t \in DOMAIN task
  BY DEF LibraryShape
<1>. USE DEF Library!Goto, Library!At, Publishing, Owes, Library!Set
<1>1. ASSUME Library!StartUpload(t) PROVE Quiet(t)
  BY <1>1, <1>0 DEF Library!StartUpload, Quiet, IsTask, Library!libraryVars, Library!catalogVars, Library!Idle
<1>2. ASSUME t \in Batches, Library!StartBatch(t) PROVE Quiet(t)
  BY <1>2, <1>0 DEF Library!StartBatch, Quiet, IsTask, Library!libraryVars, Library!catalogVars, Library!Idle
<1>3. ASSUME t \in Batches, Library!NextFile(t) PROVE Quiet(t)
  BY <1>3, <1>0 DEF Library!NextFile, Quiet, IsTask, Library!libraryVars, Library!catalogVars
<1>4. ASSUME Library!Ingest(t) PROVE Quiet(t)
  BY <1>4, <1>0 DEF Library!Ingest, Quiet, IsTask, Library!libraryVars, Library!catalogVars
<1>5. ASSUME Library!CopyDone(t) PROVE Quiet(t)
  BY <1>5, <1>0 DEF Library!CopyDone, Quiet, IsTask, Library!libraryVars, Library!catalogVars
<1>6. ASSUME Library!Precheck(t) PROVE Quiet(t)
  BY <1>6, <1>0 DEF Library!Precheck, Quiet, IsTask, Library!libraryVars, Library!catalogVars
<1>7. ASSUME Library!TakeParseLock(t) PROVE Quiet(t)
  BY <1>7, <1>0 DEF Library!TakeParseLock, Quiet, IsTask, Library!libraryVars, Library!catalogVars
<1>8. ASSUME Library!MineruDone(t) PROVE Quiet(t)
  BY <1>8, <1>0 DEF Library!MineruDone, Quiet, IsTask, Library!libraryVars, Library!catalogVars
<1>9. ASSUME Library!Normalize(t) PROVE Quiet(t)
  BY <1>9, <1>0 DEF Library!Normalize, Quiet, IsTask, Library!libraryVars, Library!catalogVars
<1>10. ASSUME t \in Jobs \cup Batches, Library!WriteDocument(t) PROVE Writes(t)
  BY <1>10, <1>0 DEF Library!WriteDocument, Writes, IsTask, Library!libraryVars, Library!catalogVars
<1>11. ASSUME Library!SourceMissing(t) PROVE Quiet(t)
  BY <1>11, <1>0 DEF Library!SourceMissing, Quiet, IsTask, Library!libraryVars, Library!catalogVars, Library!ParseRaises, Library!Idle
<1>12. ASSUME Library!ToolFails(t) PROVE Quiet(t)
  BY <1>12, <1>0 DEF Library!ToolFails, Quiet, IsTask, Library!libraryVars, Library!catalogVars, Library!ParseRaises, Library!Idle
<1>13. ASSUME Library!StartEnrichment(t) PROVE Quiet(t)
  BY <1>13, <1>0 DEF Library!StartEnrichment, Quiet, IsTask, Library!libraryVars, Library!catalogVars, Library!Idle
<1>14. ASSUME Library!Enrich(t) PROVE Quiet(t)
  BY <1>14, <1>0 DEF Library!Enrich, Quiet, IsTask, Library!libraryVars, Library!catalogVars, Library!Rename
<1>15. ASSUME Library!NormalizeVerified(t) PROVE Quiet(t)
  BY <1>15, <1>0 DEF Library!NormalizeVerified, Quiet, IsTask, Library!libraryVars, Library!catalogVars, Library!Idle
<1>16. ASSUME Library!RenameVerified(t) PROVE Quiet(t)
  BY <1>16, <1>0 DEF Library!RenameVerified, Quiet, IsTask, Library!libraryVars, Library!catalogVars, Library!Rename
<1>17. ASSUME Library!WriteVerified(t) PROVE Writes(t)
  BY <1>17, <1>0 DEF Library!WriteVerified, Writes, IsTask, Library!libraryVars, Library!catalogVars
<1>18. ASSUME Library!RollBackRename(t) PROVE Quiet(t)
  BY <1>18, <1>0 DEF Library!RollBackRename, Quiet, IsTask, Library!libraryVars, Library!catalogVars, Library!Idle
<1>19. ASSUME Library!CheckFails(t) PROVE Quiet(t)
  BY <1>19, <1>0 DEF Library!CheckFails, Quiet, IsTask, Library!libraryVars, Library!catalogVars, Library!Idle
<1>20. ASSUME Library!Reports(t), Library!ParseRaises(t) PROVE Quiet(t)
  BY <1>20, <1>0 DEF Library!ParseRaises, Quiet, IsTask, Library!libraryVars, Library!catalogVars, Library!Reports, Library!Idle
<1>. QED  BY <1>1, <1>2, <1>3, <1>4, <1>5, <1>6, <1>7, <1>8, <1>9, <1>10, <1>11, <1>12, <1>13, <1>14, <1>15, <1>16, <1>17, <1>18, <1>19, <1>20 DEF CallStep, Library!ParseStep, Library!CuratorStep

LEMMA CatalogInit == Init => CatalogInv
<1> SUFFICES ASSUME Init PROVE CatalogInv
  OBVIOUS
<1>1. LibraryShape
  BY MineruInit DEF MineruInv
<1>2. \A t \in Tasks : task[t].pc = "idle"
  BY DEF Init, Library!IngestionInit, Tasks, Library!Idle
<1>3. disturbed = FALSE /\ catalog = paper /\ works = {} /\ paper = [p \in Papers |-> NONE]
  BY DEF Init, Library!IngestionInit
<1>4. works = Library!WorkCatalog(paper)
  BY <1>3 DEF Library!WorkCatalog
<1>. QED  BY <1>1, <1>2, <1>3, <1>4 DEF CatalogInv, Publishing

LEMMA CatalogStep == CatalogInv /\ [Next]_vars => CatalogInv'
<1> SUFFICES ASSUME CatalogInv, [Next]_vars
             PROVE  CatalogInv'
  OBVIOUS
<1>0. LibraryShape /\ disturbed \in BOOLEAN
  BY DEF CatalogInv
<1>. DEFINE Described == catalog = paper /\ works = Library!WorkCatalog(paper)
            Alone == \A t, u \in Tasks : Publishing(t) /\ Publishing(u) => t = u
            Read == \A t \in Tasks :
                      /\ Publishing(t) => task[t].records = paper
                      /\ task[t].pc = "publish_works" => catalog = paper
            Settled == \A t \in Tasks : ~Owes(t)
            NoRebuild == \A t \in Tasks : ~Publishing(t)
            Follows == Alone /\ (Settled => Read /\ (NoRebuild => Described))
<1>1. ~disturbed => Follows
  BY DEF CatalogInv
<1>2. ASSUME LibraryShape', disturbed' \in BOOLEAN, ~disturbed' => Follows'
      PROVE  CatalogInv'
  BY <1>2 DEF CatalogInv
<1>3. ASSUME NEW c \in Tasks, CallStep(c) \/ (Library!Reports(c) /\ Library!ParseRaises(c))
      PROVE  CatalogInv'
  <2>1. LibraryShape' /\ \A u \in Tasks \ {c} : task'[u] = task[u]
    BY <1>0, <1>3, CallKeepsShape
  <2>2. disturbed' \in BOOLEAN
    BY <1>0, <1>3
    DEF CallStep, Library!ParseStep, Library!CuratorStep, Library!StartUpload, Library!StartBatch,
        Library!NextFile, Library!Ingest, Library!CopyDone, Library!Precheck,
        Library!TakeParseLock, Library!MineruDone, Library!Normalize, Library!WriteDocument,
        Library!SourceMissing, Library!ToolFails, Library!ParseRaises, Library!Scan,
        Library!PublishCatalog, Library!PublishWorks, Library!StartEnrichment, Library!Enrich,
        Library!Rename, Library!NormalizeVerified, Library!RenameVerified,
        Library!WriteVerified, Library!RollBackRename, Library!CheckFails
  <2>3. \A u \in Tasks \ {c} : (Publishing(u)' <=> Publishing(u)) /\ (Owes(u)' <=> Owes(u))
    BY <2>1 DEF Publishing, Owes
  <2>4. ASSUME ~disturbed' PROVE Follows'
    <3>1. CASE Quiet(c)
      <4>1. Follows /\ UNCHANGED Described
        BY <3>1, <1>1 DEF Quiet
      <4>2. Alone'
        BY <3>1, <4>1, <2>3 DEF Quiet
      <4>3. Settled' => Settled
        BY <3>1, <2>3 DEF Quiet
      <4>4. NoRebuild' => NoRebuild
        BY <3>1, <2>3 DEF Quiet
      <4>5. Read => Read'
        BY <3>1, <2>1 DEF Quiet, Publishing
      <4>. QED  BY <4>1, <4>2, <4>3, <4>4, <4>5
    <3>2. CASE Writes(c)
      BY <3>2, <1>1, <2>3 DEF Writes
    <3>3. CASE Library!Scan(c)
      <4>1. UNCHANGED <<paper, catalog, works>>
        BY <3>3 DEF Library!Scan, Library!libraryVars, Library!catalogVars
      <4>2. NoRebuild
        BY <3>3, <2>4, <1>0 DEF Library!Scan, Publishing, Tasks
      <4>3. task'[c].pc = "publish" /\ task'[c].records = paper
        BY <3>3, <1>0 DEF Library!Scan, Library!Set, LibraryShape, IsTask
      <4>4. Publishing(c)' /\ \A u \in Tasks \ {c} : ~Publishing(u)'
        BY <4>2, <4>3, <2>3 DEF Publishing
      <4>. QED  BY <4>1, <4>3, <4>4 DEF Publishing
    <3>4. CASE Library!PublishCatalog(c)
      <4>1. UNCHANGED <<paper, works, disturbed>> /\ catalog' = task[c].records
            /\ task[c].pc = "publish"
        BY <3>4 DEF Library!PublishCatalog, Library!libraryVars, Library!At
      <4>2. task'[c].pc = "publish_works" /\ task'[c].records = paper
        BY <3>4, <1>0 DEF Library!PublishCatalog, Library!Set, LibraryShape, IsTask
      <4>3. Follows /\ Publishing(c) /\ ~Owes(c)
        BY <4>1, <2>4, <1>1 DEF Publishing, Owes
      <4>4. Publishing(c)' /\ ~Owes(c)' /\ \A u \in Tasks \ {c} : ~Publishing(u)'
        BY <4>2, <4>3, <2>3 DEF Publishing, Owes
      <4>5. Settled' => catalog' = paper'
        BY <4>1, <4>3, <2>3
      <4>. QED  BY <4>1, <4>2, <4>4, <4>5 DEF Publishing
    <3>5. CASE Library!PublishWorks(c)
      <4>1. /\ UNCHANGED <<paper, catalog, disturbed>> /\ task[c].pc = "publish_works"
            /\ works' = Library!WorkCatalog(task[c].records)
        BY <3>5 DEF Library!PublishWorks, Library!libraryVars, Library!At
      <4>2. task'[c].pc = "returned"
        BY <3>5, <1>0 DEF Library!PublishWorks, Library!Set, Library!Idle, LibraryShape
      <4>3. Follows /\ Publishing(c) /\ ~Owes(c)
        BY <4>1, <2>4, <1>1 DEF Publishing, Owes
      <4>4. NoRebuild' /\ ~Owes(c)'
        BY <4>2, <4>3, <2>3 DEF Publishing, Owes
      <4>5. Settled' => task[c].records = paper /\ catalog = paper
        BY <4>1, <4>3, <2>3
      <4>6. Settled' => Described'
        BY <4>1, <4>5 DEF Library!WorkCatalog, Library!MembersOf, Library!Preferred
      <4>. QED  BY <4>4, <4>6 DEF Publishing
    <3>. QED  BY <1>0, <1>3, <2>4, <3>1, <3>2, <3>3, <3>4, <3>5, CallKinds
  <2>. QED  BY <2>1, <2>2, <2>4, <1>2
<1>4. ASSUME NEW ts \in SUBSET Tasks, Library!Killed(ts)
      PROVE  CatalogInv'
  <2>1. /\ LibraryShape'
        /\ \A t \in Tasks : task'[t] = IF t \in ts THEN [Library!Idle EXCEPT !.pc = "raised"]
                                                  ELSE task[t]
    BY <1>0, <1>4, KilledEnds
  <2>2. /\ UNCHANGED <<paper, catalog, works>>
        /\ disturbed' = (disturbed \/ \E t \in ts : Library!Working(t))
    BY <1>4 DEF Library!Killed, Library!libraryVars, Library!catalogVars
  <2>3. ASSUME ~disturbed' PROVE Follows'
    <3>1. Follows /\ \A t \in ts : ~Publishing(t) /\ ~Owes(t)
      BY <2>2, <2>3, <1>1, <1>0 DEF Library!Working, Publishing, Owes
    <3>2. \A t \in ts : task'[t].pc = "raised"
      BY <2>1 DEF Library!Idle
    <3>3. \A t \in Tasks : (Publishing(t)' <=> Publishing(t)) /\ (Owes(t)' <=> Owes(t))
      BY <2>1, <3>1, <3>2 DEF Publishing, Owes
    <3>4. \A t \in Tasks : Publishing(t) => task'[t] = task[t]
      BY <2>1, <3>1
    <3>5. Alone' /\ (Settled' => Settled) /\ (NoRebuild' => NoRebuild)
      BY <3>1, <3>3
    <3>6. Read => Read'
      BY <2>2, <3>3, <3>4 DEF Publishing
    <3>7. Described => Described'
      BY <2>2
    <3>. QED  BY <3>1, <3>5, <3>6, <3>7
  <2>4. disturbed' \in BOOLEAN
    BY <2>2
  <2>. QED  BY <2>1, <2>3, <2>4, <1>2
<1>5. CASE LibraryRests
  BY <1>5 DEF LibraryRests, CatalogInv, LibraryShape, IsTask, Publishing, Owes, Library!WorkCatalog,
              Library!MembersOf, Library!Preferred
<1>6. ASSUME NEW c \in Library!Parses, Library!OrphanEnds(c)
      PROVE  CatalogInv'
  <2>1. LibraryShape' /\ UNCHANGED <<paper, catalog, works, task, disturbed>>
    BY <1>0, <1>6, OrphanWrites
  <2>. QED  BY <2>1 DEF CatalogInv, Publishing, Owes, Library!WorkCatalog, Library!MembersOf,
                        Library!Preferred
<1>. QED  BY <1>3, <1>4, <1>5, <1>6, LibraryCases DEF Tasks, Library!Tasks, Library!Parses

(* When no call is at work, papers.jsonl and works.jsonl describe the      *)
(* documents as they are, unless a rebuild overlapped another one or a     *)
(* call died before its rebuild (rebuild_catalog reads the documents       *)
(* before each of the two files).                                          *)
THEOREM CatalogKeepsUp == Spec => []CatalogFollowsPapers
<1>1. CatalogInv => CatalogFollowsPapers
  BY DEF CatalogInv, CatalogFollowsPapers, Library!CatalogFollowsPapers, Library!Working,
         Library!Stale, Publishing, Owes, Tasks
<1>. QED  BY <1>1, CatalogInit, CatalogStep, PTL DEF Spec

-----------------------------------------------------------------------------
(* SucceededIsComplete: first the documents, which stay once written.      *)

IsDocument(d) == DOMAIN d = {"layer", "state", "work", "file"}

\* NONE stands beside documents, places of a thread and statuses.
Places == {"pooled", "claimed", "task", "commit", "finish", "publish"}
AbsentIsNothing == ~IsDocument(NONE) /\ NONE \notin Places \cup {"SUCCEEDED"}

SomeDocument == \E p \in Papers : paper[p] # NONE

\* What a call knows: a curator's document is there, and so is what it is to become;
\* an upload that is past its parse has a document.
CallKnows(t) ==
  /\ task[t].pc \in {"resolved", "verified"} => paper[task[t].paper] # NONE
  /\ task[t].pc = "renamed" => IsDocument(task[t].seen)
  /\ t \in Jobs /\ task[t].pc \in {"scan", "publish", "publish_works", "returned"} => SomeDocument

DocumentsInv ==
  /\ LibraryShape
  /\ paper = [p \in Papers |-> paper[p]]
  /\ \A p \in Papers : paper[p] # NONE => IsDocument(paper[p])
  /\ \A t \in Tasks : CallKnows(t)

DocumentsStay == \A p \in Papers : paper[p] # NONE => paper'[p] # NONE

\* A step leaves the documents alone or writes the one its call is about.
WritesOwn(t) ==
  /\ task[t].paper \in Papers
  /\ \E d : IsDocument(d) /\ paper' = [paper EXCEPT ![task[t].paper] = d]

LEMMA CallLearns ==
  ASSUME DocumentsInv, Jobs \cap Batches = {}, NEW t \in Tasks,
         CallStep(t) \/ Library!ParseRaises(t)
  PROVE  /\ paper' = paper \/ WritesOwn(t)
         /\ task'[t].pc \in {"resolved", "verified"} => paper[task'[t].paper] # NONE
         /\ task'[t].pc = "renamed" => IsDocument(task'[t].seen)
         /\ t \in Jobs /\ task'[t].pc \in {"scan", "publish", "publish_works", "returned"}
              => SomeDocument \/ WritesOwn(t)
<1>0. IsTask(task[t]) /\ t \in DOMAIN task /\ CallKnows(t)
  BY DEF DocumentsInv, LibraryShape
<1>. DEFINE Learns ==
       /\ paper' = paper \/ WritesOwn(t)
       /\ task'[t].pc \in {"resolved", "verified"} => paper[task'[t].paper] # NONE
       /\ task'[t].pc = "renamed" => IsDocument(task'[t].seen)
       /\ t \in Jobs /\ task'[t].pc \in {"scan", "publish", "publish_works", "returned"}
            => SomeDocument \/ WritesOwn(t)
<1>. USE DEF Library!Goto, Library!At, Library!PaperOf, Library!Set
<1>1. ASSUME Library!StartUpload(t) PROVE Learns
  <2>1. PICK p \in Papers, force \in BOOLEAN :
          task' = [task EXCEPT ![t] =
                     [Library!Idle EXCEPT !.paper = p, !.force = force,
                        !.pc = IF paper[p] # NONE THEN "scan" ELSE "ingest"]]
    BY <1>1 DEF Library!StartUpload
  <2>2. task'[t].pc = IF paper[p] # NONE THEN "scan" ELSE "ingest"
    BY <2>1, <1>0 DEF Library!Idle
  <2>3. paper' = paper
    BY <1>1 DEF Library!StartUpload, Library!libraryVars
  <2>. QED  BY <2>2, <2>3 DEF SomeDocument
<1>2. ASSUME t \in Batches, Library!StartBatch(t) PROVE Learns
  BY <1>2, <1>0 DEF Library!StartBatch, IsTask, CallKnows, Library!libraryVars, Library!Idle
<1>3. ASSUME t \in Batches, Library!NextFile(t) PROVE Learns
  BY <1>3, <1>0 DEF Library!NextFile, IsTask, CallKnows, Library!libraryVars
<1>4. ASSUME Library!Ingest(t) PROVE Learns
  BY <1>4, <1>0 DEF Library!Ingest, IsTask, CallKnows, Library!libraryVars
<1>5. ASSUME Library!CopyDone(t) PROVE Learns
  BY <1>5, <1>0 DEF Library!CopyDone, IsTask, CallKnows, Library!libraryVars
<1>6. ASSUME Library!Precheck(t) PROVE Learns
  BY <1>6, <1>0 DEF Library!Precheck, IsTask, CallKnows, Library!libraryVars
<1>7. ASSUME Library!TakeParseLock(t) PROVE Learns
  BY <1>7, <1>0 DEF Library!TakeParseLock, IsTask, CallKnows, Library!libraryVars
<1>8. ASSUME Library!MineruDone(t) PROVE Learns
  BY <1>8, <1>0 DEF Library!MineruDone, IsTask, CallKnows, Library!libraryVars
<1>9. ASSUME Library!Normalize(t) PROVE Learns
  BY <1>9, <1>0 DEF Library!Normalize, IsTask, CallKnows, Library!libraryVars
<1>10. ASSUME Library!SourceMissing(t) PROVE Learns
  BY <1>10, <1>0 DEF Library!SourceMissing, IsTask, CallKnows, Library!libraryVars, Library!ParseRaises, Library!Idle
<1>11. ASSUME Library!ToolFails(t) PROVE Learns
  BY <1>11, <1>0 DEF Library!ToolFails, IsTask, CallKnows, Library!libraryVars, Library!ParseRaises, Library!Idle
<1>12. ASSUME Library!Scan(t) PROVE Learns
  BY <1>12, <1>0 DEF Library!Scan, IsTask, CallKnows, Library!libraryVars
<1>13. ASSUME Library!PublishCatalog(t) PROVE Learns
  BY <1>13, <1>0 DEF Library!PublishCatalog, IsTask, CallKnows, Library!libraryVars
<1>14. ASSUME Library!PublishWorks(t) PROVE Learns
  BY <1>14, <1>0 DEF Library!PublishWorks, IsTask, CallKnows, Library!libraryVars, Library!Idle
<1>15. ASSUME Library!StartEnrichment(t) PROVE Learns
  <2>1. PICK p \in Papers, state \in {"verified", "selected"} :
          /\ paper[p] # NONE
          /\ task' = [task EXCEPT ![t] = [Library!Idle EXCEPT !.pc = "resolved", !.paper = p,
                                                !.seen = [paper[p] EXCEPT !.state = state]]]
    BY <1>15 DEF Library!StartEnrichment
  <2>2. task'[t].pc = "resolved" /\ task'[t].paper = p
    BY <2>1, <1>0 DEF Library!Idle
  <2>3. paper' = paper
    BY <1>15 DEF Library!StartEnrichment, Library!libraryVars
  <2>. QED  BY <2>1, <2>2, <2>3
<1>16. ASSUME Library!NormalizeVerified(t) PROVE Learns
  BY <1>16, <1>0 DEF Library!NormalizeVerified, IsTask, CallKnows, Library!libraryVars, Library!Idle, Library!Verified
<1>17. ASSUME Library!RollBackRename(t) PROVE Learns
  BY <1>17, <1>0 DEF Library!RollBackRename, IsTask, CallKnows, Library!libraryVars, Library!Idle
<1>18. ASSUME Library!CheckFails(t) PROVE Learns
  BY <1>18, <1>0 DEF Library!CheckFails, IsTask, CallKnows, Library!libraryVars, Library!Idle
<1>19. ASSUME Library!ParseRaises(t) PROVE Learns
  BY <1>19, <1>0 DEF Library!ParseRaises, IsTask, CallKnows, Library!libraryVars, Library!Idle
<1>20. ASSUME Library!WriteDocument(t) PROVE Learns
  <2>1. PICK layer, state, work, file :
          paper' = [paper EXCEPT ![task[t].paper] =
                      [layer |-> layer, state |-> state, work |-> work, file |-> file]]
    BY <1>20 DEF Library!WriteDocument
  <2>2. task[t].paper \in Papers
    BY <1>20, <1>0 DEF Library!WriteDocument, IsTask, AboutPaper
  <2>3. WritesOwn(t)
    BY <2>1, <2>2 DEF WritesOwn, IsDocument
  <2>4. task'[t].pc \in {"scan", "next"}
    BY <1>20, <1>0 DEF Library!WriteDocument, IsTask
  <2>. QED  BY <2>3, <2>4
<1>21. ASSUME NEW document, IsDocument(document), Library!Rename(t, document) PROVE Learns
  <2>1. task'[t] = [task[t] EXCEPT !.pc = "renamed", !.source = document.file,
                          !.seen = [document EXCEPT !.file = "titled",
                             !.work = Library!WorkFor(task[t].paper, document.state, FALSE)]]
    BY <1>21, <1>0 DEF Library!Rename
  <2>2. task'[t].pc = "renamed" /\ IsDocument(task'[t].seen)
    BY <2>1, <1>0, <1>21 DEF IsTask, IsDocument
  <2>3. paper' = paper
    BY <1>21 DEF Library!Rename
  <2>. QED  BY <2>2, <2>3
<1>22. ASSUME Library!Enrich(t) \/ Library!RenameVerified(t) PROVE Learns
  <2>1. IsDocument(paper[task[t].paper])
    BY <1>22, <1>0 DEF Library!Enrich, Library!RenameVerified, DocumentsInv, CallKnows, IsTask, AboutPaper
  <2>2. PICK document : IsDocument(document) /\ Library!Rename(t, document)
    BY <1>22, <2>1 DEF Library!Enrich, Library!RenameVerified, IsDocument
  <2>. QED  BY <2>2, <1>21
<1>23. ASSUME Library!WriteVerified(t) PROVE Learns
  <2>1. paper' = [paper EXCEPT ![task[t].paper] = task[t].seen] /\ task[t].pc = "renamed"
    BY <1>23 DEF Library!WriteVerified
  <2>2. WritesOwn(t)
    BY <2>1, <1>0 DEF WritesOwn, CallKnows, IsTask, AboutPaper
  <2>3. task'[t].pc = "scan"
    BY <1>23, <1>0 DEF Library!WriteVerified, IsTask
  <2>. QED  BY <2>2, <2>3
<1>. QED  BY <1>1, <1>2, <1>3, <1>4, <1>5, <1>6, <1>7, <1>8, <1>9, <1>10, <1>11, <1>12, <1>13, <1>14, <1>15, <1>16, <1>17, <1>18, <1>19, <1>20, <1>22, <1>23 DEF CallStep, Library!ParseStep, Library!CuratorStep

LEMMA DocumentsInit == Init => DocumentsInv
<1> SUFFICES ASSUME Init PROVE DocumentsInv
  OBVIOUS
<1>1. LibraryShape
  BY MineruInit DEF MineruInv
<1>2. \A t \in Tasks : task[t].pc = "idle"
  BY DEF Init, Library!IngestionInit, Tasks, Library!Idle
<1>3. paper = [p \in Papers |-> NONE]
  BY DEF Init, Library!IngestionInit
<1>. QED  BY <1>1, <1>2, <1>3 DEF DocumentsInv, CallKnows

LEMMA DocumentsStep ==
  ASSUME DocumentsInv, AbsentIsNothing, Jobs \cap Batches = {}, [Next]_vars
  PROVE  DocumentsInv' /\ DocumentsStay
<1>0. LibraryShape
  BY DEF DocumentsInv
<1>1. ASSUME NEW c \in Tasks, CallStep(c) \/ Library!ParseRaises(c)
      PROVE  DocumentsInv' /\ DocumentsStay
  <2>1. LibraryShape' /\ \A u \in Tasks \ {c} : task'[u] = task[u]
    BY <1>0, <1>1, CallKeepsShape
  <2>2. /\ paper' = paper \/ WritesOwn(c)
        /\ task'[c].pc \in {"resolved", "verified"} => paper[task'[c].paper] # NONE
        /\ task'[c].pc = "renamed" => IsDocument(task'[c].seen)
        /\ c \in Jobs /\ task'[c].pc \in {"scan", "publish", "publish_works", "returned"}
             => SomeDocument \/ WritesOwn(c)
    BY <1>1, CallLearns
  <2>3. /\ paper' = [p \in Papers |-> paper'[p]]
        /\ \A p \in Papers : paper'[p] # NONE => IsDocument(paper'[p])
        /\ DocumentsStay
        /\ WritesOwn(c) => SomeDocument'
    BY <2>2 DEF WritesOwn, DocumentsInv, DocumentsStay, SomeDocument, AbsentIsNothing
  <2>4. SomeDocument => SomeDocument'
    BY <2>3 DEF SomeDocument, DocumentsStay
  <2>5. \A t \in Tasks : task'[t].pc \in {"resolved", "verified"} => task'[t].paper \in Papers
    BY <2>1 DEF LibraryShape, IsTask, AboutPaper
  <2>6. CallKnows(c)'
    BY <2>2, <2>3, <2>4, <2>5 DEF CallKnows, DocumentsStay
  <2>7. \A t \in Tasks \ {c} : CallKnows(t)'
    BY <2>1, <2>3, <2>4, <2>5 DEF CallKnows, DocumentsStay, DocumentsInv
  <2>. QED  BY <2>1, <2>3, <2>6, <2>7 DEF DocumentsInv
<1>2. ASSUME NEW ts \in SUBSET Tasks, Library!Killed(ts)
      PROVE  DocumentsInv' /\ DocumentsStay
  <2>1. /\ LibraryShape' /\ paper' = paper
        /\ \A t \in Tasks : task'[t].pc = "raised" \/ task'[t] = task[t]
    BY <1>0, <1>2, KilledEnds DEF Library!Idle
  <2>. QED  BY <2>1 DEF DocumentsInv, DocumentsStay, CallKnows, SomeDocument
<1>3. CASE LibraryRests
  BY <1>3 DEF LibraryRests, DocumentsInv, LibraryShape, IsTask, CallKnows, SomeDocument, DocumentsStay
<1>4. ASSUME NEW c \in Library!Parses, Library!OrphanEnds(c)
      PROVE  DocumentsInv' /\ DocumentsStay
  <2>1. LibraryShape' /\ UNCHANGED <<paper, task>>
    BY <1>0, <1>4, OrphanWrites
  <2>. QED  BY <2>1 DEF DocumentsInv, DocumentsStay, CallKnows, SomeDocument
<1>. QED  BY <1>1, <1>2, <1>3, <1>4, LibraryCases DEF Tasks, Library!Tasks, Library!Parses

-----------------------------------------------------------------------------
(* Then the jobs: what each place of a thread has behind it.               *)

WebShape ==
  /\ status = [j \in Jobs |-> status[j]] /\ thread = [j \in Jobs |-> thread[j]]
  /\ events = [j \in Jobs |-> events[j]] /\ result = [j \in Jobs |-> result[j]]
  /\ reference = [j \in Jobs |-> reference[j]]

JobKnows(j) ==
  /\ thread[j] \in {"pooled", "claimed", "task", "commit", "finish", "publish"} => "queued" \in events[j]
  /\ thread[j] \in {"task", "commit", "finish", "publish"} => "running" \in events[j]
  /\ thread[j] \in {"commit", "finish", "publish"} => SomeDocument
  /\ thread[j] \in {"finish", "publish"} => result[j] = TRUE
  /\ thread[j] = "publish" => "completed" \in events[j]
  /\ status[j] = "SUCCEEDED" =>
       /\ {"queued", "running", "completed"} \subseteq events[j]
       /\ result[j] = TRUE /\ reference[j] = TRUE /\ SomeDocument

SucceededInv == DocumentsInv /\ WebShape /\ \A j \in Jobs : JobKnows(j)

\* What a step of the manager does to the other jobs.
OthersRest(j) ==
  /\ WebShape'
  /\ \A i \in Jobs \ {j} : /\ status'[i] = status[i] /\ thread'[i] = thread[i]
                          /\ events'[i] = events[i] /\ result'[i] = result[i]
                          /\ reference'[i] = reference[i]

WebStep(j) ==
  \/ ManagerStep(j) \/ TaskRaises(j)
  \/ SomeDocument /\ TaskReturns(j)

LEMMA WebStepKnows ==
  ASSUME WebShape, AbsentIsNothing, NEW j \in Jobs, JobKnows(j), SomeDocument => SomeDocument',
         WebStep(j)
  PROVE  OthersRest(j) /\ JobKnows(j)'
<1>. USE DEF SetStatus, Move, AppendEvent, At, Emit
<1>0. /\ NONE \notin {"pooled", "claimed", "task", "commit", "finish", "publish"}
      /\ j \in DOMAIN status /\ j \in DOMAIN thread /\ j \in DOMAIN events /\ j \in DOMAIN result
      /\ j \in DOMAIN reference
  <2>1. NONE \notin {"pooled", "claimed", "task", "commit", "finish", "publish"}
    BY DEF AbsentIsNothing, Places
  <2>2. /\ j \in DOMAIN status /\ j \in DOMAIN thread /\ j \in DOMAIN events /\ j \in DOMAIN result
        /\ j \in DOMAIN reference
    BY DEF WebShape
  <2>. QED  BY <2>1, <2>2
<1>1. ASSUME Submit(j) PROVE OthersRest(j) /\ JobKnows(j)'
  <2>1. OthersRest(j)
    BY <1>1 DEF Submit, OthersRest, WebShape
  <2>2. JobKnows(j)'
    BY <1>0, <1>1 DEF Submit, JobKnows
  <2>. QED  BY <2>1, <2>2
<1>2. ASSUME EmitQueued(j) PROVE OthersRest(j) /\ JobKnows(j)'
  <2>1. OthersRest(j)
    BY <1>2 DEF EmitQueued, OthersRest, WebShape
  <2>2. JobKnows(j)'
    BY <1>0, <1>2 DEF EmitQueued, JobKnows
  <2>. QED  BY <2>1, <2>2
<1>3. ASSUME Claim(j) PROVE OthersRest(j) /\ JobKnows(j)'
  <2>1. OthersRest(j)
    BY <1>3 DEF Claim, OthersRest, WebShape
  <2>2. JobKnows(j)'
    BY <1>0, <1>3 DEF Claim, JobKnows
  <2>. QED  BY <2>1, <2>2
<1>4. ASSUME EmitRunning(j) PROVE OthersRest(j) /\ JobKnows(j)'
  <2>1. OthersRest(j)
    BY <1>4 DEF EmitRunning, OthersRest, WebShape
  <2>2. JobKnows(j)'
    BY <1>0, <1>4 DEF EmitRunning, JobKnows
  <2>. QED  BY <2>1, <2>2
<1>5. ASSUME WriteResult(j) PROVE OthersRest(j) /\ JobKnows(j)'
  <2>1. OthersRest(j)
    BY <1>5 DEF WriteResult, OthersRest, WebShape
  <2>2. JobKnows(j)'
    BY <1>0, <1>5 DEF WriteResult, JobKnows
  <2>. QED  BY <2>1, <2>2
<1>6. ASSUME WriteFails(j) PROVE OthersRest(j) /\ JobKnows(j)'
  <2>1. OthersRest(j)
    BY <1>6 DEF WriteFails, OthersRest, WebShape
  <2>2. JobKnows(j)'
    BY <1>0, <1>6 DEF WriteFails, JobKnows
  <2>. QED  BY <2>1, <2>2
<1>7. ASSUME HandleException(j) PROVE OthersRest(j) /\ JobKnows(j)'
  <2>1. OthersRest(j)
    BY <1>7 DEF HandleException, OthersRest, WebShape
  <2>2. JobKnows(j)'
    BY <1>0, <1>7 DEF HandleException, JobKnows
  <2>. QED  BY <2>1, <2>2
<1>8. ASSUME AppendFailed(j) PROVE OthersRest(j) /\ JobKnows(j)'
  <2>1. OthersRest(j)
    BY <1>8 DEF AppendFailed, OthersRest, WebShape
  <2>2. JobKnows(j)'
    BY <1>0, <1>8 DEF AppendFailed, JobKnows
  <2>. QED  BY <2>1, <2>2
<1>9. ASSUME EmitCompleted(j) PROVE OthersRest(j) /\ JobKnows(j)'
  <2>1. OthersRest(j)
    BY <1>9 DEF EmitCompleted, OthersRest, WebShape
  <2>2. JobKnows(j)'
    BY <1>0, <1>9 DEF EmitCompleted, JobKnows
  <2>. QED  BY <2>1, <2>2
<1>10. ASSUME Publish(j) PROVE OthersRest(j) /\ JobKnows(j)'
  <2>1. OthersRest(j)
    BY <1>10 DEF Publish, OthersRest, WebShape
  <2>2. JobKnows(j)'
    BY <1>0, <1>10 DEF Publish, JobKnows
  <2>. QED  BY <2>1, <2>2
<1>11. ASSUME CancelReads(j) PROVE OthersRest(j) /\ JobKnows(j)'
  <2>1. OthersRest(j)
    BY <1>11 DEF CancelReads, OthersRest, WebShape
  <2>2. JobKnows(j)'
    BY <1>0, <1>11 DEF CancelReads, JobKnows
  <2>. QED  BY <2>1, <2>2
<1>12. ASSUME CancelWrites(j) PROVE OthersRest(j) /\ JobKnows(j)'
  <2>1. OthersRest(j)
    BY <1>12 DEF CancelWrites, OthersRest, WebShape
  <2>2. JobKnows(j)'
    BY <1>0, <1>12 DEF CancelWrites, JobKnows
  <2>. QED  BY <2>1, <2>2
<1>13. ASSUME TaskRaises(j) PROVE OthersRest(j) /\ JobKnows(j)'
  <2>1. OthersRest(j)
    BY <1>13 DEF TaskRaises, OthersRest, WebShape
  <2>2. JobKnows(j)'
    BY <1>0, <1>13 DEF TaskRaises, JobKnows
  <2>. QED  BY <2>1, <2>2
<1>14. ASSUME SomeDocument, TaskReturns(j) PROVE OthersRest(j) /\ JobKnows(j)'
  <2>1. OthersRest(j)
    BY <1>14 DEF TaskReturns, OthersRest, WebShape
  <2>2. JobKnows(j)'
    BY <1>0, <1>14 DEF TaskReturns, JobKnows
  <2>. QED  BY <2>1, <2>2
<1>. QED  BY <1>1, <1>2, <1>3, <1>4, <1>5, <1>6, <1>7, <1>8, <1>9, <1>10, <1>11, <1>12, <1>13, <1>14 DEF WebStep, ManagerStep

LEMMA SucceededInit == Init /\ AbsentIsNothing => SucceededInv
<1> SUFFICES ASSUME Init, AbsentIsNothing PROVE SucceededInv
  OBVIOUS
<1>1. DocumentsInv
  BY DocumentsInit
<1>2. WebShape
  BY DEF Init, WebInit, WebShape
<1>3. \A j \in Jobs : thread[j] = NONE /\ status[j] = NONE
  BY DEF Init, WebInit
<1>4. NONE \notin {"pooled", "claimed", "task", "commit", "finish", "publish", "SUCCEEDED"}
  BY DEF AbsentIsNothing, Places
<1>. QED  BY <1>1, <1>2, <1>3, <1>4 DEF SucceededInv, JobKnows

LEMMA SucceededStep ==
  ASSUME SucceededInv, AbsentIsNothing, Jobs \cap Batches = {}, [Next]_vars
  PROVE  SucceededInv'
<1>1. DocumentsInv' /\ (SomeDocument => SomeDocument')
  BY DocumentsStep DEF SucceededInv, SomeDocument, DocumentsStay
<1>2. ASSUME NEW j \in Jobs, WebStep(j)
      PROVE  SucceededInv'
  <2>1. OthersRest(j) /\ JobKnows(j)'
    BY <1>1, <1>2, WebStepKnows DEF SucceededInv
  <2>2. \A i \in Jobs \ {j} : JobKnows(i)'
    BY <1>1, <2>1 DEF SucceededInv, OthersRest, JobKnows
  <2>. QED  BY <1>1, <2>1, <2>2 DEF SucceededInv, OthersRest
<1>3. ASSUME UNCHANGED webVars
      PROVE  SucceededInv'
  BY <1>1, <1>3 DEF webVars, SucceededInv, WebShape, JobKnows
<1>4. ASSUME Restart
      PROVE  SucceededInv'
  <2>1. /\ status' = [j \in Jobs |-> Recovered(status[j])] /\ thread' = [j \in Jobs |-> NONE]
        /\ UNCHANGED <<events, result, reference>>
    BY <1>4 DEF Restart
  <2>2. \A j \in Jobs : status'[j] = "SUCCEEDED" => status[j] = "SUCCEEDED"
    BY <2>1 DEF Recovered
  <2>3. \A j \in Jobs : thread'[j] \notin {"pooled", "claimed", "task", "commit", "finish", "publish"}
    BY <2>1 DEF AbsentIsNothing, Places
  <2>4. WebShape'
    BY <2>1 DEF SucceededInv, WebShape
  <2>. QED  BY <1>1, <2>1, <2>2, <2>3, <2>4 DEF SucceededInv, JobKnows
<1>5. ASSUME NEW j \in Jobs, TaskEnds(j)
      PROVE  WebStep(j)
  <2>1. Library!At(j, "returned") => SomeDocument
    BY DEF SucceededInv, DocumentsInv, CallKnows, Library!At, Tasks, Library!Tasks, Library!Parses
  <2>. QED  BY <1>5, <2>1 DEF TaskEnds, WebStep
<1>6. ASSUME NEW j \in Jobs, ManagerStep(j) \/ Refused(j) \/ IndexFails(j)
      PROVE  WebStep(j)
  BY <1>6 DEF Refused, IndexFails, WebStep
<1>. QED  BY <1>2, <1>3, <1>4, <1>5, <1>6
          DEF Next, StepOf, vars, TaskStep, KillCommand, WebRestart

(* A job that clients see as SUCCEEDED has its event stream, its result    *)
(* file under the reference and a document in the corpus, whatever is      *)
(* cancelled, refused, killed or restarted (_run appends the terminal      *)
(* event and writes the result before it exposes the status).  NONE is no  *)
(* document, place or status, and a job is no run of the command line.     *)
THEOREM SucceededStaysComplete ==
  ASSUME AbsentIsNothing, Jobs \cap Batches = {}
  PROVE  Spec => []SucceededIsComplete
<1>1. Init => SucceededInv
  BY SucceededInit
<1>2. SucceededInv /\ [Next]_vars => SucceededInv'
  BY SucceededStep
<1>3. SucceededInv => SucceededIsComplete
  BY DEF SucceededInv, JobKnows, SucceededIsComplete, SomeDocument
<1>. QED  BY <1>1, <1>2, <1>3, PTL DEF Spec

-----------------------------------------------------------------------------
(* Downloads of open full text (Discovery).                                *)

\* A call that is at work has a name; one that returned says where its content is.
CallKept(call) ==
  /\ call.pc \in {"opened", "streaming"} => call.name \in Names
  /\ call.pc = "returned" => /\ call.path \in Discover!Files /\ call.content \in Pdfs
                             /\ inbox[call.path] = call.content

\* A file named after a content holds that content or is not there.
InboxOK ==
  /\ DOMAIN inbox = Discover!Files
  /\ \A name \in Names : /\ inbox[<<name, NONE>>] \in Pdfs \cup {NONE}
                         /\ \A content \in Pdfs : inbox[<<name, content>>] \in {content, NONE}

InboxInv ==
  /\ DOMAIN download = Downloads
  /\ \A d \in Downloads : CallKept(download[d])
  /\ InboxOK

LEMMA InboxInit == Discover!DiscoveryInit => InboxInv
<1>. SUFFICES ASSUME Discover!DiscoveryInit PROVE InboxInv
  OBVIOUS
<1>1. DOMAIN download = Downloads /\ \A d \in Downloads : download[d].pc = "idle"
  BY DEF Discover!DiscoveryInit, Discover!IdleDownload
<1>2. InboxOK
  BY DEF Discover!DiscoveryInit, InboxOK, Discover!Files
<1>. QED  BY <1>1, <1>2 DEF InboxInv, CallKept

\* A call changes its own state, and no file.
LEMMA CallSet ==
  ASSUME InboxInv, NEW d \in Downloads, NEW r, Discover!SetDownload(d, r), UNCHANGED inbox,
         CallKept(r)
  PROVE  InboxInv'
<1>1. /\ DOMAIN download' = Downloads
      /\ \A e \in Downloads : download'[e] = IF e = d THEN r ELSE download[e]
  BY DEF InboxInv, Discover!SetDownload
<1>2. ASSUME NEW e \in Downloads PROVE CallKept(download[e])'
  <2>1. CallKept(download[e]) /\ CallKept(r)
    BY DEF InboxInv
  <2>. QED  BY <1>1, <2>1 DEF CallKept
<1>3. InboxOK'
  BY DEF InboxInv, InboxOK
<1>. QED  BY <1>1, <1>2, <1>3 DEF InboxInv

\* A published content goes to a place that was free or had it already.
LEMMA PublishKeeps ==
  ASSUME NONE \notin Pdfs, InboxInv, NEW d \in Downloads, Discover!PublishDownload(d)
  PROVE  InboxInv'
<1>. DEFINE call == download[d]
            path == Discover!Destination(call.name, call.content)
<1>1. CASE call.content \notin Pdfs
  <2>1. CallKept([Discover!IdleDownload EXCEPT !.pc = "raised"])
    BY DEF CallKept, Discover!IdleDownload
  <2>. QED  BY <1>1, <2>1, CallSet DEF Discover!PublishDownload, Discover!Raise
<1>2. CASE call.content \in Pdfs
  <2>1. /\ inbox' = [inbox EXCEPT ![path] = call.content]
        /\ download' = [download EXCEPT ![d] = [call EXCEPT !.pc = "returned", !.path = path]]
        /\ call.pc = "streaming" /\ call.name \in Names
    BY <1>2 DEF Discover!PublishDownload, Discover!SetDownload, InboxInv, CallKept
  <2>2. path \in Discover!Files /\ inbox[path] \in {NONE, call.content}
    BY <1>2, <2>1 DEF Discover!Destination, Discover!Files, InboxInv, InboxOK
  <2>3. /\ DOMAIN inbox' = Discover!Files
        /\ \A f \in Discover!Files : inbox'[f] = IF f = path THEN call.content ELSE inbox[f]
    BY <2>1, <2>2 DEF InboxInv, InboxOK
  <2>4. InboxOK'
    <3>1. ASSUME NEW name \in Names PROVE inbox'[<<name, NONE>>] \in Pdfs \cup {NONE}
      BY <1>2, <2>3, <3>1 DEF InboxInv, InboxOK, Discover!Files
    <3>2. ASSUME NEW name \in Names, NEW content \in Pdfs
          PROVE  inbox'[<<name, content>>] \in {content, NONE}
      <4>1. <<name, content>> \in Discover!Files
        BY DEF Discover!Files
      <4>2. inbox[<<name, content>>] \in {content, NONE}
        BY DEF InboxInv, InboxOK
      <4>3. CASE <<name, content>> = path
        <5>1. content = call.content
          BY <4>3 DEF Discover!Destination
        <5>. QED  BY <2>3, <4>1, <4>3, <5>1
      <4>4. CASE <<name, content>> # path
        BY <2>3, <4>1, <4>2, <4>4, Zenon
      <4>. QED  BY <4>3, <4>4
    <3>. QED  BY <2>3, <3>1, <3>2 DEF InboxOK
  <2>5. /\ DOMAIN download' = Downloads
        /\ \A e \in Downloads \ {d} : download'[e] = download[e]
    BY <2>1 DEF InboxInv
  <2>6. ASSUME NEW e \in Downloads PROVE CallKept(download[e])'
    <3>1. CASE e = d
      <4>. DEFINE r == [call EXCEPT !.pc = "returned", !.path = path]
      <4>1. download'[e] = r
        BY <2>1, <3>1 DEF InboxInv
      <4>2. r.pc = "returned" /\ r.path = path /\ r.content = call.content
        OBVIOUS
      <4>. QED  BY <1>2, <2>2, <2>3, <4>1, <4>2 DEF CallKept
    <3>2. CASE e # d
      <4>1. CallKept(download[e]) /\ download'[e] = download[e]
        BY <2>5, <3>2 DEF InboxInv
      <4>2. ASSUME download[e].pc = "returned"
            PROVE  /\ download[e].path \in Discover!Files /\ download[e].content \in Pdfs
                   /\ inbox'[download[e].path] = download[e].content
        <5>1. /\ download[e].path \in Discover!Files /\ download[e].content \in Pdfs
              /\ inbox[download[e].path] = download[e].content
          BY <4>1, <4>2 DEF CallKept
        <5>. QED  BY <2>2, <2>3, <5>1
      <4>. QED  BY <4>1, <4>2 DEF CallKept
    <3>. QED  BY <3>1, <3>2
  <2>. QED  BY <2>4, <2>5, <2>6 DEF InboxInv
<1>. QED  BY <1>1, <1>2

LEMMA InboxStep ==
  ASSUME NONE \notin Pdfs, InboxInv, [Discover!DiscoveryNext]_Discover!discoveryVars
  PROVE  InboxInv'
<1>. DEFINE Raised == [Discover!IdleDownload EXCEPT !.pc = "raised"]
<1>1. CallKept(Raised)
  BY DEF CallKept, Discover!IdleDownload
<1>2. ASSUME UNCHANGED <<inbox, download>> PROVE InboxInv'
  <2>1. ASSUME NEW d \in Downloads PROVE CallKept(download[d])'
    <3>1. CallKept(download[d])
      BY DEF InboxInv
    <3>. QED  BY <1>2, <3>1 DEF CallKept
  <2>. QED  BY <1>2, <2>1 DEF InboxInv, InboxOK
<1>3. ASSUME Discover!SearchFiltered PROVE InboxInv'
  BY <1>2, <1>3 DEF Discover!SearchFiltered, Discover!fileVars
<1>4. ASSUME NEW s \in Sessions, Discover!FindFulltext(s) PROVE InboxInv'
  BY <1>2, <1>4 DEF Discover!FindFulltext, Discover!fileVars
<1>5. ASSUME NEW s \in Sessions, Discover!EndSession(s) PROVE InboxInv'
  <2>1. /\ DOMAIN download' = Downloads /\ inbox' = inbox
        /\ \A d \in Downloads : download'[d] \in {Raised, download[d]}
    BY <1>5 DEF Discover!EndSession, Discover!fileVars
  <2>2. ASSUME NEW d \in Downloads PROVE CallKept(download[d])'
    <3>1. CallKept(download[d])
      BY DEF InboxInv
    <3>. QED  BY <1>1, <2>1, <3>1 DEF CallKept
  <2>. QED  BY <2>1, <2>2 DEF InboxInv, InboxOK
<1>6. ASSUME NEW d \in Downloads, Discover!StartDownload(d) PROVE InboxInv'
  <2>1. PICK token \in tokens, s \in Sessions, name \in Names :
          IF token[1] = s /\ token[2] \in registry[s]
            THEN Discover!SetDownload(d, [Discover!IdleDownload EXCEPT
                   !.pc = "opened", !.session = s, !.url = token[2], !.name = name])
            ELSE Discover!Raise(d)
    BY <1>6 DEF Discover!StartDownload
  <2>2. CallKept([Discover!IdleDownload EXCEPT
                   !.pc = "opened", !.session = s, !.url = token[2], !.name = name])
    BY DEF CallKept, Discover!IdleDownload
  <2>3. inbox' = inbox
    BY <1>6 DEF Discover!StartDownload, Discover!fileVars
  <2>. QED  BY <1>1, <2>1, <2>2, <2>3, CallSet DEF Discover!Raise
<1>7. ASSUME NEW d \in Downloads, Discover!Raise(d), inbox' = inbox PROVE InboxInv'
  BY <1>1, <1>7, CallSet DEF Discover!Raise
<1>8. ASSUME NEW d \in Downloads,
             Discover!Refuse(d) \/ Discover!StreamFails(d) \/ Discover!Cancel(d)
      PROVE  InboxInv'
  BY <1>7, <1>8 DEF Discover!Refuse, Discover!StreamFails, Discover!Cancel, Discover!fileVars
<1>9. ASSUME NEW d \in Downloads, Discover!Stream(d) PROVE InboxInv'
  <2>1. PICK content \in Serves[download[d].url] \ {FAILED} :
          Discover!SetDownload(d, [download[d] EXCEPT !.pc = "streaming", !.content = content])
    BY <1>9 DEF Discover!Stream
  <2>. DEFINE r == [download[d] EXCEPT !.pc = "streaming", !.content = content]
  <2>2. CallKept(download[d]) /\ download[d].pc = "opened" /\ inbox' = inbox
    BY <1>9 DEF Discover!Stream, InboxInv
  <2>3. r.name = download[d].name /\ (r.pc = "streaming" \/ r.pc = download[d].pc)
    OBVIOUS
  <2>4. CallKept(r)
    BY <2>2, <2>3 DEF CallKept
  <2>. QED  BY <2>1, <2>2, <2>4, CallSet
<1>10. ASSUME UNCHANGED Discover!discoveryVars PROVE InboxInv'
  BY <1>2, <1>10 DEF Discover!discoveryVars
<1>. QED
  BY <1>3, <1>4, <1>5, <1>6, <1>8, <1>9, <1>10, PublishKeeps
  DEF Discover!DiscoveryNext, Discover!FulltextNext

(* A returned download stays: its file holds the content whose hash the    *)
(* caller got, whatever other calls stream, fail, are cancelled or publish *)
(* under the same name, and nothing but whole PDFs is in the inbox         *)
(* (download_open_pdf publishes by a replace and never over another        *)
(* content).                                                               *)
THEOREM DownloadsStay ==
  ASSUME NONE \notin Pdfs
  PROVE  Discover!DiscoverySpec => []DownloadsKept
<1>1. Discover!DiscoveryInit => InboxInv
  BY InboxInit
<1>2. InboxInv /\ [Discover!DiscoveryNext]_Discover!discoveryVars => InboxInv'
  BY InboxStep
<1>3. InboxInv => DownloadsKept
  <2>. SUFFICES ASSUME InboxInv PROVE DownloadsKept
    OBVIOUS
  <2>1. \A d \in Downloads :
          download[d].pc = "returned" => inbox[download[d].path] = download[d].content
    BY DEF InboxInv, CallKept
  <2>2. \A f \in Discover!Files : inbox[f] \in Pdfs \cup {NONE}
    <3>1. ASSUME NEW f \in Discover!Files PROVE inbox[f] \in Pdfs \cup {NONE}
      <4>1. PICK name \in Names, content \in Pdfs \cup {NONE} : f = <<name, content>>
        BY DEF Discover!Files
      <4>2. /\ inbox[<<name, NONE>>] \in Pdfs \cup {NONE}
            /\ content \in Pdfs => inbox[<<name, content>>] \in {content, NONE}
        BY DEF InboxInv, InboxOK
      <4>. QED  BY <4>1, <4>2
    <3>. QED  BY <3>1
  <2>. QED  BY <2>1, <2>2 DEF DownloadsKept, Discover!DownloadsKept
<1>. QED  BY <1>1, <1>2, <1>3, PTL DEF Discover!DiscoverySpec

-----------------------------------------------------------------------------
(* Lists.                                                                  *)

IsList(s) == \E S : s \in Seq(S)

LEMMA ListIs ==
  ASSUME NEW s, IsList(s)
  PROVE  Len(s) \in Nat /\ DOMAIN s = 1..Len(s) /\ s = [i \in 1..Len(s) |-> s[i]]
<1>1. PICK S : s \in Seq(S)
  BY DEF IsList
<1>. QED  BY <1>1, LenProperties

\* What is a function of the first numbers is a list.
LEMMA IsAList ==
  ASSUME NEW n \in Nat, NEW s, s = [i \in 1..n |-> s[i]]
  PROVE  IsList(s) /\ Len(s) = n
<1>. DEFINE S == {s[i] : i \in 1..n}
<1>1. s \in [1..n -> S]
  OBVIOUS
<1>2. s \in Seq(S)
  BY <1>1, SeqDef
<1>3. DOMAIN s = 1..n
  OBVIOUS
<1>. QED  BY <1>2, <1>3, LenProperties DEF IsList

LEMMA ConcatList ==
  ASSUME NEW s, IsList(s), NEW t, IsList(t)
  PROVE  /\ IsList(s \o t) /\ Len(s \o t) = Len(s) + Len(t)
         /\ \A i \in 1..Len(s) : (s \o t)[i] = s[i]
         /\ \A i \in 1..Len(t) : (s \o t)[Len(s) + i] = t[i]
         /\ \A i \in 1..Len(s \o t) :
              \/ i \in 1..Len(s) /\ (s \o t)[i] = s[i]
              \/ i - Len(s) \in 1..Len(t) /\ (s \o t)[i] = t[i - Len(s)]
<1>1. PICK S : s \in Seq(S)
  BY DEF IsList
<1>2. PICK T : t \in Seq(T)
  BY DEF IsList
<1>. DEFINE U == S \cup T
            st == s \o t
<1>3. s \in Seq(U) /\ t \in Seq(U)
  BY <1>1, <1>2
<1>4. /\ st \in Seq(U) /\ Len(st) = Len(s) + Len(t)
      /\ \A i \in 1..(Len(s) + Len(t)) : st[i] = IF i <= Len(s) THEN s[i] ELSE t[i - Len(s)]
  BY <1>3, ConcatProperties
<1>5. Len(s) \in Nat /\ Len(t) \in Nat
  BY <1>3, LenProperties
<1>. HIDE DEF st
<1>6. IsList(st)
  BY <1>4 DEF IsList
<1>7. \A i \in 1..Len(s) : st[i] = s[i]
  BY <1>4, <1>5
<1>8. \A i \in 1..Len(t) : st[Len(s) + i] = t[i]
  <2>. TAKE i \in 1..Len(t)
  <2>1. Len(s) + i \in 1..(Len(s) + Len(t)) /\ ~(Len(s) + i <= Len(s)) /\ (Len(s) + i) - Len(s) = i
    BY <1>5
  <2>2. st[Len(s) + i] = t[(Len(s) + i) - Len(s)]
    BY <1>4, <2>1
  <2>. QED  BY <2>1, <2>2
<1>9. \A i \in 1..Len(st) : \/ i \in 1..Len(s) /\ st[i] = s[i]
                            \/ i - Len(s) \in 1..Len(t) /\ st[i] = t[i - Len(s)]
  BY <1>4, <1>5
<1>. QED  BY <1>4, <1>6, <1>7, <1>8, <1>9 DEF st

LEMMA AppendList ==
  ASSUME NEW s, IsList(s), NEW x
  PROVE  /\ IsList(Append(s, x)) /\ Len(Append(s, x)) = Len(s) + 1
         /\ \A i \in 1..Len(s) : Append(s, x)[i] = s[i]
         /\ Append(s, x)[Len(s) + 1] = x
<1>1. PICK S : s \in Seq(S)
  BY DEF IsList
<1>. DEFINE U == S \cup {x}
<1>2. s \in Seq(U) /\ x \in U
  BY <1>1
<1>. QED  BY <1>2, AppendProperties DEF IsList

LEMMA TailList ==
  ASSUME NEW s, IsList(s), s # <<>>
  PROVE  /\ IsList(Tail(s)) /\ Len(Tail(s)) = Len(s) - 1 /\ Len(s) \in Nat \ {0}
         /\ \A i \in 1..Len(Tail(s)) : Tail(s)[i] = s[i + 1]
<1>1. PICK S : s \in Seq(S)
  BY DEF IsList
<1>. QED  BY <1>1, HeadTailProperties, EmptySeq DEF IsList

LEMMA SubSeqList ==
  ASSUME NEW s, IsList(s), NEW m \in Nat \ {0}
  PROVE  /\ IsList(SubSeq(s, m, Len(s)))
         /\ Len(SubSeq(s, m, Len(s))) = IF m <= Len(s) THEN Len(s) - m + 1 ELSE 0
         /\ \A i \in 1..Len(SubSeq(s, m, Len(s))) : SubSeq(s, m, Len(s))[i] = s[m + i - 1]
<1>1. PICK S : s \in Seq(S)
  BY DEF IsList
<1>2. Len(s) \in Nat /\ DOMAIN s = 1..Len(s) /\ \A i \in 1..Len(s) : s[i] \in S
  BY <1>1, LenProperties
<1>3. m \in Int /\ Len(s) \in Int /\ \A i \in m..Len(s) : s[i] \in S
  BY <1>2
<1>4. /\ SubSeq(s, m, Len(s)) \in Seq(S)
      /\ Len(SubSeq(s, m, Len(s))) = IF m <= Len(s) THEN Len(s) - m + 1 ELSE 0
      /\ \A i \in 1..(Len(s) - m + 1) : SubSeq(s, m, Len(s))[i] = s[m + i - 1]
  BY <1>3, SubSeqProperties DEF IsList
<1>. QED  BY <1>2, <1>4 DEF IsList

LEMMA PrefixList ==
  ASSUME NEW s, IsList(s), NEW n \in 0..Len(s)
  PROVE  /\ IsList(SubSeq(s, 1, n)) /\ Len(SubSeq(s, 1, n)) = n
         /\ \A i \in 1..n : SubSeq(s, 1, n)[i] = s[i]
<1>1. PICK S : s \in Seq(S)
  BY DEF IsList
<1>2. Len(s) \in Nat /\ DOMAIN s = 1..Len(s) /\ \A i \in 1..Len(s) : s[i] \in S
  BY <1>1, LenProperties
<1>3. n \in Nat /\ \A i \in 1..n : s[i] \in S
  BY <1>2
<1>4. /\ SubSeq(s, 1, n) \in Seq(S)
      /\ Len(SubSeq(s, 1, n)) = IF 1 <= n THEN n - 1 + 1 ELSE 0
      /\ \A i \in 1..(n - 1 + 1) : SubSeq(s, 1, n)[i] = s[1 + i - 1]
  BY <1>3, SubSeqProperties DEF IsList
<1>. QED  BY <1>3, <1>4 DEF IsList

-----------------------------------------------------------------------------
(* The events of a Run (RunEvents).                                        *)

\* A stored result says how many steps were traced.
RowOK(r) == {"status", "result"} \subseteq DOMAIN r /\ r.result.traced \in Nat

\* A history is a list of steps; NONE holds no transaction; an old row is a row.
EventsGiven ==
  /\ NONE \notin Log!Writers
  /\ \A history \in Histories : IsList(history)
  /\ \A r \in Olds : RowOK(r)

StepOK(step) ==
  /\ step[1] = "complete" => RowOK(step[2])
  /\ step[1] = "work" => step[2] \in Nat

StepsOK(steps) == IsList(steps) /\ \A i \in 1..Len(steps) : StepOK(steps[i])

\* A process that has read the last cursor holds the transaction, and no event came
\* since; what it will insert is not there.
Inserts(p) ==
  /\ transaction = p
  /\ writer[p].cursor = Len(store) + 1
  /\ Log!Does(p, "append") /\ Log!Argument(p) \notin Log!Range(store)

WriterOK(w) == DOMAIN w = {"todo", "cursor", "job"} /\ StepsOK(w.todo)

WritersInv ==
  /\ RowOK(row)
  /\ DOMAIN writer = Log!Writers
  /\ \A p \in Log!Writers : WriterOK(writer[p]) /\ (writer[p].cursor # 0 => Inserts(p))

StoreInv ==
  /\ IsList(store)
  /\ \A i, j \in 1..Len(store) : store[i] = store[j] => i = j
  /\ refused = {}

\* Event i of a client is event i of the store, or it came before the store had any.
Received(c, i) ==
  /\ c.got[i][1] = i
  /\ \/ i \in 1..Len(store) /\ c.got[i][2] = store[i]
     \/ \A j \in 1..i : Log!Projected(c.got[j])

ClientOK(c) ==
  /\ DOMAIN c = {"pc", "last", "got"}
  /\ IsList(c.got) /\ c.last = Len(c.got)
  /\ \A i \in 1..Len(c.got) : Received(c, i)
  /\ c.pc = "project" => \A i \in 1..Len(c.got) : Log!Projected(c.got[i])

EventsInv == WritersInv /\ StoreInv /\ ClientOK(client)

LEMMA EmptyList == IsList(<<>>) /\ Len(<<>>) = 0
  BY EmptySeq DEF IsList

LEMMA EventsInit == EventsGiven /\ Log!RunEventsInit => EventsInv
<1>. SUFFICES ASSUME EventsGiven, Log!RunEventsInit PROVE EventsInv
  OBVIOUS
<1>1. RowOK(Log!Absent)
  BY DEF RowOK, Log!Absent, Log!NoResult
<1>2. RowOK(row)
  BY <1>1 DEF EventsGiven, Log!RunEventsInit
<1>3. \A p \in Log!Writers : writer[p] = Log!Waiting
  BY DEF Log!RunEventsInit
<1>4. WriterOK(Log!Waiting) /\ Log!Waiting.cursor = 0
  BY EmptyList DEF WriterOK, StepsOK, Log!Waiting
<1>5. WritersInv
  BY <1>2, <1>3, <1>4 DEF WritersInv, Log!RunEventsInit
<1>6. StoreInv
  BY EmptyList DEF StoreInv, Log!RunEventsInit
<1>7. ClientOK(client)
  BY EmptyList DEF ClientOK, Log!RunEventsInit
<1>. QED  BY <1>5, <1>6, <1>7 DEF EventsInv

-----------------------------------------------------------------------------
(* The lists of steps.                                                     *)

LEMMA StepsConcat ==
  ASSUME NEW s, StepsOK(s), NEW t, StepsOK(t)
  PROVE  StepsOK(s \o t)
  BY ConcatList DEF StepsOK

LEMMA StepsAppend ==
  ASSUME NEW s, StepsOK(s), NEW x, StepOK(x)
  PROVE  StepsOK(Append(s, x))
<1>1. /\ IsList(Append(s, x)) /\ Len(Append(s, x)) = Len(s) + 1
      /\ \A i \in 1..Len(s) : Append(s, x)[i] = s[i]
      /\ Append(s, x)[Len(s) + 1] = x
  BY AppendList DEF StepsOK
<1>2. Len(s) \in Nat
  BY ListIs DEF StepsOK
<1>3. \A i \in 1..(Len(s) + 1) : i \in 1..Len(s) \/ i = Len(s) + 1
  BY <1>2
<1>. QED  BY <1>1, <1>3 DEF StepsOK

LEMMA StepsTail ==
  ASSUME NEW s, StepsOK(s), s # <<>>
  PROVE  StepsOK(Tail(s)) /\ StepOK(Head(s))
<1>1. /\ IsList(Tail(s)) /\ Len(Tail(s)) = Len(s) - 1 /\ Len(s) \in Nat \ {0}
      /\ \A i \in 1..Len(Tail(s)) : Tail(s)[i] = s[i + 1]
  BY TailList DEF StepsOK
<1>2. \A i \in 1..Len(Tail(s)) : i + 1 \in 1..Len(s)
  BY <1>1
<1>3. 1 \in 1..Len(s) /\ Head(s) = s[1]
  BY <1>1
<1>. QED  BY <1>1, <1>2, <1>3 DEF StepsOK

LEMMA StepsOne ==
  ASSUME NEW x, StepOK(x)
  PROVE  StepsOK(<<x>>)
<1>1. /\ <<x>> \in Seq({x}) /\ Len(<<x>>) = 1 /\ <<x>>[1] = x
  OBVIOUS
<1>2. \A i \in 1..1 : i = 1
  OBVIOUS
<1>. QED  BY <1>1, <1>2 DEF StepsOK, IsList

LEMMA StepsTwo ==
  ASSUME NEW x, StepOK(x), NEW y, StepOK(y)
  PROVE  StepsOK(<<x, y>>)
<1>1. /\ <<x, y>> \in Seq({x, y}) /\ Len(<<x, y>>) = 2
      /\ <<x, y>>[1] = x /\ <<x, y>>[2] = y
  OBVIOUS
<1>2. \A i \in 1..2 : i = 1 \/ i = 2
  OBVIOUS
<1>. QED  BY <1>1, <1>2 DEF StepsOK, IsList

LEMMA StepsThree ==
  ASSUME NEW x, StepOK(x), NEW y, StepOK(y), NEW z, StepOK(z)
  PROVE  StepsOK(<<x, y, z>>)
<1>1. /\ <<x, y, z>> \in Seq({x, y, z}) /\ Len(<<x, y, z>>) = 3
      /\ <<x, y, z>>[1] = x /\ <<x, y, z>>[2] = y /\ <<x, y, z>>[3] = z
  OBVIOUS
<1>2. \A i \in 1..3 : i = 1 \/ i = 2 \/ i = 3
  OBVIOUS
<1>. QED  BY <1>1, <1>2 DEF StepsOK, IsList

LEMMA StepsFour ==
  ASSUME NEW w, StepOK(w), NEW x, StepOK(x), NEW y, StepOK(y), NEW z, StepOK(z)
  PROVE  StepsOK(<<w, x, y, z>>)
<1>1. /\ <<w, x, y, z>> \in Seq({w, x, y, z}) /\ Len(<<w, x, y, z>>) = 4
      /\ <<w, x, y, z>>[1] = w /\ <<w, x, y, z>>[2] = x /\ <<w, x, y, z>>[3] = y
      /\ <<w, x, y, z>>[4] = z
  OBVIOUS
<1>2. \A i \in 1..4 : i = 1 \/ i = 2 \/ i = 3 \/ i = 4
  OBVIOUS
<1>. QED  BY <1>1, <1>2 DEF StepsOK, IsList

\* Steps without a row or a number are as they should be.
LEMMA PlainSteps ==
  /\ \A kind : kind \notin {"complete", "work"} => StepOK(Log!Step(kind))
  /\ \A event : StepOK(Log!Append1(event))
  /\ \A job : StepOK(<<"submit", job>>)
  /\ \A n \in Nat : StepOK(<<"work", n>>)
  BY DEF StepOK, Log!Step, Log!Append1

LEMMA CompleteOK ==
  ASSUME NEW word, NEW made, made.traced \in Nat
  PROVE  StepOK(Log!Complete(word, made))
  BY DEF StepOK, Log!Complete, RowOK

LEMMA EndingsOK ==
  /\ \A word, traced : traced \in Nat => StepsOK(Log!Persisted(word, traced))
  /\ \A word, event : StepsOK(Log!Broken(word, event))
<1>1. ASSUME NEW word, NEW traced, traced \in Nat
      PROVE  StepsOK(Log!Persisted(word, traced))
  <2>. DEFINE made == [Log!NoResult EXCEPT !.traced = traced, !.patch = word = "WAITING_USER"]
  <2>1. made.traced \in Nat
    BY <1>1 DEF Log!NoResult
  <2>. HIDE DEF made
  <2>2. StepOK(Log!Complete(word, made)) /\ StepOK(Log!Append1(<<"terminal", word>>))
    BY <2>1, CompleteOK, PlainSteps
  <2>3. StepsOK(<<Log!Complete(word, made), Log!Append1(<<"terminal", word>>)>>)
    BY <2>2, StepsTwo
  <2>. QED  BY <2>3 DEF Log!Persisted, made
<1>2. ASSUME NEW word, NEW event
      PROVE  StepsOK(Log!Broken(word, event))
  <2>1. Log!NoResult.traced \in Nat
    BY DEF Log!NoResult
  <2>. QED  BY <2>1, CompleteOK, PlainSteps, StepsTwo DEF Log!Broken
<1>. QED  BY <1>1, <1>2

-----------------------------------------------------------------------------
(* The steps of the processes.                                             *)

\* A process that is not about to insert anything moves on.
LEMMA WriterMoves ==
  ASSUME EventsInv, NEW p \in Log!Writers, NEW w,
         writer' = [writer EXCEPT ![p] = w], WriterOK(w), w.cursor = 0, RowOK(row'),
         UNCHANGED <<store, transaction, refused, client>>
  PROVE  EventsInv'
<1>1. /\ DOMAIN writer' = Log!Writers /\ writer'[p] = w
      /\ \A q \in Log!Writers \ {p} : writer'[q] = writer[q]
  BY DEF EventsInv, WritersInv
<1>2. ASSUME NEW q \in Log!Writers
      PROVE  WriterOK(writer'[q]) /\ (writer'[q].cursor # 0 => Inserts(q)')
  <2>1. CASE q = p
    BY <1>1, <2>1
  <2>2. CASE q # p
    <3>1. /\ WriterOK(writer[q]) /\ writer'[q] = writer[q]
          /\ writer[q].cursor # 0 => Inserts(q)
      BY <1>1, <2>2 DEF EventsInv, WritersInv
    <3>. QED  BY <3>1 DEF Inserts, Log!Does, Log!Argument, Log!Range
  <2>. QED  BY <2>1, <2>2
<1>3. WritersInv'
  BY <1>1, <1>2 DEF WritersInv
<1>4. StoreInv' /\ ClientOK(client)'
  BY DEF EventsInv, StoreInv, ClientOK, Received
<1>. QED  BY <1>3, <1>4 DEF EventsInv

\* A process that is at some other step than an append has no cursor.
LEMMA NoCursor ==
  ASSUME EventsInv, NEW p \in Log!Writers, NEW kind, kind # "append", Log!Does(p, kind)
  PROVE  writer[p].cursor = 0
  BY DEF EventsInv, WritersInv, Inserts, Log!Does

LEMMA GoesOK ==
  ASSUME EventsInv, NEW p \in Log!Writers, writer[p].cursor = 0, writer[p].todo # <<>>,
         Log!Goes(p), RowOK(row'), UNCHANGED <<store, transaction, refused, client>>
  PROVE  EventsInv'
<1>. DEFINE w == [writer[p] EXCEPT !.todo = Tail(writer[p].todo)]
<1>1. writer' = [writer EXCEPT ![p] = w]
  BY DEF Log!Goes
<1>2. WriterOK(writer[p])
  BY DEF EventsInv, WritersInv
<1>3. w.todo = Tail(writer[p].todo) /\ w.cursor = 0 /\ DOMAIN w = DOMAIN writer[p]
  BY <1>2 DEF WriterOK
<1>. HIDE DEF w
<1>4. WriterOK(w)
  BY <1>2, <1>3, StepsTail DEF WriterOK
<1>. QED  BY <1>1, <1>3, <1>4, WriterMoves

LEMMA StopsOK ==
  ASSUME EventsInv, NEW p \in Log!Writers, Log!Stops(p), RowOK(row'),
         UNCHANGED <<store, transaction, refused, client>>
  PROVE  EventsInv'
<1>1. WriterOK(Log!Waiting) /\ Log!Waiting.cursor = 0
  BY EmptyList DEF WriterOK, StepsOK, Log!Waiting
<1>. QED  BY <1>1, WriterMoves DEF Log!Stops

LEMMA BeginsOK ==
  ASSUME EventsInv, NEW p \in Log!Writers, NEW steps, NEW job, StepsOK(steps),
         Log!Begins(p, steps, job),
         UNCHANGED <<row, store, transaction, refused, client>>
  PROVE  EventsInv'
<1>. DEFINE w == [todo |-> steps, cursor |-> 0, job |-> job]
<1>1. writer' = [writer EXCEPT ![p] = w]
  BY DEF Log!Begins
<1>2. WriterOK(w) /\ w.cursor = 0
  BY DEF WriterOK
<1>3. RowOK(row')
  BY DEF EventsInv, WritersInv
<1>. QED  BY <1>1, <1>2, <1>3, WriterMoves

\* What is recorded of a history is a list of appends.
LEMMA TraceOK ==
  ASSUME NEW history, IsList(history), NEW n
  PROVE  StepsOK(Log!TraceEvents(history, n))
<1>. DEFINE s == Log!TraceEvents(history, n)
<1>1. Len(history) \in Nat /\ DOMAIN history = 1..Len(history)
  BY ListIs
<1>2. s = [i \in 1..Len(history) |->
             Log!Append1(<<"trace", n, i, Log!TraceEventType(history[i])>>)]
  BY <1>1 DEF Log!TraceEvents
<1>3. /\ s = [i \in 1..Len(history) |-> s[i]]
      /\ \A i \in 1..Len(history) :
           s[i] = Log!Append1(<<"trace", n, i, Log!TraceEventType(history[i])>>)
  BY <1>2
<1>. HIDE DEF s
<1>4. IsList(s) /\ Len(s) = Len(history)
  BY <1>1, <1>3, IsAList
<1>5. StepsOK(s)
  BY <1>3, <1>4, PlainSteps DEF StepsOK
<1>. QED  BY <1>5 DEF s

LEMMA CallsOK ==
  ASSUME EventsInv,
         \/ Log!CreateRun \/ Log!CancelCall \/ Log!DecisionCall \/ Log!ResumeCall
  PROVE  EventsInv'
<1>. "api" \in Log!Writers
  BY DEF Log!Writers
<1>1. CASE Log!CreateRun
  <2>. DEFINE steps == <<Log!Step("create_run"), <<"submit", "run">>, Log!Step("queue_run"),
                         Log!Append1(<<"created">>)>>
  <2>1. StepsOK(steps)
    BY PlainSteps, StepsFour
  <2>. HIDE DEF steps
  <2>2. Log!Begins("api", steps, NONE)
    BY <1>1 DEF Log!CreateRun, steps
  <2>. QED  BY <1>1, <2>1, <2>2, BeginsOK DEF Log!CreateRun
<1>2. CASE Log!CancelCall
  <2>. DEFINE steps == <<Log!Step("request_cancel"), Log!Step("cancel"),
                         Log!Append1(<<"cancelled">>)>>
  <2>1. StepsOK(steps)
    BY PlainSteps, StepsThree
  <2>. HIDE DEF steps
  <2>2. Log!Begins("api", steps, NONE)
    BY <1>2 DEF Log!CancelCall, steps
  <2>. QED  BY <1>2, <2>1, <2>2, BeginsOK DEF Log!CancelCall
<1>3. StepsOK(Log!Resumption)
  BY PlainSteps, StepsThree DEF Log!Resumption
<1>4. CASE Log!DecisionCall
  <2>1. StepsOK(<<Log!Append1(<<"approval">>)>> \o Log!Resumption)
    BY <1>3, PlainSteps, StepsOne, StepsConcat
  <2>. QED  BY <1>4, <2>1, BeginsOK DEF Log!DecisionCall
<1>5. CASE Log!ResumeCall
  BY <1>3, <1>5, BeginsOK DEF Log!ResumeCall
<1>. QED  BY <1>1, <1>2, <1>4, <1>5

LEMMA TakesOK ==
  ASSUME EventsGiven, EventsInv, Log!TakeRun \/ Log!TakeResume
  PROVE  EventsInv'
<1>. "worker" \in Log!Writers
  BY DEF Log!Writers
<1>1. ASSUME NEW job, NEW steps, StepsOK(steps), Log!TakeJob(job, steps)
      PROVE  EventsInv'
  BY <1>1, BeginsOK DEF Log!TakeJob
<1>2. CASE Log!TakeRun
  <2>. DEFINE Steps(history) ==
         IF row.status \in Log!Final \cup {"WAITING_USER"} THEN <<Log!Step("done")>>
         ELSE <<Log!Step("start_run"), Log!Append1(<<"worker", attempt.run + 1>>)>>
              \o Log!TraceEvents(history, attempt.run + 1) \o <<<<"work", Len(history)>>>>
  <2>1. PICK history \in Histories : Log!TakeJob("run", Steps(history))
    BY <1>2 DEF Log!TakeRun
  <2>2. IsList(history) /\ Len(history) \in Nat
    BY ListIs DEF EventsGiven
  <2>3. StepsOK(<<Log!Step("done")>>)
    BY PlainSteps, StepsOne
  <2>4. StepsOK(<<Log!Step("start_run"), Log!Append1(<<"worker", attempt.run + 1>>)>>)
    BY PlainSteps, StepsTwo
  <2>5. StepsOK(Log!TraceEvents(history, attempt.run + 1))
    BY <2>2, TraceOK
  <2>6. StepsOK(<<<<"work", Len(history)>>>>)
    BY <2>2, PlainSteps, StepsOne
  <2>7. StepsOK(<<Log!Step("start_run"), Log!Append1(<<"worker", attempt.run + 1>>)>>
              \o Log!TraceEvents(history, attempt.run + 1))
    BY <2>4, <2>5, StepsConcat
  <2>8. StepsOK(Steps(history))
    BY <2>3, <2>6, <2>7, StepsConcat
  <2>. QED  BY <1>1, <2>1, <2>8
<1>3. CASE Log!TakeResume
  <2>1. StepsOK(<<Log!Step("start_run"), Log!Step("decided")>>)
    BY PlainSteps, StepsTwo
  <2>. QED  BY <1>1, <1>3, <2>1 DEF Log!TakeResume
<1>. QED  BY <1>2, <1>3

LEMMA WorkOK ==
  ASSUME EventsInv, Log!WorkEnds
  PROVE  EventsInv'
<1>. DEFINE p == "worker"
            Endings == IF Log!Does(p, "work") THEN Log!RunEndings(Log!Argument(p))
                       ELSE IF Log!Does(p, "decided") THEN Log!ResumeEndings ELSE {}
<1>1. p \in Log!Writers
  BY DEF Log!Writers
<1>2. PICK ending \in Endings : writer' = [writer EXCEPT ![p].todo = ending]
  BY DEF Log!WorkEnds
<1>3. WriterOK(writer[p]) /\ RowOK(row)
  BY <1>1 DEF EventsInv, WritersInv
<1>4. Log!Does(p, "work") \/ Log!Does(p, "decided")
  BY <1>2
<1>5. writer[p].cursor = 0
  BY <1>1, <1>4, NoCursor
<1>6. Log!Does(p, "work") => Log!Argument(p) \in Nat
  BY <1>3, StepsTail DEF WriterOK, Log!Does, Log!Argument, StepOK
<1>7. ASSUME NEW traced \in Nat, NEW e \in Log!RunEndings(traced)
      PROVE  StepsOK(e)
  <2>1. CASE \E s \in Outcomes :
               e = Log!Persisted(s, traced) \o <<Log!Append1(<<"terminal", s>>), Log!Step("done")>>
    <3>1. PICK s \in Outcomes :
            e = Log!Persisted(s, traced) \o <<Log!Append1(<<"terminal", s>>), Log!Step("done")>>
      BY <2>1
    <3>2. StepsOK(Log!Persisted(s, traced))
      BY EndingsOK
    <3>3. StepsOK(<<Log!Append1(<<"terminal", s>>), Log!Step("done")>>)
      BY PlainSteps, StepsTwo
    <3>. QED  BY <3>1, <3>2, <3>3, StepsConcat
  <2>2. CASE e = Append(Log!Broken("CANCELLED", <<"cancelled", attempt.run>>), Log!Step("done"))
    BY <2>2, EndingsOK, PlainSteps, StepsAppend
  <2>3. CASE e = Append(Log!Broken("INTERRUPTED", <<"interrupted", attempt.run>>), Log!Step("failed"))
    BY <2>3, EndingsOK, PlainSteps, StepsAppend
  <2>. QED  BY <2>1, <2>2, <2>3 DEF Log!RunEndings
<1>8. ASSUME NEW e \in Log!ResumeEndings
      PROVE  StepsOK(e)
  <2>1. CASE \E s \in Outcomes : e = Append(Log!Persisted(s, 1), Log!Step("done"))
    BY <2>1, EndingsOK, PlainSteps, StepsAppend
  <2>2. CASE e = <<Log!Complete("INTERRUPTED", Log!NoResult), Log!Step("failed")>>
    <3>1. Log!NoResult.traced \in Nat
      BY DEF Log!NoResult
    <3>. QED  BY <2>2, <3>1, CompleteOK, PlainSteps, StepsTwo
  <2>. QED  BY <2>1, <2>2 DEF Log!ResumeEndings
<1>9. StepsOK(ending)
  BY <1>2, <1>6, <1>7, <1>8
<1>. DEFINE w == [writer[p] EXCEPT !.todo = ending]
<1>10. writer' = [writer EXCEPT ![p] = w]
  BY <1>2
<1>11. w.todo = ending /\ w.cursor = 0 /\ DOMAIN w = DOMAIN writer[p]
  BY <1>3, <1>5 DEF WriterOK
<1>. HIDE DEF w
<1>12. WriterOK(w) /\ RowOK(row')
  BY <1>3, <1>9, <1>11 DEF WriterOK, Log!WorkEnds
<1>. QED  BY <1>1, <1>10, <1>11, <1>12, WriterMoves DEF Log!WorkEnds

LEMMA RowsOK ==
  ASSUME EventsInv, NEW p \in Log!Writers,
         Log!WriteRow(p) \/ Log!GivesUp(p) \/ Log!CompleteRun(p) \/ Log!WriteQueue(p)
  PROVE  EventsInv'
<1>1. WriterOK(writer[p]) /\ RowOK(row)
  BY DEF EventsInv, WritersInv
<1>2. ASSUME NEW kind, kind # "append", NEW word, Log!RowStep(p, kind, word)
      PROVE  EventsInv'
  <2>1. writer[p].cursor = 0 /\ writer[p].todo # <<>>
    BY <1>2, NoCursor DEF Log!RowStep, Log!Does
  <2>2. RowOK(row')
    BY <1>1, <1>2 DEF Log!RowStep, RowOK
  <2>. QED  BY <1>2, <2>1, <2>2, GoesOK DEF Log!RowStep
<1>3. CASE Log!WriteRow(p)
  <2>1. CASE Log!RowStep(p, "create_run", "PENDING")
    BY <1>2, <2>1
  <2>2. ASSUME NEW word, Log!RowStep(p, "start_run", word) PROVE EventsInv'
    BY <1>2, <2>2
  <2>3. ASSUME NEW word, Log!RowStep(p, "queue_run", word) PROVE EventsInv'
    BY <1>2, <2>3
  <2>4. CASE Log!RowStep(p, "cancel", "CANCELLED")
    BY <1>2, <2>4
  <2>. QED  BY <1>3, <2>1, <2>2, <2>3, <2>4 DEF Log!WriteRow
<1>4. CASE Log!GivesUp(p)
  BY <1>1, <1>4, StopsOK DEF Log!GivesUp
<1>5. CASE Log!CompleteRun(p)
  <2>1. writer[p].cursor = 0 /\ writer[p].todo # <<>>
    BY <1>5, NoCursor DEF Log!CompleteRun, Log!Does
  <2>2. RowOK(row')
    BY <1>1, <1>5, <2>1, StepsTail DEF WriterOK, StepOK, Log!CompleteRun, Log!Does, Log!Argument
  <2>. QED  BY <1>5, <2>1, <2>2, GoesOK DEF Log!CompleteRun
<1>6. CASE Log!WriteQueue(p)
  <2>1. Log!Does(p, "submit") \/ Log!Does(p, "request_cancel")
    BY <1>6 DEF Log!WriteQueue
  <2>2. writer[p].cursor = 0 /\ writer[p].todo # <<>>
    BY <2>1, NoCursor DEF Log!Does
  <2>. QED  BY <1>1, <1>6, <2>2, GoesOK DEF Log!WriteQueue
<1>. QED  BY <1>3, <1>4, <1>5, <1>6

LEMMA JobEndsOK ==
  ASSUME EventsInv, Log!JobEnds
  PROVE  EventsInv'
<1>. DEFINE p == "worker"
<1>1. p \in Log!Writers
  BY DEF Log!Writers
<1>2. RowOK(row')
  BY DEF EventsInv, WritersInv, Log!JobEnds
<1>3. CASE Log!Stops(p)
  BY <1>1, <1>2, <1>3, StopsOK DEF Log!JobEnds
<1>4. ASSUME NEW steps, StepsOK(steps),
             writer' = [writer EXCEPT ![p] = [Log!Waiting EXCEPT !.todo = steps]]
      PROVE  EventsInv'
  <2>. DEFINE w == [Log!Waiting EXCEPT !.todo = steps]
  <2>1. WriterOK(w) /\ w.cursor = 0
    BY <1>4 DEF WriterOK, Log!Waiting
  <2>. HIDE DEF w
  <2>2. writer' = [writer EXCEPT ![p] = w]
    BY <1>4 DEF w
  <2>. QED  BY <1>1, <1>2, <2>1, <2>2, WriterMoves DEF Log!JobEnds
<1>5. StepsOK(<<>>) /\ \A target : StepsOK(Log!Reconciled(target))
  BY EmptyList, EndingsOK DEF StepsOK, Log!Reconciled
<1>6. CASE ~Log!Stops(p)
  <2>. DEFINE job == writer[p].job
              again == attempt[job] < MaxAttempts[job]
              target == CASE again /\ row.status = "RUNNING" -> "INTERRUPTED"
                          [] ~again /\ row.status \notin Log!Final -> "FAILED"
                          [] OTHER -> NONE
              steps == IF target = NONE THEN <<>> ELSE Log!Reconciled(target)
  <2>1. writer' = [writer EXCEPT ![p] = [Log!Waiting EXCEPT !.todo = steps]]
    BY <1>6 DEF Log!JobEnds
  <2>2. StepsOK(steps)
    <3>. HIDE DEF target
    <3>. QED  BY <1>5
  <2>. HIDE DEF steps
  <2>. QED  BY <1>4, <2>1, <2>2
<1>. QED  BY <1>3, <1>6

-----------------------------------------------------------------------------
(* append                                                                  *)

\* Only one process is between the look and the insert.
LEMMA OneInserts ==
  ASSUME EventsInv, NEW p \in Log!Writers, NEW q \in Log!Writers, p # q,
         transaction \in {p, NONE}, EventsGiven
  PROVE  writer[q].cursor = 0
  BY DEF EventsInv, WritersInv, Inserts, EventsGiven

LEMMA BeginAppendOK ==
  ASSUME EventsGiven, EventsInv, NEW p \in Log!Writers, Log!BeginAppend(p)
  PROVE  EventsInv'
<1>1. WriterOK(writer[p]) /\ RowOK(row) /\ writer[p].cursor = 0 /\ writer[p].todo # <<>>
  BY DEF EventsInv, WritersInv, Log!BeginAppend, Log!Does
<1>2. CASE Log!Argument(p) \in Log!Range(store)
  BY <1>1, <1>2, GoesOK DEF Log!BeginAppend
<1>3. CASE Log!Argument(p) \notin Log!Range(store)
  <2>. DEFINE w == [writer[p] EXCEPT !.cursor = Len(store) + 1]
  <2>1. /\ writer' = [writer EXCEPT ![p] = w]
        /\ transaction' = p /\ transaction = NONE /\ Log!Does(p, "append")
        /\ UNCHANGED <<row, store, refused, client>>
    BY <1>3 DEF Log!BeginAppend, Log!WriteTransaction
  <2>2. w.todo = writer[p].todo /\ w.cursor = Len(store) + 1 /\ DOMAIN w = DOMAIN writer[p]
    BY <1>1 DEF WriterOK
  <2>. HIDE DEF w
  <2>3. /\ DOMAIN writer' = Log!Writers /\ writer'[p] = w
        /\ \A q \in Log!Writers \ {p} : writer'[q] = writer[q]
    BY <2>1 DEF EventsInv, WritersInv
  <2>4. WriterOK(w)
    BY <1>1, <2>2 DEF WriterOK
  <2>5. Inserts(p)'
    BY <1>3, <2>1, <2>2, <2>3 DEF Inserts, Log!Does, Log!Argument, Log!Range
  <2>6. ASSUME NEW q \in Log!Writers
        PROVE  WriterOK(writer'[q]) /\ (writer'[q].cursor # 0 => Inserts(q)')
    <3>1. CASE q = p
      BY <2>3, <2>4, <2>5, <3>1
    <3>2. CASE q # p
      <4>1. writer[q].cursor = 0 /\ WriterOK(writer[q])
        BY <2>1, <3>2, OneInserts DEF EventsInv, WritersInv
      <4>. QED  BY <2>3, <3>2, <4>1
    <3>. QED  BY <3>1, <3>2
  <2>7. WritersInv'
    BY <1>1, <2>1, <2>3, <2>6 DEF WritersInv, RowOK
  <2>8. StoreInv' /\ ClientOK(client)'
    BY <2>1 DEF EventsInv, StoreInv, ClientOK, Received
  <2>. QED  BY <2>7, <2>8 DEF EventsInv
<1>. QED  BY <1>2, <1>3

LEMMA InsertOK ==
  ASSUME EventsGiven, EventsInv, NEW p \in Log!Writers, Log!InsertEvent(p)
  PROVE  EventsInv'
<1>1. WriterOK(writer[p]) /\ RowOK(row) /\ Inserts(p)
  BY DEF EventsInv, WritersInv, Log!InsertEvent
<1>. DEFINE event == Log!Argument(p)
            w == [writer[p] EXCEPT !.todo = Tail(writer[p].todo), !.cursor = 0]
<1>2. /\ writer' = [writer EXCEPT ![p] = w]
      /\ store' = Append(store, event) /\ transaction' = NONE
      /\ UNCHANGED <<row, refused, client>>
  BY <1>1 DEF Log!InsertEvent, Inserts
<1>3. w.todo = Tail(writer[p].todo) /\ w.cursor = 0 /\ DOMAIN w = DOMAIN writer[p]
  BY <1>1 DEF WriterOK
<1>. HIDE DEF w
<1>4. /\ DOMAIN writer' = Log!Writers /\ writer'[p] = w
      /\ \A q \in Log!Writers \ {p} : writer'[q] = writer[q]
  BY <1>2 DEF EventsInv, WritersInv
<1>5. WriterOK(w)
  <2>1. writer[p].todo # <<>>
    BY <1>1 DEF Inserts, Log!Does
  <2>. QED  BY <1>1, <1>3, <2>1, StepsTail DEF WriterOK
<1>6. ASSUME NEW q \in Log!Writers
      PROVE  WriterOK(writer'[q]) /\ writer'[q].cursor = 0
  <2>1. CASE q = p
    BY <1>3, <1>4, <1>5, <2>1
  <2>2. CASE q # p
    <3>1. transaction = p
      BY <1>1 DEF Inserts
    <3>2. writer[q].cursor = 0 /\ WriterOK(writer[q])
      BY <2>2, <3>1, OneInserts DEF EventsInv, WritersInv
    <3>. QED  BY <1>4, <2>2, <3>2
  <2>. QED  BY <2>1, <2>2
<1>7. WritersInv'
  BY <1>1, <1>2, <1>4, <1>6 DEF WritersInv, RowOK
<1>. DEFINE n == Len(store)
<1>8. IsList(store) /\ n \in Nat /\ DOMAIN store = 1..n
  BY ListIs DEF EventsInv, StoreInv
<1>9. /\ IsList(store') /\ Len(store') = n + 1
      /\ \A i \in 1..n : store'[i] = store[i]
      /\ store'[n + 1] = event
  BY <1>2, <1>8, AppendList
<1>10. \A i \in 1..n : store[i] # event
  BY <1>1, <1>8 DEF Inserts, Log!Range
<1>. HIDE DEF event, n
<1>11. \A i \in 1..(n + 1) : i \in 1..n \/ i = n + 1
  BY <1>8
<1>12. ASSUME NEW i \in 1..(n + 1), NEW j \in 1..(n + 1), store'[i] = store'[j] PROVE i = j
  <2>1. \A k, l \in 1..n : store[k] = store[l] => k = l
    BY DEF EventsInv, StoreInv, n
  <2>. QED  BY <1>9, <1>10, <1>11, <1>12, <2>1
<1>13. StoreInv'
  BY <1>2, <1>9, <1>12 DEF StoreInv, EventsInv
<1>14. ASSUME NEW i, Received(client, i) PROVE Received(client, i)'
  <2>1. \A k \in 1..n : k \in 1..(n + 1)
    BY <1>8
  <2>. QED  BY <1>2, <1>9, <1>14, <2>1 DEF Received, n
<1>15. ClientOK(client)'
  BY <1>2, <1>14 DEF EventsInv, ClientOK
<1>. QED  BY <1>7, <1>13, <1>15 DEF EventsInv

LEMMA DieOK ==
  ASSUME EventsGiven, EventsInv, NEW p \in Log!Writers, Log!Die(p)
  PROVE  EventsInv'
<1>1. WriterOK(writer[p]) /\ RowOK(row)
  BY DEF EventsInv, WritersInv
<1>. DEFINE steps == IF writer[p].job = NONE THEN <<>> ELSE <<Log!Step("failed")>>
            w == [writer[p] EXCEPT !.cursor = 0, !.todo = steps]
<1>2. /\ writer' = [writer EXCEPT ![p] = w]
      /\ transaction' = IF transaction = p THEN NONE ELSE transaction
      /\ UNCHANGED <<row, store, refused, client>>
  BY DEF Log!Die
<1>3. StepsOK(steps)
  <2>1. StepsOK(<<>>)
    BY EmptyList DEF StepsOK
  <2>2. StepsOK(<<Log!Step("failed")>>)
    BY PlainSteps, StepsOne
  <2>. QED  BY <2>1, <2>2
<1>. HIDE DEF steps
<1>4. w.todo = steps /\ w.cursor = 0 /\ DOMAIN w = DOMAIN writer[p]
  BY <1>1 DEF WriterOK
<1>. HIDE DEF w
<1>5. /\ DOMAIN writer' = Log!Writers /\ writer'[p] = w
      /\ \A q \in Log!Writers \ {p} : writer'[q] = writer[q]
  BY <1>2 DEF EventsInv, WritersInv
<1>6. WriterOK(w)
  BY <1>1, <1>3, <1>4 DEF WriterOK
<1>7. ASSUME NEW q \in Log!Writers
      PROVE  WriterOK(writer'[q]) /\ (writer'[q].cursor # 0 => Inserts(q)')
  <2>1. CASE q = p
    BY <1>4, <1>5, <1>6, <2>1
  <2>2. CASE q # p
    <3>1. /\ WriterOK(writer[q]) /\ writer'[q] = writer[q]
          /\ writer[q].cursor # 0 => Inserts(q)
      BY <1>5, <2>2 DEF EventsInv, WritersInv
    <3>2. ASSUME Inserts(q) PROVE Inserts(q)'
      BY <1>2, <2>2, <3>1, <3>2 DEF Inserts, Log!Does, Log!Argument, Log!Range
    <3>. QED  BY <3>1, <3>2
  <2>. QED  BY <2>1, <2>2
<1>8. WritersInv'
  BY <1>1, <1>2, <1>5, <1>7 DEF WritersInv, RowOK
<1>9. StoreInv' /\ ClientOK(client)'
  BY <1>2 DEF EventsInv, StoreInv, ClientOK, Received
<1>. QED  BY <1>8, <1>9 DEF EventsInv

-----------------------------------------------------------------------------
(* The event stream.                                                       *)

\* The places after a list's end follow on.
LEMMA Follows ==
  ASSUME NEW got, IsList(got), NEW sent, IsList(sent), NEW n \in 0..Len(sent)
  PROVE  LET sum == got \o SubSeq(sent, 1, n) IN
         /\ IsList(sum) /\ Len(sum) = Len(got) + n
         /\ \A i \in 1..Len(got) : sum[i] = got[i]
         /\ \A i \in 1..n : sum[Len(got) + i] = sent[i]
         /\ \A i \in 1..Len(sum) : i \in 1..Len(got) \/ i - Len(got) \in 1..n
<1>1. /\ IsList(SubSeq(sent, 1, n)) /\ Len(SubSeq(sent, 1, n)) = n
      /\ \A i \in 1..n : SubSeq(sent, 1, n)[i] = sent[i]
  BY PrefixList
<1>. DEFINE t == SubSeq(sent, 1, n)
<1>. HIDE DEF t
<1>2. /\ IsList(got \o t) /\ Len(got \o t) = Len(got) + Len(t)
      /\ \A i \in 1..Len(got) : (got \o t)[i] = got[i]
      /\ \A i \in 1..Len(t) : (got \o t)[Len(got) + i] = t[i]
      /\ \A i \in 1..Len(got \o t) : i \in 1..Len(got) \/ i - Len(got) \in 1..Len(t)
  <2>1. IsList(t)
    BY <1>1 DEF t
  <2>. QED  BY <2>1, ConcatList
<1>3. Len(t) = n /\ \A i \in 1..n : t[i] = sent[i]
  BY <1>1 DEF t
<1>4. /\ IsList(got \o t) /\ Len(got \o t) = Len(got) + n
      /\ \A i \in 1..Len(got) : (got \o t)[i] = got[i]
      /\ \A i \in 1..n : (got \o t)[Len(got) + i] = sent[i]
      /\ \A i \in 1..Len(got \o t) : i \in 1..Len(got) \/ i - Len(got) \in 1..n
  BY <1>2, <1>3
<1>. QED  BY <1>4 DEF t

\* What a connection may send: events that follow what the client has, all of the
\* store, or all projected as long as it has nothing else.
Sendable(sent) ==
  /\ IsList(sent)
  /\ \A k \in 1..Len(sent) :
       LET i == Len(client.got) + k IN
       /\ sent[k][1] = i
       /\ \/ i \in 1..Len(store) /\ sent[k][2] = store[i]
          \/ /\ Log!Projected(sent[k])
             /\ \A j \in 1..Len(sent) : Log!Projected(sent[j])
             /\ \A j \in 1..Len(client.got) : Log!Projected(client.got[j])

LEMMA SendOK ==
  ASSUME EventsInv, NEW sent, Sendable(sent), Log!Send(sent), UNCHANGED Log!writerVars
  PROVE  EventsInv'
<1>1. PICK n \in 0..Len(sent) :
        client' = [client EXCEPT !.pc = IF n = Len(sent) THEN "status" ELSE "closed",
                                 !.last = IF n = 0 THEN @ ELSE sent[n][1],
                                 !.got = @ \o SubSeq(sent, 1, n)]
  BY DEF Log!Send
<1>. DEFINE got == client.got
            sum == got \o SubSeq(sent, 1, n)
<1>2. ClientOK(client)
  BY DEF EventsInv
<1>3. /\ DOMAIN client' = {"pc", "last", "got"} /\ client'.pc \in {"status", "closed"}
      /\ client'.last = (IF n = 0 THEN client.last ELSE sent[n][1])
      /\ client'.got = sum
  BY <1>1, <1>2 DEF ClientOK
<1>4. /\ IsList(got) /\ Len(got) \in Nat /\ IsList(sent) /\ Len(sent) \in Nat
      /\ client.last = Len(got)
  BY <1>2, ListIs DEF ClientOK, Sendable
<1>5. /\ IsList(sum) /\ Len(sum) = Len(got) + n
      /\ \A i \in 1..Len(got) : sum[i] = got[i]
      /\ \A i \in 1..n : sum[Len(got) + i] = sent[i]
      /\ \A i \in 1..Len(sum) : i \in 1..Len(got) \/ i - Len(got) \in 1..n
  BY <1>4, Follows
<1>. HIDE DEF sum
<1>6. n \in Nat /\ \A i \in 1..n : i \in 1..Len(sent)
  BY <1>4
<1>7. client'.last = Len(sum)
  <2>1. CASE n = 0
    BY <1>3, <1>4, <1>5, <2>1
  <2>2. CASE n # 0
    <3>1. n \in 1..Len(sent)
      BY <1>6, <2>2
    <3>2. sent[n][1] = Len(got) + n
      BY <3>1 DEF Sendable
    <3>. QED  BY <1>3, <1>5, <2>2, <3>2
  <2>. QED  BY <2>1, <2>2
<1>8. row' = row /\ store' = store /\ writer' = writer /\ transaction' = transaction
      /\ refused' = refused
  BY DEF Log!writerVars
<1>9. ASSUME NEW i \in 1..Len(sum) PROVE Received(client, i)'
  <2>1. CASE i \in 1..Len(got)
    <3>1. Received(client, i)
      BY <1>2, <2>1 DEF ClientOK
    <3>2. \A j \in 1..i : sum[j] = got[j]
      BY <1>4, <1>5, <2>1
    <3>3. i \in 1..i
      BY <2>1, <1>4
    <3>. QED  BY <1>3, <1>8, <3>1, <3>2, <3>3 DEF Received
  <2>2. CASE i - Len(got) \in 1..n
    <3>. DEFINE k == i - Len(got)
    <3>1. k \in 1..n /\ k \in 1..Len(sent) /\ i = Len(got) + k /\ i \in Nat
      BY <1>4, <1>6, <2>2
    <3>2. sum[i] = sent[k]
      BY <1>5, <3>1
    <3>3. sent[k][1] = i
      BY <3>1 DEF Sendable
    <3>4. CASE i \in 1..Len(store) /\ sent[k][2] = store[i]
      BY <1>3, <1>8, <3>2, <3>3, <3>4 DEF Received
    <3>5. CASE ~(i \in 1..Len(store) /\ sent[k][2] = store[i])
      <4>1. /\ \A j \in 1..Len(sent) : Log!Projected(sent[j])
            /\ \A j \in 1..Len(got) : Log!Projected(got[j])
        BY <3>1, <3>5 DEF Sendable
      <4>2. ASSUME NEW j \in 1..i PROVE Log!Projected(sum[j])
        <5>1. j \in 1..Len(got) \/ (j - Len(got) \in 1..n /\ j = Len(got) + (j - Len(got)))
          BY <1>4, <1>6, <3>1
        <5>2. CASE j \in 1..Len(got)
          <6>1. sum[j] = got[j] /\ Log!Projected(got[j])
            BY <1>5, <4>1, <5>2
          <6>. QED  BY <6>1
        <5>3. CASE j - Len(got) \in 1..n /\ j = Len(got) + (j - Len(got))
          <6>1. sum[j] = sent[j - Len(got)]
            BY <1>5, <5>3
          <6>2. Log!Projected(sent[j - Len(got)])
            BY <1>6, <4>1, <5>3
          <6>. QED  BY <6>1, <6>2
        <5>. QED  BY <5>1, <5>2, <5>3
      <4>. QED  BY <1>3, <1>8, <3>2, <3>3, <4>2 DEF Received
    <3>. QED  BY <3>4, <3>5
  <2>. QED  BY <1>5, <2>1, <2>2
<1>10. ClientOK(client)'
  BY <1>3, <1>5, <1>7, <1>9 DEF ClientOK
<1>11. WritersInv' /\ StoreInv'
  BY <1>8 DEF EventsInv, WritersInv, StoreInv, Inserts, Log!Does, Log!Argument, Log!Range
<1>. QED  BY <1>10, <1>11 DEF EventsInv

\* The stream looks on; it comes to project the Run only if the store had nothing.
LEMMA StreamOK ==
  ASSUME EventsInv, NEW pc, Log!Stream(pc), UNCHANGED Log!writerVars,
         pc = "project" => store = <<>>
  PROVE  EventsInv'
<1>1. ClientOK(client)
  BY DEF EventsInv
<1>2. /\ client' = [client EXCEPT !.pc = pc]
      /\ row' = row /\ store' = store /\ writer' = writer /\ transaction' = transaction
      /\ refused' = refused
  BY DEF Log!Stream, Log!writerVars
<1>3. /\ DOMAIN client' = {"pc", "last", "got"} /\ client'.pc = pc
      /\ client'.last = client.last /\ client'.got = client.got
  BY <1>1, <1>2 DEF ClientOK
<1>4. \A i \in 1..Len(client.got) : Received(client, i)'
  BY <1>1, <1>2, <1>3 DEF ClientOK, Received
<1>5. ASSUME pc = "project", NEW i \in 1..Len(client.got) PROVE Log!Projected(client.got[i])
  <2>1. Received(client, i) /\ i \in 1..i /\ Len(store) = 0
    BY <1>1, <1>5, ListIs, EmptyList DEF ClientOK
  <2>. QED  BY <2>1 DEF Received
<1>6. ClientOK(client)'
  BY <1>1, <1>3, <1>4, <1>5 DEF ClientOK
<1>7. WritersInv' /\ StoreInv'
  BY <1>2 DEF EventsInv, WritersInv, StoreInv, Inserts, Log!Does, Log!Argument, Log!Range
<1>. QED  BY <1>6, <1>7 DEF EventsInv

\* The events of the store after the client's cursor may be sent.
LEMMA ListSendable ==
  ASSUME EventsInv
  PROVE  Sendable(Log!ListAfter(client.last))
<1>. DEFINE last == Len(client.got)
            s == Log!ListAfter(last)
<1>1. ClientOK(client) /\ IsList(store)
  BY DEF EventsInv, StoreInv
<1>2. client.last = last /\ last \in Nat /\ Len(store) \in Nat
  BY <1>1, ListIs DEF ClientOK
<1>. DEFINE n == IF Len(store) > last THEN Len(store) - last ELSE 0
<1>3. n \in Nat /\ 1..(Len(store) - last) = 1..n
  BY <1>2
<1>4. s = [i \in 1..n |-> <<last + i, store[last + i]>>]
  BY <1>3 DEF Log!ListAfter
<1>5. s = [i \in 1..n |-> s[i]] /\ \A i \in 1..n : s[i] = <<last + i, store[last + i]>>
  BY <1>4
<1>6. \A i \in 1..n : last + i \in 1..Len(store)
  BY <1>2
<1>. HIDE DEF s, n
<1>7. IsList(s) /\ Len(s) = n
  BY <1>3, <1>5, IsAList
<1>8. ASSUME NEW k \in 1..Len(s)
      PROVE  s[k][1] = last + k /\ last + k \in 1..Len(store) /\ s[k][2] = store[last + k]
  <2>1. k \in 1..n
    BY <1>7
  <2>. QED  BY <1>5, <1>6, <2>1
<1>9. Sendable(s)
  BY <1>7, <1>8 DEF Sendable
<1>. QED  BY <1>2, <1>9 DEF s

\* A projection is a list of events that are numbered as they come.
LEMMA ProjectionIs ==
  ASSUME NEW r, RowOK(r)
  PROVE  LET s == Log!Projection(r) IN
         IsList(s) /\ \A i \in 1..Len(s) : s[i][1] = i /\ Log!Projected(s[i])
<1>. DEFINE a == <<"RUN_STARTED">>
            b == IF r.result.resumed THEN <<"RUN_RESUMED">> ELSE <<>>
            c == [i \in 1..r.result.traced |-> "TRACED"]
            d == IF r.result.patch THEN <<"PATCH">> ELSE <<>>
            e == IF r.status \in Log!Terminal THEN <<r.status>> ELSE <<>>
            names == a \o b \o c \o d \o e
            s == Log!Projection(r)
<1>1. \A x : IsList(<<x>>)
  <2>. SUFFICES ASSUME NEW x PROVE <<x>> \in Seq({x})
    BY DEF IsList
  <2>. QED  OBVIOUS
<1>2. IsList(a) /\ IsList(b) /\ IsList(d) /\ IsList(e)
  BY <1>1, EmptyList
<1>3. IsList(c)
  <2>1. r.result.traced \in Nat /\ c = [i \in 1..r.result.traced |-> c[i]]
    BY DEF RowOK
  <2>. QED  BY <2>1, IsAList
<1>. HIDE DEF a, b, c, d, e
<1>4. IsList(a \o b)
  BY <1>2, ConcatList
<1>5. IsList(a \o b \o c)
  BY <1>3, <1>4, ConcatList
<1>6. IsList(a \o b \o c \o d)
  BY <1>2, <1>5, ConcatList
<1>7. IsList(names)
  BY <1>2, <1>6, ConcatList
<1>8. s = [i \in DOMAIN names |-> <<i, <<"projected", names[i]>>>>]
  BY DEF Log!Projection, a, b, c, d, e
<1>. HIDE DEF names
<1>9. Len(names) \in Nat /\ DOMAIN names = 1..Len(names)
  BY <1>7, ListIs
<1>10. /\ s = [i \in 1..Len(names) |-> s[i]]
       /\ \A i \in 1..Len(names) : s[i] = <<i, <<"projected", names[i]>>>>
  BY <1>8, <1>9
<1>. HIDE DEF s
<1>11. IsList(s) /\ Len(s) = Len(names)
  BY <1>9, <1>10, IsAList
<1>12. \A i \in 1..Len(s) : s[i][1] = i /\ Log!Projected(s[i])
  BY <1>10, <1>11 DEF Log!Projected
<1>. QED  BY <1>11, <1>12 DEF s

LEMMA ProjectionSendable ==
  ASSUME EventsInv, client.pc = "project"
  PROVE  Sendable(Log!After(Log!Projection(row), client.last))
<1>. DEFINE s == Log!Projection(row)
            last == Len(client.got)
            rest == SubSeq(s, last + 1, Len(s))
<1>1. ClientOK(client) /\ RowOK(row)
  BY DEF EventsInv, WritersInv
<1>2. IsList(s) /\ \A i \in 1..Len(s) : s[i][1] = i /\ Log!Projected(s[i])
  BY <1>1, ProjectionIs
<1>3. client.last = last /\ last \in Nat /\ Len(s) \in Nat
  BY <1>1, <1>2, ListIs DEF ClientOK
<1>. HIDE DEF s
<1>4. /\ IsList(rest)
      /\ Len(rest) = IF last + 1 <= Len(s) THEN Len(s) - (last + 1) + 1 ELSE 0
      /\ \A i \in 1..Len(rest) : rest[i] = s[(last + 1) + i - 1]
  <2>1. last + 1 \in Nat \ {0}
    BY <1>3
  <2>. QED  BY <1>2, <2>1, SubSeqList
<1>. HIDE DEF rest
<1>5. \A i \in 1..Len(rest) : /\ last + i \in 1..Len(s) /\ (last + 1) + i - 1 = last + i
  BY <1>3, <1>4
<1>6. \A i \in 1..Len(rest) : rest[i][1] = last + i /\ Log!Projected(rest[i])
  BY <1>2, <1>4, <1>5
<1>7. \A i \in 1..Len(client.got) : Log!Projected(client.got[i])
  BY <1>1 DEF ClientOK
<1>8. Sendable(rest)
  BY <1>4, <1>6, <1>7 DEF Sendable
<1>. QED  BY <1>3, <1>8 DEF Log!After, rest, s

LEMMA ClientSteps ==
  ASSUME EventsInv,
         \/ Log!Connect \/ Log!ListEvents \/ Log!AskConsole \/ Log!ProjectRun \/ Log!LookAtStatus
  PROVE  EventsInv'
<1>1. CASE Log!Connect
  BY <1>1, StreamOK DEF Log!Connect, Log!writerVars
<1>2. CASE Log!ListEvents
  BY <1>2, ListSendable, SendOK, StreamOK DEF Log!ListEvents
<1>3. CASE Log!AskConsole
  BY <1>3, ListSendable, SendOK, StreamOK DEF Log!AskConsole
<1>4. CASE Log!ProjectRun
  BY <1>4, ProjectionSendable, SendOK DEF Log!ProjectRun
<1>5. CASE Log!LookAtStatus
  <2>1. /\ UNCHANGED Log!writerVars
        /\ Log!Stream(IF row.status \in Log!Terminal THEN "ended" ELSE "list")
    BY <1>5 DEF Log!LookAtStatus, Log!writerVars
  <2>2. CASE row.status \in Log!Terminal
    BY <2>1, <2>2, StreamOK
  <2>3. CASE row.status \notin Log!Terminal
    BY <2>1, <2>3, StreamOK
  <2>. QED  BY <2>2, <2>3
<1>. QED  BY <1>1, <1>2, <1>3, <1>4, <1>5

LEMMA EventsStep ==
  ASSUME EventsGiven, EventsInv, [Log!RunEventsNext]_Log!eventVars
  PROVE  EventsInv'
<1>1. ASSUME NEW p \in Log!Writers,
             \/ Log!WriteRow(p) \/ Log!GivesUp(p) \/ Log!CompleteRun(p) \/ Log!WriteQueue(p)
             \/ Log!BeginAppend(p) \/ Log!InsertEvent(p) \/ Log!Die(p)
      PROVE  EventsInv'
  BY <1>1, RowsOK, BeginAppendOK, InsertOK, DieOK
<1>2. ASSUME UNCHANGED Log!eventVars PROVE EventsInv'
  <2>1. UNCHANGED <<row, store, writer, transaction, refused, client>>
    BY <1>2 DEF Log!eventVars, Log!writerVars
  <2>. QED
    BY <2>1 DEF EventsInv, WritersInv, StoreInv, ClientOK, Received, Inserts, Log!Does,
      Log!Argument, Log!Range
<1>. QED  BY <1>1, <1>2, CallsOK, TakesOK, WorkOK, JobEndsOK, ClientSteps DEF Log!RunEventsNext

(* Replaying the events of a Run is safe: no append fails on a cursor that *)
(* another process took, no event is stored twice, and a client, however   *)
(* often its connection breaks, receives the events 1 to k, each once, as  *)
(* the store holds them or as they were projected before it had any        *)
(* (RunEventStore.append is one BEGIN IMMEDIATE transaction).              *)
THEOREM ReplayIsSafe ==
  ASSUME EventsGiven
  PROVE  Log!RunEventsSpec => []EventsReplay
<1>1. Log!RunEventsInit => EventsInv
  BY EventsInit
<1>2. EventsInv /\ [Log!RunEventsNext]_Log!eventVars => EventsInv'
  BY EventsStep
<1>3. EventsInv => EventsReplay
  <2>. SUFFICES ASSUME EventsInv PROVE EventsReplay
    OBVIOUS
  <2>1. refused = {} /\ Log!IsInjective(store)
    BY ListIs DEF EventsInv, StoreInv, Log!IsInjective
  <2>2. ASSUME NEW i \in DOMAIN client.got
        PROVE  /\ client.got[i][1] = i
               /\ \/ i \in DOMAIN store /\ client.got[i][2] = store[i]
                  \/ \A j \in 1..i : Log!Projected(client.got[j])
    <3>1. DOMAIN store = 1..Len(store) /\ DOMAIN client.got = 1..Len(client.got)
      BY ListIs DEF EventsInv, StoreInv, ClientOK
    <3>2. Received(client, i)
      BY <3>1 DEF EventsInv, ClientOK
    <3>. QED  BY <3>1, <3>2 DEF Received
  <2>. QED  BY <2>1, <2>2 DEF EventsReplay, Log!EventsReplay
<1>. QED  BY <1>1, <1>2, <1>3, PTL DEF Log!RunEventsSpec

-----------------------------------------------------------------------------
(* Recursion along a list.                                                 *)

LEMMA LeastNat ==
  ASSUME NEW T \in SUBSET Nat, T # {}
  PROVE  \E x \in T : \A y \in T : x <= y
<1>1. \E x \in T : \A y \in T : ~(<<y, x>> \in OpToRel(<, Nat))
  BY NatLessThanWellFounded, WFMin
<1>2. \A x, y \in Nat : <<y, x>> \in OpToRel(<, Nat) <=> y < x
  BY Zenon DEF OpToRel
<1>3. \E R : /\ \E x \in T : \A y \in T : ~(<<y, x>> \in R)
             /\ \A x, y \in Nat : <<y, x>> \in R <=> y < x
  BY <1>1, <1>2, Zenon
<1>4. PICK R : /\ \E x \in T : \A y \in T : ~(<<y, x>> \in R)
               /\ \A x, y \in Nat : <<y, x>> \in R <=> y < x
  BY <1>3
<1>5. PICK x \in T : \A y \in T : ~(<<y, x>> \in R)
  BY <1>4
<1>6. ASSUME NEW y \in T PROVE x <= y
  <2>1. ~(y < x)
    BY <1>4, <1>5
  <2>2. x \in Nat /\ y \in Nat
    OBVIOUS
  <2>. QED  BY <2>1, <2>2
<1>. QED  BY <1>6

\* A set that holds 0, and each number with the one before, holds all up to m.
LEMMA UpTo ==
  ASSUME NEW m \in Nat, NEW T, 0 \in T, \A n \in 1..m : n - 1 \in T => n \in T
  PROVE  \A n \in 0..m : n \in T
<1>. DEFINE Missing == {n \in 0..m : n \notin T}
<1>1. Missing \in SUBSET Nat
  OBVIOUS
<1>2. SUFFICES ASSUME Missing # {} PROVE FALSE
  OBVIOUS
<1>3. PICK n \in Missing : \A k \in Missing : n <= k
  <2>. HIDE DEF Missing
  <2>. QED  BY <1>1, <1>2, LeastNat
<1>4. n \in 1..m /\ n - 1 \in 0..m
  BY <1>3
<1>5. n - 1 \notin Missing
  BY <1>3, <1>4
<1>. QED  BY <1>3, <1>4, <1>5

Goes(f, m, D, first, g) ==
  /\ f \in [0..m -> D]
  /\ f[0] = first /\ \A n \in 1..m : f[n] = g[<<n, f[n - 1]>>]

\* A function that is defined by steps exists.
LEMMA StepByStep ==
  ASSUME NEW m, m \in Nat, NEW D, NEW first, first \in D, NEW g, g \in [(1..m) \X D -> D]
  PROVE  \E f : Goes(f, m, D, first, g)
<1>. DEFINE Good(f, k) == f[0] = first /\ \A n \in 1..k : f[n] = g[<<n, f[n - 1]>>]
            T == {k \in 0..m : \E f \in [0..k -> D] : Good(f, k)}
<1>1. 0 \in T
  <2>. DEFINE f == [i \in 0..0 |-> first]
  <2>1. f \in [0..0 -> D] /\ f[0] = first
    OBVIOUS
  <2>. HIDE DEF f
  <2>2. Good(f, 0) /\ 0 \in 0..m
    BY <2>1
  <2>. QED  BY <2>1, <2>2
<1>2. ASSUME NEW n \in 1..m, n - 1 \in T PROVE n \in T
  <2>1. PICK f \in [0..(n - 1) -> D] : Good(f, n - 1)
    BY <1>2
  <2>2. n - 1 \in 0..(n - 1) /\ n - 1 \in Nat /\ n \in 0..m
    OBVIOUS
  <2>3. f[n - 1] \in D /\ <<n, f[n - 1]>> \in (1..m) \X D
    BY <2>1, <2>2
  <2>. DEFINE h == [i \in 0..n |-> IF i = n THEN g[<<n, f[n - 1]>>] ELSE f[i]]
  <2>4. h \in [0..n -> D]
    <3>1. g[<<n, f[n - 1]>>] \in D
      BY <2>3
    <3>2. \A i \in 0..n : i # n => i \in 0..(n - 1)
      OBVIOUS
    <3>. QED  BY <3>1, <3>2
  <2>5. \A i \in 0..(n - 1) : h[i] = f[i]
    OBVIOUS
  <2>6. h[n] = g[<<n, f[n - 1]>>]
    OBVIOUS
  <2>. HIDE DEF h
  <2>7. h[0] = first
    BY <2>1, <2>5
  <2>8. ASSUME NEW i \in 1..n PROVE h[i] = g[<<i, h[i - 1]>>]
    <3>1. i - 1 \in 0..(n - 1)
      OBVIOUS
    <3>2. CASE i = n
      BY <2>5, <2>6, <3>1, <3>2
    <3>3. CASE i # n
      <4>1. i \in 1..(n - 1) /\ i \in 0..(n - 1)
        BY <3>3
      <4>. QED  BY <2>1, <2>5, <3>1, <4>1
    <3>. QED  BY <3>2, <3>3
  <2>9. Good(h, n)
    BY <2>7, <2>8
  <2>. QED  BY <2>2, <2>4, <2>9
<1>. HIDE DEF T
<1>3. \A n \in 0..m : n \in T
  BY <1>1, <1>2, UpTo
<1>. QED  BY <1>3 DEF T, Goes

-----------------------------------------------------------------------------
(* Evidence and answers (Retrieval).                                       *)

\* The corpus is finite, chunks have a document and sizes are numbers; the filters of
\* a call name documents.
CorpusGiven ==
  /\ IsFiniteSet(Documents) /\ IsFiniteSet(Chunks)
  /\ \A c \in Chunks : DocumentOf[c] \in Documents /\ TokensOf[c] \in Nat
  /\ Admissions \subseteq SUBSET Documents
  /\ \A papers \in Shortlists : IsList(papers)
  /\ {Limit, PaperLimit, PerWork, Candidates} \subseteq Nat
  /\ {ContextBudget, HeaderTokens, MinContent} \subseteq Nat

Distinct(s) == \A i, j \in 1..Len(s) : s[i] = s[j] => i = j

\* Everything in s is in t.
Within(s, t) == \A i \in 1..Len(s) : \E j \in 1..Len(t) : s[i] = t[j]

\* A list of chunks, each once.
Ranked(s) == IsList(s) /\ Distinct(s)

\* The instance counts as everyone does.
LEMMA SameCount ==
  ASSUME NEW S
  PROVE  Question!Cardinality(S) = Cardinality(S)
  BY DEF Question!Cardinality, Cardinality

LEMMA SeqsAreRanked ==
  ASSUME NEW X, IsFiniteSet(X), NEW r \in Question!SetToSeqs(X)
  PROVE  Ranked(r) /\ (\A i \in 1..Len(r) : r[i] \in X)
<1>. DEFINE n == Cardinality(X)
<1>1. n \in Nat
  BY FS_CardinalityType
<1>2. r \in [1..n -> X] /\ \A i, j \in 1..n : i # j => r[i] # r[j]
  BY SameCount, Zenon DEF Question!SetToSeqs
<1>3. r = [i \in 1..n |-> r[i]]
  BY <1>2
<1>. HIDE DEF n
<1>4. IsList(r) /\ Len(r) = n
  BY <1>1, <1>3, IsAList
<1>. QED  BY <1>2, <1>4 DEF Ranked, Distinct

LEMMA TakeIs ==
  ASSUME NEW s, IsList(s), NEW n \in Nat
  PROVE  /\ IsList(Question!Take(s, n)) /\ Len(Question!Take(s, n)) <= n
         /\ Len(Question!Take(s, n)) \in 0..Len(s)
         /\ \A i \in 1..Len(Question!Take(s, n)) : Question!Take(s, n)[i] = s[i]
<1>. DEFINE k == IF Len(s) < n THEN Len(s) ELSE n
<1>1. Len(s) \in Nat
  BY ListIs
<1>2. k \in 0..Len(s) /\ k <= n
  BY <1>1
<1>3. Question!Take(s, n) = SubSeq(s, 1, k)
  BY DEF Question!Take
<1>. HIDE DEF k
<1>. QED  BY <1>2, <1>3, PrefixList

LEMMA TakeIsRanked ==
  ASSUME NEW s, Ranked(s), NEW n \in Nat
  PROVE  Ranked(Question!Take(s, n)) /\ Within(Question!Take(s, n), s)
<1>. DEFINE t == Question!Take(s, n)
<1>1. /\ IsList(t) /\ Len(t) \in 0..Len(s)
      /\ \A i \in 1..Len(t) : t[i] = s[i]
  BY TakeIs DEF Ranked
<1>2. Len(s) \in Nat
  BY ListIs DEF Ranked
<1>. HIDE DEF t
<1>3. \A i \in 1..Len(t) : i \in 1..Len(s)
  BY <1>1, <1>2
<1>4. Ranked(t) /\ Within(t, s)
  BY <1>1, <1>3 DEF Ranked, Distinct, Within
<1>. QED  BY <1>4 DEF t

LEMMA WithinTransitive ==
  ASSUME NEW s, NEW t, NEW u, Within(s, t), Within(t, u)
  PROVE  Within(s, u)
  BY DEF Within

\* A list without repetitions has no more of a work than the list it comes from.
LEMMA FewerOfWork ==
  ASSUME NEW s, Ranked(s), NEW t, IsList(t), Within(s, t), NEW w
  PROVE  Cardinality(Question!OfWork(s, w)) <= Cardinality(Question!OfWork(t, w))
<1>. DEFINE A == Question!OfWork(s, w)
            B == Question!OfWork(t, w)
            place == [i \in A |-> CHOOSE j \in 1..Len(t) : s[i] = t[j]]
<1>1. DOMAIN s = 1..Len(s) /\ DOMAIN t = 1..Len(t) /\ Len(t) \in Nat
  BY ListIs DEF Ranked
<1>2. \A i \in A : i \in 1..Len(s) /\ place[i] \in 1..Len(t) /\ s[i] = t[place[i]]
  BY <1>1 DEF Within, Question!OfWork
<1>3. place \in [A -> B]
  BY <1>1, <1>2 DEF Question!OfWork
<1>. HIDE DEF place
<1>4. \A i, j \in A : place[i] = place[j] => i = j
  <2>. SUFFICES ASSUME NEW i \in A, NEW j \in A, place[i] = place[j] PROVE i = j
    OBVIOUS
  <2>1. i \in 1..Len(s) /\ j \in 1..Len(s) /\ s[i] = s[j]
    BY <1>2
  <2>. QED  BY <2>1 DEF Ranked, Distinct
<1>5. IsFiniteSet(B)
  <2>1. IsFiniteSet(1..Len(t))
    BY <1>1, FS_Interval
  <2>2. B \subseteq 1..Len(t)
    BY <1>1 DEF Question!OfWork
  <2>. QED  BY <2>1, <2>2, FS_Subset
<1>. HIDE DEF A, B
<1>6. place \in Injection(A, B)
  BY <1>3, <1>4 DEF Injection, IsInjective
<1>7. Cardinality(A) <= Cardinality(B)
  BY <1>5, <1>6, FS_Injection
<1>. QED  BY <1>7 DEF A, B

-----------------------------------------------------------------------------
(* The first items of each work, and what governance selects.              *)

\* An index more in a work's places.
LEMMA AppendOfWork ==
  ASSUME NEW s, IsList(s), NEW c, NEW w
  PROVE  /\ IsFiniteSet(Question!OfWork(s, w))
         /\ Question!WorkOfChunk(c) # w =>
              Question!OfWork(Append(s, c), w) = Question!OfWork(s, w)
         /\ Question!WorkOfChunk(c) = w =>
              Cardinality(Question!OfWork(Append(s, c), w))
                = Cardinality(Question!OfWork(s, w)) + 1
<1>. DEFINE a == Append(s, c)
            A == Question!OfWork(a, w)
            B == Question!OfWork(s, w)
<1>1. DOMAIN s = 1..Len(s) /\ Len(s) \in Nat
  BY ListIs
<1>2. /\ IsList(a) /\ Len(a) = Len(s) + 1
      /\ \A i \in 1..Len(s) : a[i] = s[i]
      /\ a[Len(s) + 1] = c
  BY AppendList
<1>. HIDE DEF a
<1>3. DOMAIN a = 1..(Len(s) + 1)
  BY <1>2, ListIs
<1>4. \A i : i \in 1..(Len(s) + 1) <=> i \in 1..Len(s) \/ i = Len(s) + 1
  BY <1>1
<1>5. IsFiniteSet(B)
  <2>1. IsFiniteSet(1..Len(s)) /\ B \subseteq 1..Len(s)
    BY <1>1, FS_Interval DEF Question!OfWork
  <2>. QED  BY <2>1, FS_Subset
<1>6. ASSUME Question!WorkOfChunk(c) # w PROVE A = B
  BY <1>1, <1>2, <1>3, <1>4, <1>6 DEF Question!OfWork
<1>7. ASSUME Question!WorkOfChunk(c) = w PROVE Cardinality(A) = Cardinality(B) + 1
  <2>1. A = B \cup {Len(s) + 1}
    BY <1>1, <1>2, <1>3, <1>4, <1>7 DEF Question!OfWork
  <2>2. Len(s) + 1 \notin B
    BY <1>1 DEF Question!OfWork
  <2>. HIDE DEF A, B
  <2>. QED  BY <1>5, <2>1, <2>2, FS_AddElement
<1>. QED  BY <1>5, <1>6, <1>7 DEF a

LEMMA EmptyOfWork ==
  ASSUME NEW w
  PROVE  Cardinality(Question!OfWork(<<>>, w)) = 0
<1>1. Question!OfWork(<<>>, w) = {}
  BY DEF Question!OfWork
<1>. QED  BY <1>1, FS_EmptySet

\* An item more of a list without repetitions.
LEMMA AppendRanked ==
  ASSUME NEW s, Ranked(s), NEW ranked, Ranked(ranked), NEW n \in 1..Len(ranked),
         \A i \in 1..Len(s) : \E j \in 1..(n - 1) : s[i] = ranked[j]
  PROVE  /\ Ranked(Append(s, ranked[n])) /\ Len(Append(s, ranked[n])) = Len(s) + 1
         /\ \A i \in 1..(Len(s) + 1) : \E j \in 1..n : Append(s, ranked[n])[i] = ranked[j]
<1>. DEFINE a == Append(s, ranked[n])
<1>1. Len(s) \in Nat /\ Len(ranked) \in Nat
  BY ListIs DEF Ranked
<1>2. /\ IsList(a) /\ Len(a) = Len(s) + 1
      /\ \A i \in 1..Len(s) : a[i] = s[i]
      /\ a[Len(s) + 1] = ranked[n]
  BY AppendList DEF Ranked
<1>. HIDE DEF a
<1>3. \A i \in 1..(Len(s) + 1) : i \in 1..Len(s) \/ i = Len(s) + 1
  BY <1>1
<1>4. \A i \in 1..Len(s) : s[i] # ranked[n]
  <2>. SUFFICES ASSUME NEW i \in 1..Len(s), s[i] = ranked[n] PROVE FALSE
    OBVIOUS
  <2>1. PICK j \in 1..(n - 1) : s[i] = ranked[j]
    OBVIOUS
  <2>2. j \in 1..Len(ranked) /\ j # n
    BY <1>1
  <2>. QED  BY <2>1, <2>2 DEF Ranked, Distinct
<1>5. Distinct(a)
  <2>. SUFFICES ASSUME NEW i \in 1..(Len(s) + 1), NEW j \in 1..(Len(s) + 1), a[i] = a[j]
       PROVE  i = j
    BY <1>2 DEF Distinct
  <2>1. Distinct(s)
    BY DEF Ranked
  <2>. QED  BY <1>2, <1>3, <1>4, <2>1 DEF Distinct
<1>6. \A i \in 1..(Len(s) + 1) : \E j \in 1..n : a[i] = ranked[j]
  <2>. TAKE i \in 1..(Len(s) + 1)
  <2>1. CASE i \in 1..Len(s)
    <3>1. PICK j \in 1..(n - 1) : s[i] = ranked[j]
      BY <2>1
    <3>2. j \in 1..n
      BY <1>1
    <3>. QED  BY <1>2, <2>1, <3>1, <3>2
  <2>2. CASE i = Len(s) + 1
    BY <1>1, <1>2, <2>2
  <2>. QED  BY <1>3, <2>1, <2>2
<1>. QED  BY <1>2, <1>5, <1>6 DEF Ranked, a

LEMMA FirstOfEachIs ==
  ASSUME NEW ranked, Ranked(ranked), NEW most \in Nat
  PROVE  LET first == Question!FirstOfEach(ranked, most) IN
         /\ Ranked(first) /\ Within(first, ranked)
         /\ \A w : Cardinality(Question!OfWork(first, w)) <= most
<1>. DEFINE m == Len(ranked)
            Steps(f) == f = [i \in 0..m |->
              IF i = 0 THEN <<>> ELSE Question!KeepItem(f[i - 1], ranked[i], most)]
            kept == CHOOSE f : Steps(f)
            S == {ranked[i] : i \in 1..m}
            g == [x \in (1..m) \X Seq(S) |-> Question!KeepItem(x[2], ranked[x[1]], most)]
<1>1. m \in Nat
  BY ListIs DEF Ranked
<1>2. g \in [(1..m) \X Seq(S) -> Seq(S)]
  <2>1. ASSUME NEW i \in 1..m, NEW s \in Seq(S)
        PROVE  Question!KeepItem(s, ranked[i], most) \in Seq(S)
    <3>1. Append(s, ranked[i]) \in Seq(S)
      BY AppendProperties
    <3>. QED  BY <3>1 DEF Question!KeepItem
  <2>. QED  BY <2>1
<1>3. \E f : Steps(f)
  <2>. DEFINE D == Seq(S)
              empty == <<>>
  <2>1. empty \in D /\ g \in [(1..m) \X D -> D]
    BY <1>2, EmptySeq
  <2>2. PICK f : Goes(f, m, D, empty, g)
    <3>. HIDE DEF D, empty, g, m, Steps, kept, S
    <3>. QED  BY <1>1, <2>1, StepByStep
  <2>3. ASSUME NEW n \in 1..m PROVE f[n] = Question!KeepItem(f[n - 1], ranked[n], most)
    <3>1. n - 1 \in 0..m
      BY <1>1
    <3>2. <<n, f[n - 1]>> \in (1..m) \X Seq(S)
      BY <2>2, <3>1 DEF Goes
    <3>. QED  BY <2>2, <3>2 DEF g, Goes
  <2>4. \A n \in 0..m : n = 0 \/ n \in 1..m
    BY <1>1
  <2>5. Steps(f)
    BY <2>2, <2>3, <2>4 DEF Goes
  <2>. QED  BY <2>5
<1>4. Steps(kept)
  BY <1>3
<1>5. Question!FirstOfEach(ranked, most) = kept[m]
  BY DEF Question!FirstOfEach
<1>6. kept[0] = <<>> /\ \A n \in 1..m : kept[n] = Question!KeepItem(kept[n - 1], ranked[n], most)
  <2>. HIDE DEF kept
  <2>1. kept = [i \in 0..m |->
              IF i = 0 THEN <<>> ELSE Question!KeepItem(kept[i - 1], ranked[i], most)]
    BY <1>4
  <2>2. 0 \in 0..m /\ \A n \in 1..m : n \in 0..m /\ n # 0
    BY <1>1
  <2>. QED  BY <2>1, <2>2
<1>. DEFINE Good(s, n) ==
       /\ Ranked(s) /\ \A i \in 1..Len(s) : \E j \in 1..n : s[i] = ranked[j]
       /\ \A w : Cardinality(Question!OfWork(s, w)) <= most
            T == {n \in 0..m : Good(kept[n], n)}
<1>. HIDE DEF kept, Steps, g
<1>7. 0 \in T
  <2>1. Good(<<>>, 0)
    BY EmptyList, EmptyOfWork DEF Ranked, Distinct
  <2>. QED  BY <1>1, <1>6, <2>1
<1>8. ASSUME NEW n \in 1..m, n - 1 \in T PROVE n \in T
  <2>. DEFINE s == kept[n - 1]
  <2>1. Good(s, n - 1) /\ kept[n] = Question!KeepItem(s, ranked[n], most)
    BY <1>6, <1>8
  <2>. HIDE DEF s
  <2>. DEFINE c == ranked[n]
  <2>2. CASE Cardinality(Question!OfWork(s, Question!WorkOfChunk(c))) < most
    <3>1. kept[n] = Append(s, c)
      BY <2>1, <2>2, SameCount DEF Question!KeepItem
    <3>2. /\ Ranked(Append(s, c)) /\ Len(Append(s, c)) = Len(s) + 1
          /\ \A i \in 1..(Len(s) + 1) : \E j \in 1..n : Append(s, c)[i] = ranked[j]
      BY <2>1, AppendRanked
    <3>3. ASSUME NEW w PROVE Cardinality(Question!OfWork(Append(s, c), w)) <= most
      <4>1. IsList(s) /\ Cardinality(Question!OfWork(s, w)) <= most
        BY <2>1 DEF Ranked
      <4>2. IsFiniteSet(Question!OfWork(s, w))
        BY <4>1, AppendOfWork
      <4>3. Cardinality(Question!OfWork(s, w)) \in Nat
        BY <4>2, FS_CardinalityType
      <4>4. CASE Question!WorkOfChunk(c) = w
        BY <2>2, <4>1, <4>3, <4>4, AppendOfWork
      <4>5. CASE Question!WorkOfChunk(c) # w
        BY <4>1, <4>5, AppendOfWork
      <4>. QED  BY <4>4, <4>5
    <3>4. Good(kept[n], n)
      BY <3>1, <3>2, <3>3
    <3>5. n \in 0..m
      BY <1>1
    <3>. QED  BY <3>4, <3>5
  <2>3. CASE ~(Cardinality(Question!OfWork(s, Question!WorkOfChunk(c))) < most)
    <3>1. kept[n] = s
      BY <2>1, <2>3, SameCount DEF Question!KeepItem
    <3>2. \A j \in 1..(n - 1) : j \in 1..n
      BY <1>1
    <3>. QED  BY <1>1, <2>1, <3>1, <3>2
  <2>. QED  BY <2>2, <2>3
<1>. HIDE DEF T
<1>9. m \in T
  <2>1. \A n \in 0..m : n \in T
    BY <1>1, <1>7, <1>8, UpTo
  <2>. QED  BY <1>1, <2>1
<1>10. Good(kept[m], m)
  BY <1>9 DEF T
<1>11. Within(kept[m], ranked)
  BY <1>10 DEF Within
<1>. QED  BY <1>5, <1>10, <1>11

LEMMA SelectedIs ==
  ASSUME NEW ranked, Ranked(ranked), Limit \in Nat
  PROVE  LET selected == Question!Selected(ranked) IN
         Ranked(selected) /\ Within(selected, ranked) /\ Len(selected) <= Limit
<1>. DEFINE m == Len(ranked)
            Steps(f) == f = [i \in 0..m |->
              IF i = 0 THEN <<>> ELSE Question!SelectItem(f[i - 1], ranked[i])]
            selected == CHOOSE f : Steps(f)
            S == {ranked[i] : i \in 1..m}
            g == [x \in (1..m) \X Seq(S) |-> Question!SelectItem(x[2], ranked[x[1]])]
<1>1. m \in Nat
  BY ListIs DEF Ranked
<1>2. g \in [(1..m) \X Seq(S) -> Seq(S)]
  <2>1. ASSUME NEW i \in 1..m, NEW s \in Seq(S)
        PROVE  Question!SelectItem(s, ranked[i]) \in Seq(S)
    <3>1. Append(s, ranked[i]) \in Seq(S)
      BY AppendProperties
    <3>. QED  BY <3>1 DEF Question!SelectItem
  <2>. QED  BY <2>1
<1>3. \E f : Steps(f)
  <2>. DEFINE D == Seq(S)
              empty == <<>>
  <2>1. empty \in D /\ g \in [(1..m) \X D -> D]
    BY <1>2, EmptySeq
  <2>2. PICK f : Goes(f, m, D, empty, g)
    <3>. HIDE DEF D, empty, g, m, Steps, selected, S
    <3>. QED  BY <1>1, <2>1, StepByStep
  <2>3. ASSUME NEW n \in 1..m PROVE f[n] = Question!SelectItem(f[n - 1], ranked[n])
    <3>1. n - 1 \in 0..m
      BY <1>1
    <3>2. <<n, f[n - 1]>> \in (1..m) \X Seq(S)
      BY <2>2, <3>1 DEF Goes
    <3>. QED  BY <2>2, <3>2 DEF g, Goes
  <2>4. \A n \in 0..m : n = 0 \/ n \in 1..m
    BY <1>1
  <2>5. Steps(f)
    BY <2>2, <2>3, <2>4 DEF Goes
  <2>. QED  BY <2>5
<1>4. Steps(selected)
  BY <1>3
<1>5. Question!Selected(ranked) = selected[m]
  BY DEF Question!Selected
<1>6. /\ selected[0] = <<>>
      /\ \A n \in 1..m : selected[n] = Question!SelectItem(selected[n - 1], ranked[n])
  <2>. HIDE DEF selected
  <2>1. selected = [i \in 0..m |->
              IF i = 0 THEN <<>> ELSE Question!SelectItem(selected[i - 1], ranked[i])]
    BY <1>4
  <2>2. 0 \in 0..m /\ \A n \in 1..m : n \in 0..m /\ n # 0
    BY <1>1
  <2>. QED  BY <2>1, <2>2
<1>. DEFINE Good(s, n) ==
       /\ Ranked(s) /\ \A i \in 1..Len(s) : \E j \in 1..n : s[i] = ranked[j]
       /\ Len(s) <= Limit
            T == {n \in 0..m : Good(selected[n], n)}
<1>. HIDE DEF selected, Steps, g
<1>7. 0 \in T
  <2>1. Good(<<>>, 0)
    BY EmptyList DEF Ranked, Distinct
  <2>. QED  BY <1>1, <1>6, <2>1
<1>8. ASSUME NEW n \in 1..m, n - 1 \in T PROVE n \in T
  <2>. DEFINE s == selected[n - 1]
              c == ranked[n]
  <2>1. Good(s, n - 1) /\ selected[n] = Question!SelectItem(s, c)
    BY <1>6, <1>8
  <2>. HIDE DEF s
  <2>2. selected[n] = s \/ (selected[n] = Append(s, c) /\ Len(s) < Limit)
    BY <2>1 DEF Question!SelectItem
  <2>3. CASE selected[n] = Append(s, c) /\ Len(s) < Limit
    <3>1. /\ Ranked(Append(s, c)) /\ Len(Append(s, c)) = Len(s) + 1
          /\ \A i \in 1..(Len(s) + 1) : \E j \in 1..n : Append(s, c)[i] = ranked[j]
      BY <2>1, AppendRanked
    <3>2. Len(s) \in Nat
      BY <2>1, ListIs DEF Ranked
    <3>3. Good(selected[n], n)
      BY <2>3, <3>1, <3>2
    <3>. QED  BY <1>1, <3>3
  <2>4. CASE selected[n] = s
    <3>1. \A j \in 1..(n - 1) : j \in 1..n
      BY <1>1
    <3>2. Good(selected[n], n)
      BY <2>1, <2>4, <3>1
    <3>. QED  BY <1>1, <3>2
  <2>. QED  BY <2>2, <2>3, <2>4
<1>. HIDE DEF T
<1>9. m \in T
  <2>1. \A n \in 0..m : n \in T
    BY <1>1, <1>7, <1>8, UpTo
  <2>. QED  BY <1>1, <2>1
<1>10. Good(selected[m], m)
  BY <1>9 DEF T
<1>11. Within(selected[m], ranked)
  BY <1>10 DEF Within
<1>. QED  BY <1>5, <1>10, <1>11

-----------------------------------------------------------------------------
(* The tokens a context uses.                                              *)

\* f adds up the tokens of the first items.
AddsUp(f, items) ==
  /\ f \in [0..Len(items) -> Int] /\ f[0] = 0
  /\ \A n \in 1..Len(items) : f[n] = f[n - 1] + items[n].tokens

LEMMA UsedAddsUp ==
  ASSUME NEW items, IsList(items), \A i \in 1..Len(items) : items[i].tokens \in Int
  PROVE  \E f : AddsUp(f, items) /\ Question!Used(items) = f[Len(items)]
<1>. DEFINE m == Len(items)
            Steps(f) == f = [i \in 0..m |-> IF i = 0 THEN 0 ELSE f[i - 1] + items[i].tokens]
            used == CHOOSE f : Steps(f)
            g == [x \in (1..m) \X Int |-> x[2] + items[x[1]].tokens]
<1>1. m \in Nat
  BY ListIs
<1>2. g \in [(1..m) \X Int -> Int]
  OBVIOUS
<1>3. \E f : Steps(f)
  <2>. DEFINE D == Int
              zero == 0
  <2>1. zero \in D /\ g \in [(1..m) \X D -> D]
    BY <1>2
  <2>2. PICK f : Goes(f, m, D, zero, g)
    <3>. HIDE DEF D, zero, g, m, Steps, used
    <3>. QED  BY <1>1, <2>1, StepByStep
  <2>3. ASSUME NEW n \in 1..m PROVE f[n] = f[n - 1] + items[n].tokens
    <3>1. n - 1 \in 0..m
      BY <1>1
    <3>2. <<n, f[n - 1]>> \in (1..m) \X Int
      BY <2>2, <3>1 DEF Goes
    <3>. QED  BY <2>2, <3>2 DEF g, Goes
  <2>4. \A n \in 0..m : n = 0 \/ n \in 1..m
    BY <1>1
  <2>5. Steps(f)
    BY <2>2, <2>3, <2>4 DEF Goes
  <2>. QED  BY <2>5
<1>4. Steps(used)
  BY <1>3
<1>5. Question!Used(items) = used[m]
  BY DEF Question!Used
<1>. HIDE DEF used, g
<1>6. used[0] = 0 /\ \A n \in 1..m : used[n] = used[n - 1] + items[n].tokens
  <2>1. used = [i \in 0..m |-> IF i = 0 THEN 0 ELSE used[i - 1] + items[i].tokens]
    BY <1>4
  <2>2. 0 \in 0..m /\ \A n \in 1..m : n \in 0..m /\ n # 0
    BY <1>1
  <2>. QED  BY <2>1, <2>2
<1>7. \A n \in 0..m : used[n] \in Int
  <2>. DEFINE T == {n \in 0..m : used[n] \in Int}
  <2>1. 0 \in T
    BY <1>1, <1>6
  <2>2. \A n \in 1..m : n - 1 \in T => n \in T
    BY <1>1, <1>6
  <2>. HIDE DEF T
  <2>3. \A n \in 0..m : n \in T
    BY <1>1, <2>1, <2>2, UpTo
  <2>. QED  BY <2>3 DEF T
<1>8. used = [n \in 0..m |-> used[n]]
  BY <1>4
<1>9. AddsUp(used, items)
  BY <1>6, <1>7, <1>8 DEF AddsUp
<1>. QED  BY <1>5, <1>9

LEMMA UsedEmpty == Question!Used(<<>>) = 0
<1>1. PICK f : AddsUp(f, <<>>) /\ Question!Used(<<>>) = f[Len(<<>>)]
  <2>1. IsList(<<>>) /\ \A i \in 1..Len(<<>>) : <<>>[i].tokens \in Int
    BY EmptyList
  <2>. QED  BY <2>1, UsedAddsUp
<1>. QED  BY <1>1, EmptyList DEF AddsUp

LEMMA UsedAppend ==
  ASSUME NEW items, IsList(items), \A i \in 1..Len(items) : items[i].tokens \in Int,
         NEW item, item.tokens \in Int
  PROVE  /\ Question!Used(items) \in Int
         /\ Question!Used(Append(items, item)) = Question!Used(items) + item.tokens
<1>. DEFINE more == Append(items, item)
            m == Len(items)
<1>1. m \in Nat
  BY ListIs
<1>2. /\ IsList(more) /\ Len(more) = m + 1
      /\ \A i \in 1..m : more[i] = items[i]
      /\ more[m + 1] = item
  BY AppendList
<1>. HIDE DEF more
<1>3. \A i \in 1..(m + 1) : i \in 1..m \/ i = m + 1
  BY <1>1
<1>4. \A i \in 1..(m + 1) : more[i].tokens \in Int
  BY <1>2, <1>3
<1>5. PICK f : AddsUp(f, items) /\ Question!Used(items) = f[m]
  BY UsedAddsUp
<1>6. PICK h : AddsUp(h, more) /\ Question!Used(more) = h[m + 1]
  BY <1>2, <1>4, UsedAddsUp
<1>. HIDE DEF m
<1>7. /\ f \in [0..m -> Int] /\ f[0] = 0
      /\ \A n \in 1..m : f[n] = f[n - 1] + items[n].tokens
      /\ h[0] = 0
      /\ \A n \in 1..(m + 1) : h[n] = h[n - 1] + more[n].tokens
  BY <1>2, <1>5, <1>6 DEF AddsUp, m
<1>. DEFINE T == {n \in 0..m : h[n] = f[n]}
<1>8. 0 \in T
  BY <1>1, <1>7
<1>9. ASSUME NEW n \in 1..m, n - 1 \in T PROVE n \in T
  <2>1. n \in 1..(m + 1) /\ n \in 0..m /\ more[n] = items[n]
    BY <1>1, <1>2
  <2>2. h[n] = h[n - 1] + more[n].tokens /\ f[n] = f[n - 1] + items[n].tokens
    BY <1>7, <2>1
  <2>. QED  BY <1>9, <2>1, <2>2
<1>. HIDE DEF T
<1>10. m \in T
  <2>1. \A n \in 0..m : n \in T
    BY <1>1, <1>8, <1>9, UpTo
  <2>. QED  BY <1>1, <2>1
<1>11. h[m] = f[m] /\ f[m] \in Int
  BY <1>1, <1>7, <1>10 DEF T
<1>12. h[m + 1] = h[m] + item.tokens
  <2>1. m + 1 \in 1..(m + 1) /\ (m + 1) - 1 = m
    BY <1>1
  <2>2. h[m + 1] = h[(m + 1) - 1] + more[m + 1].tokens
    BY <1>7, <2>1
  <2>. QED  BY <1>2, <2>1, <2>2
<1>13. Question!Used(items) \in Int /\ Question!Used(more) = Question!Used(items) + item.tokens
  BY <1>5, <1>6, <1>11, <1>12
<1>. QED  BY <1>13 DEF more

-----------------------------------------------------------------------------
(* The context that is packed from the results.                            *)

\* A context keeps its budget, has each text once and one document of a work.
ContextOK(items) ==
  /\ IsList(items)
  /\ \A i \in 1..Len(items) : items[i].tokens \in Int
  /\ Question!Used(items) <= ContextBudget
  /\ \A i, j \in 1..Len(items) : i # j =>
       /\ items[i].texts \cap items[j].texts = {}
       /\ Question!WorkOfChunk(items[i].chunk) = Question!WorkOfChunk(items[j].chunk) =>
            DocumentOf[items[i].chunk] = DocumentOf[items[j].chunk]

PackOK(packing, from) ==
  /\ DOMAIN packing = {"items", "full"}
  /\ ContextOK(packing.items)
  /\ \A i \in 1..Len(packing.items) : packing.items[i].chunk \in from

ContextItem(c, texts, size, cut) == [chunk |-> c, texts |-> texts, tokens |-> size, cut |-> cut]

\* The text that comes with a chunk and is not there yet.
NewTexts(items, c) == {TextOf[c]} \cup (AroundOf[c] \ Question!SeenTexts(items))

LEMMA PackCases ==
  ASSUME CorpusGiven, NEW packing, NEW c \in Chunks, Question!Used(packing.items) \in Int
  PROVE  LET items == packing.items IN
         \/ Question!Pack(packing, c) \in {packing, [packing EXCEPT !.full = TRUE]}
         \/ /\ ~Question!PassedOver(items, c)
            /\ \E size \in Int, cut \in BOOLEAN :
                 /\ Question!Used(items) + size <= ContextBudget
                 /\ Question!Pack(packing, c) =
                      [packing EXCEPT !.items =
                         Append(@, ContextItem(c, NewTexts(items, c), size, cut))]
<1>. DEFINE items == packing.items
            left == ContextBudget - Question!Used(items)
<1>1. /\ left \in Int /\ TokensOf[c] \in Nat /\ HeaderTokens \in Nat /\ MinContent \in Nat
      /\ ContextBudget \in Nat
  BY DEF CorpusGiven
<1>2. CASE packing.full \/ Len(items) >= MaxEvidence \/ Question!Closed(items)
  BY <1>2 DEF Question!Pack
<1>3. CASE ~(packing.full \/ Len(items) >= MaxEvidence \/ Question!Closed(items))
  <2>1. CASE Question!PassedOver(items, c)
    BY <1>3, <2>1 DEF Question!Pack
  <2>2. CASE ~Question!PassedOver(items, c)
    <3>1. CASE HeaderTokens + TokensOf[c] <= left
      <4>. DEFINE size == HeaderTokens + TokensOf[c]
      <4>1. size \in Int /\ Question!Used(items) + size <= ContextBudget
        BY <1>1, <3>1
      <4>2. Question!Pack(packing, c) =
              [packing EXCEPT !.items =
                 Append(@, ContextItem(c, NewTexts(items, c), size, FALSE))]
        BY <1>3, <2>2, <3>1 DEF Question!Pack, ContextItem, NewTexts
      <4>3. FALSE \in BOOLEAN
        OBVIOUS
      <4>. HIDE DEF size
      <4>. QED  BY <2>2, <4>1, <4>2, <4>3
    <3>2. CASE ~(HeaderTokens + TokensOf[c] <= left) /\ HeaderTokens + MinContent <= left
      <4>1. left \in Int /\ Question!Used(items) + left <= ContextBudget
        BY <1>1
      <4>2. Question!Pack(packing, c) =
              [packing EXCEPT !.items =
                 Append(@, ContextItem(c, NewTexts(items, c), left, TRUE))]
        BY <1>3, <2>2, <3>2 DEF Question!Pack, ContextItem, NewTexts
      <4>3. TRUE \in BOOLEAN
        OBVIOUS
      <4>. HIDE DEF left
      <4>. QED  BY <2>2, <4>1, <4>2, <4>3
    <3>3. CASE ~(HeaderTokens + TokensOf[c] <= left) /\ ~(HeaderTokens + MinContent <= left)
      BY <1>3, <2>2, <3>3 DEF Question!Pack
    <3>. QED  BY <3>1, <3>2, <3>3
  <2>. QED  BY <2>1, <2>2
<1>. QED  BY <1>2, <1>3

\* A chunk that is not passed over brings new text, and no other document of a work.
LEMMA AddToContext ==
  ASSUME NEW items, ContextOK(items), NEW c, ~Question!PassedOver(items, c),
         NEW size \in Int, NEW cut, Question!Used(items) + size <= ContextBudget
  PROVE  /\ ContextOK(Append(items, ContextItem(c, NewTexts(items, c), size, cut)))
         /\ \A i \in 1..Len(Append(items, ContextItem(c, NewTexts(items, c), size, cut))) :
              \/ Append(items, ContextItem(c, NewTexts(items, c), size, cut))[i].chunk = c
              \/ /\ i \in 1..Len(items)
                 /\ Append(items, ContextItem(c, NewTexts(items, c), size, cut))[i].chunk
                      = items[i].chunk
<1>. DEFINE texts == NewTexts(items, c)
            item == ContextItem(c, texts, size, cut)
            more == Append(items, item)
            m == Len(items)
<1>1. item.chunk = c /\ item.texts = texts /\ item.tokens = size
  BY DEF ContextItem
<1>2. IsList(items) /\ m \in Nat /\ DOMAIN items = 1..m
  BY ListIs DEF ContextOK
<1>. HIDE DEF item
<1>3. /\ IsList(more) /\ Len(more) = m + 1
      /\ \A i \in 1..m : more[i] = items[i]
      /\ more[m + 1] = item
  BY <1>2, AppendList
<1>4. Question!Used(items) \in Int /\ Question!Used(more) = Question!Used(items) + size
  BY <1>1, <1>2, UsedAppend DEF ContextOK
<1>. HIDE DEF more
<1>5. \A i \in 1..(m + 1) : i \in 1..m \/ i = m + 1
  BY <1>2
<1>6. ASSUME NEW i \in 1..m
      PROVE  /\ items[i].texts \cap texts = {}
             /\ Question!WorkOfChunk(items[i].chunk) = Question!WorkOfChunk(c) =>
                  DocumentOf[items[i].chunk] = DocumentOf[c]
  <2>1. items[i].texts \subseteq Question!SeenTexts(items)
    BY <1>2, <1>6 DEF Question!SeenTexts
  <2>2. TextOf[c] \notin Question!SeenTexts(items)
    BY DEF Question!PassedOver
  <2>3. Question!WorkOfChunk(items[i].chunk) = Question!WorkOfChunk(c) =>
          DocumentOf[items[i].chunk] = DocumentOf[c]
    BY <1>2, <1>6 DEF Question!PassedOver
  <2>. QED  BY <2>1, <2>2, <2>3 DEF NewTexts
<1>7. ASSUME NEW i \in 1..(m + 1), NEW j \in 1..(m + 1), i # j
      PROVE  /\ more[i].texts \cap more[j].texts = {}
             /\ Question!WorkOfChunk(more[i].chunk) = Question!WorkOfChunk(more[j].chunk) =>
                  DocumentOf[more[i].chunk] = DocumentOf[more[j].chunk]
  <2>1. CASE i \in 1..m /\ j \in 1..m
    BY <1>3, <1>7, <2>1 DEF ContextOK
  <2>2. CASE i \in 1..m /\ j = m + 1
    BY <1>1, <1>3, <1>6, <2>2
  <2>3. CASE i = m + 1 /\ j \in 1..m
    BY <1>1, <1>3, <1>6, <2>3
  <2>. QED  BY <1>5, <1>7, <2>1, <2>2, <2>3
<1>8. \A i \in 1..(m + 1) : more[i].tokens \in Int
  BY <1>1, <1>3, <1>5 DEF ContextOK
<1>9. ContextOK(more)
  BY <1>3, <1>4, <1>7, <1>8 DEF ContextOK
<1>10. \A i \in 1..(m + 1) : more[i].chunk = c \/ (i \in 1..m /\ more[i].chunk = items[i].chunk)
  BY <1>1, <1>3, <1>5
<1>. QED  BY <1>3, <1>9, <1>10 DEF more, item

LEMMA PackStep ==
  ASSUME CorpusGiven, NEW packing, NEW from, NEW c \in Chunks, PackOK(packing, from)
  PROVE  PackOK(Question!Pack(packing, c), from \cup {c})
<1>. DEFINE items == packing.items
            next == Question!Pack(packing, c)
<1>1. ContextOK(items) /\ DOMAIN packing = {"items", "full"}
  BY DEF PackOK
<1>2. Question!Used(items) \in Int
  <2>1. PICK f : AddsUp(f, items) /\ Question!Used(items) = f[Len(items)]
    BY <1>1, UsedAddsUp DEF ContextOK
  <2>2. Len(items) \in Nat
    BY <1>1, ListIs DEF ContextOK
  <2>. QED  BY <2>1, <2>2 DEF AddsUp
<1>. HIDE DEF next
<1>3. ASSUME next \in {packing, [packing EXCEPT !.full = TRUE]}
      PROVE  PackOK(next, from \cup {c})
  <2>1. DOMAIN next = {"items", "full"} /\ next.items = items
    BY <1>1, <1>3
  <2>. QED  BY <2>1 DEF PackOK
<1>4. ASSUME ~Question!PassedOver(items, c), NEW size \in Int, NEW cut \in BOOLEAN,
             Question!Used(items) + size <= ContextBudget,
             next = [packing EXCEPT !.items =
                       Append(@, ContextItem(c, NewTexts(items, c), size, cut))]
      PROVE  PackOK(next, from \cup {c})
  <2>. DEFINE more == Append(items, ContextItem(c, NewTexts(items, c), size, cut))
  <2>1. DOMAIN next = {"items", "full"} /\ next.items = more
    BY <1>1, <1>4
  <2>2. /\ ContextOK(more)
        /\ \A i \in 1..Len(more) :
             more[i].chunk = c \/ (i \in 1..Len(items) /\ more[i].chunk = items[i].chunk)
    BY <1>1, <1>4, AddToContext
  <2>. HIDE DEF more
  <2>3. \A i \in 1..Len(items) : items[i].chunk \in from
    BY DEF PackOK
  <2>. QED  BY <2>1, <2>2, <2>3 DEF PackOK
<1>5. \/ next \in {packing, [packing EXCEPT !.full = TRUE]}
      \/ /\ ~Question!PassedOver(items, c)
         /\ \E size \in Int, cut \in BOOLEAN :
              /\ Question!Used(items) + size <= ContextBudget
              /\ next = [packing EXCEPT !.items =
                           Append(@, ContextItem(c, NewTexts(items, c), size, cut))]
  BY <1>2, PackCases DEF next
<1>6. PackOK(next, from \cup {c})
  <2>1. CASE next \in {packing, [packing EXCEPT !.full = TRUE]}
    BY <1>3, <2>1
  <2>2. CASE next \notin {packing, [packing EXCEPT !.full = TRUE]}
    <3>1. ~Question!PassedOver(items, c)
      BY <1>5, <2>2
    <3>2. PICK size \in Int, cut \in BOOLEAN :
            /\ Question!Used(items) + size <= ContextBudget
            /\ next = [packing EXCEPT !.items =
                         Append(@, ContextItem(c, NewTexts(items, c), size, cut))]
      BY <1>5, <2>2
    <3>. QED  BY <1>4, <3>1, <3>2
  <2>. QED  BY <2>1, <2>2
<1>. QED  BY <1>6 DEF next

EmptyPacking == [items |-> <<>>, full |-> FALSE]

\* f packs the first items of a list, one after the other.
Packs(f, ranked, m) ==
  f = [i \in 0..m |-> IF i = 0 THEN EmptyPacking ELSE Question!Pack(f[i - 1], ranked[i])]

LEMMA PacksExists ==
  ASSUME NEW ranked, NEW m \in Nat
  PROVE  \E f : Packs(f, ranked, m)
<1>. DEFINE T == {k \in 0..m : \E f : Packs(f, ranked, k)}
<1>1. 0 \in T
  <2>. DEFINE f == [i \in 0..0 |-> EmptyPacking]
  <2>1. Packs(f, ranked, 0)
    BY DEF Packs
  <2>. QED  BY <2>1
<1>2. ASSUME NEW n \in 1..m, n - 1 \in T PROVE n \in T
  <2>1. PICK f : Packs(f, ranked, n - 1)
    BY <1>2
  <2>2. /\ DOMAIN f = 0..(n - 1)
        /\ \A i \in 0..(n - 1) :
             f[i] = IF i = 0 THEN EmptyPacking ELSE Question!Pack(f[i - 1], ranked[i])
    BY <2>1 DEF Packs
  <2>. DEFINE h == [i \in 0..n |->
                IF i = n THEN Question!Pack(f[n - 1], ranked[n]) ELSE f[i]]
  <2>3. /\ h = [i \in 0..n |-> h[i]]
        /\ h[n] = Question!Pack(f[n - 1], ranked[n])
        /\ \A i \in 0..(n - 1) : h[i] = f[i]
    OBVIOUS
  <2>. HIDE DEF h
  <2>4. \A i \in 0..n : h[i] = IF i = 0 THEN EmptyPacking ELSE Question!Pack(h[i - 1], ranked[i])
    <3>. TAKE i \in 0..n
    <3>1. CASE i = n
      <4>1. i # 0 /\ i - 1 = n - 1 /\ n - 1 \in 0..(n - 1)
        BY <3>1
      <4>. QED  BY <2>3, <3>1, <4>1
    <3>2. CASE i # n
      <4>1. i \in 0..(n - 1) /\ (i # 0 => i - 1 \in 0..(n - 1))
        BY <3>2
      <4>. QED  BY <2>2, <2>3, <4>1
    <3>. QED  BY <3>1, <3>2
  <2>5. Packs(h, ranked, n)
    BY <2>3, <2>4 DEF Packs
  <2>6. n \in 0..m
    OBVIOUS
  <2>. QED  BY <2>5, <2>6
<1>. HIDE DEF T
<1>3. \A n \in 0..m : n \in T
  BY <1>1, <1>2, UpTo
<1>. QED  BY <1>3 DEF T

LEMMA PackedIs ==
  ASSUME CorpusGiven, NEW ranked, IsList(ranked), \A i \in 1..Len(ranked) : ranked[i] \in Chunks
  PROVE  LET items == Question!Packed(ranked) IN
         /\ ContextOK(items)
         /\ \A i \in 1..Len(items) : \E j \in 1..Len(ranked) : items[i].chunk = ranked[j]
<1>. DEFINE m == Len(ranked)
            f == CHOOSE h : Packs(h, ranked, m)
<1>1. m \in Nat
  BY ListIs
<1>2. Packs(f, ranked, m)
  BY <1>1, PacksExists
<1>3. Question!Packed(ranked) = f[m].items
  BY DEF Question!Packed, Packs, EmptyPacking
<1>. HIDE DEF f
<1>4. f[0] = EmptyPacking /\ \A n \in 1..m : f[n] = Question!Pack(f[n - 1], ranked[n])
  <2>1. 0 \in 0..m /\ \A n \in 1..m : n \in 0..m /\ n # 0
    BY <1>1
  <2>2. f = [i \in 0..m |-> IF i = 0 THEN EmptyPacking ELSE Question!Pack(f[i - 1], ranked[i])]
    BY <1>2 DEF Packs
  <2>. QED  BY <2>1, <2>2
<1>. DEFINE From(n) == {ranked[i] : i \in 1..n}
            T == {n \in 0..m : PackOK(f[n], From(n))}
<1>5. 0 \in T
  <2>1. ContextOK(<<>>)
    BY EmptyList, UsedEmpty DEF ContextOK, CorpusGiven
  <2>2. PackOK(EmptyPacking, From(0))
    BY <2>1, EmptyList DEF PackOK, EmptyPacking
  <2>. QED  BY <1>1, <1>4, <2>2
<1>6. ASSUME NEW n \in 1..m, n - 1 \in T PROVE n \in T
  <2>1. PackOK(f[n - 1], From(n - 1)) /\ ranked[n] \in Chunks
    BY <1>6
  <2>2. PackOK(f[n], From(n - 1) \cup {ranked[n]})
    BY <1>4, <2>1, PackStep
  <2>3. From(n - 1) \cup {ranked[n]} = From(n)
    <3>1. \A i : i \in 1..n <=> i \in 1..(n - 1) \/ i = n
      BY <1>1
    <3>. QED  BY <3>1
  <2>4. n \in 0..m
    BY <1>1
  <2>. HIDE DEF From
  <2>. QED  BY <2>2, <2>3, <2>4
<1>. HIDE DEF T
<1>7. m \in T
  <2>1. \A n \in 0..m : n \in T
    BY <1>1, <1>5, <1>6, UpTo
  <2>. QED  BY <1>1, <2>1
<1>8. PackOK(f[m], From(m))
  BY <1>7 DEF T
<1>. QED  BY <1>3, <1>8 DEF PackOK

-----------------------------------------------------------------------------
(* What the searches hand on.                                              *)

\* Everything in a list is in a set.
Inside(s, X) == \A i \in 1..Len(s) : s[i] \in X

LEMMA InsideIs ==
  ASSUME NEW s, IsList(s), NEW X
  PROVE  /\ Inside(s, X) <=> Question!ToSet(s) \subseteq X
         /\ \A n \in Nat : Inside(s, X) => Inside(Question!Take(s, n), X)
<1>1. DOMAIN s = 1..Len(s) /\ Len(s) \in Nat
  BY ListIs
<1>2. Inside(s, X) <=> Question!ToSet(s) \subseteq X
  BY <1>1 DEF Inside, Question!ToSet
<1>3. ASSUME NEW n \in Nat, Inside(s, X) PROVE Inside(Question!Take(s, n), X)
  <2>1. /\ Len(Question!Take(s, n)) \in 0..Len(s)
        /\ \A i \in 1..Len(Question!Take(s, n)) : Question!Take(s, n)[i] = s[i]
    BY TakeIs
  <2>. QED  BY <1>1, <1>3, <2>1 DEF Inside
<1>. QED  BY <1>2, <1>3

LEMMA WithinInside ==
  ASSUME NEW s, NEW t, Within(s, t), NEW X, Inside(t, X)
  PROVE  Inside(s, X)
  BY DEF Within, Inside

LEMMA RankingInside ==
  ASSUME NEW X, IsFiniteSet(X), NEW r \in Question!Rankings(X) \cup {<<>>}
  PROVE  IsList(r) /\ Inside(r, X)
<1>1. CASE r = <<>>
  BY <1>1, EmptyList DEF Inside
<1>2. CASE r \in Question!Rankings(X)
  <2>1. r \in Question!SetToAllKPermutations(X)
    BY <1>2 DEF Question!Rankings
  <2>2. PICK S \in SUBSET X : r \in Question!SetToSeqs(S)
    BY <2>1 DEF Question!SetToAllKPermutations
  <2>3. IsFiniteSet(S)
    BY <2>2, FS_Subset
  <2>4. Ranked(r) /\ \A i \in 1..Len(r) : r[i] \in S
    BY <2>2, <2>3, SeqsAreRanked
  <2>. QED  BY <2>2, <2>4 DEF Ranked, Inside
<1>. QED  BY <1>1, <1>2

LEMMA FusedInside ==
  ASSUME NEW X, IsFiniteSet(X), NEW bm25, IsList(bm25), Inside(bm25, X),
         NEW dense, IsList(dense), Inside(dense, X), NEW fused \in Question!Fuse(bm25, dense)
  PROVE  Ranked(fused) /\ Inside(fused, X)
<1>. DEFINE Y == Question!ToSet(bm25) \cup Question!ToSet(dense)
<1>1. Y \subseteq X
  BY InsideIs
<1>2. IsFiniteSet(Y)
  BY <1>1, FS_Subset
<1>3. fused \in Question!SetToSeqs(Y)
  BY DEF Question!Fuse, Question!Sorted
<1>. HIDE DEF Y
<1>4. Ranked(fused) /\ \A i \in 1..Len(fused) : fused[i] \in Y
  BY <1>2, <1>3, SeqsAreRanked
<1>. QED  BY <1>1, <1>4 DEF Inside

LEMMA ReorderedInside ==
  ASSUME NEW s, Ranked(s), NEW r \in Question!SetToSeqs(Question!ToSet(s))
  PROVE  Ranked(r) /\ (\A X : Inside(s, X) => Inside(r, X))
<1>1. DOMAIN s = 1..Len(s) /\ Len(s) \in Nat
  BY ListIs DEF Ranked
<1>2. IsFiniteSet(Question!ToSet(s))
  <2>. DEFINE f == [i \in 1..Len(s) |-> s[i]]
  <2>1. f \in Surjection(1..Len(s), Question!ToSet(s))
    BY <1>1 DEF Surjection, Question!ToSet
  <2>2. IsFiniteSet(1..Len(s))
    BY <1>1, FS_Interval
  <2>. HIDE DEF f
  <2>. QED  BY <2>1, <2>2, FS_Surjection
<1>3. Ranked(r) /\ \A i \in 1..Len(r) : r[i] \in Question!ToSet(s)
  BY <1>2, SeqsAreRanked
<1>4. ASSUME NEW X, Inside(s, X) PROVE Inside(r, X)
  <2>1. Question!ToSet(s) \subseteq X
    BY <1>1, <1>4 DEF Inside, Question!ToSet
  <2>. QED  BY <1>3, <2>1 DEF Inside
<1>. QED  BY <1>3, <1>4

LEMMA BlendedInside ==
  ASSUME NEW s, Ranked(s), NEW reranked, NEW r \in Question!Blend(s, reranked)
  PROVE  Ranked(r) /\ (\A X : Inside(s, X) => Inside(r, X))
<1>1. r \in Question!SetToSeqs(Question!ToSet(s))
  BY DEF Question!Blend, Question!Sorted
<1>. QED  BY <1>1, ReorderedInside

\* What a search returns: no more than asked for, nor of a work.
LEMMA OutputIs ==
  ASSUME CorpusGiven, NEW s, Ranked(s)
  PROVE  LET r == Question!Output(s) IN
         /\ Ranked(r) /\ Len(r) <= Limit
         /\ \A X : Inside(s, X) => Inside(r, X)
         /\ \A w : Cardinality(Question!OfWork(r, w)) <= PerWork
<1>. DEFINE first == Question!FirstOfEach(s, PerWork)
            r == Question!Take(first, Limit)
<1>1. Limit \in Nat /\ PerWork \in Nat
  BY DEF CorpusGiven
<1>2. /\ Ranked(first) /\ Within(first, s)
      /\ \A w : Cardinality(Question!OfWork(first, w)) <= PerWork
  BY <1>1, FirstOfEachIs
<1>. HIDE DEF first
<1>3. Ranked(r) /\ Within(r, first) /\ Len(r) <= Limit
  BY <1>1, <1>2, TakeIs, TakeIsRanked DEF Ranked
<1>. HIDE DEF r
<1>4. ASSUME NEW w PROVE Cardinality(Question!OfWork(r, w)) <= PerWork
  <2>1. Cardinality(Question!OfWork(r, w)) <= Cardinality(Question!OfWork(first, w))
    BY <1>2, <1>3, FewerOfWork DEF Ranked
  <2>2. Cardinality(Question!OfWork(first, w)) <= PerWork
    BY <1>2
  <2>3. /\ Cardinality(Question!OfWork(r, w)) \in Nat
        /\ Cardinality(Question!OfWork(first, w)) \in Nat
    <3>1. IsFiniteSet(Question!OfWork(r, w)) /\ IsFiniteSet(Question!OfWork(first, w))
      BY <1>2, <1>3, AppendOfWork DEF Ranked
    <3>. QED  BY <3>1, FS_CardinalityType
  <2>. QED  BY <1>1, <2>1, <2>2, <2>3
<1>5. ASSUME NEW X, Inside(s, X) PROVE Inside(r, X)
  BY <1>2, <1>3, <1>5, WithinInside
<1>. QED  BY <1>3, <1>4, <1>5 DEF r, first, Question!Output

-----------------------------------------------------------------------------
(* A question, from the request to the answer.                             *)

\* The document is one of the papers that are named, or that the filters admit.
Asked(d) ==
  IF request.papers # <<>> THEN d \in Question!ToSet(Question!Take(request.papers, PaperLimit))
                           ELSE d \in request.admitted

\* The document is the one that is asked for, where that is looked at.
Matches(d) ==
  ~request.hierarchical => request.work \in {NONE, WorkOf[d]} /\ request.document \in {NONE, d}

\* Every document of the shortlist was asked for, and the scope version of the request is
\* there; a search without papers takes them all.
RequestInv ==
  /\ IsList(scopes) /\ Len(scopes) > 0
  /\ stage # "ask" =>
       /\ DOMAIN request = {"via", "mode", "hierarchical", "dense", "rerank", "work", "document",
                            "papers", "admitted", "scope", "shortlist"}
       /\ IsList(request.papers) /\ request.admitted \subseteq Documents
       /\ request.scope \in 1..Len(scopes)
       /\ ~request.hierarchical => request.papers = <<>> /\ request.admitted = Documents
       /\ \A d \in request.shortlist : Asked(d)

ListsInv == stage = "fused" => Ranked(lists.fused) /\ Inside(lists.fused, Question!Eligible)

\* Results keep the limits and answer to the request.
ResultsOK ==
  /\ Len(results) <= Limit
  /\ \A w : Cardinality(Question!OfWork(results, w)) <= PerWork
  /\ \A i \in 1..Len(results) : Asked(DocumentOf[results[i]]) /\ Matches(DocumentOf[results[i]])

ResultsInv ==
  /\ Ranked(results) /\ Inside(results, Chunks)
  /\ stage \in {"ask", "papers", "chunks", "fused"} => results = <<>>
  /\ stage \in {"ranked", "governed"} => ResultsOK
  /\ stage = "governed" =>
       \A i \in 1..Len(results) : DocumentOf[results[i]] \in scopes[request.scope]

\* The claims name sources of the context.
Cited ==
  /\ answer # <<>>
  /\ \A k \in DOMAIN answer : /\ answer[k] # <<>>
                              /\ \A n \in DOMAIN answer[k] : answer[k][n] \in DOMAIN context

AnswerInv ==
  /\ ContextOK(context)
  /\ \A i \in 1..Len(context) : \E j \in 1..Len(results) : context[i].chunk = results[j]
  /\ stage \notin {"context", "answered", "refused"} => context = <<>>
  /\ answer # NONE => stage = "answered" /\ Cited

EvidenceInv == RequestInv /\ ListsInv /\ ResultsInv /\ AnswerInv

LEMMA NothingFound ==
  ASSUME CorpusGiven
  PROVE  /\ Ranked(<<>>) /\ Inside(<<>>, Chunks) /\ Len(<<>>) <= Limit
         /\ \A w : Cardinality(Question!OfWork(<<>>, w)) <= PerWork
         /\ ContextOK(<<>>)
<1>1. IsList(<<>>) /\ Len(<<>>) = 0
  BY EmptyList
<1>2. Limit \in Nat /\ PerWork \in Nat /\ ContextBudget \in Nat
  BY DEF CorpusGiven
<1>3. \A w : Cardinality(Question!OfWork(<<>>, w)) <= PerWork
  BY <1>2, EmptyOfWork
<1>4. ContextOK(<<>>)
  BY <1>1, <1>2, UsedEmpty DEF ContextOK
<1>. QED  BY <1>1, <1>2, <1>3, <1>4 DEF Ranked, Distinct, Inside

LEMMA QuestionInit == CorpusGiven /\ Question!RetrievalInit => EvidenceInv
<1>. SUFFICES ASSUME CorpusGiven, Question!RetrievalInit PROVE EvidenceInv
  OBVIOUS
<1>1. stage = "ask" /\ results = <<>> /\ context = <<>> /\ answer = NONE /\ scopes = <<FirstScope>>
  BY DEF Question!RetrievalInit
<1>2. IsList(scopes) /\ Len(scopes) > 0
  <2>1. <<FirstScope>> \in Seq({FirstScope}) /\ Len(<<FirstScope>>) = 1
    OBVIOUS
  <2>2. IsList(<<FirstScope>>)
    BY <2>1, Zenon DEF IsList
  <2>. QED  BY <1>1, <2>1, <2>2
<1>3. Len(<<>>) = 0
  BY EmptyList
<1>. QED  BY <1>1, <1>2, <1>3, NothingFound
          DEF EvidenceInv, RequestInv, ListsInv, ResultsInv, AnswerInv

\* Where nothing is found yet, there is neither a context nor an answer.
LEMMA NothingYet ==
  ASSUME CorpusGiven, EvidenceInv, stage \in {"ask", "papers", "chunks", "fused"}, results' = <<>>,
         UNCHANGED <<context, answer>>,
         stage' \in {"papers", "chunks", "fused", "ranked", "raised"}, RequestInv', ListsInv'
  PROVE  EvidenceInv'
<1>1. context = <<>> /\ answer = NONE
  BY DEF EvidenceInv, AnswerInv
<1>2. Len(<<>>) = 0
  BY EmptyList
<1>3. ResultsInv'
  BY <1>2, NothingFound DEF ResultsInv, ResultsOK
<1>4. AnswerInv'
  BY <1>1, <1>2, NothingFound DEF AnswerInv
<1>. QED  BY <1>3, <1>4 DEF EvidenceInv

\* What is asked for, as the request has it.
Requested(r, mode, papers, admitted) ==
  /\ DOMAIN r = {"via", "mode", "hierarchical", "dense", "rerank", "work", "document",
                 "papers", "admitted", "scope", "shortlist"}
  /\ r.papers = papers /\ r.admitted = admitted
  /\ r.scope = Len(scopes) /\ r.shortlist = {}
  /\ ~r.hierarchical => mode # "hierarchical"

LEMMA RequestIs ==
  \A via, mode, accelerated, reranker, target, papers, admitted : \A ready \in BOOLEAN :
    Requested(Question!RequestFor(via, mode, ready, accelerated, reranker, target, papers,
                                  admitted), mode, papers, admitted)
<1>1. ASSUME NEW via, NEW mode, NEW accelerated, NEW reranker, NEW target, NEW papers,
             NEW admitted, NEW ready \in BOOLEAN
      PROVE  Requested(Question!RequestFor(via, mode, ready, accelerated, reranker, target,
                                           papers, admitted), mode, papers, admitted)
  BY DEF Question!RequestFor, Requested
<1>. QED  BY <1>1, Zenon

LEMMA AskKeeps == CorpusGiven /\ EvidenceInv /\ Question!Ask => EvidenceInv'
<1>. SUFFICES ASSUME CorpusGiven, EvidenceInv, Question!Ask PROVE EvidenceInv'
  OBVIOUS
<1>1. /\ stage = "ask" /\ UNCHANGED <<lists, results, context, answer, corpus, scopes, edits>>
      /\ stage' \in {"papers", "chunks", "raised"}
  BY DEF Question!Ask, Question!Environment
<1>2. PICK via \in {"command", "service"}, mode \in {"fast", "accurate", "hierarchical"},
           ready \in BOOLEAN, accelerated \in BOOLEAN, reranker \in BOOLEAN,
           target \in Targets, papers \in Shortlists, admitted \in Admissions :
        /\ IF via = "command" THEN papers = <<>> /\ admitted = Documents
                              ELSE mode = "hierarchical" /\ target = <<NONE, NONE>>
        /\ request' = Question!RequestFor(via, mode, ready, accelerated, reranker, target,
                                          papers, admitted)
  BY SMTT(60) DEF Question!Ask
<1>3. /\ DOMAIN request' = {"via", "mode", "hierarchical", "dense", "rerank", "work", "document",
                            "papers", "admitted", "scope", "shortlist"}
      /\ request'.papers = papers /\ request'.admitted = admitted
      /\ request'.scope = Len(scopes) /\ request'.shortlist = {}
      /\ ~request'.hierarchical => mode # "hierarchical"
  <2>1. Requested(request', mode, papers, admitted)
    BY <1>2, RequestIs, Zenon
  <2>. QED  BY <2>1 DEF Requested
<1>4. IsList(scopes) /\ scopes' = scopes /\ Len(scopes) \in Nat /\ Len(scopes) > 0
  BY <1>1, ListIs DEF EvidenceInv, RequestInv
<1>5. RequestInv'
  <2>1. IsList(papers) /\ admitted \subseteq Documents
    BY DEF CorpusGiven
  <2>2. ~request'.hierarchical => papers = <<>> /\ admitted = Documents
    BY <1>2, <1>3
  <2>3. Len(scopes) \in 1..Len(scopes)
    BY <1>4, ListIs
  <2>. QED  BY <1>3, <1>4, <2>1, <2>2, <2>3 DEF RequestInv
<1>. QED  BY <1>1, <1>5, NothingYet DEF EvidenceInv, ResultsInv, ListsInv

\* A shortlist of papers that were asked for.
LEMMA ShortlistKeeps ==
  ASSUME CorpusGiven, EvidenceInv, stage = "papers", NEW S, \A d \in S : Asked(d),
         Question!ShortlistIs(S), UNCHANGED <<lists, results, context, answer, corpus, scopes, edits>>
  PROVE  EvidenceInv'
<1>1. results' = <<>>
  BY DEF EvidenceInv, ResultsInv
<1>2. CASE S = {}
  <2>1. stage' = "ranked" /\ request' = request
    BY <1>2 DEF Question!ShortlistIs, Question!NoHit
  <2>2. RequestInv'
    BY <2>1 DEF EvidenceInv, RequestInv, Asked
  <2>. QED  BY <1>1, <2>1, <2>2, NothingYet DEF ListsInv
<1>3. CASE S # {}
  <2>1. stage' = "chunks" /\ request' = [request EXCEPT !.shortlist = S]
    BY <1>3 DEF Question!ShortlistIs
  <2>2. /\ DOMAIN request = {"via", "mode", "hierarchical", "dense", "rerank", "work", "document",
                             "papers", "admitted", "scope", "shortlist"}
        /\ IsList(request.papers) /\ request.admitted \subseteq Documents
        /\ request.scope \in 1..Len(scopes)
        /\ ~request.hierarchical => request.papers = <<>> /\ request.admitted = Documents
        /\ IsList(scopes) /\ Len(scopes) > 0
    BY DEF EvidenceInv, RequestInv
  <2>3. /\ DOMAIN request' = DOMAIN request /\ request'.papers = request.papers
        /\ request'.admitted = request.admitted /\ request'.scope = request.scope
        /\ request'.hierarchical = request.hierarchical /\ request'.shortlist = S
    BY <2>1, <2>2
  <2>4. \A d \in S : Asked(d)'
    BY <2>3 DEF Asked
  <2>5. RequestInv'
    BY <2>2, <2>3, <2>4 DEF RequestInv
  <2>. QED  BY <1>1, <2>1, <2>5, NothingYet DEF ListsInv
<1>. QED  BY <1>2, <1>3

LEMMA GivenPapersKeeps == CorpusGiven /\ EvidenceInv /\ Question!GivenPapers => EvidenceInv'
<1>. SUFFICES ASSUME CorpusGiven, EvidenceInv, Question!GivenPapers PROVE EvidenceInv'
  OBVIOUS
<1>. DEFINE S == Question!ToSet(Question!Take(request.papers, PaperLimit))
<1>1. /\ stage = "papers" /\ request.papers # <<>> /\ Question!ShortlistIs(S)
      /\ UNCHANGED <<lists, results, context, answer, corpus, scopes, edits>>
  BY DEF Question!GivenPapers, Question!Environment
<1>2. \A d \in S : Asked(d)
  BY <1>1 DEF Asked
<1>. HIDE DEF S
<1>. QED  BY <1>1, <1>2, ShortlistKeeps

LEMMA RankPapersKeeps == CorpusGiven /\ EvidenceInv /\ Question!RankPapers => EvidenceInv'
<1>. SUFFICES ASSUME CorpusGiven, EvidenceInv, Question!RankPapers PROVE EvidenceInv'
  OBVIOUS
<1>1. /\ stage = "papers" /\ request.papers = <<>>
      /\ UNCHANGED <<lists, results, context, answer, corpus, scopes, edits>>
  BY DEF Question!RankPapers, Question!Environment
<1>2. IsFiniteSet(request.admitted) /\ PaperLimit \in Nat
  <2>1. request.admitted \subseteq Documents /\ IsFiniteSet(Documents) /\ PaperLimit \in Nat
    BY <1>1 DEF EvidenceInv, RequestInv, CorpusGiven
  <2>. QED  BY <2>1, FS_Subset
<1>3. PICK bm25 \in Question!Rankings(request.admitted),
           dense \in IF request.dense THEN Question!Rankings(request.admitted) ELSE {<<>>} :
        \/ \E fused \in Question!Fuse(bm25, dense) :
             Question!ShortlistIs(Question!ToSet(Question!Take(fused, PaperLimit)))
        \/ dense # <<>> /\ Question!NoHit
  BY DEF Question!RankPapers
<1>4. CASE Question!NoHit
  <2>1. Question!ShortlistIs({})
    BY <1>4 DEF Question!ShortlistIs
  <2>. QED  BY <1>1, <2>1, ShortlistKeeps
<1>5. ASSUME NEW fused \in Question!Fuse(bm25, dense),
             Question!ShortlistIs(Question!ToSet(Question!Take(fused, PaperLimit)))
      PROVE  EvidenceInv'
  <2>. DEFINE S == Question!ToSet(Question!Take(fused, PaperLimit))
  <2>1. /\ IsList(bm25) /\ Inside(bm25, request.admitted)
        /\ IsList(dense) /\ Inside(dense, request.admitted)
    <3>1. bm25 \in Question!Rankings(request.admitted) \cup {<<>>}
          /\ dense \in Question!Rankings(request.admitted) \cup {<<>>}
      BY <1>3
    <3>. QED  BY <1>2, <3>1, RankingInside
  <2>2. Ranked(fused) /\ Inside(fused, request.admitted)
    BY <1>2, <2>1, FusedInside
  <2>3. S \subseteq request.admitted
    <3>1. IsList(fused) /\ IsList(Question!Take(fused, PaperLimit))
      BY <1>2, <2>2, TakeIs DEF Ranked
    <3>. QED  BY <1>2, <2>2, <3>1, InsideIs
  <2>4. \A d \in S : Asked(d)
    BY <1>1, <2>3 DEF Asked
  <2>5. Question!ShortlistIs(S)
    BY <1>5
  <2>. HIDE DEF S
  <2>. QED  BY <1>1, <2>4, <2>5, ShortlistKeeps
<1>. QED  BY <1>3, <1>4, <1>5

LEMMA SearchChunksKeeps == CorpusGiven /\ EvidenceInv /\ Question!SearchChunks => EvidenceInv'
<1>. SUFFICES ASSUME CorpusGiven, EvidenceInv, Question!SearchChunks PROVE EvidenceInv'
  OBVIOUS
<1>. DEFINE X == Question!Eligible
<1>1. /\ stage = "chunks" /\ stage' = "fused"
      /\ UNCHANGED <<request, results, context, answer, corpus, scopes, edits>>
  BY DEF Question!SearchChunks, Question!Environment
<1>2. IsFiniteSet(X) /\ Candidates \in Nat
  <2>1. X \subseteq Chunks /\ IsFiniteSet(Chunks) /\ Candidates \in Nat
    BY DEF CorpusGiven, Question!Eligible
  <2>. QED  BY <2>1, FS_Subset
<1>3. PICK bm25 \in Question!ChunkRankings(X),
           dense \in IF request.dense THEN Question!ChunkRankings(X) ELSE {<<>>} :
        \E fused \in Question!Fuse(bm25, dense) :
          lists' = [bm25 |-> bm25, dense |-> dense, fused |-> Question!Take(fused, Candidates)]
  BY DEF Question!SearchChunks
<1>4. PICK fused \in Question!Fuse(bm25, dense) :
        lists'.fused = Question!Take(fused, Candidates)
  BY <1>3
<1>5. X' = X
  BY <1>1 DEF Question!Eligible
<1>. HIDE DEF X
<1>6. /\ IsList(bm25) /\ Inside(bm25, X) /\ IsList(dense) /\ Inside(dense, X)
  <2>1. bm25 \in Question!Rankings(X) \cup {<<>>} /\ dense \in Question!Rankings(X) \cup {<<>>}
    BY <1>3 DEF Question!ChunkRankings
  <2>. QED  BY <1>2, <2>1, RankingInside
<1>7. Ranked(fused) /\ Inside(fused, X)
  BY <1>2, <1>6, FusedInside
<1>8. Ranked(lists'.fused) /\ Inside(lists'.fused, X)
  BY <1>2, <1>4, <1>7, TakeIsRanked, WithinInside
<1>9. ListsInv'
  BY <1>5, <1>8 DEF ListsInv, X
<1>10. RequestInv'
  BY <1>1 DEF EvidenceInv, RequestInv, Asked
<1>11. results' = <<>>
  BY <1>1 DEF EvidenceInv, ResultsInv
<1>. QED  BY <1>1, <1>9, <1>10, <1>11, NothingYet

\* What the filters let through answers to the request.
LEMMA EligibleIsAsked ==
  ASSUME CorpusGiven, RequestInv, stage # "ask", NEW c \in Question!Eligible
  PROVE  c \in Chunks /\ Asked(DocumentOf[c]) /\ Matches(DocumentOf[c])
<1>1. c \in Chunks /\ DocumentOf[c] \in Documents
  BY DEF Question!Eligible, CorpusGiven
<1>2. CASE request.hierarchical
  <2>1. DocumentOf[c] \in request.shortlist
    BY <1>2 DEF Question!Eligible
  <2>. QED  BY <1>1, <1>2, <2>1 DEF RequestInv, Matches
<1>3. CASE ~request.hierarchical
  <2>1. request.papers = <<>> /\ request.admitted = Documents
    BY <1>3 DEF RequestInv
  <2>2. Asked(DocumentOf[c])
    BY <1>1, <2>1 DEF Asked
  <2>3. Matches(DocumentOf[c])
    BY <1>3 DEF Matches, Question!Eligible, Question!WorkOfChunk
  <2>. QED  BY <1>1, <2>2, <2>3
<1>. QED  BY <1>2, <1>3

LEMMA RankKeeps == CorpusGiven /\ EvidenceInv /\ Question!Rank => EvidenceInv'
<1>. SUFFICES ASSUME CorpusGiven, EvidenceInv, Question!Rank PROVE EvidenceInv'
  OBVIOUS
<1>. DEFINE X == Question!Eligible
<1>1. /\ stage = "fused" /\ stage' = "ranked"
      /\ UNCHANGED <<request, context, answer, corpus, scopes, edits>>
  BY DEF Question!Rank, Question!Environment
<1>2. Ranked(lists.fused) /\ Inside(lists.fused, X)
  BY <1>1 DEF EvidenceInv, ListsInv
<1>3. \A c \in X : c \in Chunks /\ Asked(DocumentOf[c]) /\ Matches(DocumentOf[c])
  BY <1>1, EligibleIsAsked DEF EvidenceInv
<1>. HIDE DEF X
<1>4. \E order : Ranked(order) /\ Inside(order, X) /\ results' = Question!Output(order)
  <2>1. CASE results' = Question!Output(lists.fused)
    BY <1>2, <2>1
  <2>2. CASE results' # Question!Output(lists.fused)
    <3>1. PICK reranked \in Question!Reorderings(lists.fused) :
            \E order \in IF request.hierarchical THEN {reranked}
                         ELSE Question!Blend(lists.fused, reranked) :
              results' = Question!Output(order)
      BY <2>2 DEF Question!Rank
    <3>2. PICK order \in IF request.hierarchical THEN {reranked}
                         ELSE Question!Blend(lists.fused, reranked) :
            results' = Question!Output(order)
      BY <3>1
    <3>3. Ranked(reranked) /\ Inside(reranked, X)
      BY <1>2, <3>1, ReorderedInside DEF Question!Reorderings
    <3>4. CASE request.hierarchical
      BY <3>2, <3>3, <3>4
    <3>5. CASE ~request.hierarchical
      <4>1. order \in Question!Blend(lists.fused, reranked)
        BY <3>2, <3>5
      <4>2. Ranked(order) /\ Inside(order, X)
        BY <1>2, <4>1, BlendedInside
      <4>. QED  BY <3>2, <4>2
    <3>. QED  BY <3>4, <3>5
  <2>. QED  BY <2>1, <2>2
<1>5. PICK order : Ranked(order) /\ Inside(order, X) /\ results' = Question!Output(order)
  BY <1>4
<1>. DEFINE r == Question!Output(order)
<1>6. /\ Ranked(r) /\ Len(r) <= Limit /\ Inside(r, X)
      /\ \A w : Cardinality(Question!OfWork(r, w)) <= PerWork
  BY <1>5, OutputIs
<1>7. results' = r
  BY <1>5
<1>. HIDE DEF r
<1>8. Inside(r, Chunks)
  BY <1>3, <1>6 DEF Inside
<1>9. \A i \in 1..Len(r) : Asked(DocumentOf[r[i]])' /\ Matches(DocumentOf[r[i]])'
  <2>1. \A d : (Asked(d)' <=> Asked(d)) /\ (Matches(d)' <=> Matches(d))
    BY <1>1 DEF Asked, Matches
  <2>2. \A i \in 1..Len(r) : Asked(DocumentOf[r[i]]) /\ Matches(DocumentOf[r[i]])
    BY <1>3, <1>6 DEF Inside
  <2>. QED  BY <1>1, <2>2 DEF Asked, Matches
<1>10. ResultsOK'
  BY <1>6, <1>7, <1>9 DEF ResultsOK
<1>11. ResultsInv'
  BY <1>1, <1>6, <1>7, <1>8, <1>10 DEF ResultsInv
<1>12. RequestInv' /\ ListsInv'
  BY <1>1 DEF EvidenceInv, RequestInv, ListsInv, Asked
<1>13. AnswerInv'
  <2>1. context' = <<>> /\ answer' = NONE /\ Len(<<>>) = 0
    BY <1>1, EmptyList DEF EvidenceInv, AnswerInv
  <2>. QED  BY <1>1, <2>1, NothingFound DEF AnswerInv
<1>. QED  BY <1>11, <1>12, <1>13 DEF EvidenceInv

LEMMA SearchFailsKeeps == CorpusGiven /\ EvidenceInv /\ Question!SearchFails => EvidenceInv'
<1>. SUFFICES ASSUME CorpusGiven, EvidenceInv, Question!SearchFails PROVE EvidenceInv'
  OBVIOUS
<1>1. /\ stage \in {"papers", "chunks", "fused"} /\ stage' = "raised"
      /\ UNCHANGED <<request, results, context, answer, corpus, scopes, edits>>
  BY DEF Question!SearchFails, Question!Environment
<1>2. results' = <<>>
  BY <1>1 DEF EvidenceInv, ResultsInv
<1>3. RequestInv' /\ ListsInv'
  BY <1>1 DEF EvidenceInv, RequestInv, ListsInv, Asked
<1>. QED  BY <1>1, <1>2, <1>3, NothingYet

\* Governed evidence comes from the results, and each piece is verified.
LEMMA GovernKeeps == CorpusGiven /\ EvidenceInv /\ Question!Govern => EvidenceInv'
<1>. SUFFICES ASSUME CorpusGiven, EvidenceInv, Question!Govern PROVE EvidenceInv'
  OBVIOUS
<1>. DEFINE V == {c \in Question!ToSet(results) : Question!Verifiable(c)}
<1>1. /\ stage = "ranked" /\ stage' = "governed"
      /\ UNCHANGED <<request, lists, context, answer, corpus, scopes, edits>>
  BY DEF Question!Govern, Question!Environment
<1>2. PICK ranked \in Question!SetToSeqs(V) : results' = Question!Selected(ranked)
  BY DEF Question!Govern
<1>3. Ranked(results) /\ Inside(results, Chunks) /\ ResultsOK
  BY <1>1 DEF EvidenceInv, ResultsInv
<1>4. DOMAIN results = 1..Len(results)
  BY <1>3, ListIs DEF Ranked
<1>5. /\ IsFiniteSet(V)
      /\ \A c \in V : /\ DocumentOf[c] \in scopes[request.scope]
                      /\ \E i \in 1..Len(results) : c = results[i]
  <2>1. V \subseteq Chunks /\ IsFiniteSet(Chunks)
    BY <1>3, <1>4 DEF Inside, Question!ToSet, CorpusGiven
  <2>2. \A c \in V : /\ DocumentOf[c] \in scopes[request.scope]
                     /\ \E i \in 1..Len(results) : c = results[i]
    BY <1>4 DEF Question!Verifiable, Question!ToSet
  <2>. QED  BY <2>1, <2>2, FS_Subset
<1>. HIDE DEF V
<1>6. Ranked(ranked) /\ Inside(ranked, V)
  BY <1>2, <1>5, SeqsAreRanked DEF Inside
<1>. DEFINE r == Question!Selected(ranked)
<1>7. Limit \in Nat /\ PerWork \in Nat
  BY DEF CorpusGiven
<1>8. Ranked(r) /\ Len(r) <= Limit /\ Inside(r, V)
  <2>1. Ranked(r) /\ Within(r, ranked) /\ Len(r) <= Limit
    BY <1>6, <1>7, SelectedIs
  <2>. HIDE DEF r
  <2>. QED  BY <1>6, <2>1, WithinInside
<1>9. results' = r
  BY <1>2
<1>. HIDE DEF r
<1>10. Within(r, results)
  BY <1>5, <1>8 DEF Within, Inside
<1>11. ASSUME NEW w PROVE Cardinality(Question!OfWork(r, w)) <= PerWork
  <2>1. Cardinality(Question!OfWork(r, w)) <= Cardinality(Question!OfWork(results, w))
    BY <1>3, <1>8, <1>10, FewerOfWork DEF Ranked
  <2>2. Cardinality(Question!OfWork(results, w)) <= PerWork
    BY <1>3 DEF ResultsOK
  <2>3. /\ Cardinality(Question!OfWork(r, w)) \in Nat
        /\ Cardinality(Question!OfWork(results, w)) \in Nat
    <3>1. IsFiniteSet(Question!OfWork(r, w)) /\ IsFiniteSet(Question!OfWork(results, w))
      BY <1>3, <1>8, AppendOfWork DEF Ranked
    <3>. QED  BY <3>1, FS_CardinalityType
  <2>. QED  BY <1>7, <2>1, <2>2, <2>3
<1>12. \A i \in 1..Len(r) :
         /\ r[i] \in Chunks /\ DocumentOf[r[i]] \in scopes[request.scope]
         /\ Asked(DocumentOf[r[i]]) /\ Matches(DocumentOf[r[i]])
  <2>. TAKE i \in 1..Len(r)
  <2>1. PICK j \in 1..Len(results) : r[i] = results[j]
    BY <1>10 DEF Within
  <2>2. r[i] \in V
    BY <1>8 DEF Inside
  <2>. QED  BY <1>3, <1>5, <2>1, <2>2 DEF Inside, ResultsOK
<1>13. \A i \in 1..Len(r) : Asked(DocumentOf[r[i]])' /\ Matches(DocumentOf[r[i]])'
  BY <1>1, <1>12 DEF Asked, Matches
<1>14. ResultsInv'
  <2>1. ResultsOK'
    BY <1>8, <1>9, <1>11, <1>13 DEF ResultsOK
  <2>. QED  BY <1>1, <1>8, <1>9, <1>12, <2>1 DEF ResultsInv, Inside
<1>15. RequestInv' /\ ListsInv'
  BY <1>1 DEF EvidenceInv, RequestInv, ListsInv, Asked
<1>16. AnswerInv'
  <2>1. context' = <<>> /\ answer' = NONE /\ Len(<<>>) = 0
    BY <1>1, EmptyList DEF EvidenceInv, AnswerInv
  <2>. QED  BY <1>1, <2>1, NothingFound DEF AnswerInv
<1>. QED  BY <1>14, <1>15, <1>16 DEF EvidenceInv

\* After the search only a governed question looks at the results again.
LEMMA ResultsRest ==
  ASSUME EvidenceInv, stage \in {"ranked", "context"},
         stage' \in {"raised", "context", "answered", "refused"},
         UNCHANGED <<request, results, scopes>>
  PROVE  RequestInv' /\ ListsInv' /\ ResultsInv'
<1>1. RequestInv' /\ ListsInv'
  BY DEF EvidenceInv, RequestInv, ListsInv, Asked
<1>2. ResultsInv'
  BY DEF EvidenceInv, ResultsInv
<1>. QED  BY <1>1, <1>2

LEMMA AssembleKeeps == CorpusGiven /\ EvidenceInv /\ Question!Assemble => EvidenceInv'
<1>. SUFFICES ASSUME CorpusGiven, EvidenceInv, Question!Assemble PROVE EvidenceInv'
  OBVIOUS
<1>1. /\ stage = "ranked" /\ stage' \in {"raised", "context"}
      /\ \/ stage' = "raised" /\ context' = context
         \/ stage' = "context" /\ context' = Question!Packed(results)
      /\ UNCHANGED <<request, lists, results, answer, corpus, scopes, edits>>
  BY DEF Question!Assemble, Question!Environment
<1>2. RequestInv' /\ ListsInv' /\ ResultsInv'
  BY <1>1, ResultsRest
<1>3. answer' = NONE /\ context = <<>> /\ Len(<<>>) = 0
  BY <1>1, EmptyList DEF EvidenceInv, AnswerInv
<1>4. CASE stage' = "raised" /\ context' = context
  BY <1>3, <1>4, NothingFound, <1>2 DEF AnswerInv, EvidenceInv
<1>5. CASE stage' = "context" /\ context' = Question!Packed(results)
  <2>. DEFINE items == Question!Packed(results)
  <2>1. IsList(results) /\ \A i \in 1..Len(results) : results[i] \in Chunks
    BY DEF EvidenceInv, ResultsInv, Ranked, Inside
  <2>2. /\ ContextOK(items)
        /\ \A i \in 1..Len(items) : \E j \in 1..Len(results) : items[i].chunk = results[j]
    BY <2>1, PackedIs
  <2>3. context' = items
    BY <1>5
  <2>. HIDE DEF items
  <2>4. AnswerInv'
    BY <1>1, <1>3, <1>5, <2>2, <2>3 DEF AnswerInv, ContextOK
  <2>. QED  BY <1>2, <2>4 DEF EvidenceInv
<1>. QED  BY <1>1, <1>4, <1>5

\* Only a draft whose claims all name sources of the context becomes an answer.
LEMMA AnswerKeeps == CorpusGiven /\ EvidenceInv /\ Question!Answer => EvidenceInv'
<1>. SUFFICES ASSUME CorpusGiven, EvidenceInv, Question!Answer PROVE EvidenceInv'
  OBVIOUS
<1>1. /\ stage = "context" /\ UNCHANGED <<request, lists, results, context, corpus, scopes, edits>>
  BY DEF Question!Answer, Question!Environment
<1>2. PICK draft \in Question!Drafts :
        IF Question!Valid(draft) THEN stage' = "answered" /\ answer' = draft.claims
                                 ELSE stage' = "refused" /\ UNCHANGED answer
  BY DEF Question!Answer
<1>3. stage' \in {"answered", "refused"}
  BY <1>2
<1>4. RequestInv' /\ ListsInv' /\ ResultsInv'
  BY <1>1, <1>3, ResultsRest
<1>5. answer = NONE
  BY <1>1 DEF EvidenceInv, AnswerInv
<1>6. answer' # NONE => stage' = "answered" /\ Cited'
  <2>1. SUFFICES ASSUME answer' # NONE PROVE stage' = "answered" /\ Cited'
    OBVIOUS
  <2>2. Question!Valid(draft) /\ stage' = "answered" /\ answer' = draft.claims
    BY <1>2, <1>5, <2>1
  <2>3. draft.claims # <<>> /\ \A k \in DOMAIN draft.claims : Question!ValidClaim(draft.claims[k])
    BY <2>2 DEF Question!Valid
  <2>4. \A k \in DOMAIN draft.claims :
          /\ draft.claims[k] # <<>>
          /\ \A n \in DOMAIN draft.claims[k] : draft.claims[k][n] \in DOMAIN context
    BY <2>3 DEF Question!ValidClaim, Question!ToSet
  <2>. QED  BY <1>1, <2>2, <2>3, <2>4 DEF Cited
<1>7. AnswerInv'
  BY <1>1, <1>3, <1>6 DEF EvidenceInv, AnswerInv, ContextOK
<1>. QED  BY <1>4, <1>7 DEF EvidenceInv

LEMMA RefuseKeeps == EvidenceInv /\ Question!Refuse => EvidenceInv'
<1>. SUFFICES ASSUME EvidenceInv, Question!Refuse PROVE EvidenceInv'
  OBVIOUS
<1>1. /\ stage = "context" /\ stage' = "refused"
      /\ UNCHANGED <<request, lists, results, context, answer, corpus, scopes, edits>>
  BY DEF Question!Refuse, Question!Environment
<1>2. RequestInv' /\ ListsInv' /\ ResultsInv'
  BY <1>1, ResultsRest
<1>3. AnswerInv'
  BY <1>1 DEF EvidenceInv, AnswerInv, ContextOK
<1>. QED  BY <1>2, <1>3 DEF EvidenceInv

\* While a question is open the workspace gets new scope versions, and keeps the old ones.
LEMMA EditsKeep ==
  EvidenceInv /\ (Question!ChunkRemoved \/ Question!ScopeReplaced) => EvidenceInv'
<1>. SUFFICES ASSUME EvidenceInv, Question!ChunkRemoved \/ Question!ScopeReplaced
     PROVE  EvidenceInv'
  OBVIOUS
<1>1. /\ stage \in {"papers", "chunks", "fused", "ranked"}
      /\ UNCHANGED <<request, stage, lists, results, context, answer>>
  BY DEF Question!ChunkRemoved, Question!ScopeReplaced, Question!Open
<1>2. IsList(scopes) /\ Len(scopes) > 0 /\ Len(scopes) \in Nat
  BY ListIs DEF EvidenceInv, RequestInv
<1>3. IsList(scopes') /\ Len(scopes') \in Nat /\ Len(scopes') >= Len(scopes)
  <2>1. CASE Question!ChunkRemoved
    BY <1>2, <2>1 DEF Question!ChunkRemoved
  <2>2. CASE Question!ScopeReplaced
    <3>1. PICK d \in Documents : scopes' = Append(scopes, {d})
      BY <2>2 DEF Question!ScopeReplaced
    <3>2. IsList(Append(scopes, {d})) /\ Len(Append(scopes, {d})) = Len(scopes) + 1
      BY <1>2, AppendList
    <3>. QED  BY <1>2, <3>1, <3>2
  <2>. QED  BY <2>1, <2>2
<1>4. RequestInv'
  <2>1. \A n \in 1..Len(scopes) : n \in 1..Len(scopes')
    BY <1>2, <1>3
  <2>2. Len(scopes') > 0
    BY <1>2, <1>3
  <2>. QED  BY <1>1, <1>3, <2>1, <2>2 DEF EvidenceInv, RequestInv, Asked
<1>5. ListsInv'
  BY <1>1 DEF EvidenceInv, ListsInv, Question!Eligible
<1>6. ResultsInv'
  BY <1>1 DEF EvidenceInv, ResultsInv, ResultsOK, Asked, Matches
<1>7. AnswerInv'
  BY <1>1 DEF EvidenceInv, AnswerInv, ContextOK
<1>. QED  BY <1>4, <1>5, <1>6, <1>7 DEF EvidenceInv

LEMMA EvidenceStep ==
  CorpusGiven /\ EvidenceInv /\ [Question!RetrievalNext]_Question!retrievalVars => EvidenceInv'
<1>. SUFFICES ASSUME CorpusGiven, EvidenceInv,
                     [Question!RetrievalNext]_Question!retrievalVars
     PROVE  EvidenceInv'
  OBVIOUS
<1>1. CASE UNCHANGED Question!retrievalVars
  <2>1. UNCHANGED <<request, stage, lists, results, context, answer, corpus, scopes, edits>>
    BY <1>1 DEF Question!retrievalVars
  <2>2. RequestInv' /\ ListsInv'
    BY <2>1 DEF EvidenceInv, RequestInv, ListsInv, Asked, Question!Eligible
  <2>3. ResultsInv'
    BY <2>1 DEF EvidenceInv, ResultsInv, ResultsOK, Asked, Matches
  <2>4. AnswerInv'
    <3>1. ContextOK(context)'
      BY <2>1 DEF EvidenceInv, AnswerInv, ContextOK
    <3>2. answer' # NONE => Cited'
      BY <2>1 DEF EvidenceInv, AnswerInv, Cited
    <3>. QED  BY <2>1, <3>1, <3>2 DEF EvidenceInv, AnswerInv
  <2>. QED  BY <2>2, <2>3, <2>4 DEF EvidenceInv
<1>2. CASE Question!RetrievalNext
  BY <1>2, AskKeeps, GivenPapersKeeps, RankPapersKeeps, SearchChunksKeeps, RankKeeps,
     SearchFailsKeeps, GovernKeeps, AssembleKeeps, AnswerKeeps, RefuseKeeps, EditsKeep
     DEF Question!RetrievalNext
<1>. QED  BY <1>1, <1>2

LEMMA EvidenceAlways == CorpusGiven => (Question!RetrievalSpec => []EvidenceInv)
<1>. SUFFICES ASSUME CorpusGiven PROVE Question!RetrievalSpec => []EvidenceInv
  OBVIOUS
<1>1. Question!RetrievalInit => EvidenceInv
  BY QuestionInit
<1>2. EvidenceInv /\ [Question!RetrievalNext]_Question!retrievalVars => EvidenceInv'
  BY EvidenceStep
<1>. QED  BY <1>1, <1>2, PTL DEF Question!RetrievalSpec

\* Evidence keeps the filters of its search (EvidenceKeepsFilters), whatever the indexes and
\* the cross encoder return: a flat search answers with the work and the document that were
\* asked for, a hierarchical one with papers that were named or admitted, and not with the
\* work and the document, which retrieve drops on the way to it; each chunk comes once, no work
\* takes more than its share, and governed evidence is in the scope version that the request
\* was made with (RetrievalRuntime.retrieve, UnifiedKnowledgeService).
THEOREM EvidenceFollowsItsSearch ==
  ASSUME CorpusGiven
  PROVE  Question!RetrievalSpec => []EvidenceKeepsFilters
<1>1. EvidenceInv => EvidenceKeepsFilters
  <2>. SUFFICES ASSUME EvidenceInv, stage \in {"ranked", "governed"}
       PROVE  /\ Len(results) <= Limit
              /\ \A i, j \in DOMAIN results : results[i] = results[j] => i = j
              /\ \A w \in Question!Works :
                   Question!Cardinality(Question!OfWork(results, w)) <= PerWork
              /\ \A i \in DOMAIN results :
                   /\ Asked(DocumentOf[results[i]]) /\ Matches(DocumentOf[results[i]])
                   /\ stage = "governed" => DocumentOf[results[i]] \in scopes[request.scope]
    BY DEF EvidenceKeepsFilters, Question!EvidenceKeepsFilters, Asked, Matches
  <2>1. Ranked(results) /\ ResultsOK
    BY DEF EvidenceInv, ResultsInv
  <2>2. DOMAIN results = 1..Len(results)
    BY <2>1, ListIs DEF Ranked
  <2>3. \A w \in Question!Works : Question!Cardinality(Question!OfWork(results, w)) <= PerWork
    BY <2>1, SameCount DEF ResultsOK
  <2>. QED  BY <2>1, <2>2, <2>3 DEF Ranked, Distinct, ResultsOK, EvidenceInv, ResultsInv
<1>. QED  BY <1>1, EvidenceAlways, PTL

\* An accepted answer rests on evidence (AnswerGrounded): each claim names sources of the
\* context, and the context comes from the results, keeps its budget, has each text once and
\* one document of a work (assemble_context_bundle, validate_answer_draft).
THEOREM AnswersAreGrounded ==
  ASSUME CorpusGiven
  PROVE  Question!RetrievalSpec => []AnswerGrounded
<1>1. EvidenceInv => AnswerGrounded
  <2>. SUFFICES ASSUME EvidenceInv PROVE AnswerGrounded
    OBVIOUS
  <2>1. ContextOK(context) /\ IsList(results)
    BY DEF EvidenceInv, AnswerInv, ResultsInv, Ranked
  <2>2. DOMAIN context = 1..Len(context) /\ DOMAIN results = 1..Len(results)
    BY <2>1, ListIs DEF ContextOK
  <2>3. \A i \in DOMAIN context : context[i].chunk \in Question!ToSet(results)
    BY <2>2 DEF EvidenceInv, AnswerInv, Question!ToSet
  <2>4. answer # NONE => Cited
    BY DEF EvidenceInv, AnswerInv
  <2>. QED  BY <2>1, <2>2, <2>3, <2>4 DEF AnswerGrounded, Question!AnswerGrounded, ContextOK, Cited
<1>. QED  BY <1>1, EvidenceAlways, PTL

-----------------------------------------------------------------------------
(* The search of the sources (Discovery).                                  *)

\* A source's record has a key.
IsRecord(r) == {"key", "year", "open"} \subseteq DOMAIN r

\* The sources are a list, as are their answers, of records; limits are numbers.
AnswersGiven ==
  /\ IsList(Providers) /\ Limits \subseteq Nat
  /\ \A records \in Answers : IsList(records) /\ \A i \in 1..Len(records) : IsRecord(records[i])

\* The items of the first n places of a list that are kept: in order, none further back.
KeptOK(kept, list, n, places) ==
  /\ IsList(kept) /\ Len(kept) <= n
  /\ \A p \in 1..Len(kept) : \E i \in 1..n : i \in places /\ kept[p] = list[i]
  /\ \A p, q \in 1..Len(kept) : p < q =>
       \E i, j \in 1..n : i < j /\ kept[p] = list[i] /\ kept[q] = list[j]
  /\ \A i \in 1..n : i \in places => \E p \in 1..Len(kept) : p <= i /\ kept[p] = list[i]

KeepNext(kept, list, n, places) == IF n \in places THEN Append(kept, list[n]) ELSE kept

Keeps(f, list, places, m) ==
  f = [i \in 0..m |-> IF i = 0 THEN <<>> ELSE KeepNext(f[i - 1], list, i, places)]

LEMMA KeepsExists ==
  ASSUME NEW list, NEW places, NEW m \in Nat
  PROVE  \E f : Keeps(f, list, places, m)
<1>. DEFINE T == {k \in 0..m : \E f : Keeps(f, list, places, k)}
<1>1. 0 \in T
  <2>. DEFINE f == [i \in 0..0 |-> <<>>]
  <2>1. Keeps(f, list, places, 0)
    BY DEF Keeps
  <2>. QED  BY <2>1
<1>2. ASSUME NEW n \in 1..m, n - 1 \in T PROVE n \in T
  <2>1. PICK f : Keeps(f, list, places, n - 1)
    BY <1>2
  <2>2. \A i \in 0..(n - 1) : f[i] = IF i = 0 THEN <<>> ELSE KeepNext(f[i - 1], list, i, places)
    BY <2>1 DEF Keeps
  <2>. DEFINE h == [i \in 0..n |->
                IF i = n THEN KeepNext(f[n - 1], list, n, places) ELSE f[i]]
  <2>3. /\ h = [i \in 0..n |-> h[i]]
        /\ h[n] = KeepNext(f[n - 1], list, n, places)
        /\ \A i \in 0..(n - 1) : h[i] = f[i]
    OBVIOUS
  <2>. HIDE DEF h
  <2>4. \A i \in 0..n : h[i] = IF i = 0 THEN <<>> ELSE KeepNext(h[i - 1], list, i, places)
    <3>. TAKE i \in 0..n
    <3>1. CASE i = n
      <4>1. i # 0 /\ i - 1 = n - 1 /\ n - 1 \in 0..(n - 1)
        BY <3>1
      <4>. QED  BY <2>3, <3>1, <4>1
    <3>2. CASE i # n
      <4>1. i \in 0..(n - 1) /\ (i # 0 => i - 1 \in 0..(n - 1))
        BY <3>2
      <4>. QED  BY <2>2, <2>3, <4>1
    <3>. QED  BY <3>1, <3>2
  <2>5. Keeps(h, list, places, n)
    BY <2>3, <2>4 DEF Keeps
  <2>6. n \in 0..m
    OBVIOUS
  <2>. QED  BY <2>5, <2>6
<1>. HIDE DEF T
<1>3. \A n \in 0..m : n \in T
  BY <1>1, <1>2, UpTo
<1>. QED  BY <1>3 DEF T

LEMMA KeepNextOK ==
  ASSUME NEW list, NEW places, NEW n \in Nat \ {0}, NEW kept, KeptOK(kept, list, n - 1, places)
  PROVE  KeptOK(KeepNext(kept, list, n, places), list, n, places)
<1>1. IsList(kept) /\ Len(kept) \in Nat
  BY ListIs DEF KeptOK
<1>2. \A i : i \in 1..n <=> i \in 1..(n - 1) \/ i = n
  OBVIOUS
<1>3. CASE n \notin places
  BY <1>2, <1>3 DEF KeptOK, KeepNext
<1>4. CASE n \in places
  <2>. DEFINE a == Append(kept, list[n])
              k == Len(kept)
  <2>1. /\ IsList(a) /\ Len(a) = k + 1 /\ a[k + 1] = list[n]
        /\ \A p \in 1..k : a[p] = kept[p]
    BY <1>1, AppendList
  <2>2. \A p : p \in 1..(k + 1) <=> p \in 1..k \/ p = k + 1
    BY <1>1
  <2>3. KeepNext(kept, list, n, places) = a
    BY <1>4 DEF KeepNext
  <2>4. k \in Nat
    BY <1>1
  <2>5. /\ k <= n - 1
        /\ \A p \in 1..k : \E i \in 1..(n - 1) : i \in places /\ kept[p] = list[i]
        /\ \A p, q \in 1..k : p < q =>
             \E i, j \in 1..(n - 1) : i < j /\ kept[p] = list[i] /\ kept[q] = list[j]
        /\ \A i \in 1..(n - 1) : i \in places => \E p \in 1..k : p <= i /\ kept[p] = list[i]
    BY DEF KeptOK
  <2>. HIDE DEF a, k
  <2>6. \A p \in 1..(k + 1) : \E i \in 1..n : i \in places /\ a[p] = list[i]
    BY <1>2, <1>4, <2>1, <2>2, <2>5
  <2>7. ASSUME NEW p \in 1..(k + 1), NEW q \in 1..(k + 1), p < q
        PROVE  \E i, j \in 1..n : i < j /\ a[p] = list[i] /\ a[q] = list[j]
    <3>1. p \in 1..k
      BY <2>2, <2>4, <2>7
    <3>2. CASE q = k + 1
      <4>1. PICK i \in 1..(n - 1) : kept[p] = list[i]
        BY <2>5, <3>1
      <4>2. i < n /\ i \in 1..n /\ n \in 1..n
        OBVIOUS
      <4>. QED  BY <2>1, <3>1, <3>2, <4>1, <4>2
    <3>3. CASE q \in 1..k
      <4>1. PICK i \in 1..(n - 1), j \in 1..(n - 1) : i < j /\ kept[p] = list[i] /\ kept[q] = list[j]
        BY <2>5, <2>7, <3>1, <3>3
      <4>2. i \in 1..n /\ j \in 1..n
        BY <1>2
      <4>. QED  BY <2>1, <3>1, <3>3, <4>1, <4>2
    <3>. QED  BY <2>2, <3>2, <3>3
  <2>8. ASSUME NEW i \in 1..n, i \in places
        PROVE  \E p \in 1..(k + 1) : p <= i /\ a[p] = list[i]
    <3>1. CASE i \in 1..(n - 1)
      <4>1. PICK p \in 1..k : p <= i /\ kept[p] = list[i]
        BY <2>5, <2>8, <3>1
      <4>. QED  BY <2>1, <2>2, <4>1
    <3>2. CASE i = n
      <4>1. k + 1 \in 1..(k + 1) /\ k + 1 <= n
        BY <2>4, <2>5
      <4>. QED  BY <2>1, <3>2, <4>1
    <3>. QED  BY <1>2, <3>1, <3>2
  <2>9. KeptOK(a, list, n, places)
    BY <2>1, <2>4, <2>5, <2>6, <2>7, <2>8 DEF KeptOK
  <2>. QED  BY <2>3, <2>9
<1>. QED  BY <1>3, <1>4

LEMMA KeptAtIs ==
  ASSUME NEW list, IsList(list), NEW places
  PROVE  KeptOK(Discover!KeptAt(list, places), list, Len(list), places)
<1>. DEFINE m == Len(list)
            f == CHOOSE h : Keeps(h, list, places, m)
<1>1. m \in Nat
  BY ListIs
<1>2. Keeps(f, list, places, m)
  BY <1>1, KeepsExists
<1>3. Discover!KeptAt(list, places) = f[m]
  BY DEF Discover!KeptAt, Keeps, KeepNext
<1>. HIDE DEF f, m
<1>4. f[0] = <<>> /\ \A n \in 1..m : f[n] = KeepNext(f[n - 1], list, n, places)
  <2>1. 0 \in 0..m /\ \A n \in 1..m : n \in 0..m /\ n # 0
    BY <1>1
  <2>2. f = [i \in 0..m |-> IF i = 0 THEN <<>> ELSE KeepNext(f[i - 1], list, i, places)]
    BY <1>2 DEF Keeps
  <2>. QED  BY <2>1, <2>2
<1>. DEFINE T == {n \in 0..m : KeptOK(f[n], list, n, places)}
<1>5. 0 \in T
  <2>1. KeptOK(<<>>, list, 0, places)
    BY EmptyList DEF KeptOK
  <2>. QED  BY <1>1, <1>4, <2>1
<1>6. ASSUME NEW n \in 1..m, n - 1 \in T PROVE n \in T
  <2>1. KeptOK(f[n - 1], list, n - 1, places) /\ n \in Nat \ {0} /\ n \in 0..m
    BY <1>1, <1>6
  <2>2. KeptOK(f[n], list, n, places)
    BY <1>4, <2>1, KeepNextOK
  <2>. QED  BY <2>1, <2>2
<1>. HIDE DEF T
<1>7. m \in T
  <2>1. \A n \in 0..m : n \in T
    BY <1>1, <1>5, <1>6, UpTo
  <2>. QED  BY <1>1, <2>1
<1>. QED  BY <1>3, <1>7 DEF T, m

\* All the lists one after the other; a list's items come within the lists so far.
Flat(f, seqs, m) == f = [i \in 1..m |-> IF i = 1 THEN seqs[i] ELSE f[i - 1] \o seqs[i]]

FlatOK(r, seqs, n, most, X) ==
  /\ IsList(r) /\ Inside(r, X) /\ Len(r) <= most * n
  /\ \A i \in 1..n : \A j \in 1..Len(seqs[i]) :
       \E p \in 1..Len(r) : p <= most * i /\ r[p] = seqs[i][j]

LEMMA FlatExists ==
  ASSUME NEW seqs, NEW m \in Nat
  PROVE  \E f : Flat(f, seqs, m)
<1>. DEFINE T == {k \in 0..m : \E f : Flat(f, seqs, k)}
<1>1. 0 \in T
  <2>. DEFINE f == [i \in 1..0 |-> <<>>]
  <2>1. f = [i \in 1..0 |-> IF i = 1 THEN seqs[i] ELSE f[i - 1] \o seqs[i]]
    OBVIOUS
  <2>2. Flat(f, seqs, 0)
    BY <2>1 DEF Flat
  <2>. QED  BY <2>2
<1>2. ASSUME NEW n \in 1..m, n - 1 \in T PROVE n \in T
  <2>1. PICK f : Flat(f, seqs, n - 1)
    BY <1>2
  <2>2. \A i \in 1..(n - 1) : f[i] = IF i = 1 THEN seqs[i] ELSE f[i - 1] \o seqs[i]
    BY <2>1 DEF Flat
  <2>. DEFINE h == [i \in 1..n |->
                IF i # n THEN f[i] ELSE IF n = 1 THEN seqs[n] ELSE f[n - 1] \o seqs[n]]
  <2>3. /\ h = [i \in 1..n |-> h[i]]
        /\ h[n] = IF n = 1 THEN seqs[n] ELSE f[n - 1] \o seqs[n]
        /\ \A i \in 1..(n - 1) : h[i] = f[i]
    <3>1. h = [i \in 1..n |-> h[i]]
      OBVIOUS
    <3>2. n \in 1..n
      OBVIOUS
    <3>3. h[n] = IF n = 1 THEN seqs[n] ELSE f[n - 1] \o seqs[n]
      BY <3>2
    <3>4. \A i \in 1..(n - 1) : i \in 1..n /\ i # n
      OBVIOUS
    <3>5. \A i \in 1..(n - 1) : h[i] = f[i]
      BY <3>4
    <3>. QED  BY <3>1, <3>3, <3>5
  <2>. HIDE DEF h
  <2>4. \A i \in 1..n : h[i] = IF i = 1 THEN seqs[i] ELSE h[i - 1] \o seqs[i]
    <3>. TAKE i \in 1..n
    <3>1. CASE i = n
      <4>1. i # 1 => i - 1 = n - 1 /\ n - 1 \in 1..(n - 1)
        BY <3>1
      <4>. QED  BY <2>3, <3>1, <4>1
    <3>2. CASE i # n
      <4>1. i \in 1..(n - 1) /\ (i # 1 => i - 1 \in 1..(n - 1))
        BY <3>2
      <4>. QED  BY <2>2, <2>3, <4>1
    <3>. QED  BY <3>1, <3>2
  <2>5. Flat(h, seqs, n)
    BY <2>3, <2>4 DEF Flat
  <2>6. n \in 0..m
    OBVIOUS
  <2>. QED  BY <2>5, <2>6
<1>. HIDE DEF T
<1>3. \A n \in 0..m : n \in T
  BY <1>1, <1>2, UpTo
<1>. QED  BY <1>3 DEF T

LEMMA FlatNextOK ==
  ASSUME NEW seqs, NEW n \in Nat \ {0}, NEW most \in Nat, NEW X, NEW r,
         FlatOK(r, seqs, n - 1, most, X), IsList(seqs[n]), Inside(seqs[n], X), Len(seqs[n]) <= most
  PROVE  FlatOK(r \o seqs[n], seqs, n, most, X)
<1>. DEFINE t == seqs[n]
            a == r \o t
            k == Len(r)
            b == most * (n - 1)
            c == most * n
<1>1. IsList(r) /\ Inside(r, X) /\ k <= b /\ k \in Nat /\ Len(t) \in Nat
  BY ListIs DEF FlatOK
<1>2. c = b + most /\ b \in Nat /\ c \in Nat
  OBVIOUS
<1>3. /\ IsList(a) /\ Len(a) = k + Len(t)
      /\ \A i \in 1..k : a[i] = r[i]
      /\ \A i \in 1..Len(t) : a[k + i] = t[i]
      /\ \A i \in 1..Len(a) : \/ i \in 1..k /\ a[i] = r[i]
                              \/ i - k \in 1..Len(t) /\ a[i] = t[i - k]
  BY <1>1, ConcatList
<1>4. \A i \in 1..(n - 1) : \A j \in 1..Len(seqs[i]) :
        \E p \in 1..k : p <= most * i /\ r[p] = seqs[i][j]
  BY DEF FlatOK
<1>5. Inside(t, X) /\ Len(t) <= most
  OBVIOUS
<1>. HIDE DEF a, k, b, c, t
<1>6. Inside(a, X) /\ Len(a) <= c
  <2>1. (\A i \in 1..k : r[i] \in X) /\ (\A i \in 1..Len(t) : t[i] \in X)
    BY <1>1, <1>5 DEF Inside, k
  <2>2. \A i \in 1..Len(a) : a[i] \in X
    BY <1>3, <2>1
  <2>3. Len(a) <= c
    BY <1>1, <1>2, <1>3, <1>5
  <2>. QED  BY <2>2, <2>3 DEF Inside
<1>7. ASSUME NEW i \in 1..n, NEW j \in 1..Len(seqs[i])
      PROVE  \E p \in 1..Len(a) : p <= most * i /\ a[p] = seqs[i][j]
  <2>1. CASE i = n
    <3>1. seqs[i] = t /\ most * i = c /\ j \in 1..Len(t)
      BY <2>1 DEF c, t
    <3>2. k + j \in 1..Len(a) /\ k + j <= c /\ a[k + j] = t[j]
      BY <1>1, <1>2, <1>3, <1>5, <3>1
    <3>. QED  BY <3>1, <3>2
  <2>2. CASE i # n
    <3>1. PICK p \in 1..k : p <= most * i /\ r[p] = seqs[i][j]
      BY <1>4, <2>2
    <3>2. p \in 1..Len(a) /\ a[p] = r[p]
      BY <1>1, <1>3
    <3>. QED  BY <3>1, <3>2
  <2>. QED  BY <2>1, <2>2
<1>8. FlatOK(a, seqs, n, most, X)
  BY <1>3, <1>6, <1>7 DEF FlatOK, c
<1>. QED  BY <1>8 DEF a, t

LEMMA FlattenIs ==
  ASSUME NEW seqs, IsList(seqs), NEW most \in Nat, NEW X,
         \A i \in 1..Len(seqs) : IsList(seqs[i]) /\ Inside(seqs[i], X) /\ Len(seqs[i]) <= most
  PROVE  FlatOK(Discover!FlattenSeq(seqs), seqs, Len(seqs), most, X)
<1>. DEFINE m == Len(seqs)
            f == CHOOSE h : Flat(h, seqs, m)
<1>1. m \in Nat
  BY ListIs
<1>2. Flat(f, seqs, m)
  BY <1>1, FlatExists
<1>3. CASE m = 0
  <2>1. Discover!FlattenSeq(seqs) = seqs
    BY <1>3 DEF Discover!FlattenSeq
  <2>. QED  BY <1>3, <2>1 DEF FlatOK, Inside
<1>4. CASE m # 0
  <2>1. Discover!FlattenSeq(seqs) = f[m]
    BY <1>4 DEF Discover!FlattenSeq, Flat
  <2>. HIDE DEF f, m
  <2>2. 1 \in 1..m /\ m \in 1..m
    BY <1>1, <1>4
  <2>3. f = [i \in 1..m |-> IF i = 1 THEN seqs[i] ELSE f[i - 1] \o seqs[i]]
    BY <1>2 DEF Flat
  <2>4. f[1] = seqs[1] /\ \A n \in 1..m : n # 1 => f[n] = f[n - 1] \o seqs[n]
    BY <2>2, <2>3
  <2>5. ASSUME NEW n \in 1..m
        PROVE  IsList(seqs[n]) /\ Inside(seqs[n], X) /\ Len(seqs[n]) <= most
    BY DEF m
  <2>. DEFINE T == {n \in 0..m : n = 0 \/ FlatOK(f[n], seqs, n, most, X)}
  <2>6. 0 \in T
    BY <1>1
  <2>7. ASSUME NEW n \in 1..m, n - 1 \in T PROVE n \in T
    <3>1. CASE n = 1
      <4>1. IsList(seqs[1]) /\ Inside(seqs[1], X) /\ Len(seqs[1]) <= most /\ Len(seqs[1]) \in Nat
        BY <2>2, <2>5, ListIs
      <4>2. most * 1 = most
        OBVIOUS
      <4>3. \A i \in 1..1 : i = 1
        OBVIOUS
      <4>4. \A j \in 1..Len(seqs[1]) : j <= most
        BY <4>1
      <4>5. FlatOK(seqs[1], seqs, 1, most, X)
        BY <4>1, <4>2, <4>3, <4>4 DEF FlatOK
      <4>. QED  BY <2>4, <3>1, <4>5
    <3>2. CASE n # 1
      <4>1. FlatOK(f[n - 1], seqs, n - 1, most, X) /\ n \in Nat \ {0}
        BY <1>1, <2>7, <3>2
      <4>2. FlatOK(f[n - 1] \o seqs[n], seqs, n, most, X)
        BY <2>5, <4>1, FlatNextOK
      <4>3. f[n] = f[n - 1] \o seqs[n]
        BY <2>4, <3>2
      <4>4. n \in 0..m
        BY <1>1
      <4>. QED  BY <4>2, <4>3, <4>4
    <3>. QED  BY <3>1, <3>2
  <2>. HIDE DEF T
  <2>8. m \in T
    <3>1. \A n \in 0..m : n \in T
      BY <1>1, <2>6, <2>7, UpTo
    <3>. QED  BY <1>1, <3>1
  <2>. QED  BY <1>4, <2>1, <2>8 DEF T, m
<1>. QED  BY <1>3, <1>4


\* The papers of the first n records: of each key one, not behind its first record.
MergedOK(papers, records, n) ==
  /\ IsList(papers) /\ Len(papers) <= n
  /\ \A p \in 1..Len(papers) : IsRecord(papers[p])
  /\ \A p, q \in 1..Len(papers) : papers[p].key = papers[q].key => p = q
  /\ \A i \in 1..n : \E p \in 1..Len(papers) : p <= i /\ papers[p].key = records[i].key

Merges(f, records, m) ==
  f = [i \in 0..m |-> IF i = 0 THEN <<>> ELSE Discover!AddRecord(f[i - 1], records[i])]

LEMMA MergesExists ==
  ASSUME NEW records, NEW m \in Nat
  PROVE  \E f : Merges(f, records, m)
<1>. DEFINE T == {k \in 0..m : \E f : Merges(f, records, k)}
<1>1. 0 \in T
  <2>. DEFINE f == [i \in 0..0 |-> <<>>]
  <2>1. Merges(f, records, 0)
    BY DEF Merges
  <2>. QED  BY <2>1
<1>2. ASSUME NEW n \in 1..m, n - 1 \in T PROVE n \in T
  <2>1. PICK f : Merges(f, records, n - 1)
    BY <1>2
  <2>2. \A i \in 0..(n - 1) :
          f[i] = IF i = 0 THEN <<>> ELSE Discover!AddRecord(f[i - 1], records[i])
    BY <2>1 DEF Merges
  <2>. DEFINE h == [i \in 0..n |->
                IF i = n THEN Discover!AddRecord(f[n - 1], records[n]) ELSE f[i]]
  <2>3. /\ h = [i \in 0..n |-> h[i]]
        /\ h[n] = Discover!AddRecord(f[n - 1], records[n])
        /\ \A i \in 0..(n - 1) : h[i] = f[i]
    OBVIOUS
  <2>. HIDE DEF h
  <2>4. \A i \in 0..n : h[i] = IF i = 0 THEN <<>> ELSE Discover!AddRecord(h[i - 1], records[i])
    <3>. TAKE i \in 0..n
    <3>1. CASE i = n
      <4>1. i # 0 /\ i - 1 = n - 1 /\ n - 1 \in 0..(n - 1)
        BY <3>1
      <4>. QED  BY <2>3, <3>1, <4>1
    <3>2. CASE i # n
      <4>1. i \in 0..(n - 1) /\ (i # 0 => i - 1 \in 0..(n - 1))
        BY <3>2
      <4>. QED  BY <2>2, <2>3, <4>1
    <3>. QED  BY <3>1, <3>2
  <2>5. Merges(h, records, n)
    BY <2>3, <2>4 DEF Merges
  <2>6. n \in 0..m
    OBVIOUS
  <2>. QED  BY <2>5, <2>6
<1>. HIDE DEF T
<1>3. \A n \in 0..m : n \in T
  BY <1>1, <1>2, UpTo
<1>. QED  BY <1>3 DEF T

\* Merging keeps the key.
LEMMA MergedRecord ==
  ASSUME NEW left, IsRecord(left), NEW right
  PROVE  /\ IsRecord(Discover!MergePapers(left, right))
         /\ Discover!MergePapers(left, right).key = left.key
  BY DEF IsRecord, Discover!MergePapers

LEMMA AddRecordOK ==
  ASSUME NEW records, NEW n \in Nat \ {0}, NEW ps, MergedOK(ps, records, n - 1),
         IsRecord(records[n])
  PROVE  MergedOK(Discover!AddRecord(ps, records[n]), records, n)
<1>. DEFINE record == records[n]
            k == Len(ps)
<1>1. IsList(ps) /\ k \in Nat /\ DOMAIN ps = 1..k /\ k <= n - 1
  BY ListIs DEF MergedOK
<1>2. /\ \A p \in 1..k : IsRecord(ps[p])
      /\ \A p, q \in 1..k : ps[p].key = ps[q].key => p = q
      /\ \A i \in 1..(n - 1) : \E p \in 1..k : p <= i /\ ps[p].key = records[i].key
  BY DEF MergedOK
<1>3. \A i : i \in 1..n <=> i \in 1..(n - 1) \/ i = n
  OBVIOUS
<1>4. CASE \E i \in 1..k : ps[i].key = record.key
  <2>. DEFINE a == [i \in 1..k |->
                IF ps[i].key = record.key THEN Discover!MergePapers(ps[i], record) ELSE ps[i]]
  <2>1. Discover!AddRecord(ps, record) = a
    BY <1>1, <1>4 DEF Discover!AddRecord
  <2>2. a = [i \in 1..k |-> a[i]]
    OBVIOUS
  <2>3. ASSUME NEW p \in 1..k PROVE IsRecord(a[p]) /\ a[p].key = ps[p].key
    BY <1>2, MergedRecord
  <2>. HIDE DEF a, k, record
  <2>4. IsList(a) /\ Len(a) = k
    BY <1>1, <2>2, IsAList
  <2>5. PICK q \in 1..k : ps[q].key = record.key
    BY <1>4
  <2>6. q <= n /\ k <= n
    BY <1>1
  <2>7. \A i \in 1..n : \E p \in 1..k : p <= i /\ a[p].key = records[i].key
    BY <1>2, <1>3, <2>3, <2>5, <2>6 DEF record
  <2>8. MergedOK(a, records, n)
    BY <1>2, <2>3, <2>4, <2>6, <2>7 DEF MergedOK
  <2>. QED  BY <2>1, <2>8 DEF record
<1>5. CASE ~ \E i \in 1..k : ps[i].key = record.key
  <2>. DEFINE a == Append(ps, record)
  <2>1. Discover!AddRecord(ps, record) = a
    BY <1>1, <1>5 DEF Discover!AddRecord
  <2>2. /\ IsList(a) /\ Len(a) = k + 1 /\ a[k + 1] = record
        /\ \A p \in 1..k : a[p] = ps[p]
    BY <1>1, AppendList
  <2>3. \A p : p \in 1..(k + 1) <=> p \in 1..k \/ p = k + 1
    BY <1>1
  <2>. HIDE DEF a, k
  <2>4. \A p \in 1..(k + 1) : IsRecord(a[p])
    BY <1>2, <2>2, <2>3
  <2>5. \A p, q \in 1..(k + 1) : a[p].key = a[q].key => p = q
    BY <1>2, <1>5, <2>2, <2>3
  <2>6. k + 1 <= n /\ k + 1 \in 1..(k + 1)
    BY <1>1
  <2>7. \A i \in 1..n : \E p \in 1..(k + 1) : p <= i /\ a[p].key = records[i].key
    BY <1>2, <1>3, <2>2, <2>3, <2>6
  <2>8. MergedOK(a, records, n)
    BY <2>2, <2>4, <2>5, <2>6, <2>7 DEF MergedOK
  <2>. QED  BY <2>1, <2>8
<1>. QED  BY <1>4, <1>5

LEMMA MergedIs ==
  ASSUME NEW records, IsList(records), \A i \in 1..Len(records) : IsRecord(records[i])
  PROVE  MergedOK(Discover!DeduplicatePapers(records), records, Len(records))
<1>. DEFINE m == Len(records)
            f == CHOOSE h : Merges(h, records, m)
<1>1. m \in Nat
  BY ListIs
<1>2. Merges(f, records, m)
  BY <1>1, MergesExists
<1>3. Discover!DeduplicatePapers(records) = f[m]
  BY DEF Discover!DeduplicatePapers, Merges
<1>. HIDE DEF f
<1>4. f[0] = <<>> /\ \A n \in 1..m : f[n] = Discover!AddRecord(f[n - 1], records[n])
  <2>. HIDE DEF m
  <2>1. 0 \in 0..m /\ \A n \in 1..m : n \in 0..m /\ n # 0
    BY <1>1
  <2>2. f = [i \in 0..m |-> IF i = 0 THEN <<>> ELSE Discover!AddRecord(f[i - 1], records[i])]
    BY <1>2 DEF Merges
  <2>. QED  BY <2>1, <2>2
<1>. DEFINE T == {n \in 0..m : MergedOK(f[n], records, n)}
<1>5. 0 \in T
  <2>1. MergedOK(<<>>, records, 0)
    BY EmptyList DEF MergedOK
  <2>. QED  BY <1>1, <1>4, <2>1
<1>6. ASSUME NEW n \in 1..m, n - 1 \in T PROVE n \in T
  <2>1. MergedOK(f[n - 1], records, n - 1) /\ n \in Nat \ {0} /\ n \in 0..m
    BY <1>1, <1>6
  <2>2. IsRecord(records[n])
    OBVIOUS
  <2>3. MergedOK(f[n], records, n)
    BY <1>4, <2>1, <2>2, AddRecordOK
  <2>. QED  BY <2>1, <2>3
<1>. HIDE DEF T
<1>7. m \in T
  <2>. HIDE DEF m
  <2>1. \A n \in 0..m : n \in T
    BY <1>1, <1>5, <1>6, UpTo
  <2>. QED  BY <1>1, <2>1
<1>. QED  BY <1>3, <1>7 DEF T

\* A list of the lengths of lists has a largest.
LEMMA LongestIs ==
  ASSUME NEW seqs, IsList(seqs), \A i \in 1..Len(seqs) : Len(seqs[i]) \in Nat
  PROVE  /\ Discover!Longest(seqs) \in Nat
         /\ \A i \in 1..Len(seqs) : Len(seqs[i]) <= Discover!Longest(seqs)
<1>. DEFINE m == Len(seqs)
            Lengths(n) == {0} \cup {Len(seqs[i]) : i \in 1..n}
            Largest(n, x) == x \in Lengths(n) /\ \A y \in Lengths(n) : x >= y
            T == {n \in 0..m : \E x \in Nat : Largest(n, x)}
<1>1. m \in Nat /\ DOMAIN seqs = 1..m
  BY ListIs
<1>2. 0 \in T
  <2>1. Largest(0, 0)
    OBVIOUS
  <2>. QED  BY <1>1, <2>1
<1>3. ASSUME NEW n \in 1..m, n - 1 \in T PROVE n \in T
  <2>1. PICK x \in Nat : Largest(n - 1, x)
    BY <1>3
  <2>. DEFINE l == Len(seqs[n])
  <2>2. l \in Nat /\ n \in 0..m
    BY <1>1
  <2>3. Lengths(n) = Lengths(n - 1) \cup {l}
    <3>1. \A i : i \in 1..n <=> i \in 1..(n - 1) \/ i = n
      BY <1>1
    <3>. QED  BY <3>1
  <2>. DEFINE z == IF x >= l THEN x ELSE l
  <2>4. Lengths(n - 1) \subseteq Nat
    BY <1>1
  <2>. HIDE DEF Lengths, l
  <2>5. Largest(n, z) /\ z \in Nat
    BY <2>1, <2>2, <2>3, <2>4
  <2>. QED  BY <2>2, <2>5
<1>. HIDE DEF T
<1>4. m \in T
  <2>. HIDE DEF m
  <2>1. \A n \in 0..m : n \in T
    BY <1>1, <1>2, <1>3, UpTo
  <2>. QED  BY <1>1, <2>1
<1>5. \E x \in Nat : Largest(m, x)
  BY <1>4 DEF T
<1>6. Discover!Longest(seqs) = CHOOSE x \in Lengths(m) : \A y \in Lengths(m) : x >= y
  BY <1>1 DEF Discover!Longest, Discover!Max
<1>7. Largest(m, Discover!Longest(seqs))
  <2>. HIDE DEF Lengths, m
  <2>. QED  BY <1>5, <1>6
<1>8. Lengths(m) \subseteq Nat
  OBVIOUS
<1>9. \A i \in 1..Len(seqs) : Len(seqs[i]) \in Lengths(m)
  OBVIOUS
<1>. HIDE DEF Lengths
<1>. QED  BY <1>7, <1>8, <1>9

LEMMA OneItem ==
  ASSUME NEW X, NEW x \in X
  PROVE  IsList(<<x>>) /\ Len(<<x>>) = 1 /\ <<x>>[1] = x /\ Inside(<<x>>, X)
<1>1. IsList(<<x>>)
  <2>1. <<x>> \in Seq(X)
    OBVIOUS
  <2>. QED  BY <2>1 DEF IsList
<1>. QED  BY <1>1 DEF Inside

\* When k lists take turns, the j-th item of each comes within the first j * k.
LEMMA TurnsAre ==
  ASSUME NEW seqs, IsList(seqs), NEW X,
         \A i \in 1..Len(seqs) : IsList(seqs[i]) /\ Inside(seqs[i], X)
  PROVE  LET turns == Discover!TakeTurns(seqs) IN
         /\ IsList(turns) /\ Inside(turns, X)
         /\ \A i \in 1..Len(seqs) : \A j \in 1..Len(seqs[i]) :
              \E p \in 1..Len(turns) : p <= j * Len(seqs) /\ turns[p] = seqs[i][j]
<1>. DEFINE k == Len(seqs)
            m == Discover!Longest(seqs)
            Turn(t) == [i \in DOMAIN seqs |-> IF t <= Len(seqs[i]) THEN <<seqs[i][t]>> ELSE <<>>]
            rounds == [t \in 1..m |-> Discover!FlattenSeq(Turn(t))]
            turns == Discover!TakeTurns(seqs)
<1>1. k \in Nat /\ DOMAIN seqs = 1..k
  BY ListIs
<1>2. \A i \in 1..k : Len(seqs[i]) \in Nat /\ IsList(seqs[i]) /\ Inside(seqs[i], X)
  BY ListIs
<1>3. m \in Nat /\ \A i \in 1..k : Len(seqs[i]) <= m
  BY <1>2, LongestIs
<1>4. turns = Discover!FlattenSeq(rounds)
  BY DEF Discover!TakeTurns
<1>5. ASSUME NEW t \in 1..m
      PROVE  /\ Turn(t) = [i \in 1..k |-> Turn(t)[i]]
             /\ \A i \in 1..k : /\ t <= Len(seqs[i]) => Turn(t)[i] = <<seqs[i][t]>>
                                /\ ~(t <= Len(seqs[i])) => Turn(t)[i] = <<>>
  BY <1>1
<1>6. /\ rounds = [t \in 1..m |-> rounds[t]]
      /\ \A t \in 1..m : rounds[t] = Discover!FlattenSeq(Turn(t))
  OBVIOUS
<1>. HIDE DEF k, m, Turn, rounds, turns
<1>7. ASSUME NEW t \in 1..m PROVE FlatOK(rounds[t], Turn(t), k, 1, X)
  <2>1. IsList(Turn(t)) /\ Len(Turn(t)) = k
    BY <1>1, <1>5, IsAList
  <2>2. ASSUME NEW i \in 1..k
        PROVE  IsList(Turn(t)[i]) /\ Inside(Turn(t)[i], X) /\ Len(Turn(t)[i]) <= 1
    <3>1. CASE t <= Len(seqs[i])
      <4>1. Turn(t)[i] = <<seqs[i][t]>>
        BY <1>5, <3>1
      <4>2. t \in 1..Len(seqs[i])
        BY <1>2, <1>3, <3>1
      <4>3. seqs[i][t] \in X
        BY <1>2, <4>2 DEF Inside
      <4>. QED  BY <4>1, <4>3, OneItem
    <3>2. CASE ~(t <= Len(seqs[i]))
      <4>1. Turn(t)[i] = <<>>
        BY <1>5, <3>2
      <4>. QED  BY <4>1, EmptyList DEF Inside
    <3>. QED  BY <3>1, <3>2
  <2>3. FlatOK(Discover!FlattenSeq(Turn(t)), Turn(t), Len(Turn(t)), 1, X)
    BY <2>1, <2>2, FlattenIs
  <2>. QED  BY <1>6, <2>1, <2>3
<1>8. IsList(rounds) /\ Len(rounds) = m
  BY <1>3, <1>6, IsAList
<1>9. \A t \in 1..m : IsList(rounds[t]) /\ Inside(rounds[t], X) /\ Len(rounds[t]) <= k
  BY <1>1, <1>7 DEF FlatOK
<1>10. FlatOK(turns, rounds, m, k, X)
  <2>1. FlatOK(Discover!FlattenSeq(rounds), rounds, Len(rounds), k, X)
    BY <1>1, <1>8, <1>9, FlattenIs
  <2>. QED  BY <1>4, <1>8, <2>1
<1>11. ASSUME NEW i \in 1..k, NEW j \in 1..Len(seqs[i])
       PROVE  \E p \in 1..Len(turns) : p <= j * k /\ turns[p] = seqs[i][j]
  <2>1. j \in 1..m /\ j <= Len(seqs[i])
    BY <1>2, <1>3
  <2>2. Turn(j)[i] = <<seqs[i][j]>>
    BY <1>5, <2>1
  <2>3. 1 \in 1..Len(Turn(j)[i]) /\ Turn(j)[i][1] = seqs[i][j]
    BY <2>2
  <2>4. PICK q \in 1..Len(rounds[j]) : rounds[j][q] = Turn(j)[i][1]
    BY <1>7, <2>1, <2>3 DEF FlatOK
  <2>5. PICK p \in 1..Len(turns) : p <= k * j /\ turns[p] = rounds[j][q]
    BY <1>10, <2>1 DEF FlatOK
  <2>6. k * j = j * k
    BY <1>1, <2>1
  <2>. QED  BY <2>3, <2>4, <2>5, <2>6
<1>12. IsList(turns) /\ Inside(turns, X)
  BY <1>10 DEF FlatOK
<1>. QED  BY <1>11, <1>12 DEF k, turns

Records == UNION {{records[i] : i \in 1..Len(records)} : records \in Answers}

LEMMA AnsweredIs ==
  ASSUME AnswersGiven, NEW outcomes \in [DOMAIN Providers -> Answers \cup {FAILED}]
  PROVE  LET answered == Discover!Answered(outcomes) IN
         /\ IsList(answered)
         /\ \A i \in 1..Len(answered) : IsList(answered[i]) /\ Inside(answered[i], Records)
<1>. DEFINE answered == Discover!Answered(outcomes)
            k == Len(Providers)
            places == {i \in DOMAIN outcomes : outcomes[i] # FAILED}
<1>1. k \in Nat /\ DOMAIN Providers = 1..k
  BY ListIs DEF AnswersGiven
<1>2. outcomes = [i \in 1..k |-> outcomes[i]] /\ \A i \in 1..k : outcomes[i] \in Answers \cup {FAILED}
  BY <1>1
<1>3. IsList(outcomes) /\ Len(outcomes) = k
  BY <1>1, <1>2, IsAList
<1>4. answered = Discover!KeptAt(outcomes, places)
  BY DEF Discover!Answered
<1>5. \A i \in places : outcomes[i] # FAILED
  OBVIOUS
<1>. HIDE DEF answered, k, places
<1>6. KeptOK(answered, outcomes, k, places)
  BY <1>3, <1>4, KeptAtIs
<1>7. ASSUME NEW i \in 1..Len(answered)
      PROVE  IsList(answered[i]) /\ Inside(answered[i], Records)
  <2>1. PICK n \in 1..k : n \in places /\ answered[i] = outcomes[n]
    BY <1>6 DEF KeptOK
  <2>2. answered[i] \in Answers
    BY <1>2, <1>5, <2>1
  <2>. QED  BY <2>2 DEF AnswersGiven, Inside, Records
<1>8. IsList(answered)
  BY <1>6 DEF KeptOK
<1>. QED  BY <1>7, <1>8 DEF answered

\* The search that the last result comes from.
Shared(answered, limit, years, openOnly, papers) ==
  LET merged == Discover!DeduplicatePapers(Discover!TakeTurns(answered))
      Passes(key) == \E i \in DOMAIN merged :
        merged[i].key = key /\ Discover!Wanted(merged[i], years, openOnly)
  IN
  /\ Len(papers) <= limit
  /\ \A i, j \in DOMAIN papers : papers[i].key = papers[j].key => i = j
  /\ \A i \in DOMAIN answered : \A j \in DOMAIN answered[i] :
       j * Len(answered) <= limit /\ Passes(answered[i][j].key) =>
         \E n \in DOMAIN papers : papers[n].key = answered[i][j].key

LEMMA SearchShares ==
  ASSUME AnswersGiven, NEW outcomes \in [DOMAIN Providers -> Answers \cup {FAILED}],
         NEW limit \in Limits, NEW years, NEW openOnly
  PROVE  LET answered == Discover!Answered(outcomes)
             merged == Discover!DeduplicatePapers(Discover!TakeTurns(answered))
         IN  Shared(answered, limit, years, openOnly,
                    Discover!Filtered(merged, years, openOnly, limit))
<1>. DEFINE answered == Discover!Answered(outcomes)
            turns == Discover!TakeTurns(answered)
            merged == Discover!DeduplicatePapers(turns)
            places == {i \in DOMAIN merged : Discover!Wanted(merged[i], years, openOnly)}
            wanted == Discover!KeptAt(merged, places)
            size == IF Len(wanted) < limit THEN Len(wanted) ELSE limit
            papers == Discover!Filtered(merged, years, openOnly, limit)
<1>1. limit \in Nat
  BY DEF AnswersGiven
<1>2. /\ IsList(answered)
      /\ \A i \in 1..Len(answered) : IsList(answered[i]) /\ Inside(answered[i], Records)
  BY AnsweredIs
<1>. HIDE DEF answered
<1>3. /\ IsList(turns) /\ Inside(turns, Records)
      /\ \A i \in 1..Len(answered) : \A j \in 1..Len(answered[i]) :
           \E p \in 1..Len(turns) : p <= j * Len(answered) /\ turns[p] = answered[i][j]
  BY <1>2, TurnsAre
<1>. HIDE DEF turns
<1>4. \A i \in 1..Len(turns) : IsRecord(turns[i])
  <2>1. \A r \in Records : IsRecord(r)
    BY DEF AnswersGiven, Records
  <2>. QED  BY <1>3, <2>1 DEF Inside
<1>5. MergedOK(merged, turns, Len(turns))
  BY <1>3, <1>4, MergedIs
<1>6. papers = SubSeq(wanted, 1, size)
  BY DEF Discover!Filtered
<1>7. \A i \in places : i \in DOMAIN merged /\ Discover!Wanted(merged[i], years, openOnly)
  OBVIOUS
<1>8. \A i \in DOMAIN merged : Discover!Wanted(merged[i], years, openOnly) => i \in places
  OBVIOUS
<1>. HIDE DEF merged, places
<1>9. IsList(merged) /\ DOMAIN merged = 1..Len(merged) /\ Len(merged) \in Nat
  BY <1>5, ListIs DEF MergedOK
<1>10. KeptOK(wanted, merged, Len(merged), places)
  BY <1>9, KeptAtIs
<1>. HIDE DEF wanted
<1>11. IsList(wanted) /\ Len(wanted) \in Nat
  BY <1>10, ListIs DEF KeptOK
<1>12. size \in 0..Len(wanted) /\ size <= limit
  BY <1>1, <1>11
<1>13. \A p \in Nat : p <= Len(wanted) /\ p <= limit => p <= size
  BY <1>1, <1>11
<1>. HIDE DEF size, papers
<1>14. /\ IsList(papers) /\ Len(papers) = size
       /\ \A p \in 1..size : papers[p] = wanted[p]
  BY <1>6, <1>11, <1>12, PrefixList
<1>15. DOMAIN papers = 1..size /\ \A p \in 1..size : p \in 1..Len(wanted)
  BY <1>11, <1>12, <1>14, ListIs
<1>16. ASSUME NEW p \in 1..size, NEW q \in 1..size, papers[p].key = papers[q].key PROVE p = q
  <2>1. ASSUME NEW a \in 1..size, NEW b \in 1..size, a < b PROVE papers[a].key # papers[b].key
    <3>1. PICK i \in 1..Len(merged), j \in 1..Len(merged) :
            i < j /\ wanted[a] = merged[i] /\ wanted[b] = merged[j]
      BY <1>10, <1>15, <2>1 DEF KeptOK
    <3>2. merged[i].key # merged[j].key
      BY <1>5, <3>1 DEF MergedOK
    <3>. QED  BY <1>14, <3>1, <3>2
  <2>2. size \in Nat
    BY <1>11, <1>12
  <2>3. p < q \/ q < p \/ p = q
    BY <2>2
  <2>. QED  BY <1>16, <2>1, <2>3
<1>17. ASSUME NEW i \in 1..Len(answered), NEW j \in 1..Len(answered[i]),
              j * Len(answered) <= limit,
              NEW w \in 1..Len(merged), merged[w].key = answered[i][j].key,
              Discover!Wanted(merged[w], years, openOnly)
       PROVE  \E n \in 1..size : papers[n].key = answered[i][j].key
  <2>. DEFINE last == j * Len(answered)
  <2>1. last \in Nat
    BY <1>2, ListIs
  <2>2. PICK p \in 1..Len(turns) : p <= last /\ turns[p] = answered[i][j]
    BY <1>3
  <2>3. PICK q \in 1..Len(merged) : q <= p /\ merged[q].key = turns[p].key
    BY <1>5 DEF MergedOK
  <2>4. q = w
    BY <1>5, <1>17, <2>2, <2>3 DEF MergedOK
  <2>5. w \in places
    BY <1>8, <1>9, <1>17
  <2>6. PICK n \in 1..Len(wanted) : n <= w /\ wanted[n] = merged[w]
    BY <1>10, <2>5 DEF KeptOK
  <2>. HIDE DEF last
  <2>7. last <= limit
    BY <1>17 DEF last
  <2>8. n \in Nat /\ n <= Len(wanted) /\ n <= limit /\ 1 <= n
    BY <1>1, <1>11, <2>1, <2>2, <2>3, <2>4, <2>6, <2>7, <1>3, <1>9, ListIs
  <2>9. n \in 1..size
    BY <1>11, <1>12, <1>13, <2>8
  <2>. QED  BY <1>14, <1>17, <2>6, <2>9
<1>18. DOMAIN answered = 1..Len(answered) /\
       \A i \in 1..Len(answered) : DOMAIN answered[i] = 1..Len(answered[i])
  BY <1>2, ListIs
<1>19. Shared(answered, limit, years, openOnly, papers)
  <2>1. Len(papers) <= limit
    BY <1>12, <1>14
  <2>2. \A i, j \in DOMAIN papers : papers[i].key = papers[j].key => i = j
    BY <1>15, <1>16
  <2>3. ASSUME NEW i \in DOMAIN answered, NEW j \in DOMAIN answered[i],
               j * Len(answered) <= limit,
               \E w \in DOMAIN merged : /\ merged[w].key = answered[i][j].key
                                        /\ Discover!Wanted(merged[w], years, openOnly)
        PROVE  \E n \in DOMAIN papers : papers[n].key = answered[i][j].key
    BY <1>9, <1>15, <1>17, <1>18, <2>3
  <2>. QED  BY <2>1, <2>2, <2>3 DEF Shared, merged, turns
<1>. QED  BY <1>19 DEF answered, turns, merged, papers

\* Nothing but a search touches the last result.
LEMMA FulltextKeepsFound ==
  ASSUME Discover!FulltextNext \/ UNCHANGED Discover!discoveryVars
  PROVE  found' = found
<1>1. CASE UNCHANGED Discover!discoveryVars
  BY <1>1 DEF Discover!discoveryVars
<1>2. CASE Discover!FulltextNext
  <2>1. ASSUME NEW s \in Sessions, Discover!FindFulltext(s) \/ Discover!EndSession(s)
        PROVE  found' = found
    BY <2>1 DEF Discover!FindFulltext, Discover!EndSession, Discover!searchVars
  <2>2. ASSUME NEW d \in Downloads,
               \/ Discover!StartDownload(d) \/ Discover!Refuse(d) \/ Discover!Stream(d)
               \/ Discover!StreamFails(d) \/ Discover!PublishDownload(d) \/ Discover!Cancel(d)
        PROVE  found' = found
    BY <2>2 DEF Discover!StartDownload, Discover!Refuse, Discover!Stream, Discover!StreamFails,
      Discover!PublishDownload, Discover!Cancel, Discover!searchVars
  <2>. QED  BY <1>2, <2>1, <2>2 DEF Discover!FulltextNext
<1>. QED  BY <1>1, <1>2

FoundInv == found # NONE => Shared(found.answers, found.limit, found.years, found.openOnly, found.papers)

LEMMA SearchKeeps == AnswersGiven /\ Discover!SearchFiltered => FoundInv'
<1>. SUFFICES ASSUME AnswersGiven, Discover!SearchFiltered PROVE FoundInv'
  OBVIOUS
<1>1. PICK outcomes \in [DOMAIN Providers -> Answers \cup {FAILED}], limit \in Limits,
           years \in Years, openOnly \in BOOLEAN :
        LET merged == Discover!DeduplicatePapers(Discover!TakeTurns(Discover!Answered(outcomes))) IN
        found' = [answers |-> Discover!Answered(outcomes), limit |-> limit, years |-> years,
                  openOnly |-> openOnly,
                  papers |-> Discover!Filtered(merged, years, openOnly, limit)]
  BY Zenon DEF Discover!SearchFiltered
<1>. DEFINE answered == Discover!Answered(outcomes)
            merged == Discover!DeduplicatePapers(Discover!TakeTurns(answered))
            papers == Discover!Filtered(merged, years, openOnly, limit)
<1>2. Shared(answered, limit, years, openOnly, papers)
  BY SearchShares
<1>3. found' = [answers |-> answered, limit |-> limit, years |-> years,
                openOnly |-> openOnly, papers |-> papers]
  BY <1>1
<1>. HIDE DEF answered, papers
<1>4. /\ found'.answers = answered /\ found'.limit = limit /\ found'.years = years
      /\ found'.openOnly = openOnly /\ found'.papers = papers
  BY <1>3
<1>5. Shared(found'.answers, found'.limit, found'.years, found'.openOnly, found'.papers)
  BY <1>2, <1>4
<1>. QED  BY <1>5 DEF FoundInv

(* The sources of a search share its limit: of k that answered, each one's *)
(* first limit/k records that pass the filters once they are merged are in *)
(* the result, which holds no paper twice and no more than the limit,      *)
(* whichever sources failed (search_filtered takes the records in turns    *)
(* before it deduplicates, filters and cuts them).                         *)
THEOREM SourcesShareTheLimit ==
  ASSUME AnswersGiven
  PROVE  Discover!DiscoverySpec => []FairShare
<1>1. Discover!DiscoveryInit => FoundInv
  BY DEF Discover!DiscoveryInit, FoundInv
<1>2. FoundInv /\ [Discover!DiscoveryNext]_Discover!discoveryVars => FoundInv'
  <2>. SUFFICES ASSUME FoundInv, [Discover!DiscoveryNext]_Discover!discoveryVars PROVE FoundInv'
    OBVIOUS
  <2>1. CASE Discover!SearchFiltered
    BY <2>1, SearchKeeps
  <2>2. CASE Discover!FulltextNext \/ UNCHANGED Discover!discoveryVars
    <3>1. found' = found
      BY <2>2, FulltextKeepsFound
    <3>. QED  BY <3>1 DEF FoundInv
  <2>. QED  BY <2>1, <2>2 DEF Discover!DiscoveryNext
<1>3. FoundInv => FairShare
  BY DEF FoundInv, Shared, FairShare, Discover!FairShare
<1>. QED  BY <1>1, <1>2, <1>3, PTL DEF Discover!DiscoverySpec
=============================================================================
