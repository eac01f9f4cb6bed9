------------------------------- MODULE Uploads -------------------------------
(***************************************************************************)
(* Parse jobs of the web process: the task of a web job (WebJobs) is an    *)
(* upload of Ingestion (LocalRAGWebRuntime.parse_pdf), while the command   *)
(* line works on the same files.  Every stage the upload reports goes      *)
(* through the job's emit, so a cancellation reaches it there and nowhere  *)
(* else; a restart of the web process ends its uploads, not the command    *)
(* line's calls.                                                           *)
(***************************************************************************)
EXTENDS WebJobs

CONSTANTS Papers, Batches, Curators, Garbled, DoiOf, MaxFaults

VARIABLES raw, artifacts, paper, catalog, works, task, orphan, outlived, disturbed, faults

Library == INSTANCE Ingestion WITH Uploads <- Jobs

libraryVars == <<raw, artifacts, paper, catalog, works, task, orphan, outlived, disturbed, faults>>
vars == <<webVars, libraryVars>>

Init == WebInit /\ Library!IngestionInit

\* A step of the task.  One that reports a stage first needs a job that runs.
TaskStep(j) ==
  /\ At(j, "task")
  /\ Library!Reports(j) => MayEmit(j)
  /\ Library!StartUpload(j) \/ Library!ParseStep(j)
  /\ UNCHANGED webVars

\* A report of a stage is refused: the exception ends the upload where it stands
\* and releases the parse lock.
Refused(j) ==
  /\ At(j, "task") /\ Library!Reports(j) /\ ~MayEmit(j)
  /\ Library!ParseRaises(j) /\ TaskRaises(j)
  /\ UNCHANGED faults

\* The indexes that follow the catalogue fail (Knowledge).
IndexFails(j) ==
  /\ At(j, "task") /\ Library!At(j, "returned") /\ faults < MaxFaults
  /\ TaskRaises(j)
  /\ faults' = faults + 1
  /\ UNCHANGED <<raw, artifacts, paper, catalog, works, task, orphan, outlived, disturbed>>

TaskEnds(j) ==
  /\ \/ Library!At(j, "returned") /\ TaskReturns(j)
     \/ Library!At(j, "raised") /\ TaskRaises(j)
  /\ UNCHANGED libraryVars

WebRestart ==
  /\ Restart
  /\ Library!Killed(Jobs) /\ UNCHANGED faults

KillCommand(t) ==
  /\ faults < MaxFaults /\ Library!Working(t)
  /\ Library!Killed({t})
  /\ faults' = faults + 1
  /\ UNCHANGED webVars

\* What the given jobs, batches and curators may do.
StepOf(actors) ==
  \/ \E j \in Jobs \cap actors :
       \/ ManagerStep(j) /\ UNCHANGED libraryVars
       \/ TaskStep(j) \/ Refused(j) \/ IndexFails(j) \/ TaskEnds(j)
  \/ Jobs \cap actors # {} /\ WebRestart
  \/ \E t \in Batches \cap actors : Library!BatchStep(t) /\ UNCHANGED webVars
  \/ \E t \in Curators \cap actors : Library!CuratorStep(t) /\ UNCHANGED webVars
  \/ \E t \in (Batches \cup Curators) \cap actors : KillCommand(t)
  \/ \E t \in (Jobs \cup Batches) \cap actors : Library!OrphanEnds(t) /\ UNCHANGED webVars

Next == StepOf(Jobs \cup Batches \cup Curators)

Spec == Init /\ [][Next]_vars

-----------------------------------------------------------------------------
(* Properties                                                              *)

\* A job that clients see as succeeded has its whole event stream, its result file
\* under the reference, and a document in the corpus (the comment in _run on the
\* terminal progress event).
SucceededIsComplete ==
  \A j \in Jobs : status[j] = "SUCCEEDED" =>
    /\ {"queued", "running", "completed"} \subseteq events[j]
    /\ result[j] /\ reference[j]
    /\ \E p \in Papers : paper[p] # NONE

MineruOnce == Library!MineruOnce
MineruAlone == Library!MineruAlone
CatalogFollowsPapers == Library!CatalogFollowsPapers
=============================================================================
