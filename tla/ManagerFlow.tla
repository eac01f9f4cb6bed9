---------------------------- MODULE ManagerFlow -----------------------------
(***************************************************************************)
(* One Scholar Run inside the CrewAI flow: app/orchestration/crewai/flow.py*)
(* with the guards of app/orchestration/manager.py, the capabilities of    *)
(* app/orchestration/service.py and the two stores they write, the Run's   *)
(* checkpoint and the project's patch.                                     *)
(*                                                                         *)
(* A language model proposes every action; what it proposes is arbitrary,  *)
(* and so is what the specialists find, draft and fail at.  What is not is *)
(* which proposals the validator lets through, what each one changes, and  *)
(* what survives the process: FlowState is memory, written to the          *)
(* checkpoint just before a capability runs; the specialists' outputs are  *)
(* memory only; a registered patch lasts.                                  *)
(*                                                                         *)
(* Refusals that depend on a proposal's wording (target, goal alignment,   *)
(* completion status), exceptions, and the tool and token budgets, which   *)
(* end the flow like any exception, are the action Fails.  review_round,   *)
(* current_agent, stage and the histories are read by no decision.         *)
(***************************************************************************)
EXTENDS Naturals

CONSTANTS
    Routes,        \* the routes to look at
    Texts,         \* what a writer may write
    MaxSteps,      \* max_manager_steps
    MaxResearch,   \* max_research_attempts
    MaxReviews,    \* max_review_rounds + 1
    MaxNoProgress, \* max_no_progress_rounds
    MaxInterrupts, \* bound: how often its process dies
    NoDraft,       \* None
    NoCheckpoint

WritingRoutes == {"WRITE_INTRODUCTION", "WRITE_CONCLUSION", "WRITE_ABSTRACT"}
ResearchRoutes == {"RESEARCH", "SUPPORT_CLAIM"}

(* A draft with the verdict of the deterministic reviewer on it; both are  *)
(* in the patch, so another verdict is another patch.                      *)
Drafts == [text : Texts, valid : BOOLEAN]

ASSUME FlowRouteAssumption == Routes \subseteq WritingRoutes \cup ResearchRoutes \cup {"REVIEW"}
ASSUME FlowBoundAssumption == /\ MaxSteps \in Nat /\ MaxResearch \in Nat
                              /\ MaxReviews \in Nat /\ MaxNoProgress \in Nat
                              /\ MaxInterrupts \in Nat
ASSUME FlowNullAssumption == /\ NoDraft \notin Drafts

VARIABLES
    route,      \* selected_route, fixed
    fs,         \* FlowState of the running process
    writer,     \* _writer_output of the running process
    evidence,   \* it has a _research_output
    pc,         \* "down", "manager", or the capability that runs
    checkpoint, \* run_checkpoints
    patch,      \* the patch row; for REVIEW the patch that is asked about
    result,     \* the flow's result and the last of its error codes
    error,
    interrupts,
    calls       \* history: how often each specialist was called, up to MaxSteps + 1

stores == <<checkpoint, patch, result, error>>
flowVars == <<route, fs, writer, evidence, pc, checkpoint, patch, result, error,
              interrupts, calls>>

ResearchActions == {"CALL_RESEARCH", "REQUEST_MORE_EVIDENCE"}
WriterActions == {"CALL_WRITER", "REQUEST_REVISION"}
Specialist == {"research", "writer", "reviewer"}

FlowState == [manager_steps : 0 .. MaxSteps,
              research_round : 0 .. MaxResearch,
              review_calls : 0 .. MaxReviews,
              no_progress_rounds : 0 .. MaxResearch,
              research_status : {"none", "COMPLETED", "INSUFFICIENT_EVIDENCE"},
              review_decision : {"none", "PASS", "REVISE"},
              last_agent : Specialist \cup {"none"},
              writer_ready : BOOLEAN,
              pending_gaps : BOOLEAN,     \* there are some
              draft_patch : BOOLEAN,      \* draft_patch_id and _reference are set
              recovery_action : {"none", "CALL_RESEARCH", "CALL_WRITER", "CALL_REVIEWER"}]

ASSUME FlowCheckpointAssumption == NoCheckpoint \notin FlowState

(* The constructor gives an Introduction without gaps its first one.       *)
Opened(s) == IF route = "WRITE_INTRODUCTION" THEN [s EXCEPT !.pending_gaps = TRUE] ELSE s

Fresh == [manager_steps |-> 0, research_round |-> 0, review_calls |-> 0,
          no_progress_rounds |-> 0, research_status |-> "none",
          review_decision |-> "none", last_agent |-> "none",
          writer_ready |-> FALSE, pending_gaps |-> FALSE,
          draft_patch |-> FALSE, recovery_action |-> "none"]

FlowInit ==
        /\ route \in Routes
        /\ fs = Opened(Fresh)
        /\ writer = NoDraft /\ evidence = FALSE
        /\ pc = "manager"
        /\ checkpoint = NoCheckpoint
        /\ patch \in IF route = "REVIEW" THEN Drafts \cup {NoDraft} ELSE {NoDraft}
        /\ result = "none" /\ error = "none"
        /\ interrupts = 0
        /\ calls = [a \in Specialist |-> 0]

EndsSaved(r, e) ==                   \* mutant: the checkpoint outlives the result
    /\ result' = r /\ error' = e
    /\ pc' = "done"
    /\ UNCHANGED checkpoint
(* _result: persisted, and the checkpoint cleared.                         *)
Ends(r, e) == /\ result' = r /\ error' = e
              /\ pc' = "done"
              /\ checkpoint' = NoCheckpoint

-----------------------------------------------------------------------------
(* ManagerDecisionValidator                                                *)

ResearchFirst(a) ==                  \* mutant: a revision replays its research
    IF a \in ResearchActions \cup {"REQUEST_REVISION"} THEN "CALL_RESEARCH" ELSE a
(* The replayable capability behind an action.                             *)
Capability(a) == IF a \in ResearchActions THEN "CALL_RESEARCH"
                 ELSE IF a \in WriterActions THEN "CALL_WRITER" ELSE a
Agent(a) == IF a \in ResearchActions THEN "research"
            ELSE IF a \in WriterActions THEN "writer" ELSE "reviewer"

(* After a restart the interrupted capability comes first; a label like    *)
(* REQUEST_REVISION is then refused, whatever it stands for.               *)
Expected(a) == fs.recovery_action \in {"none", a}

Progressing == fs.no_progress_rounds < MaxNoProgress

ResearchAllowed(a) ==
    /\ a \in ResearchActions
    /\ Expected(a) /\ Progressing
    /\ route \in ResearchRoutes \cup {"WRITE_INTRODUCTION"}
    /\ fs.research_round < MaxResearch
    /\ a = "REQUEST_MORE_EVIDENCE" => fs.last_agent # "none"

WritingAllowed(a) ==
    /\ a \in WriterActions
    /\ Expected(a)
    /\ route \in WritingRoutes
    /\ route = "WRITE_INTRODUCTION" => fs.writer_ready \/ fs.research_round > 0
    /\ a = "REQUEST_REVISION" => Progressing /\ fs.review_decision = "REVISE"
    /\ a = "CALL_WRITER" => fs.last_agent # "writer" /\ fs.review_decision # "PASS"

ReviewAllowed(a) ==
    /\ a = "CALL_REVIEWER"
    /\ Expected(a)
    /\ fs.review_calls < MaxReviews
    /\ \/ route = "REVIEW"
       \/ route \in WritingRoutes /\ fs.writer_ready /\ fs.last_agent # "reviewer"

Allowed(a) == ResearchAllowed(a) \/ WritingAllowed(a) \/ ReviewAllowed(a)
Actions == ResearchActions \cup WriterActions \cup {"CALL_REVIEWER"}

(* success_criteria_status, from the state and never from prose.           *)
CriteriaMet ==
    LET researched == fs.research_status = "COMPLETED" /\ ~fs.pending_gaps
        passed == fs.review_decision = "PASS"
    IN  CASE route \in ResearchRoutes -> researched
          [] route = "REVIEW" -> passed
          [] OTHER -> /\ fs.draft_patch /\ passed
                      /\ route = "WRITE_INTRODUCTION" => researched

CompletionUnreviewed ==              \* mutant: criteria and verdict are not asked
    fs.recovery_action = "none" /\ ~fs.pending_gaps
CompletionAllowed ==
    fs.recovery_action = "none" /\ ~fs.pending_gaps /\ CriteriaMet

-----------------------------------------------------------------------------
(* The loop: a decision is validated, counted, and written to the          *)
(* checkpoint with the capability to replay before that is called.         *)

Uncounted(a) ==                      \* mutant: the step is not counted
    [fs EXCEPT !.recovery_action = Capability(a)]
Counted(a) ==
    [fs EXCEPT !.manager_steps = @ + 1, !.recovery_action = Capability(a)]

ManagerDecides(a) ==
    /\ pc = "manager"
    /\ fs.manager_steps < MaxSteps
    /\ Allowed(a)
    /\ fs' = Counted(a)
    /\ checkpoint' = fs'
    /\ pc' = a
    /\ calls' = [calls EXCEPT ![Agent(a)] = IF @ > MaxSteps THEN @ ELSE @ + 1]
    /\ UNCHANGED <<route, writer, evidence, patch, result, error, interrupts>>

(* _research; same: the round found what the last one had found.           *)
Researched(status, gaps, same) ==
    [fs EXCEPT !.research_round = @ + 1,
               !.research_status = status,
               !.writer_ready = (status = "COMPLETED"),
               !.last_agent = "research",
               !.pending_gaps = gaps,
               !.no_progress_rounds = IF same THEN @ + 1 ELSE 0,
               !.recovery_action = "none"]

Research(status, gaps, same) ==
    /\ pc \in ResearchActions
    /\ same => fs.research_round > 0
    /\ fs' = Researched(status, gaps, same)
    /\ evidence' = TRUE
    /\ IF status = "INSUFFICIENT_EVIDENCE" /\ fs'.research_round >= MaxResearch
       THEN Ends("FAILED", "INSUFFICIENT_EVIDENCE")
       ELSE pc' = "manager" /\ UNCHANGED <<checkpoint, result, error>>
    /\ UNCHANGED <<route, writer, patch, interrupts, calls>>

(* write(): an Introduction needs the evidence in memory.  The patch id is *)
(* fixed by Run and section, and save_patch refuses another text under it. *)
Write(d) ==
    /\ pc \in WriterActions
    /\ IF route = "WRITE_INTRODUCTION" /\ ~evidence
       THEN Ends("FAILED", "VERIFIED_EVIDENCE") /\ UNCHANGED patch
       ELSE IF patch \notin {NoDraft, d}
       THEN Ends("FAILED", "PATCH_PERSISTENCE_FAILED") /\ UNCHANGED patch
       ELSE /\ patch' = d
            /\ pc' = "written"
            /\ UNCHANGED <<checkpoint, result, error>>
    /\ UNCHANGED <<route, fs, writer, evidence, interrupts, calls>>

(* _write takes the writer's answer over, another model call later.        *)
Written ==
    /\ pc = "written"
    /\ writer' = patch
    /\ fs' = [fs EXCEPT !.writer_ready = TRUE, !.last_agent = "writer",
                        !.draft_patch = TRUE, !.pending_gaps = FALSE,
                        !.recovery_action = "none"]
    /\ pc' = "manager"
    /\ UNCHANGED <<route, evidence, stores, interrupts, calls>>

(* What the reviewer is given: the draft in memory, after a restart the    *)
(* one the checkpoint refers to; for REVIEW the patch that is asked about. *)
UnderReview ==
    CASE route = "REVIEW" -> patch
      [] route # "REVIEW" /\ writer # NoDraft -> writer
      [] OTHER -> IF fs.draft_patch THEN patch ELSE NoDraft

NothingToReview ==
    IF route = "REVIEW" THEN "REVIEW_REQUEST_INVALID" ELSE "WRITER_STATE_UNAVAILABLE"

Review(gaps) ==
    LET d == UnderReview IN
    /\ pc = "CALL_REVIEWER"
    /\ IF d = NoDraft
       THEN Ends("FAILED", NothingToReview) /\ UNCHANGED <<fs, writer>>
       ELSE /\ fs' = [fs EXCEPT !.review_calls = @ + 1,
                                !.last_agent = "reviewer",
                                !.review_decision = IF d.valid THEN "PASS" ELSE "REVISE",
                                !.pending_gaps = ~d.valid /\ gaps,
                                !.recovery_action = "none"]
            /\ writer' = IF route = "REVIEW" THEN writer ELSE d
            /\ pc' = "manager"
            /\ UNCHANGED <<checkpoint, result, error>>
    /\ route # "REVIEW" => gaps
    /\ UNCHANGED <<route, evidence, patch, interrupts, calls>>

(* _complete: a writing route hands the draft it holds to the human.       *)
CompleteFlow ==
    /\ pc = "manager"
    /\ fs.manager_steps < MaxSteps
    /\ CompletionAllowed
    /\ IF route \notin WritingRoutes THEN Ends("COMPLETED", "none")
       ELSE IF writer = NoDraft THEN Ends("FAILED", "DRAFT_PATCH_INVALID")
       ELSE Ends("WAITING_HUMAN_APPROVAL", "none")
    /\ UNCHANGED <<route, fs, writer, evidence, patch, interrupts, calls>>

(* A refused proposal, a spent budget, a store that refuses a write, a     *)
(* capability or an agent that raises.                                     *)
Fails ==
    /\ pc \notin {"down", "done"}
    /\ Ends("FAILED", "other")
    /\ UNCHANGED <<route, fs, writer, evidence, patch, interrupts, calls>>

(* The process dies.  (A cancellation unwinds the flow just so; its Run    *)
(* then ends in module ScholarRun.)                                        *)
Interrupt ==
    /\ pc \notin {"down", "done"}
    /\ interrupts < MaxInterrupts
    /\ interrupts' = interrupts + 1
    /\ pc' = "down"
    /\ fs' = Fresh /\ writer' = NoDraft /\ evidence' = FALSE
    /\ UNCHANGED <<route, stores, calls>>

(* _run_impl on the same Run: counters come back, outputs do not.          *)
RestoredWithoutCounters ==           \* mutant: rounds start again at zero
    IF checkpoint = NoCheckpoint THEN Fresh
    ELSE [checkpoint EXCEPT !.research_round = 0, !.review_calls = 0]
Restored == IF checkpoint = NoCheckpoint THEN Fresh ELSE checkpoint

FlowRestarts ==
    /\ pc = "down"
    /\ pc' = "manager"
    /\ fs' = Opened(Restored)
    /\ UNCHANGED <<route, writer, evidence, stores, interrupts, calls>>

Works == \/ \E a \in Actions : ManagerDecides(a)
         \/ \E s \in {"COMPLETED", "INSUFFICIENT_EVIDENCE"}, g, same \in BOOLEAN :
                Research(s, g, same)
         \/ \E d \in Drafts : Write(d)
         \/ Written
         \/ \E g \in BOOLEAN : Review(g)
         \/ CompleteFlow
         \/ Fails
         \/ FlowRestarts

FlowNext == Works \/ Interrupt

FlowSpec == FlowInit /\ [][FlowNext]_flowVars

(* A claimed Job's handler runs on, and an interrupted Run is taken up     *)
(* again (RunsSettle of module ScholarRun).                                *)
FairFlow == FlowSpec /\ WF_flowVars(Works)

-----------------------------------------------------------------------------
(* Typing of FlowState, of what is kept of it, and of the stores: no       *)
(* counter leaves its budget, whatever the manager proposes.               *)
TypeOK ==
    /\ route \in Routes
    /\ fs \in FlowState
    /\ checkpoint \in FlowState \cup {NoCheckpoint}
    /\ writer \in Drafts \cup {NoDraft}
    /\ patch \in Drafts \cup {NoDraft}
    /\ evidence \in BOOLEAN
    /\ pc \in Actions \cup {"down", "manager", "written", "done"}
    /\ result \in {"none", "COMPLETED", "FAILED", "WAITING_HUMAN_APPROVAL"}
    /\ error \in {"none", "other", "INSUFFICIENT_EVIDENCE", "VERIFIED_EVIDENCE",
                  "PATCH_PERSISTENCE_FAILED", "WRITER_STATE_UNAVAILABLE",
                  "REVIEW_REQUEST_INVALID", "DRAFT_PATCH_INVALID"}
    /\ interrupts \in 0 .. MaxInterrupts
    /\ calls \in [Specialist -> 0 .. MaxSteps]

(* A Run asks the human only for a draft that is registered as it is, that *)
(* the reviewer passed, and, for an Introduction, that rests on completed  *)
(* research without open gaps - however many crashes, replays and further  *)
(* research rounds lie between the draft, its review and the end           *)
(* (flow.py _complete, manager.py's checks of COMPLETE).                   *)
ApprovalEarned ==
    result = "WAITING_HUMAN_APPROVAL" =>
        /\ patch # NoDraft /\ writer = patch /\ patch.valid
        /\ fs.review_decision = "PASS"
        /\ route = "WRITE_INTRODUCTION" =>
              fs.research_status = "COMPLETED" /\ ~fs.pending_gaps

(* A crash costs at most the capability it interrupted: the rounds that a  *)
(* checkpoint counts are never given again, and no interruption gives the  *)
(* manager another step (flow.py _checkpoint_before_action, service.py     *)
(* _run_impl).                                                             *)
WorkBounded ==
    /\ calls["research"] <= MaxResearch + interrupts
    /\ calls["reviewer"] <= MaxReviews + interrupts
    /\ calls["research"] + calls["writer"] + calls["reviewer"] <= MaxSteps

(* The validator lets an interrupted capability be replayed: what was      *)
(* allowed when the checkpoint was written is allowed after the restart.   *)
(* The exception is a second revision in a row, whose replay CALL_WRITER   *)
(* is refused as a STATE_REGRESSION.                                       *)
ReplayAllowed ==
    pc = "manager" /\ fs.recovery_action # "none" =>
        \/ Allowed(fs.recovery_action)
        \/ fs.recovery_action = "CALL_WRITER" /\ fs.last_agent = "writer"

(* Whatever the manager proposes, every flow ends: all of its loops spend  *)
(* manager steps.                                                          *)
FlowTerminates == <>(result # "none")

(* ScholarRun's view of a flow.                                            *)
Contract == INSTANCE FlowContract WITH
    drafting <- route \in WritingRoutes,
    saved <- checkpoint # NoCheckpoint,
    proposed <- route \in WritingRoutes /\ patch # NoDraft

ImplementsContract == Contract!Spec
=============================================================================
