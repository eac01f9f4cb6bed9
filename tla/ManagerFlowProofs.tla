-------------------------- MODULE ManagerFlowProofs --------------------------
(***************************************************************************)
(* The safety of a flow, for any routes, texts and budgets: its inductive  *)
(* invariant, and that it implements FlowContract.                         *)
(***************************************************************************)
EXTENDS ManagerFlow, TLAPS

(* What is true of the state in memory and of the one in the checkpoint: a *)
(* round without progress is a round, and a PASS is about the patch.       *)
Sound(s) ==
    /\ s.no_progress_rounds <= s.research_round
    /\ route \in WritingRoutes /\ s.review_decision = "PASS" =>
          patch # NoDraft /\ patch.valid

Snapshots == /\ Sound(fs)
             /\ checkpoint # NoCheckpoint => Sound(checkpoint)

(* What the validator asked is still true when the capability runs.        *)
Granted ==
    /\ pc \in ResearchActions => fs.research_round < MaxResearch
    /\ pc = "CALL_REVIEWER" => fs.review_calls < MaxReviews
    /\ pc \in WriterActions \cup {"written"} => route \in WritingRoutes
    /\ pc = "written" => patch # NoDraft

(* The process knows no other draft than the registered one.               *)
Drafted == writer \in {NoDraft, patch}

Ended == result = "none" <=> pc # "done"

(* Nothing but the opening state is ever without a checkpoint.             *)
Saved == checkpoint = NoCheckpoint /\ pc # "done" =>
            /\ pc \in {"down", "manager"}
            /\ fs \in {Fresh, Opened(Fresh)}

(* Every call is a step that memory and checkpoint have counted.           *)
Total == calls["research"] + calls["writer"] + calls["reviewer"]
Accounted ==
    /\ pc # "down" => Total = fs.manager_steps
    /\ checkpoint # NoCheckpoint => Total = checkpoint.manager_steps
    /\ checkpoint = NoCheckpoint /\ pc # "done" => Total = 0

(* A round that is not in the counter was interrupted, or runs.            *)
Running(A) == IF pc \in A THEN 1 ELSE 0
Rounds ==
    /\ pc \notin {"down", "done"} =>
          /\ calls["research"] <= fs.research_round + interrupts + Running(ResearchActions)
          /\ calls["reviewer"] <= fs.review_calls + interrupts + Running({"CALL_REVIEWER"})
    /\ checkpoint # NoCheckpoint =>
          LET last == IF pc = "down" THEN 0 ELSE 1 IN
          /\ calls["research"] <= checkpoint.research_round + interrupts + last
          /\ calls["reviewer"] <= checkpoint.review_calls + interrupts + last

IInv == /\ TypeOK /\ Snapshots /\ Granted /\ Drafted /\ Ended /\ Saved
        /\ Accounted /\ Rounds /\ WorkBounded /\ ApprovalEarned

-----------------------------------------------------------------------------
(* Facts about FlowState.                                                  *)

LEMMA StateFields ==
    ASSUME NEW t \in FlowState
    PROVE  /\ t.manager_steps \in 0 .. MaxSteps /\ t.research_round \in 0 .. MaxResearch
           /\ t.review_calls \in 0 .. MaxReviews /\ t.no_progress_rounds \in 0 .. MaxResearch
           /\ t.research_status \in {"none", "COMPLETED", "INSUFFICIENT_EVIDENCE"}
           /\ t.review_decision \in {"none", "PASS", "REVISE"}
           /\ t.last_agent \in Specialist \cup {"none"}
           /\ t.writer_ready \in BOOLEAN /\ t.pending_gaps \in BOOLEAN
           /\ t.draft_patch \in BOOLEAN
           /\ t.recovery_action \in {"none", "CALL_RESEARCH", "CALL_WRITER", "CALL_REVIEWER"}
BY SMT DEF FlowState

LEMMA StateTyped ==
    ASSUME NEW s \in FlowState, NEW t,
           DOMAIN t = DOMAIN s, t = [x \in DOMAIN s |-> t[x]],
           t.manager_steps \in 0 .. MaxSteps, t.research_round \in 0 .. MaxResearch,
           t.review_calls \in 0 .. MaxReviews, t.no_progress_rounds \in 0 .. MaxResearch,
           t.research_status \in {"none", "COMPLETED", "INSUFFICIENT_EVIDENCE"},
           t.review_decision \in {"none", "PASS", "REVISE"},
           t.last_agent \in Specialist \cup {"none"},
           t.writer_ready \in BOOLEAN, t.pending_gaps \in BOOLEAN, t.draft_patch \in BOOLEAN,
           t.recovery_action \in {"none", "CALL_RESEARCH", "CALL_WRITER", "CALL_REVIEWER"}
    PROVE  t \in FlowState
BY SMT DEF FlowState

(* A changed state is a state if every changed field is typed.             *)
LEMMA Retyped ==
    ASSUME NEW s \in FlowState, NEW t,
           DOMAIN t = DOMAIN s, t = [x \in DOMAIN s |-> t[x]],
           t.manager_steps = s.manager_steps \/ t.manager_steps \in 0 .. MaxSteps,
           t.research_round = s.research_round \/ t.research_round \in 0 .. MaxResearch,
           t.review_calls = s.review_calls \/ t.review_calls \in 0 .. MaxReviews,
           t.no_progress_rounds = s.no_progress_rounds
              \/ t.no_progress_rounds \in 0 .. MaxResearch,
           t.research_status = s.research_status
              \/ t.research_status \in {"COMPLETED", "INSUFFICIENT_EVIDENCE"},
           t.review_decision = s.review_decision \/ t.review_decision \in {"PASS", "REVISE"},
           t.last_agent = s.last_agent \/ t.last_agent \in Specialist,
           t.writer_ready = s.writer_ready \/ t.writer_ready \in BOOLEAN,
           t.pending_gaps = s.pending_gaps \/ t.pending_gaps \in BOOLEAN,
           t.draft_patch = s.draft_patch \/ t.draft_patch \in BOOLEAN,
           t.recovery_action \in {"none", "CALL_RESEARCH", "CALL_WRITER", "CALL_REVIEWER"}
    PROVE  t \in FlowState
<1>1. /\ t.manager_steps \in 0 .. MaxSteps /\ t.research_round \in 0 .. MaxResearch
      /\ t.review_calls \in 0 .. MaxReviews /\ t.no_progress_rounds \in 0 .. MaxResearch
    BY StateFields
<1>2. /\ t.research_status \in {"none", "COMPLETED", "INSUFFICIENT_EVIDENCE"}
      /\ t.review_decision \in {"none", "PASS", "REVISE"}
      /\ t.last_agent \in Specialist \cup {"none"}
    BY StateFields
<1>3. t.writer_ready \in BOOLEAN /\ t.pending_gaps \in BOOLEAN /\ t.draft_patch \in BOOLEAN
    BY StateFields, Zenon
<1> QED
    BY <1>1, <1>2, <1>3, StateTyped

(* Opening a state changes nothing but the gaps of an Introduction.        *)
LEMMA OpenedKeeps ==
    ASSUME NEW s \in FlowState
    PROVE  /\ Opened(s) \in FlowState
           /\ Opened(s).manager_steps = s.manager_steps
           /\ Opened(s).research_round = s.research_round
           /\ Opened(s).review_calls = s.review_calls
           /\ Opened(s).no_progress_rounds = s.no_progress_rounds
           /\ Opened(s).review_decision = s.review_decision
<1>1. CASE route = "WRITE_INTRODUCTION"
  <2>1. PICK t : t = [s EXCEPT !.pending_gaps = TRUE]
    OBVIOUS
  <2>2. Opened(s) = t
    BY <1>1, <2>1 DEF Opened
  <2>3. /\ t.manager_steps = s.manager_steps /\ t.research_round = s.research_round
        /\ t.review_calls = s.review_calls /\ t.no_progress_rounds = s.no_progress_rounds
        /\ t.research_status = s.research_status /\ t.review_decision = s.review_decision
        /\ t.last_agent = s.last_agent /\ t.recovery_action = s.recovery_action
    BY <2>1, SMT DEF FlowState
  <2>4. /\ t.pending_gaps = TRUE /\ t.draft_patch = s.draft_patch
        /\ t.writer_ready = s.writer_ready
    BY <2>1, SMT DEF FlowState
  <2>5. DOMAIN t = DOMAIN s /\ t = [x \in DOMAIN s |-> t[x]]
    BY <2>1, Zenon
  <2>6. s.recovery_action \in {"none", "CALL_RESEARCH", "CALL_WRITER", "CALL_REVIEWER"}
    BY StateFields
  <2>7. t \in FlowState
    BY <2>3, <2>4, <2>5, <2>6, Retyped
  <2> QED
    BY <2>2, <2>3, <2>7
<1>2. CASE route # "WRITE_INTRODUCTION"
    BY <1>2 DEF Opened
<1> QED
    BY <1>1, <1>2

LEMMA FreshTyped ==
    /\ Fresh \in FlowState /\ Opened(Fresh) \in FlowState
    /\ Fresh.manager_steps = 0 /\ Fresh.research_round = 0 /\ Fresh.review_calls = 0
    /\ Fresh.no_progress_rounds = 0 /\ Fresh.review_decision = "none"
<1>1. Fresh \in FlowState
    BY FlowBoundAssumption, SMT DEF Fresh, FlowState, Specialist
<1>2. Opened(Fresh) \in FlowState
    BY <1>1, OpenedKeeps
<1> QED
    BY <1>1, <1>2, SMT DEF Fresh

(* What a decision changes.                                                *)
LEMMA CountedKeeps ==
    ASSUME fs \in FlowState, fs.manager_steps < MaxSteps, NEW a \in Actions
    PROVE  /\ Counted(a) \in FlowState
           /\ Counted(a).manager_steps = fs.manager_steps + 1
           /\ Counted(a).research_round = fs.research_round
           /\ Counted(a).review_calls = fs.review_calls
           /\ Counted(a).no_progress_rounds = fs.no_progress_rounds
           /\ Counted(a).review_decision = fs.review_decision
<1>1. PICK c \in {"CALL_RESEARCH", "CALL_WRITER", "CALL_REVIEWER"} : c = Capability(a)
    BY DEF Capability, Actions, ResearchActions, WriterActions
<1>2. PICK n \in 0 .. MaxSteps : n = fs.manager_steps + 1
    BY StateFields, FlowBoundAssumption
<1>3. PICK t : t = [fs EXCEPT !.manager_steps = n, !.recovery_action = c]
    OBVIOUS
<1>4. t = Counted(a)
    BY <1>1, <1>2, <1>3 DEF Counted
<1>5. /\ t.manager_steps = n /\ t.research_round = fs.research_round
      /\ t.review_calls = fs.review_calls /\ t.no_progress_rounds = fs.no_progress_rounds
      /\ t.research_status = fs.research_status /\ t.review_decision = fs.review_decision
      /\ t.last_agent = fs.last_agent /\ t.recovery_action = c
    BY <1>3, SMT DEF FlowState
<1>6. /\ t.writer_ready = fs.writer_ready /\ t.pending_gaps = fs.pending_gaps
      /\ t.draft_patch = fs.draft_patch
    BY <1>3, SMT DEF FlowState
<1>7. DOMAIN t = DOMAIN fs /\ t = [x \in DOMAIN fs |-> t[x]]
    BY <1>3, Zenon
<1>8. t \in FlowState
    BY <1>5, <1>6, <1>7, Retyped
<1> QED
    BY <1>2, <1>4, <1>5, <1>8

(* What a round of research changes.                                       *)
LEMMA ResearchedKeeps ==
    ASSUME fs \in FlowState, fs.research_round < MaxResearch,
           fs.no_progress_rounds <= fs.research_round,
           NEW status \in {"COMPLETED", "INSUFFICIENT_EVIDENCE"},
           NEW gaps \in BOOLEAN, NEW same \in BOOLEAN
    PROVE  LET t == Researched(status, gaps, same) IN
           /\ t \in FlowState
           /\ t.manager_steps = fs.manager_steps
           /\ t.research_round = fs.research_round + 1
           /\ t.review_calls = fs.review_calls
           /\ t.no_progress_rounds <= t.research_round
           /\ t.review_decision = fs.review_decision
<1>1. PICK w \in BOOLEAN : w = (status = "COMPLETED")
    OBVIOUS
<1>2. PICK n \in 0 .. MaxResearch :
         /\ n = IF same THEN fs.no_progress_rounds + 1 ELSE 0
         /\ n <= fs.research_round + 1
    BY StateFields, FlowBoundAssumption
<1>3. PICK r \in 0 .. MaxResearch : r = fs.research_round + 1
    BY StateFields, FlowBoundAssumption
<1>4. PICK t : t = [fs EXCEPT !.research_round = r, !.research_status = status,
                             !.writer_ready = w, !.last_agent = "research",
                             !.pending_gaps = gaps, !.no_progress_rounds = n,
                             !.recovery_action = "none"]
    OBVIOUS
<1>5. t = Researched(status, gaps, same)
    BY <1>1, <1>2, <1>3, <1>4, Zenon DEF Researched
<1>6. /\ t.manager_steps = fs.manager_steps /\ t.research_round = r
      /\ t.review_calls = fs.review_calls /\ t.no_progress_rounds = n
      /\ t.research_status = status /\ t.review_decision = fs.review_decision
      /\ t.last_agent = "research" /\ t.recovery_action = "none"
    BY <1>4, SMT DEF FlowState
<1>7. t.writer_ready = w /\ t.pending_gaps = gaps /\ t.draft_patch = fs.draft_patch
    BY <1>4, SMT DEF FlowState
<1>8. DOMAIN t = DOMAIN fs /\ t = [x \in DOMAIN fs |-> t[x]]
    BY <1>4, Zenon
<1>9. t \in FlowState
    BY <1>6, <1>7, <1>8, Retyped DEF Specialist
<1> QED
    BY <1>2, <1>3, <1>5, <1>6, <1>9

(* What taking a draft over changes.                                       *)
LEMMA WrittenKeeps ==
    ASSUME NEW s \in FlowState, NEW t,
           t = [s EXCEPT !.writer_ready = TRUE, !.last_agent = "writer",
                         !.draft_patch = TRUE, !.pending_gaps = FALSE,
                         !.recovery_action = "none"]
    PROVE  /\ t \in FlowState
           /\ t.manager_steps = s.manager_steps
           /\ t.research_round = s.research_round
           /\ t.review_calls = s.review_calls
           /\ t.no_progress_rounds = s.no_progress_rounds
           /\ t.review_decision = s.review_decision
<1>1. /\ t.manager_steps = s.manager_steps /\ t.research_round = s.research_round
      /\ t.review_calls = s.review_calls /\ t.no_progress_rounds = s.no_progress_rounds
      /\ t.research_status = s.research_status /\ t.review_decision = s.review_decision
      /\ t.last_agent = "writer" /\ t.recovery_action = "none"
    BY SMT DEF FlowState
<1>2. t.pending_gaps = FALSE /\ t.draft_patch = TRUE /\ t.writer_ready = TRUE
    BY SMT DEF FlowState
<1>3. DOMAIN t = DOMAIN s /\ t = [x \in DOMAIN s |-> t[x]]
    BY Zenon
<1>4. t \in FlowState
    BY ONLY s \in FlowState, <1>1, <1>2, <1>3, Retyped DEF Specialist
<1> QED
    BY <1>1, <1>4

(* What a review changes.                                                  *)
Reviewed(verdict, gaps) ==
    [fs EXCEPT !.review_calls = @ + 1, !.last_agent = "reviewer",
               !.review_decision = verdict, !.pending_gaps = gaps,
               !.recovery_action = "none"]

LEMMA ReviewedKeeps ==
    ASSUME fs \in FlowState, fs.review_calls < MaxReviews,
           NEW verdict \in {"PASS", "REVISE"}, NEW gaps \in BOOLEAN
    PROVE  LET t == Reviewed(verdict, gaps) IN
           /\ t \in FlowState
           /\ t.manager_steps = fs.manager_steps
           /\ t.research_round = fs.research_round
           /\ t.review_calls = fs.review_calls + 1
           /\ t.no_progress_rounds = fs.no_progress_rounds
           /\ t.review_decision = verdict
<1>1. PICK n \in 0 .. MaxReviews : n = fs.review_calls + 1
    BY StateFields, FlowBoundAssumption
<1>2. PICK t : t = [fs EXCEPT !.review_calls = n, !.last_agent = "reviewer",
                             !.review_decision = verdict, !.pending_gaps = gaps,
                             !.recovery_action = "none"]
    OBVIOUS
<1>3. t = Reviewed(verdict, gaps)
    BY <1>1, <1>2, Zenon DEF Reviewed
<1>4. /\ t.manager_steps = fs.manager_steps /\ t.research_round = fs.research_round
      /\ t.review_calls = n /\ t.no_progress_rounds = fs.no_progress_rounds
      /\ t.research_status = fs.research_status /\ t.review_decision = verdict
      /\ t.last_agent = "reviewer" /\ t.recovery_action = "none"
    BY <1>2, SMT DEF FlowState
<1>5. /\ t.pending_gaps = gaps /\ t.draft_patch = fs.draft_patch
      /\ t.writer_ready = fs.writer_ready
    BY <1>2, SMT DEF FlowState
<1>6. DOMAIN t = DOMAIN fs /\ t = [x \in DOMAIN fs |-> t[x]]
    BY <1>2, Zenon
<1>7. t \in FlowState
    BY <1>4, <1>5, <1>6, Retyped DEF Specialist
<1> QED
    BY <1>1, <1>3, <1>4, <1>7

-----------------------------------------------------------------------------
(* The invariant.                                                          *)

LEMMA InitIInv == FlowInit => IInv
<1> SUFFICES ASSUME FlowInit PROVE IInv
    OBVIOUS
<1>1. /\ fs \in FlowState
      /\ fs.manager_steps = 0 /\ fs.research_round = 0 /\ fs.review_calls = 0
      /\ fs.no_progress_rounds = 0 /\ fs.review_decision = "none"
    BY FreshTyped, OpenedKeeps DEF FlowInit
<1>2. calls = [a \in Specialist |-> 0] /\ interrupts = 0 /\ error = "none"
    BY DEF FlowInit
<1>3. TypeOK
  <2>1. calls \in [Specialist -> 0 .. MaxSteps] /\ interrupts \in 0 .. MaxInterrupts
    BY <1>2, FlowBoundAssumption
  <2> QED
    BY <1>1, <1>2, <2>1 DEF FlowInit, TypeOK
<1>4. Snapshots
    BY <1>1 DEF FlowInit, Snapshots, Sound
<1>5. calls["research"] = 0 /\ calls["writer"] = 0 /\ calls["reviewer"] = 0
    BY <1>2 DEF Specialist
<1>6. Accounted /\ Rounds /\ WorkBounded
    BY <1>1, <1>2, <1>5, FlowBoundAssumption
    DEF FlowInit, Accounted, Total, Rounds, Running, WorkBounded, ResearchActions
<1>7. Granted /\ Drafted /\ Ended /\ Saved /\ ApprovalEarned
    BY DEF FlowInit, Granted, Drafted, Ended, Saved, ApprovalEarned,
           ResearchActions, WriterActions
<1> QED
    BY <1>3, <1>4, <1>6, <1>7 DEF IInv

(* The numbers of a state, for arithmetic.                                 *)
LEMMA Numbers ==
    ASSUME IInv
    PROVE  /\ calls["research"] \in Nat /\ calls["writer"] \in Nat
           /\ calls["reviewer"] \in Nat /\ interrupts \in Nat
           /\ fs.manager_steps \in Nat /\ fs.research_round \in Nat
           /\ fs.review_calls \in Nat /\ fs.no_progress_rounds \in Nat
BY FlowBoundAssumption, StateFields DEF IInv, TypeOK, Specialist

LEMMA DecideIInv == ASSUME IInv, NEW a \in Actions, ManagerDecides(a) PROVE IInv'
<1> USE DEF IInv
<1>1. fs \in FlowState /\ fs.manager_steps < MaxSteps
    BY DEF TypeOK, ManagerDecides
<1>2. /\ fs' \in FlowState
      /\ fs'.manager_steps = fs.manager_steps + 1
      /\ fs'.research_round = fs.research_round
      /\ fs'.review_calls = fs.review_calls
      /\ fs'.no_progress_rounds = fs.no_progress_rounds
      /\ fs'.review_decision = fs.review_decision
    BY <1>1, CountedKeeps DEF ManagerDecides
<1>3. /\ pc = "manager" /\ pc' = a /\ checkpoint' = fs' /\ Allowed(a)
      /\ checkpoint' # NoCheckpoint
      /\ UNCHANGED <<route, writer, evidence, patch, result, error, interrupts>>
    BY <1>2, FlowCheckpointAssumption DEF ManagerDecides
<1>4. Total = fs.manager_steps
    BY <1>3 DEF Accounted
<1>5. /\ Agent(a) \in Specialist
      /\ a \in ResearchActions <=> Agent(a) = "research"
      /\ a = "CALL_REVIEWER" <=> Agent(a) = "reviewer"
    BY DEF Agent, Specialist, Actions, ResearchActions, WriterActions
<1>6. /\ calls \in [Specialist -> 0 .. MaxSteps]
      /\ calls' = [calls EXCEPT ![Agent(a)] = calls[Agent(a)] + 1]
  <2>1. calls \in [Specialist -> 0 .. MaxSteps]
    BY DEF TypeOK
  <2>2. calls[Agent(a)] <= MaxSteps
    BY <1>5, <2>1, FlowBoundAssumption
  <2>3. ~(calls[Agent(a)] > MaxSteps)
    BY <1>5, <2>1, <2>2, FlowBoundAssumption
  <2> QED
    BY <2>1, <2>3 DEF ManagerDecides
<1>7. /\ calls'["research"] = IF Agent(a) = "research" THEN calls["research"] + 1
                              ELSE calls["research"]
      /\ calls'["writer"] = IF Agent(a) = "writer" THEN calls["writer"] + 1
                            ELSE calls["writer"]
      /\ calls'["reviewer"] = IF Agent(a) = "reviewer" THEN calls["reviewer"] + 1
                              ELSE calls["reviewer"]
    BY <1>5, <1>6 DEF Specialist
<1>8. calls' \in [Specialist -> 0 .. MaxSteps]
  <2>1. calls[Agent(a)] + 1 \in 0 .. MaxSteps
    BY <1>1, <1>4, <1>5, Numbers, FlowBoundAssumption DEF Total, Specialist
  <2> QED
    BY <1>5, <1>6, <2>1
<1>9. TypeOK'
    BY <1>2, <1>3, <1>8 DEF TypeOK
<1>10. Snapshots'
    BY <1>2, <1>3 DEF Snapshots, Sound
<1>11. Granted'
    BY <1>2, <1>3
    DEF Granted, Allowed, ResearchAllowed, WritingAllowed, ReviewAllowed, Actions,
        ResearchActions, WriterActions
<1>12. Drafted' /\ Ended' /\ Saved' /\ ApprovalEarned'
    BY <1>3 DEF Drafted, Ended, Saved, ApprovalEarned, Actions, ResearchActions, WriterActions
<1>13. Total' = Total + 1
    BY <1>5, <1>7, Numbers DEF Total, Specialist
<1>14. Accounted'
    BY <1>2, <1>3, <1>4, <1>13 DEF Accounted
<1>15. Rounds'
    BY <1>2, <1>3, <1>5, <1>7, Numbers DEF Rounds, Running, Actions, ResearchActions, WriterActions
<1>16. WorkBounded'
  <2>1. a \in ResearchActions => fs.research_round < MaxResearch
    BY <1>3 DEF Allowed, ResearchAllowed, WritingAllowed, ReviewAllowed,
                ResearchActions, WriterActions
  <2>2. a = "CALL_REVIEWER" => fs.review_calls < MaxReviews
    BY <1>3 DEF Allowed, ResearchAllowed, WritingAllowed, ReviewAllowed,
                ResearchActions, WriterActions
  <2>3. calls["research"] <= fs.research_round + interrupts
    BY <1>3, Numbers DEF Rounds, Running, ResearchActions
  <2>4. calls["reviewer"] <= fs.review_calls + interrupts
    BY <1>3, Numbers DEF Rounds, Running
  <2>5. Total + 1 <= MaxSteps
    BY <1>1, <1>4, Numbers, FlowBoundAssumption
  <2> QED
    BY <1>3, <1>5, <1>7, <1>13, <2>1, <2>2, <2>3, <2>4, <2>5, Numbers, FlowBoundAssumption
    DEF WorkBounded, Total
<1> QED
    BY <1>9, <1>10, <1>11, <1>12, <1>14, <1>15, <1>16

(* An end that does not ask the human keeps the invariant.                 *)
LEMMA EndIInv ==
    ASSUME IInv, NEW r \in {"COMPLETED", "FAILED"}, NEW e, Ends(r, e), pc # "down",
           e \in {"none", "other", "INSUFFICIENT_EVIDENCE", "VERIFIED_EVIDENCE",
                  "PATCH_PERSISTENCE_FAILED", "WRITER_STATE_UNAVAILABLE",
                  "REVIEW_REQUEST_INVALID", "DRAFT_PATCH_INVALID"},
           UNCHANGED <<route, writer, patch, interrupts, calls>>,
           fs' \in FlowState, fs'.manager_steps = fs.manager_steps,
           fs'.no_progress_rounds <= fs'.research_round,
           fs'.review_decision = fs.review_decision, evidence' \in BOOLEAN
    PROVE  IInv'
<1> USE DEF IInv, Ends
<1>1. TypeOK'
    BY DEF TypeOK
<1>2. Snapshots'
    BY DEF Snapshots, Sound
<1>3. Granted' /\ Drafted' /\ Ended' /\ Saved' /\ ApprovalEarned'
    BY DEF Granted, Drafted, Ended, Saved, ApprovalEarned, ResearchActions, WriterActions
<1>4. Accounted'
    BY DEF Accounted, Total
<1>5. Rounds' /\ WorkBounded'
    BY DEF Rounds, WorkBounded
<1> QED
    BY <1>1, <1>2, <1>3, <1>4, <1>5

LEMMA ResearchIInv ==
    ASSUME IInv, NEW status \in {"COMPLETED", "INSUFFICIENT_EVIDENCE"},
           NEW gaps \in BOOLEAN, NEW same \in BOOLEAN, Research(status, gaps, same)
    PROVE  IInv'
<1> USE DEF IInv
<1>1. fs \in FlowState /\ fs.research_round < MaxResearch
      /\ fs.no_progress_rounds <= fs.research_round
    BY DEF TypeOK, Research, Granted, Snapshots, Sound
<1>2. /\ fs' \in FlowState
      /\ fs'.manager_steps = fs.manager_steps
      /\ fs'.research_round = fs.research_round + 1
      /\ fs'.review_calls = fs.review_calls
      /\ fs'.no_progress_rounds <= fs'.research_round
      /\ fs'.review_decision = fs.review_decision
    BY <1>1, ResearchedKeeps DEF Research
<1>3. /\ pc \in ResearchActions /\ evidence' = TRUE
      /\ UNCHANGED <<route, writer, patch, interrupts, calls>>
    BY DEF Research
<1>4. pc \notin {"down", "done"}
    BY <1>3 DEF ResearchActions
<1>5. CASE Ends("FAILED", "INSUFFICIENT_EVIDENCE")
    BY <1>2, <1>3, <1>4, <1>5, EndIInv
<1>6. CASE pc' = "manager" /\ UNCHANGED <<checkpoint, result, error>>
  <2>1. TypeOK'
    BY <1>2, <1>3, <1>6 DEF TypeOK
  <2>2. Snapshots'
    BY <1>2, <1>3, <1>6 DEF Snapshots, Sound
  <2>3. Granted' /\ Drafted' /\ Ended' /\ Saved' /\ ApprovalEarned'
    BY <1>3, <1>6 DEF Granted, Drafted, Ended, Saved, ApprovalEarned,
                      ResearchActions, WriterActions
  <2>4. Accounted'
    BY <1>2, <1>3, <1>4, <1>6 DEF Accounted, Total
  <2>5. Rounds' /\ WorkBounded'
    BY <1>2, <1>3, <1>4, <1>6, Numbers DEF Rounds, Running, WorkBounded, ResearchActions
  <2> QED
    BY <2>1, <2>2, <2>3, <2>4, <2>5
<1> QED
    BY <1>5, <1>6 DEF Research

LEMMA WriteIInv == ASSUME IInv, NEW d \in Drafts, Write(d) PROVE IInv'
<1> USE DEF IInv
<1>1. /\ pc \in WriterActions
      /\ UNCHANGED <<route, fs, writer, evidence, interrupts, calls>>
    BY DEF Write
<1>2. pc \notin {"down", "done", "manager"}
    BY <1>1 DEF WriterActions
<1>3. CASE (Ends("FAILED", "VERIFIED_EVIDENCE") \/ Ends("FAILED", "PATCH_PERSISTENCE_FAILED"))
           /\ UNCHANGED patch
    BY <1>1, <1>2, <1>3, EndIInv DEF TypeOK, Snapshots, Sound
<1>4. CASE /\ patch \in {NoDraft, d} /\ patch' = d
           /\ pc' = "written"
           /\ UNCHANGED <<checkpoint, result, error>>
  <2>1. d # NoDraft
    BY FlowNullAssumption
  <2>2. TypeOK'
    BY <1>1, <1>4 DEF TypeOK
  <2>3. Snapshots' /\ Drafted'
    BY <1>1, <1>4, <2>1 DEF Snapshots, Sound, Drafted
  <2>4. Granted' /\ Ended' /\ Saved' /\ ApprovalEarned'
    BY <1>1, <1>2, <1>4, <2>1 DEF Granted, Ended, Saved, ApprovalEarned,
                      ResearchActions, WriterActions
  <2>5. Accounted'
    BY <1>1, <1>2, <1>4 DEF Accounted, Total
  <2>6. Rounds' /\ WorkBounded'
    BY <1>1, <1>2, <1>4, Numbers DEF Rounds, Running, WorkBounded, ResearchActions, WriterActions
  <2> QED
    BY <2>2, <2>3, <2>4, <2>5, <2>6
<1> QED
    BY <1>3, <1>4 DEF Write

LEMMA WrittenIInv == ASSUME IInv, Written PROVE IInv'
<1> USE DEF IInv
<1>1. /\ pc = "written" /\ pc' = "manager" /\ writer' = patch
      /\ UNCHANGED <<route, evidence, checkpoint, patch, result, error, interrupts, calls>>
    BY DEF Written, stores
<1>2. /\ fs' \in FlowState
      /\ fs'.manager_steps = fs.manager_steps
      /\ fs'.research_round = fs.research_round
      /\ fs'.review_calls = fs.review_calls
      /\ fs'.no_progress_rounds = fs.no_progress_rounds
      /\ fs'.review_decision = fs.review_decision
    BY WrittenKeeps DEF Written, TypeOK
<1>3. TypeOK'
    BY <1>1, <1>2 DEF TypeOK
<1>4. Snapshots'
    BY <1>1, <1>2 DEF Snapshots, Sound
<1>5. Granted' /\ Drafted' /\ Ended' /\ Saved' /\ ApprovalEarned'
    BY <1>1 DEF Granted, Drafted, Ended, Saved, ApprovalEarned, ResearchActions, WriterActions
<1>6. Accounted'
    BY <1>1, <1>2 DEF Accounted, Total
<1>7. Rounds' /\ WorkBounded'
    BY <1>1, <1>2, Numbers DEF Rounds, Running, WorkBounded, ResearchActions
<1> QED
    BY <1>3, <1>4, <1>5, <1>6, <1>7

LEMMA ReviewIInv == ASSUME IInv, NEW gaps \in BOOLEAN, Review(gaps) PROVE IInv'
<1> USE DEF IInv
<1>1. /\ pc = "CALL_REVIEWER"
      /\ UNCHANGED <<route, evidence, patch, interrupts, calls>>
    BY DEF Review
<1>2. CASE UnderReview = NoDraft
  <2>1. Ends("FAILED", NothingToReview) /\ UNCHANGED <<fs, writer>>
    BY <1>2 DEF Review
  <2>2. NothingToReview \in {"REVIEW_REQUEST_INVALID", "WRITER_STATE_UNAVAILABLE"}
    BY DEF NothingToReview
  <2> QED
    BY <1>1, <2>1, <2>2, EndIInv DEF TypeOK, Snapshots, Sound
<1>3. CASE UnderReview # NoDraft
  <2>1. UnderReview = patch /\ patch # NoDraft /\ patch \in Drafts
    BY <1>3 DEF UnderReview, Drafted, TypeOK
  <2>2. patch.valid \in BOOLEAN
    BY <2>1 DEF Drafts
  <2>3. PICK verdict \in {"PASS", "REVISE"} : verdict = IF patch.valid THEN "PASS" ELSE "REVISE"
    OBVIOUS
  <2>4. PICK open \in BOOLEAN : open = (~patch.valid /\ gaps)
    OBVIOUS
  <2>5. /\ fs' = [fs EXCEPT !.review_calls = @ + 1, !.last_agent = "reviewer",
                            !.review_decision = verdict, !.pending_gaps = open,
                            !.recovery_action = "none"]
        /\ writer' \in {writer, patch} /\ pc' = "manager"
        /\ UNCHANGED <<checkpoint, result, error>>
    BY <1>3, <2>1, <2>3, <2>4 DEF Review
  <2>6. fs \in FlowState /\ fs.review_calls < MaxReviews
    BY <1>1 DEF TypeOK, Granted
  <2>7. /\ fs' \in FlowState
        /\ fs'.manager_steps = fs.manager_steps
        /\ fs'.research_round = fs.research_round
        /\ fs'.review_calls = fs.review_calls + 1
        /\ fs'.no_progress_rounds = fs.no_progress_rounds
        /\ fs'.review_decision = verdict
    <3>1. fs' = Reviewed(verdict, open)
      BY ONLY <2>5 DEF Reviewed
    <3> QED
      BY <2>3, <2>4, <2>6, <3>1, ReviewedKeeps
  <2>8. TypeOK'
    BY <1>1, <2>1, <2>5, <2>7 DEF TypeOK
  <2>9. Snapshots'
    BY <1>1, <2>1, <2>3, <2>5, <2>7 DEF Snapshots, Sound
  <2>10. Granted' /\ Drafted' /\ Ended' /\ Saved' /\ ApprovalEarned'
    BY <1>1, <2>5 DEF Granted, Drafted, Ended, Saved, ApprovalEarned,
                      ResearchActions, WriterActions
  <2>11. Accounted'
    BY <1>1, <2>5, <2>7 DEF Accounted, Total
  <2>12. Rounds' /\ WorkBounded'
    BY <1>1, <2>5, <2>7, Numbers DEF Rounds, Running, WorkBounded, ResearchActions
  <2> QED
    BY <2>8, <2>9, <2>10, <2>11, <2>12
<1> QED
    BY <1>2, <1>3

LEMMA CompleteIInv == ASSUME IInv, CompleteFlow PROVE IInv'
<1> USE DEF IInv
<1>1. /\ pc = "manager" /\ CompletionAllowed
      /\ UNCHANGED <<route, fs, writer, evidence, patch, interrupts, calls>>
    BY DEF CompleteFlow
<1>2. CASE Ends("COMPLETED", "none") \/ Ends("FAILED", "DRAFT_PATCH_INVALID")
  <2>1. fs \in FlowState /\ evidence \in BOOLEAN /\ fs.no_progress_rounds <= fs.research_round
    BY DEF TypeOK, Snapshots, Sound
  <2>2. /\ fs' \in FlowState /\ fs'.manager_steps = fs.manager_steps
        /\ fs'.no_progress_rounds <= fs'.research_round
        /\ fs'.review_decision = fs.review_decision
    BY <1>1, <2>1
  <2>3. evidence' \in BOOLEAN /\ pc # "down"
    BY <1>1, <2>1
  <2>4. CASE Ends("COMPLETED", "none")
    BY <1>1, <2>2, <2>3, <2>4, EndIInv
  <2>5. CASE Ends("FAILED", "DRAFT_PATCH_INVALID")
    BY <1>1, <2>2, <2>3, <2>5, EndIInv
  <2> QED
    BY <1>2, <2>4, <2>5
<1>3. CASE /\ route \in WritingRoutes /\ writer # NoDraft
           /\ Ends("WAITING_HUMAN_APPROVAL", "none")
  <2>1. /\ fs.review_decision = "PASS"
        /\ route = "WRITE_INTRODUCTION" =>
              fs.research_status = "COMPLETED" /\ ~fs.pending_gaps
    BY <1>1, <1>3 DEF CompletionAllowed, CriteriaMet, WritingRoutes, ResearchRoutes
  <2>2. patch # NoDraft /\ patch.valid /\ writer = patch
    BY <1>3, <2>1 DEF Snapshots, Sound, Drafted
  <2>3. ApprovalEarned'
    BY <1>1, <2>1, <2>2 DEF ApprovalEarned
  <2>4. TypeOK'
    BY <1>1, <1>3 DEF TypeOK, Ends
  <2>5. Snapshots' /\ Granted' /\ Drafted' /\ Ended' /\ Saved'
    BY <1>1, <1>3 DEF Snapshots, Sound, Granted, Drafted, Ended, Saved, Ends,
                      ResearchActions, WriterActions
  <2>6. Accounted' /\ Rounds' /\ WorkBounded'
    BY <1>1, <1>3 DEF Accounted, Total, Rounds, WorkBounded, Ends
  <2> QED
    BY <2>3, <2>4, <2>5, <2>6
<1> QED
    BY <1>2, <1>3 DEF CompleteFlow

LEMMA FailsIInv == ASSUME IInv, Fails PROVE IInv'
BY EndIInv DEF Fails, IInv, TypeOK, Snapshots, Sound

LEMMA InterruptIInv == ASSUME IInv, Interrupt PROVE IInv'
<1> USE DEF IInv
<1>1. /\ pc \notin {"down", "done"} /\ pc' = "down"
      /\ interrupts < MaxInterrupts /\ interrupts' = interrupts + 1
      /\ fs' = Fresh /\ writer' = NoDraft /\ evidence' = FALSE
      /\ UNCHANGED <<route, checkpoint, patch, result, error, calls>>
    BY DEF Interrupt, stores
<1>2. TypeOK'
  <2>1. interrupts' \in 0 .. MaxInterrupts
    BY <1>1, FlowBoundAssumption DEF TypeOK
  <2>2. fs' \in FlowState /\ writer' \in Drafts \cup {NoDraft} /\ evidence' \in BOOLEAN
    BY <1>1, FreshTyped
  <2> QED
    BY <1>1, <2>1, <2>2 DEF TypeOK
<1>3. Snapshots'
    BY <1>1, FreshTyped DEF Snapshots, Sound
<1>4. Granted' /\ Drafted' /\ Ended' /\ Saved' /\ ApprovalEarned'
    BY <1>1 DEF Granted, Drafted, Ended, Saved, ApprovalEarned, ResearchActions, WriterActions
<1>5. Accounted'
    BY <1>1 DEF Accounted, Total
<1>6. checkpoint # NoCheckpoint =>
          checkpoint.research_round \in Nat /\ checkpoint.review_calls \in Nat
    BY StateFields, FlowBoundAssumption DEF TypeOK
<1>7. Rounds' /\ WorkBounded'
    BY <1>1, <1>6, Numbers, FlowBoundAssumption DEF Rounds, WorkBounded
<1> QED
    BY <1>2, <1>3, <1>4, <1>5, <1>7

LEMMA RestartIInv == ASSUME IInv, FlowRestarts PROVE IInv'
<1> USE DEF IInv
<1>1. /\ pc = "down" /\ pc' = "manager" /\ fs' = Opened(Restored)
      /\ UNCHANGED <<route, writer, evidence, checkpoint, patch, result, error,
                     interrupts, calls>>
    BY DEF FlowRestarts, stores
<1>2. Restored \in FlowState
    BY FreshTyped DEF Restored, TypeOK
<1>3. /\ fs' \in FlowState
      /\ fs'.manager_steps = Restored.manager_steps
      /\ fs'.research_round = Restored.research_round
      /\ fs'.review_calls = Restored.review_calls
      /\ fs'.no_progress_rounds = Restored.no_progress_rounds
      /\ fs'.review_decision = Restored.review_decision
    BY <1>1, <1>2, OpenedKeeps
<1>4. TypeOK'
    BY <1>1, <1>3 DEF TypeOK
<1>5. Snapshots'
    BY <1>1, <1>3, FreshTyped DEF Snapshots, Sound, Restored
<1>6. Granted' /\ Drafted' /\ Ended' /\ ApprovalEarned'
    BY <1>1 DEF Granted, Drafted, Ended, ApprovalEarned, ResearchActions, WriterActions
<1>7. Saved'
  <2>1. Opened(Fresh)' = Opened(Fresh)
    BY <1>1 DEF Opened, Fresh
  <2> QED
    BY <1>1, <2>1 DEF Saved, Restored
<1>8. Accounted'
    BY <1>1, <1>3, FreshTyped DEF Accounted, Total, Restored
<1>9. checkpoint # NoCheckpoint =>
          checkpoint.research_round \in Nat /\ checkpoint.review_calls \in Nat
    BY StateFields, FlowBoundAssumption DEF TypeOK
<1>10. CASE checkpoint = NoCheckpoint
  <2>1. Total = 0 /\ Restored = Fresh
    BY <1>1, <1>10 DEF Accounted, Restored
  <2>2. calls["research"] = 0 /\ calls["reviewer"] = 0
    BY <2>1, Numbers DEF Total
  <2> QED
    BY <1>1, <1>3, <1>4, <1>5, <1>6, <1>7, <1>8, <1>10, <2>1, <2>2, FreshTyped, Numbers
    DEF Rounds, Running, WorkBounded, ResearchActions
<1>11. CASE checkpoint # NoCheckpoint
  <2>1. Restored = checkpoint
    BY <1>11 DEF Restored
  <2>2. Rounds' /\ WorkBounded'
    BY <1>1, <1>3, <1>9, <1>11, <2>1, Numbers
    DEF Rounds, Running, WorkBounded, ResearchActions
  <2> QED
    BY <1>4, <1>5, <1>6, <1>7, <1>8, <2>2
<1> QED
    BY <1>10, <1>11

LEMMA NextIInv == IInv /\ [FlowNext]_flowVars => IInv'
<1> SUFFICES ASSUME IInv, [FlowNext]_flowVars PROVE IInv'
    OBVIOUS
<1>1. CASE UNCHANGED flowVars
  <2>1. TypeOK' /\ Snapshots' /\ Granted' /\ Drafted' /\ Ended' /\ ApprovalEarned'
    BY <1>1 DEF IInv, flowVars, TypeOK, Snapshots, Sound, Granted, Drafted, Ended, ApprovalEarned
  <2>2. Saved' /\ Accounted' /\ Rounds' /\ WorkBounded'
    BY <1>1 DEF IInv, flowVars, Saved, Opened, Fresh, Accounted, Total, Rounds, Running, WorkBounded
  <2> QED
    BY <2>1, <2>2 DEF IInv
<1>2. CASE \E a \in Actions : ManagerDecides(a)
    BY <1>2, DecideIInv
<1>3. CASE \E s \in {"COMPLETED", "INSUFFICIENT_EVIDENCE"}, g, same \in BOOLEAN :
              Research(s, g, same)
    BY <1>3, ResearchIInv
<1>4. CASE \E d \in Drafts : Write(d)
    BY <1>4, WriteIInv
<1>5. CASE Written
    BY <1>5, WrittenIInv
<1>6. CASE \E g \in BOOLEAN : Review(g)
    BY <1>6, ReviewIInv
<1>7. CASE CompleteFlow
    BY <1>7, CompleteIInv
<1>8. CASE Fails
    BY <1>8, FailsIInv
<1>9. CASE FlowRestarts
    BY <1>9, RestartIInv
<1>10. CASE Interrupt
    BY <1>10, InterruptIInv
<1> QED
    BY <1>1, <1>2, <1>3, <1>4, <1>5, <1>6, <1>7, <1>8, <1>9, <1>10 DEF FlowNext, Works

(* The invariant holds in every reachable state.                           *)
THEOREM Invariance == FlowSpec => []IInv
<1> QED
    BY InitIInv, NextIInv, PTL DEF FlowSpec

(* No counter of a flow leaves its budget, whatever the manager proposes.  *)
THEOREM TypeCorrect == FlowSpec => []TypeOK
<1>1. IInv => TypeOK
    BY DEF IInv
<1> QED
    BY <1>1, Invariance, PTL

(* A Run asks the human only for a registered, passed, grounded draft.     *)
THEOREM EarnedApproval == FlowSpec => []ApprovalEarned
<1>1. IInv => ApprovalEarned
    BY DEF IInv
<1> QED
    BY <1>1, Invariance, PTL

(* A crash costs at most the capability it interrupted.                    *)
THEOREM BoundedWork == FlowSpec => []WorkBounded
<1>1. IInv => WorkBounded
    BY DEF IInv
<1> QED
    BY <1>1, Invariance, PTL

-----------------------------------------------------------------------------
(* A replay after a restart.  The checkpoint holds the state the validator *)
(* let a capability through in, with that capability in recovery_action;   *)
(* what the capability needs of that state is this.                        *)
Replayable(s) ==
    /\ s.recovery_action = "CALL_RESEARCH" =>
          /\ s.no_progress_rounds < MaxNoProgress /\ s.research_round < MaxResearch
          /\ route \in ResearchRoutes \cup {"WRITE_INTRODUCTION"}
    /\ s.recovery_action = "CALL_WRITER" =>
          /\ route \in WritingRoutes
          /\ route = "WRITE_INTRODUCTION" => s.writer_ready \/ s.research_round > 0
          /\ s.review_decision # "PASS" \/ s.last_agent = "writer"
    /\ s.recovery_action = "CALL_REVIEWER" =>
          /\ s.review_calls < MaxReviews
          /\ \/ route = "REVIEW"
             \/ route \in WritingRoutes /\ s.writer_ready /\ s.last_agent # "reviewer"

Resumable == /\ checkpoint # NoCheckpoint => Replayable(checkpoint)
             /\ pc = "manager" => Replayable(fs)

LEMMA NothingToReplay == ASSUME NEW s, s.recovery_action = "none" PROVE Replayable(s)
BY DEF Replayable

LEMMA CountedRecovers ==
    ASSUME fs \in FlowState, fs.manager_steps < MaxSteps, NEW a \in Actions
    PROVE  /\ Counted(a).last_agent = fs.last_agent
           /\ Counted(a).writer_ready = fs.writer_ready
           /\ Counted(a).recovery_action = Capability(a)
<1>1. PICK c : c = Capability(a)
    OBVIOUS
<1>2. PICK n : n = fs.manager_steps + 1
    OBVIOUS
<1>3. PICK t : t = [fs EXCEPT !.manager_steps = n, !.recovery_action = c]
    OBVIOUS
<1>4. t = Counted(a)
    BY <1>1, <1>2, <1>3 DEF Counted
<1>5. t.last_agent = fs.last_agent /\ t.recovery_action = c
    BY <1>3, SMT DEF FlowState
<1>6. t.writer_ready = fs.writer_ready
    BY <1>3, SMT DEF FlowState
<1> QED
    BY <1>1, <1>4, <1>5, <1>6

LEMMA OpenedRecovers ==
    ASSUME NEW s \in FlowState
    PROVE  /\ Opened(s).last_agent = s.last_agent
           /\ Opened(s).writer_ready = s.writer_ready
           /\ Opened(s).recovery_action = s.recovery_action
<1>1. CASE route = "WRITE_INTRODUCTION"
  <2>1. PICK t : t = [s EXCEPT !.pending_gaps = TRUE]
    OBVIOUS
  <2>2. Opened(s) = t
    BY <1>1, <2>1 DEF Opened
  <2>3. t.last_agent = s.last_agent /\ t.recovery_action = s.recovery_action
    BY <2>1, SMT DEF FlowState
  <2>4. t.writer_ready = s.writer_ready
    BY <2>1, SMT DEF FlowState
  <2> QED
    BY <2>2, <2>3, <2>4
<1>2. CASE route # "WRITE_INTRODUCTION"
    BY <1>2 DEF Opened
<1> QED
    BY <1>1, <1>2

(* A proposal the validator accepts leaves a checkpoint that can be        *)
(* replayed, also when the action's name is not the capability's.          *)
LEMMA DecideResumable ==
    ASSUME IInv, NEW a \in Actions, ManagerDecides(a) PROVE Replayable(Counted(a))
<1>1. fs \in FlowState /\ fs.manager_steps < MaxSteps /\ Allowed(a)
    BY DEF IInv, TypeOK, ManagerDecides
<1>2. PICK t : t = Counted(a)
    OBVIOUS
<1>3. /\ t.research_round = fs.research_round /\ t.review_calls = fs.review_calls
      /\ t.no_progress_rounds = fs.no_progress_rounds
      /\ t.review_decision = fs.review_decision /\ t.last_agent = fs.last_agent
    BY <1>1, <1>2, CountedKeeps, CountedRecovers
<1>4. t.writer_ready = fs.writer_ready /\ t.recovery_action = Capability(a)
    BY <1>1, <1>2, CountedRecovers
<1>5. CASE ResearchAllowed(a)
  <2>1. t.recovery_action = "CALL_RESEARCH"
    BY <1>4, <1>5 DEF ResearchAllowed, Capability
  <2> QED
    BY <1>2, <1>3, <1>5, <2>1 DEF ResearchAllowed, Progressing, Replayable
<1>6. CASE WritingAllowed(a)
  <2>1. t.recovery_action = "CALL_WRITER"
    BY <1>4, <1>6 DEF WritingAllowed, Capability, WriterActions, ResearchActions
  <2>2. fs.review_decision # "PASS"
    BY <1>6 DEF WritingAllowed, WriterActions
  <2> QED
    BY <1>2, <1>3, <1>4, <1>6, <2>1, <2>2 DEF WritingAllowed, Replayable
<1>7. CASE ReviewAllowed(a)
  <2>1. t.recovery_action = "CALL_REVIEWER"
    BY <1>4, <1>7 DEF ReviewAllowed, Capability, WriterActions, ResearchActions
  <2> QED
    BY <1>2, <1>3, <1>4, <1>7, <2>1 DEF ReviewAllowed, Replayable
<1> QED
    BY <1>1, <1>5, <1>6, <1>7 DEF Allowed

(* What every step but a decision and a restart does to it.                *)
LEMMA KeepsResumable ==
    ASSUME Resumable, UNCHANGED route,
           \/ UNCHANGED checkpoint
           \/ checkpoint' = NoCheckpoint,
           pc' = "manager" => \/ UNCHANGED <<fs, pc>>
                              \/ fs'.recovery_action = "none"
    PROVE  Resumable'
<1>1. checkpoint' # NoCheckpoint => Replayable(checkpoint)'
    BY DEF Resumable, Replayable
<1>2. pc' = "manager" => Replayable(fs)'
    BY DEF Resumable, Replayable
<1> QED
    BY <1>1, <1>2 DEF Resumable

LEMMA ResumableInv == IInv /\ Resumable /\ [FlowNext]_flowVars => Resumable'
<1> SUFFICES ASSUME IInv, Resumable, [FlowNext]_flowVars PROVE Resumable'
    OBVIOUS
<1>1. fs \in FlowState /\ checkpoint \in FlowState \cup {NoCheckpoint}
    BY DEF IInv, TypeOK
<1>2. CASE UNCHANGED flowVars
    BY <1>2, KeepsResumable DEF flowVars
<1>3. ASSUME NEW a \in Actions, ManagerDecides(a) PROVE Resumable'
  <2>1. PICK t : t = Counted(a) /\ Replayable(t)
    BY <1>3, DecideResumable
  <2>2. checkpoint' = t /\ pc' # "manager" /\ UNCHANGED route
    BY <1>3, <2>1 DEF ManagerDecides, Actions, ResearchActions, WriterActions
  <2>3. Replayable(t)'
    BY <2>1, <2>2 DEF Replayable
  <2> QED
    BY <2>2, <2>3 DEF Resumable, Replayable
<1>4. ASSUME NEW s \in {"COMPLETED", "INSUFFICIENT_EVIDENCE"}, NEW g \in BOOLEAN,
             NEW same \in BOOLEAN, Research(s, g, same)
      PROVE  Resumable'
  <2>1. fs' = Researched(s, g, same) /\ UNCHANGED route
        /\ (UNCHANGED checkpoint \/ checkpoint' = NoCheckpoint)
    BY <1>4 DEF Research, Ends
  <2>2. fs'.recovery_action = "none"
    BY <1>1, <2>1, SMT DEF Researched, FlowState
  <2> QED
    BY <2>1, <2>2, KeepsResumable
<1>5. ASSUME NEW d \in Drafts, Write(d) PROVE Resumable'
    BY <1>5, KeepsResumable DEF Write, Ends
<1>6. CASE Written
  <2>1. fs'.recovery_action = "none"
    BY <1>1, <1>6, SMT DEF Written, FlowState
  <2> QED
    BY <1>6, <2>1, KeepsResumable DEF Written, stores
<1>7. ASSUME NEW g \in BOOLEAN, Review(g) PROVE Resumable'
  <2>1. CASE Ends("FAILED", NothingToReview)
    BY <1>7, <2>1, KeepsResumable DEF Review, Ends
  <2>2. CASE UnderReview # NoDraft
    <3>1. PICK n, v, o : fs' = [fs EXCEPT !.review_calls = n, !.last_agent = "reviewer",
                               !.review_decision = v, !.pending_gaps = o,
                               !.recovery_action = "none"]
      <4>1. PICK d : d = UnderReview
        OBVIOUS
      <4>2. fs' = [fs EXCEPT !.review_calls = fs.review_calls + 1, !.last_agent = "reviewer",
                             !.review_decision = IF d.valid THEN "PASS" ELSE "REVISE",
                             !.pending_gaps = ~d.valid /\ g,
                             !.recovery_action = "none"]
        BY <1>7, <2>2, <4>1, Zenon DEF Review
      <4>3. PICK n, v, o : /\ n = fs.review_calls + 1
                           /\ v = IF d.valid THEN "PASS" ELSE "REVISE"
                           /\ o = (~d.valid /\ g)
        OBVIOUS
      <4> QED
        BY <4>2, <4>3, Zenon
    <3>2. fs'.recovery_action = "none"
      BY <1>1, <3>1, SMT DEF FlowState
    <3> QED
      BY <1>7, <2>2, <3>2, KeepsResumable DEF Review
  <2> QED
    BY <1>7, <2>1, <2>2 DEF Review
<1>8. CASE CompleteFlow \/ Fails \/ Interrupt
    BY <1>8, KeepsResumable DEF CompleteFlow, Fails, Interrupt, Ends, stores
<1>9. CASE FlowRestarts
  <2>1. /\ pc' = "manager" /\ UNCHANGED <<route, checkpoint>>
        /\ fs' = Opened(Restored)
    BY <1>9 DEF FlowRestarts, stores
  <2>2. PICK r \in FlowState : r = Restored
    BY <1>1, FreshTyped DEF Restored
  <2>3. Replayable(r)
    <3>1. Fresh.recovery_action = "none"
      BY DEF Fresh
    <3> QED
      BY <2>2, <3>1, NothingToReplay DEF Restored, Resumable
  <2>4. PICK t : t = Opened(r)
    OBVIOUS
  <2>5. /\ t.research_round = r.research_round /\ t.review_calls = r.review_calls
        /\ t.no_progress_rounds = r.no_progress_rounds
        /\ t.review_decision = r.review_decision /\ t.last_agent = r.last_agent
        /\ t.recovery_action = r.recovery_action
    BY <2>4, OpenedKeeps, OpenedRecovers
  <2>6. t.writer_ready = r.writer_ready
    BY <2>4, OpenedRecovers
  <2>7. Replayable(t)
    BY <2>3, <2>5, <2>6 DEF Replayable
  <2>8. Replayable(fs)'
    BY <2>1, <2>2, <2>4, <2>7 DEF Replayable
  <2>9. checkpoint' # NoCheckpoint => Replayable(checkpoint)'
    BY <2>1 DEF Resumable, Replayable
  <2> QED
    BY <2>8, <2>9 DEF Resumable
<1> QED
    BY <1>2, <1>3, <1>4, <1>5, <1>6, <1>7, <1>8, <1>9 DEF FlowNext, Works

(* A capability that a process death interrupted may always be replayed:   *)
(* whatever was proposed before, the validator finds the ground for it in  *)
(* the restored state (flow.py _checkpoint_before_action, manager.py), but *)
(* for a revision that follows the writer directly.                        *)
THEOREM ReplaysPass == FlowSpec => []ReplayAllowed
<1>1. FlowInit => Resumable
  <2> SUFFICES ASSUME FlowInit PROVE Resumable
    OBVIOUS
  <2>1. fs.recovery_action = "none"
    BY FreshTyped, OpenedRecovers DEF FlowInit, Fresh
  <2> QED
    BY <2>1, NothingToReplay DEF FlowInit, Resumable
<1>2. IInv /\ Resumable /\ [FlowNext]_flowVars => Resumable'
    BY ResumableInv
<1>3. IInv /\ Resumable => ReplayAllowed
  <2> SUFFICES ASSUME IInv, Resumable, pc = "manager", fs.recovery_action # "none"
               PROVE  \/ Allowed(fs.recovery_action)
                      \/ fs.recovery_action = "CALL_WRITER" /\ fs.last_agent = "writer"
    BY DEF ReplayAllowed
  <2>1. fs.recovery_action \in {"CALL_RESEARCH", "CALL_WRITER", "CALL_REVIEWER"} /\ Replayable(fs)
    BY StateFields DEF IInv, TypeOK, Resumable
  <2>2. CASE fs.recovery_action = "CALL_RESEARCH"
    BY <2>1, <2>2 DEF Replayable, Allowed, ResearchAllowed, Expected, Progressing, ResearchActions
  <2>3. CASE fs.recovery_action = "CALL_WRITER"
    BY <2>1, <2>3 DEF Replayable, Allowed, WritingAllowed, Expected, WriterActions
  <2>4. CASE fs.recovery_action = "CALL_REVIEWER"
    BY <2>1, <2>4 DEF Replayable, Allowed, ReviewAllowed, Expected
  <2> QED
    BY <2>1, <2>2, <2>3, <2>4
<1> QED
    BY <1>1, <1>2, <1>3, Invariance, PTL DEF FlowSpec

-----------------------------------------------------------------------------
(* The refinement: what ScholarRun takes for a whole flow.                 *)

LEMMA InitContract == FlowInit => Contract!Init
BY DEF FlowInit, Contract!Init, WritingRoutes

LEMMA StepContract == IInv /\ IInv' /\ [FlowNext]_flowVars => [Contract!Next]_(Contract!contractVars)
<1> SUFFICES ASSUME IInv, IInv', [FlowNext]_flowVars
             PROVE  [Contract!Next]_(Contract!contractVars)
    OBVIOUS
<1> USE DEF Contract!Next, Contract!Save, Contract!Propose, Contract!End,
            Contract!contractVars
<1>1. /\ Ended /\ Saved /\ Granted /\ Snapshots
      /\ checkpoint' \in FlowState \cup {NoCheckpoint} /\ fs' \in FlowState
    BY DEF IInv, TypeOK
<1>2. CASE UNCHANGED flowVars
    BY <1>2 DEF flowVars
<1>3. ASSUME NEW a \in Actions, ManagerDecides(a) PROVE Contract!Save
  <2>1. checkpoint' # NoCheckpoint
    BY <1>1, <1>3, FlowCheckpointAssumption DEF ManagerDecides
  <2> QED
    BY <1>1, <1>3, <2>1 DEF ManagerDecides, Ended
<1>4. ASSUME NEW r, NEW e, Ends(r, e), r = "FAILED", pc # "done", UNCHANGED <<route, patch>>
      PROVE  Contract!End
    BY <1>1, <1>4 DEF Ends, Ended
<1>5. CASE \E s \in {"COMPLETED", "INSUFFICIENT_EVIDENCE"}, g, same \in BOOLEAN :
              Research(s, g, same)
    BY <1>4, <1>5 DEF Research, ResearchActions
<1>6. ASSUME NEW d \in Drafts, Write(d) PROVE [Contract!Next]_(Contract!contractVars)
  <2>1. pc \in WriterActions /\ pc # "done" /\ UNCHANGED route
    BY <1>6 DEF Write, WriterActions
  <2>2. CASE \E e : Ends("FAILED", e) /\ UNCHANGED patch
    BY <1>4, <2>1, <2>2
  <2>3. CASE patch \in {NoDraft, d} /\ patch' = d /\ UNCHANGED <<checkpoint, result>>
    <3>1. checkpoint # NoCheckpoint /\ route \in WritingRoutes /\ result = "none"
      BY <1>1, <2>1 DEF Saved, Granted, Ended, WriterActions
    <3>2. d # NoDraft
      BY FlowNullAssumption
    <3> QED
      BY <2>1, <2>3, <3>1, <3>2
  <2> QED
    BY <1>6, <2>2, <2>3 DEF Write
<1>7. CASE Written
    BY <1>7 DEF Written, stores
<1>8. CASE \E g \in BOOLEAN : Review(g)
    BY <1>4, <1>8 DEF Review
<1>9. CASE CompleteFlow
  <2>1. pc = "manager" /\ CompletionAllowed /\ UNCHANGED <<route, patch>> /\ result = "none"
    BY <1>1, <1>9 DEF CompleteFlow, Ended
  <2>2. CASE route \notin WritingRoutes /\ Ends("COMPLETED", "none")
    <3>1. Opened(Fresh) = Fresh
      BY <2>2 DEF Opened, WritingRoutes
    <3>2. fs # Fresh
      BY <2>1, <2>2 DEF CompletionAllowed, CriteriaMet, Fresh, WritingRoutes
    <3>3. checkpoint # NoCheckpoint
      BY <1>1, <2>1, <3>1, <3>2 DEF Saved
    <3> QED
      BY <2>1, <2>2, <3>3 DEF Ends
  <2>3. CASE Ends("FAILED", "DRAFT_PATCH_INVALID")
    BY <1>4, <2>1, <2>3
  <2>4. CASE route \in WritingRoutes /\ Ends("WAITING_HUMAN_APPROVAL", "none")
    <3>1. patch' # NoDraft
      BY <2>4 DEF IInv, ApprovalEarned, Ends
    <3> QED
      BY <2>1, <2>4, <3>1 DEF Ends
  <2> QED
    BY <1>9, <2>2, <2>3, <2>4 DEF CompleteFlow
<1>10. CASE Fails
    BY <1>4, <1>10 DEF Fails
<1>11. CASE FlowRestarts
    BY <1>11 DEF FlowRestarts, stores
<1>12. CASE Interrupt
    BY <1>12 DEF Interrupt, stores
<1> QED
    BY <1>2, <1>3, <1>5, <1>6, <1>7, <1>8, <1>9, <1>10, <1>11, <1>12 DEF FlowNext, Works

(* A flow implements the contract ScholarRun relies on: it saves before it *)
(* proposes, proposes once, and ends in nothing it has not earned, crashes *)
(* and replays included.                                                   *)
THEOREM Refinement == FlowSpec => ImplementsContract
<1>1. FlowSpec => []IInv
    BY Invariance
<1> QED
    BY InitContract, StepContract, <1>1, PTL DEF FlowSpec, ImplementsContract, Contract!Spec
=============================================================================
