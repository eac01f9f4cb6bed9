----------------------------- MODULE ScholarRun -----------------------------
(***************************************************************************)
(* The lifecycle of a Scholar Run: app/scholar/runs.py together with the   *)
(* session stores (app/session/) and the parts of                          *)
(* app/orchestration/service.py that write a Run's status.                 *)
(*                                                                         *)
(* A Run is a row of one SQLite file, its Job a row of another and its     *)
(* patch a row of a third.  No transaction spans two of them.  An API call *)
(* and a worker are therefore processes whose every step is one            *)
(* transaction of one store; what they read and decide on later is kept in *)
(* their record.  A session's active_run_id, which no decision of the      *)
(* program reads, is left out.                                             *)
(*                                                                         *)
(* Steps that module JobQueue splits (the ownership test before the final  *)
(* set_status, the read before request_cancel's write, the two passes of   *)
(* recovery) are one step here: the lease fences them.  Approval and apply *)
(* of a patch, module PatchApproval, are one step: its recorded decision.  *)
(***************************************************************************)
EXTENDS Naturals, FiniteSets

CONSTANTS
    Runs,           \* one per create() call: the Run the call would make
    Keys,           \* idempotency keys; the scholar.run Job of a key is the key
    Sessions,
    KeyOf,          \* the key and the session a create() call carries
    SessionOf,
    Writing,        \* Runs whose route drafts a patch
    Resumes,        \* scholar.resume Jobs, the bound on enqueue_resume
    Workers,        \* worker processes
    Users,          \* concurrent cancel, resume and approval calls
    UserOps,        \* which of "cancel", "resume", "decide" users call
    MaxAttempts,    \* jobs.max_attempts
    ScopeLimit,     \* LEO_SCHOLAR_MAX_RUNNING_PER_SCOPE
    FaultKinds,     \* "worker" and "api" processes may die, "store"s refuse a write
    MaxFaults,      \* bound: how many of these happen
    StallsPossible, \* TRUE: a live worker may miss the whole stale window
    NoRun, NoJob    \* SQL NULL

Jobs == Keys \cup Resumes

ASSUME CallAssumption == /\ KeyOf \in [Runs -> Keys]
                         /\ SessionOf \in [Runs -> Sessions]
                         /\ Writing \subseteq Runs
ASSUME RunBoundAssumption == /\ MaxAttempts \in Nat \ {0}
                             /\ ScopeLimit \in Nat \ {0}
                             /\ MaxFaults \in Nat
ASSUME RunModeAssumption == /\ StallsPossible \in BOOLEAN
                            /\ FaultKinds \subseteq {"worker", "api", "store"}
ASSUME RunNullAssumption == /\ NoRun \notin Runs /\ NoJob \notin Jobs
                            /\ Keys \cap Resumes = {}

VARIABLES
    run,      \* agent_runs, with the status of the patch the Run proposed
    job,      \* the jobs table
    call,     \* where each create() call is
    user,     \* the other API calls in flight
    worker,   \* the worker processes
    faults

vars == <<run, job, call, user, worker, faults>>

-----------------------------------------------------------------------------
Final == {"COMPLETED", "FAILED", "CANCELLED"}
Startable == {"PENDING", "QUEUED", "INTERRUPTED"}
Active == {"PENDING", "QUEUED", "RUNNING", "WAITING_USER"}

JobTerminal == {"SUCCEEDED", "FAILED", "CANCELLED"}
Waiting == {"QUEUED", "RETRY_PENDING"}
Leased == {"RUNNING", "CANCEL_REQUESTED"}

Decided == {"APPLIED", "REJECTED", "FAILED"}

(* asked: a user's resume was queued since completed_at last changed; the  *)
(* default idempotency key of enqueue_resume holds that timestamp.         *)
AbsentRun == [status |-> "ABSENT", job |-> NoJob, patch |-> "none",
              checkpoint |-> FALSE, asked |-> FALSE]
AbsentJob == [status |-> "ABSENT", attempt |-> 0, owner |-> "none",
              run |-> NoRun, why |-> "run"]

InCreate == {"submit", "duplicate", "bind"}
Handling == {"locate", "start", "prepare", "work", "persist", "resume",
             "project", "confirm", "verify"}
Ending == {"cancelled", "raised"}
Settling == {"returned", "retry", "abandon"}

(* seen: the status a process is about to write.  todo: the Jobs, as they  *)
(* were when they were listed, that are still to be reconciled.            *)
At(l, j, s, T) == [pc |-> l, job |-> j, seen |-> s, todo |-> T]
Idle == At("idle", NoJob, "none", {})
Down == At("down", NoJob, "none", {})

NoCall == [op |-> "idle", run |-> NoRun, job |-> NoJob]

Init == /\ run = [r \in Runs |-> AbsentRun]
        /\ job = [j \in Jobs |-> AbsentJob]
        /\ call = [c \in Runs |-> "new"]
        /\ user = [u \in Users |-> NoCall]
        /\ worker = [w \in Workers |-> Down]
        /\ faults = 0

(* A process dies, or a store refuses a write (locked, disk error).        *)
Fault(k) == k \in FaultKinds /\ faults < MaxFaults /\ faults' = faults + 1

-----------------------------------------------------------------------------
(* The session runtime's statements.                                       *)

(* complete_run: whatever the row held.                                    *)
Complete(r, s) == run' = [run EXCEPT ![r].status = s, ![r].asked = FALSE]

(* start_run refuses a Run that is not startable.                          *)
StartRun(r) == run' = IF run[r].status \in Startable
                      THEN [run EXCEPT ![r].status = "RUNNING"] ELSE run

(* queue_run; RUNNING and QUEUED are left alone, job_id included.          *)
Queueable == {"PENDING", "WAITING_USER", "INTERRUPTED"}
QueueRun(r, j) == run' = IF run[r].status \in Queueable
                         THEN [run EXCEPT ![r].status = "QUEUED", ![r].job = j]
                         ELSE run

-----------------------------------------------------------------------------
(* create(), under the session's file lock from the check to the binding.  *)

SessionFree(c) == \A d \in Runs : SessionOf[d] = SessionOf[c] => call[d] \notin InCreate

(* The statuses create() counts as busy leave out INTERRUPTED.             *)
Busy(c) == \E r \in Runs : SessionOf[r] = SessionOf[c] /\ run[r].status \in Active

CreateRun(c) ==
    /\ call[c] = "new"
    /\ SessionFree(c)
    /\ IF job[KeyOf[c]].status # "ABSENT" \/ Busy(c)
       THEN call' = [call EXCEPT ![c] = "done"] /\ UNCHANGED run
       ELSE /\ run' = [run EXCEPT ![c].status = "PENDING"]
            /\ call' = [call EXCEPT ![c] = "submit"]
    /\ UNCHANGED <<job, user, worker, faults>>

(* submit answers the Job that has the key already, if there is one.       *)
SubmitRun(c) ==
    /\ call[c] = "submit"
    /\ IF job[KeyOf[c]].status = "ABSENT"
       THEN /\ job' = [job EXCEPT ![KeyOf[c]] = [@ EXCEPT !.status = "QUEUED", !.run = c]]
            /\ call' = [call EXCEPT ![c] = "bind"]
       ELSE call' = [call EXCEPT ![c] = "duplicate"] /\ UNCHANGED job
    /\ UNCHANGED <<run, user, worker, faults>>

(* A queue that refuses the Job: the Run is closed again, if its own store *)
(* is not out of order as well.                                            *)
SubmitFails(c) ==
    /\ call[c] = "submit" /\ Fault("store")
    /\ \/ Complete(c, "FAILED") /\ call' = [call EXCEPT ![c] = "done"]
       \/ call' = [call EXCEPT ![c] = "dead"] /\ UNCHANGED run
    /\ UNCHANGED <<job, user, worker>>

(* _mark_duplicate_run_cancelled                                           *)
CloseWinner(c) ==                    \* mutant: the winner is closed, not the loser
    /\ call[c] = "duplicate"
    /\ Complete(job[KeyOf[c]].run, "CANCELLED")
    /\ call' = [call EXCEPT ![c] = "done"]
    /\ UNCHANGED <<job, user, worker, faults>>
CloseDuplicate(c) ==
    /\ call[c] = "duplicate"
    /\ Complete(c, "CANCELLED")
    /\ call' = [call EXCEPT ![c] = "done"]
    /\ UNCHANGED <<job, user, worker, faults>>

(* bind_job, then queue_run: a Run that a worker has finished meanwhile    *)
(* makes queue_run raise, with the binding kept.                           *)
Bind(c) ==
    /\ call[c] = "bind"
    /\ run' = [run EXCEPT ![c].job = KeyOf[c],
                          ![c].status = IF @ \in Queueable THEN "QUEUED" ELSE @]
    /\ call' = [call EXCEPT ![c] = "done"]
    /\ UNCHANGED <<job, user, worker, faults>>

CallDies(c) ==
    /\ call[c] \in InCreate /\ Fault("api")
    /\ call' = [call EXCEPT ![c] = "dead"]
    /\ UNCHANGED <<run, job, user, worker>>

-----------------------------------------------------------------------------
(* cancel(): the Job first, then the Run as it is by then.                 *)

Cancelled(j) ==
    CASE job[j].status \in JobTerminal -> job[j].status
      [] job[j].status \in Leased -> "CANCEL_REQUESTED"
      [] OTHER -> "CANCELLED"

CancelJob(u, r) ==
    /\ "cancel" \in UserOps
    /\ user[u] = NoCall /\ run[r].status # "ABSENT"
    /\ job' = IF run[r].job = NoJob THEN job
              ELSE [job EXCEPT ![run[r].job].status = Cancelled(run[r].job)]
    /\ user' = [user EXCEPT ![u] = [op |-> "reread", run |-> r, job |-> NoJob]]
    /\ UNCHANGED <<run, call, worker, faults>>

CancelReread(u) ==
    /\ user[u].op = "reread"
    /\ user' = [user EXCEPT ![u] =
            IF run[@.run].status \in {"PENDING", "QUEUED", "WAITING_USER"}
            THEN [@ EXCEPT !.op = "cancel"] ELSE NoCall]
    /\ UNCHANGED <<run, job, call, worker, faults>>

CancelRun(u) ==
    /\ user[u].op = "cancel"
    /\ Complete(user[u].run, "CANCELLED")
    /\ user' = [user EXCEPT ![u] = NoCall]
    /\ UNCHANGED <<job, call, worker, faults>>

(* A decision on the Run's patch, recorded and applied; a repeated         *)
(* decision is answered like the first.                                    *)
Decide(u, r, d) ==
    /\ "decide" \in UserOps
    /\ user[u] = NoCall
    /\ run[r].patch \in {"AWAITING_APPROVAL", d}
    /\ d = "FAILED" => run[r].patch # d
    /\ run' = [run EXCEPT ![r].patch = d]
    /\ user' = [user EXCEPT ![u] = [op |-> "notify", run |-> r, job |-> NoJob]]
    /\ UNCHANGED <<job, call, worker, faults>>

(* _reconcile_approval_run looks whether the Run waits for the decision.   *)
Notify(u) ==
    /\ user[u].op = "notify"
    /\ user' = [user EXCEPT ![u] =
            IF run[@.run].status \in {"WAITING_USER", "QUEUED"}
            THEN [@ EXCEPT !.op = "enqueue"] ELSE NoCall]
    /\ UNCHANGED <<run, job, call, worker, faults>>

(* enqueue_resume up to its submit.  It takes no session lock.             *)
Resumable(r) == run[r].status \notin Final \cup {"ABSENT"}
Submitted(j, r, why) ==
    [job EXCEPT ![j] = [@ EXCEPT !.status = "QUEUED", !.run = r, !.why = why]]

EnqueueByUser(u, r, j) ==
    /\ "resume" \in UserOps
    /\ user[u] = NoCall /\ job[j].status = "ABSENT"
    /\ Resumable(r) /\ ~run[r].asked
    /\ job' = Submitted(j, r, "user")
    /\ run' = [run EXCEPT ![r].asked = TRUE]
    /\ user' = [user EXCEPT ![u] = [op |-> "queue", run |-> r, job |-> j]]
    /\ UNCHANGED <<call, worker, faults>>

AlreadyQueued(r) == \E j \in Resumes : job[j].run = r /\ job[j].why = "approval"

EnqueueByApproval(u, j) ==
    LET r == user[u].run IN
    /\ user[u].op = "enqueue" /\ job[j].status = "ABSENT"
    /\ IF Resumable(r) /\ ~AlreadyQueued(r)
       THEN /\ job' = Submitted(j, r, "approval")
            /\ user' = [user EXCEPT ![u].op = "queue", ![u].job = j]
       ELSE user' = [user EXCEPT ![u] = NoCall] /\ UNCHANGED job
    /\ UNCHANGED <<run, call, worker, faults>>

Requeue(u) ==
    /\ user[u].op = "queue"
    /\ QueueRun(user[u].run, user[u].job)
    /\ user' = [user EXCEPT ![u] = NoCall]
    /\ UNCHANGED <<job, call, worker, faults>>

UserDies(u) ==
    /\ user[u] # NoCall /\ Fault("api")
    /\ user' = [user EXCEPT ![u] = NoCall]
    /\ UNCHANGED <<run, job, call, worker>>

-----------------------------------------------------------------------------
(* The worker: run_once with execute or _resume as its handler.            *)

RunOf(w) == job[worker[w].job].run
Choose(w, l, s) == worker' = [worker EXCEPT ![w].pc = l, ![w].seen = s]
Carry(w, l) == Choose(w, l, worker[w].seen)
Goto(w, l) == Choose(w, l, "none")
Owned(w) == /\ job[worker[w].job].owner = w
            /\ job[worker[w].job].status = "RUNNING"

Claim(w, j) ==
    /\ worker[w] = Idle
    /\ job[j].status \in Waiting /\ job[j].attempt < MaxAttempts
    /\ Cardinality({k \in Jobs : job[k].status = "RUNNING"}) < ScopeLimit
    /\ job' = [job EXCEPT ![j].status = "RUNNING", ![j].owner = w, ![j].attempt = @ + 1]
    /\ worker' = [worker EXCEPT ![w] = At("locate", j, "none", {})]
    /\ UNCHANGED <<run, call, user, faults>>

(* execute returns at once for a Run that is over or waits for its user;   *)
(* _resume does not ask.                                                   *)
Locate(w) ==
    LET s == run[RunOf(w)].status
        first == worker[w].job \in Keys
    IN  /\ worker[w].pc = "locate"
        /\ Goto(w, IF first /\ s \in Final \cup {"WAITING_USER"} THEN "returned"
                   ELSE IF s \in Startable THEN "start"
                   ELSE IF first THEN "prepare" ELSE "resume")
        /\ UNCHANGED <<run, job, call, user, faults>>

(* A refused start_run is not an end: the handler goes on.                 *)
Start(w) ==
    /\ worker[w].pc = "start"
    /\ StartRun(RunOf(w))
    /\ Goto(w, IF worker[w].job \in Keys THEN "prepare" ELSE "resume")
    /\ UNCHANGED <<job, call, user, faults>>

(* _prepare_run raises, outside the try of _run_impl, for a Run that is    *)
(* over or waits.                                                          *)
Prepare(w) ==
    LET r == RunOf(w) IN
    /\ worker[w].pc = "prepare"
    /\ IF run[r].status \in Final \cup {"WAITING_USER"}
       THEN Goto(w, "raised") /\ UNCHANGED run
       ELSE StartRun(r) /\ Goto(w, "work")
    /\ UNCHANGED <<job, call, user, faults>>

(* persist_checkpoint, before each capability.                             *)
SaveCheckpoint(w) ==
    /\ worker[w].pc = "work"
    /\ run' = [run EXCEPT ![RunOf(w)].checkpoint = TRUE]
    /\ UNCHANGED <<job, call, user, worker, faults>>

(* The flow registers the writer's draft: once, the patch id is fixed.     *)
Propose(w) ==
    /\ worker[w].pc = "work"
    /\ run[RunOf(w)].checkpoint
    /\ RunOf(w) \in Writing /\ run[RunOf(w)].patch = "none"
    /\ run' = [run EXCEPT ![RunOf(w)].patch = "AWAITING_APPROVAL"]
    /\ UNCHANGED <<job, call, user, worker, faults>>

(* The flow ends: FAILED is any refusal, budget or error inside it.        *)
FlowEnds(w) ==
    LET r == RunOf(w) IN
    /\ worker[w].pc = "work"
    /\ \/ Choose(w, "persist", "FAILED")
       \/ r \notin Writing /\ run[r].checkpoint /\ Choose(w, "persist", "COMPLETED")
       \/ run[r].patch # "none" /\ Choose(w, "persist", "WAITING_USER")
    /\ UNCHANGED <<run, job, call, user, faults>>

CancelPending(w) == job[worker[w].job].status \in {"CANCEL_REQUESTED", "CANCELLED"}

(* The cancellation checker before each capability; a flow that _resume    *)
(* restarts has none.                                                      *)
FlowCancelled(w) ==
    /\ worker[w].pc = "work" /\ worker[w].job \in Keys
    /\ CancelPending(w)
    /\ Goto(w, "cancelled")
    /\ UNCHANGED <<run, job, call, user, faults>>

(* persist_result.  The checkpoint, cleared in a transaction of its own    *)
(* just after the status, goes with the status here.  An OSError is        *)
(* swallowed; an sqlite3.Error ends the flow, whose except clause persists *)
(* FAILED, and once more ends the handler.                                 *)
PersistResult(w) ==
    /\ worker[w].pc = "persist"
    /\ \/ /\ run' = [run EXCEPT ![RunOf(w)] =
                    [@ EXCEPT !.status = worker[w].seen, !.asked = FALSE,
                              !.checkpoint = FALSE]]
          /\ Carry(w, "confirm") /\ UNCHANGED faults
       \/ /\ Fault("store") /\ UNCHANGED run
          /\ \/ Carry(w, "confirm")
             \/ Choose(w, "persist", "FAILED")
             \/ worker[w].seen = "FAILED" /\ Goto(w, "raised")
    /\ UNCHANGED <<job, call, user>>

(* CrewAIBackend.resume reads Run and patch ...                            *)
PatchAlwaysDone(p) ==                \* mutant: any patch counts as decided
    IF p = "FAILED" THEN "FAILED" ELSE "COMPLETED"
PatchOutcome(p) ==
    CASE p \in {"APPLIED", "REJECTED"} -> "COMPLETED"
      [] p = "FAILED" -> "FAILED"
      [] OTHER -> "WAITING_USER"

(* ... restarts the flow of a Run that is INTERRUPTED and left a           *)
(* checkpoint, and otherwise needs the patch.                              *)
Replayable(r) == run[r].status = "INTERRUPTED" /\ run[r].checkpoint

ReadPatch(w) ==
    LET r == RunOf(w) IN
    /\ worker[w].pc = "resume"
    /\ \/ Replayable(r) /\ Goto(w, "prepare")
       \/ ~Replayable(r) /\ run[r].patch = "none" /\ Goto(w, "raised")
       \/ /\ ~Replayable(r) /\ run[r].patch # "none"
          /\ Choose(w, "project", PatchOutcome(run[r].patch))
    /\ UNCHANGED <<run, job, call, user, faults>>

(* ... and writes what it read.                                            *)
ProjectDecision(w) ==
    /\ worker[w].pc = "project"
    /\ \/ /\ Complete(RunOf(w), worker[w].seen)
          /\ Carry(w, "confirm") /\ UNCHANGED faults
       \/ Fault("store") /\ Goto(w, "raised") /\ UNCHANGED run
    /\ UNCHANGED <<job, call, user>>

(* context.checkpoint after the backend has answered: a cancellation or a  *)
(* lost lease still turns the answer into an exception.                    *)
Confirm(w) ==
    /\ worker[w].pc = "confirm"
    /\ \/ CancelPending(w) /\ Goto(w, "cancelled")
       \/ ~CancelPending(w) /\ ~Owned(w) /\ Goto(w, "raised")
       \/ Owned(w) /\ Carry(w, "verify")
    /\ UNCHANGED <<run, job, call, user, faults>>

HeartbeatFails(w) ==
    /\ worker[w].pc = "confirm" /\ Fault("store")
    /\ Goto(w, "raised")
    /\ UNCHANGED <<run, job, call, user>>

(* A Run nobody closed is closed with the backend's answer.  (Its status   *)
(* is read one transaction earlier; no other process writes a RUNNING Run  *)
(* but a stale reconciliation, which ReconcileWrite has.)                  *)
Verify(w) ==
    /\ worker[w].pc = "verify"
    /\ IF run[RunOf(w)].status \in {"PENDING", "QUEUED", "RUNNING"}
       THEN Complete(RunOf(w), worker[w].seen) ELSE UNCHANGED run
    /\ Goto(w, "returned")
    /\ UNCHANGED <<job, call, user, faults>>

(* The handlers' except clauses.  For _resume a JobCancelled is an         *)
(* Exception like any other.                                               *)
CatchCancelled(w) ==
    /\ worker[w].pc = "cancelled"
    /\ Complete(RunOf(w), IF worker[w].job \in Keys THEN "CANCELLED" ELSE "INTERRUPTED")
    /\ Goto(w, "abandon")
    /\ UNCHANGED <<job, call, user, faults>>

CatchException(w) ==
    /\ worker[w].pc = "raised"
    /\ Complete(RunOf(w), "INTERRUPTED")
    /\ Goto(w, "retry")
    /\ UNCHANGED <<job, call, user, faults>>

(* The end of run_once: the Job's next status if this lease may write it.  *)
NextJobStatus(w) ==
    LET j == worker[w].job IN
    CASE worker[w].pc = "returned" /\ Owned(w) -> "SUCCEEDED"
      [] worker[w].pc = "retry" /\ Owned(w) ->
            IF job[j].attempt < MaxAttempts THEN "RETRY_PENDING" ELSE "FAILED"
      [] worker[w].pc = "abandon" /\ job[j].status \in Leased /\ job[j].owner = w ->
            "CANCELLED"
      [] OTHER -> job[j].status

SettleForever(w) ==                  \* mutant: the last failed attempt is retried too
    LET j == worker[w].job
        s == IF NextJobStatus(w) = "FAILED" THEN "RETRY_PENDING" ELSE NextJobStatus(w)
    IN  /\ worker[w].pc \in Settling
        /\ job' = [job EXCEPT ![j].status = s,
                              ![j].owner = IF s \in JobTerminal THEN "none" ELSE @]
        /\ worker' = [worker EXCEPT ![w] = At("reconcile", j, "none", {<<j, s>>})]
        /\ UNCHANGED <<run, call, user, faults>>
Settle(w) ==
    LET j == worker[w].job
        s == NextJobStatus(w)
    IN  /\ worker[w].pc \in Settling
        /\ job' = [job EXCEPT ![j].status = s,
                              ![j].owner = IF s \in JobTerminal THEN "none" ELSE @]
        /\ worker' = [worker EXCEPT ![w] = At("reconcile", j, "none", {<<j, s>>})]
        /\ UNCHANGED <<run, call, user, faults>>

-----------------------------------------------------------------------------
(* reconcile_job: what the Job, as it was listed, asks of the Run.         *)

TargetOnlyFailed(s, r) ==            \* mutant: a cancelled Job is not looked at
    CASE s = "FAILED" /\ run[r].status \notin Final -> "FAILED"
      [] OTHER -> "none"
Target(s, r) ==
    CASE s \in {"CANCELLED", "FAILED"} /\ run[r].status \notin Final -> s
      [] s = "RETRY_PENDING" /\ run[r].status = "RUNNING" -> "INTERRUPTED"
      [] OTHER -> "none"

AfterReconcile(T) == IF T = {} THEN Idle ELSE At("reconcile", NoJob, "none", T)

ReconcileRead(w, p) ==
    LET r == job[p[1]].run
        target == Target(p[2], r)
    IN  /\ worker[w].pc = "reconcile" /\ worker[w].seen = "none"
        /\ p \in worker[w].todo
        /\ IF target = "none"
           THEN worker' = [worker EXCEPT ![w] = AfterReconcile(@.todo \ {p})]
           ELSE worker' = [worker EXCEPT ![w] = At("reconcile", p[1], target, @.todo)]
        /\ UNCHANGED <<run, job, call, user, faults>>

ReconcileWrite(w) ==
    LET r == RunOf(w) IN
    /\ worker[w].pc = "reconcile" /\ worker[w].seen # "none"
    /\ Complete(r, worker[w].seen)
    /\ worker' = [worker EXCEPT ![w] =
                    AfterReconcile({p \in @.todo : p[1] # worker[w].job})]
    /\ UNCHANGED <<job, call, user, faults>>

-----------------------------------------------------------------------------
(* Death of a worker, and the recovery of the next one.                    *)

Crash(w) ==
    /\ worker[w].pc # "down" /\ Fault("worker")
    /\ worker' = [worker EXCEPT ![w] = Down]
    /\ UNCHANGED <<run, job, call, user>>

Held(j) == \E w \in Workers : /\ worker[w].job = j
                              /\ worker[w].pc \in Handling \cup Ending \cup Settling
                              /\ job[j].owner = w

Recovered(j) ==
    [job[j] EXCEPT !.status = IF @ = "CANCEL_REQUESTED" THEN "CANCELLED"
                              ELSE IF job[j].attempt < MaxAttempts THEN "RETRY_PENDING"
                              ELSE "FAILED",
                   !.owner = "none"]

(* Restart: of the leases, those whose heartbeat is old are recovered, and *)
(* the table is listed for reconciliation.  The supervisor restarts at any *)
(* time, so a lease nobody holds may be young still and is passed over;    *)
(* with a stall, even one that is held may be old.  Of the listed Jobs,    *)
(* those that can move no Run are left out.                                *)
Moving == {"CANCELLED", "FAILED", "RETRY_PENDING"}

Restart(w) ==
    /\ worker[w].pc = "down"
    /\ \E S \in SUBSET {j \in Jobs : job[j].status \in Leased} :
        LET after == [j \in Jobs |-> IF j \in S THEN Recovered(j) ELSE job[j]]
        IN  /\ \A j \in S : Held(j) => StallsPossible
            /\ job' = after
            /\ worker' = [worker EXCEPT ![w] = AfterReconcile(
                  {<<j, after[j].status>> : j \in {k \in Jobs : after[k].status \in Moving}})]
    /\ UNCHANGED <<run, call, user, faults>>

-----------------------------------------------------------------------------
CallStep(c) == \/ CreateRun(c) \/ SubmitRun(c) \/ SubmitFails(c)
               \/ CloseDuplicate(c) \/ Bind(c) \/ CallDies(c)

CancelStep(u) == CancelReread(u) \/ CancelRun(u) \/ \E r \in Runs : CancelJob(u, r)
ResumeStep(u) == \/ Requeue(u) \/ Notify(u)
                 \/ \E j \in Resumes : \/ EnqueueByApproval(u, j)
                                       \/ \E r \in Runs : EnqueueByUser(u, r, j)
UserStep(u) == \/ CancelStep(u) \/ ResumeStep(u) \/ UserDies(u)
               \/ \E r \in Runs, d \in Decided : Decide(u, r, d)

FlowStep(w) == \/ Locate(w) \/ Start(w) \/ Prepare(w) \/ SaveCheckpoint(w)
               \/ Propose(w) \/ FlowEnds(w) \/ FlowCancelled(w)
HandlerStep(w) == \/ PersistResult(w) \/ ReadPatch(w)
                  \/ ProjectDecision(w) \/ Confirm(w) \/ HeartbeatFails(w)
                  \/ Verify(w) \/ CatchCancelled(w) \/ CatchException(w) \/ Settle(w)
ReconcileStep(w) == \/ ReconcileWrite(w)
                    \/ \E p \in worker[w].todo : ReconcileRead(w, p)
WorkerStep(w) == \/ FlowStep(w) \/ HandlerStep(w) \/ ReconcileStep(w)
                 \/ Crash(w) \/ Restart(w) \/ \E j \in Jobs : Claim(w, j)

Next == \/ \E c \in Runs : CallStep(c)
        \/ \E u \in Users : UserStep(u)
        \/ \E w \in Workers : WorkerStep(w)

Spec == Init /\ [][Next]_vars

(* A process that is up keeps taking its steps, a flow ends (its budgets   *)
(* bound it), the supervisor starts a dead worker, an API call that began  *)
(* is carried on.  Nothing forces a user, a crash or a store failure.      *)
Fairness ==
    /\ \A c \in Runs : WF_vars(SubmitRun(c) \/ CloseDuplicate(c) \/ Bind(c))
    /\ \A u \in Users : /\ WF_vars(CancelReread(u) \/ CancelRun(u))
                        /\ WF_vars(Requeue(u) \/ Notify(u)
                                    \/ \E j \in Resumes : EnqueueByApproval(u, j))
    /\ \A w \in Workers :
          /\ WF_vars(Locate(w) \/ Start(w) \/ Prepare(w)) /\ WF_vars(FlowEnds(w))
          /\ WF_vars(HandlerStep(w)) /\ WF_vars(ReconcileStep(w))
          /\ WF_vars(Restart(w)) /\ WF_vars(\E j \in Jobs : Claim(w, j))

FairSpec == Spec /\ Fairness

-----------------------------------------------------------------------------
(* Properties.                                                             *)

(* Of all the Runs that calls with one idempotency key created, only the   *)
(* one its Job names is ever worked on, leaves a checkpoint or a patch;    *)
(* every other is closed, unless the call that has to close it is still    *)
(* going on or died with its process, or a user resumed that Run.          *)
OneRunPerKey ==
    \A r \in Runs : job[KeyOf[r]].run # r =>
        /\ ~run[r].checkpoint /\ run[r].patch = "none"
        /\ \/ run[r].status \in Final \cup {"ABSENT"}
           \/ call[r] \in InCreate \cup {"dead"}
           \/ \E j \in Resumes : job[j].run = r

(* A Run that drafts a patch is COMPLETED only after a human accepted or   *)
(* rejected the patch: no retry, replay or resume walks past the approval. *)
HumanGate == \A r \in Writing : run[r].status = "COMPLETED" =>
                                    run[r].patch \in {"APPLIED", "REJECTED"}

(* A Run is RUNNING only while it can still be closed through a Job of its *)
(* own: one is leased or in a worker's hands, or a sweep that has that Job *)
(* on its list is under way or about to start with the worker's next       *)
(* process.                                                                *)
Answers(w, j) == \/ worker[w].pc = "down"
                 \/ worker[w].job = j
                 \/ \E p \in worker[w].todo : p[1] = j
RunningIsWatched ==
    \A r \in Runs : run[r].status = "RUNNING" =>
        \E j \in Jobs : /\ job[j].run = r
                       /\ \/ job[j].status \in Leased
                          \/ \E w \in Workers : Answers(w, j)

(* A leased Job that no worker holds while every worker is up: until one   *)
(* of them dies, no recovery looks at it.                                  *)
Stranded(j) == /\ job[j].status \in Leased /\ ~Held(j)
               /\ \A w \in Workers : worker[w].pc # "down"

(* A Run waits in vain if a Job of it is stranded, or stranded Jobs use up *)
(* the running limit.                                                      *)
Blocked(r) ==
    \/ \E j \in Jobs : job[j].run = r /\ Stranded(j)
    \/ Cardinality({j \in Jobs : job[j].status = "RUNNING" /\ Stranded(j)}) >= ScopeLimit

(* A Run that has its Job is in the end over, or it asks its user, unless  *)
(* it stays blocked for ever behind a worker that was restarted before the *)
(* lease of the one that died was old.                                     *)
AsksUser(r) == \/ run[r].status = "WAITING_USER"
               \/ run[r].status = "QUEUED" /\ run[r].patch # "none"
RunsSettle == \A r \in Runs :
    job[KeyOf[r]].run = r ~> run[r].status \in Final \/ AsksUser(r) \/ []Blocked(r)
=============================================================================
