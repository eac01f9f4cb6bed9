------------------------------ MODULE JobQueue ------------------------------
(***************************************************************************)
(* The durable job queue: the jobs table of app/jobs/repository.py, the    *)
(* worker processes of app/jobs/worker.py that claim, heartbeat and settle *)
(* its rows, the recovery pass each worker runs when its process starts,   *)
(* and the two operators' calls request_cancel and requeue_failed.         *)
(*                                                                         *)
(* Every SQL statement that commits on its own is one action.  A method    *)
(* that reads, leaves the database and writes later (request_cancel,       *)
(* mark_interrupted, recover_interrupted, the ownership test before each   *)
(* final set_status) is split at exactly that point, and what it read is   *)
(* kept in the process's record until the write.                           *)
(*                                                                         *)
(* A lease token (secrets.token_urlsafe) is only ever compared with the    *)
(* token of the same row, so it is the serial number of the claim on that  *)
(* row.  Wall-clock time is two facts of a row: "fresh", the heartbeat is  *)
(* inside the stale window, and "due", available_at has passed.            *)
(***************************************************************************)
EXTENDS Naturals, FiniteSets

CONSTANTS
    Jobs,            \* rows of the table, one per idempotency key
    Workers,         \* worker processes, each restarted by its supervisor
    Callers,         \* concurrent request_cancel calls
    Scopes,          \* (tenant_id, principal_id) pairs
    ScopeOf,         \* the scope of each job
    MaxAttempts,     \* jobs.max_attempts
    ScopeLimit,      \* max_running_per_scope
    MaxResets,       \* bound: requeue_failed(reset_attempts=True) calls per job
    MaxCrashes,      \* bound: deaths of worker processes
    StallsPossible,  \* TRUE: a live worker may miss the whole stale window
    NoWorker, NoJob  \* SQL NULL

ASSUME BudgetAssumption == MaxAttempts \in Nat \ {0} /\ MaxResets \in Nat
ASSUME LimitAssumption == ScopeLimit \in Nat \ {0} /\ MaxCrashes \in Nat
ASSUME ScopeAssumption == ScopeOf \in [Jobs -> Scopes]
ASSUME ModeAssumption == StallsPossible \in BOOLEAN
ASSUME NullAssumption == NoWorker \notin Workers /\ NoJob \notin Jobs

VARIABLES
    job,      \* the jobs table
    issued,   \* lease tokens generated so far for each row
    resets,   \* attempt counters reset by requeue_failed, per row
    worker,   \* the worker processes
    caller,   \* the request_cancel calls in flight
    crashes   \* worker deaths so far

vars == <<job, issued, resets, worker, caller, crashes>>

-----------------------------------------------------------------------------
Terminal == {"SUCCEEDED", "FAILED", "CANCELLED"}
Waiting == {"QUEUED", "RETRY_PENDING"}
Leased == {"RUNNING", "CANCEL_REQUESTED"}
JobStatus == Terminal \cup Waiting \cup Leased \cup {"INTERRUPTED"}

NoLease == 0
Lease == Nat

(* A row; "ABSENT" is a row not inserted yet.  result is the lease whose   *)
(* handler produced result_reference, NoLease for NULL.                    *)
Row == [status : JobStatus \cup {"ABSENT"}, attempt : 0 .. MaxAttempts,
        owner : Workers \cup {NoWorker}, lease : Lease,
        fresh : BOOLEAN, due : BOOLEAN, result : Lease]

AbsentRow == [status |-> "ABSENT", attempt |-> 0, owner |-> NoWorker,
              lease |-> NoLease, fresh |-> FALSE, due |-> TRUE,
              result |-> NoLease]

(* Where a worker process is.  "close", "scan", "settle" are the rest of   *)
(* recover_after_restart, "run" and "beat" the handler and its checkpoint  *)
(* call, the others the ends of run_once: how the handler ended, then the  *)
(* status about to be written.                                             *)
Recovering == {"close", "scan", "settle"}
InHandler == {"run", "beat"}
Ended == {"returned", "raised", "cancelled"}
Writing == {"succeed", "retry", "fail", "cancel"}
Busy == InHandler \cup Ended \cup Writing
Location == {"down", "idle"} \cup Recovering \cup Busy

Process == [pc : Location, job : Jobs \cup {NoJob}, lease : Lease,
            seen : SUBSET Jobs, spent : SUBSET Jobs]

At(l) == [pc |-> l, job |-> NoJob, lease |-> NoLease, seen |-> {}, spent |-> {}]
Running(j, t) == [pc |-> "run", job |-> j, lease |-> t, seen |-> {}, spent |-> {}]
Sweeping(l, S, T) == [pc |-> l, job |-> NoJob, lease |-> NoLease, seen |-> S, spent |-> T]

Call == [job : Jobs \cup {NoJob}, target : {"none", "CANCELLED", "CANCEL_REQUESTED"}]
NoCall == [job |-> NoJob, target |-> "none"]

Init == /\ job = [j \in Jobs |-> AbsentRow]
        /\ issued = [j \in Jobs |-> 0]
        /\ resets = [j \in Jobs |-> 0]
        /\ worker = [w \in Workers |-> At("down")]
        /\ caller = [c \in Callers |-> NoCall]
        /\ crashes = 0

-----------------------------------------------------------------------------
(* What one UPDATE makes of a row r.                                       *)

ClaimedWithOldToken(r, w, l) ==      \* mutant: lease_token = COALESCE(lease_token, ?)
    [status |-> "RUNNING", attempt |-> r.attempt + 1, owner |-> w,
     lease |-> IF r.lease = NoLease THEN l ELSE r.lease,
     fresh |-> TRUE, due |-> TRUE, result |-> r.result]
ClaimedForFree(r, w, l) ==           \* mutant: the claim forgets attempt+1
    [status |-> "RUNNING", attempt |-> r.attempt, owner |-> w,
     lease |-> l, fresh |-> TRUE, due |-> TRUE, result |-> r.result]
Claimed(r, w, l) ==
    [status |-> "RUNNING", attempt |-> r.attempt + 1, owner |-> w,
     lease |-> l, fresh |-> TRUE, due |-> TRUE, result |-> r.result]

(* set_status: result_reference and available_at are overwritten by the    *)
(* arguments, the owner only leaves a row that becomes terminal.           *)
SetStatus(r, s, res, wait) ==
    [status |-> s, attempt |-> r.attempt,
     owner |-> IF s \in Terminal THEN NoWorker ELSE r.owner,
     lease |-> IF s \in Terminal THEN NoLease ELSE r.lease,
     fresh |-> r.fresh, due |-> ~wait, result |-> res]

(* The owner and available_at are cleared by recovery and by a replay ...  *)
Released(r, s, n) ==
    [status |-> s, attempt |-> n, owner |-> NoWorker, lease |-> NoLease,
     fresh |-> r.fresh, due |-> TRUE, result |-> r.result]

(* ... which in mark_interrupted finishes a cancellation,                  *)
Interrupted(r) ==
    Released(r, IF r.status = "CANCEL_REQUESTED" THEN "CANCELLED" ELSE "INTERRUPTED",
             r.attempt)

(* in recover_interrupted retries while attempts are left,                 *)
Recovered(r, spent) ==
    Released(r, IF spent THEN "FAILED" ELSE "RETRY_PENDING", r.attempt)

(* and in requeue_failed may reset the counter (a FAILED row has no owner) *)
Replayed(r, reset) ==
    Released(r, "RETRY_PENDING", IF reset THEN 0 ELSE r.attempt)

-----------------------------------------------------------------------------
Load(j) == Cardinality({k \in Jobs : /\ job[k].status = "RUNNING"
                                     /\ ScopeOf[k] = ScopeOf[j]})

WithinBudget(j) == job[j].attempt < MaxAttempts

ClaimableAtLimit(j) ==               \* mutant: < became <= in the scope count
    /\ job[j].status \in Waiting
    /\ WithinBudget(j)
    /\ Load(j) <= ScopeLimit
    /\ job[j].due
Claimable(j) == /\ job[j].status \in Waiting
                /\ WithinBudget(j)
                /\ Load(j) < ScopeLimit
                /\ job[j].due

Goto(w, l) == worker' = [worker EXCEPT ![w].pc = l]

OwnsAny(w) == job[worker[w].job].status = "RUNNING"      \* mutant: no ownership clause

(* The WHERE clause worker_id = ? AND lease_token = ?.                     *)
Owns(w) == /\ job[worker[w].job].owner = w
           /\ job[worker[w].job].lease = worker[w].lease

(* submit: an existing idempotency key returns its row and changes nothing *)
Submit(j) ==
    /\ job[j].status = "ABSENT"
    /\ job' = [job EXCEPT ![j].status = "QUEUED"]
    /\ UNCHANGED <<issued, resets, worker, caller, crashes>>

(* claim_next runs under BEGIN IMMEDIATE: the scope with the least running *)
(* jobs first; rows of equal load, which the code takes by age, in any     *)
(* order.                                                                  *)
ClaimNext(w, j) ==
    /\ worker[w].pc = "idle"
    /\ Claimable(j)
    /\ \A k \in Jobs : Claimable(k) => Load(j) <= Load(k)
    /\ issued' = [issued EXCEPT ![j] = @ + 1]
    /\ job' = [job EXCEPT ![j] = Claimed(@, w, issued[j] + 1)]
    /\ worker' = [worker EXCEPT ![w] = Running(j, issued[j] + 1)]
    /\ UNCHANGED <<resets, caller, crashes>>

-----------------------------------------------------------------------------
(* The handler and the heartbeat thread beside it.                         *)

(* JobExecutionContext.checkpoint, first half: raise_if_cancelled.         *)
CheckCancel(w) ==
    /\ worker[w].pc = "run"
    /\ Goto(w, IF job[worker[w].job].status \in {"CANCEL_REQUESTED", "CANCELLED"}
               THEN "cancelled" ELSE "beat")
    /\ UNCHANGED <<job, issued, resets, caller, crashes>>

HoldsRunning(w) == Owns(w) /\ job[worker[w].job].status = "RUNNING"

(* Second half: the heartbeat, whose rejection is a RuntimeError in the    *)
(* handler.                                                                *)
Checkpoint(w) ==
    /\ worker[w].pc = "beat"
    /\ \/ /\ HoldsRunning(w)
          /\ job' = [job EXCEPT ![worker[w].job].fresh = TRUE]
          /\ Goto(w, "run")
       \/ /\ ~HoldsRunning(w)
          /\ Goto(w, "raised")
          /\ UNCHANGED job
    /\ UNCHANGED <<issued, resets, caller, crashes>>

(* The thread is joined before the success path looks at the row again,    *)
(* but only after the write on the two exception paths.                    *)
Beating(w) == /\ worker[w].pc \in InHandler \cup {"raised", "cancelled", "retry", "fail", "cancel"}
              /\ HoldsRunning(w)

HeartbeatLoop(w) ==
    /\ Beating(w)
    /\ job' = [job EXCEPT ![worker[w].job].fresh = TRUE]
    /\ UNCHANGED <<issued, resets, worker, caller, crashes>>

HandlerEnds(w) ==
    /\ worker[w].pc \in InHandler
    /\ \/ worker[w].pc = "run" /\ Goto(w, "returned")
       \/ Goto(w, "raised")
    /\ UNCHANGED <<job, issued, resets, caller, crashes>>

-----------------------------------------------------------------------------
(* The end of run_once: an ownership test in one transaction, the final    *)
(* set_status in the next.                                                 *)

(* _still_owned, after a return and after an exception.                    *)
StillOwned(w) ==
    /\ worker[w].pc \in {"returned", "raised"}
    /\ \/ /\ HoldsRunning(w)
          /\ Goto(w, CASE worker[w].pc = "returned" -> "succeed"
                       [] worker[w].pc = "raised" /\ WithinBudget(worker[w].job) -> "retry"
                       [] OTHER -> "fail")
       \/ /\ ~HoldsRunning(w)
          /\ worker' = [worker EXCEPT ![w] = At("idle")]
    /\ UNCHANGED <<job, issued, resets, caller, crashes>>

(* The JobCancelled path tests the worker_id and the status, not the lease *)
MayCancel(w) == LET r == job[worker[w].job]
                IN  r.status \in Leased /\ r.owner = w

StillCancellable(w) ==
    /\ worker[w].pc = "cancelled"
    /\ \/ MayCancel(w) /\ Goto(w, "cancel")
       \/ ~MayCancel(w) /\ worker' = [worker EXCEPT ![w] = At("idle")]
    /\ UNCHANGED <<job, issued, resets, caller, crashes>>

(* set_status with worker_id and lease_token; wait is the retry backoff.   *)
Settled(r, l, pc, wait) ==
    CASE pc = "succeed" -> SetStatus(r, "SUCCEEDED", l, FALSE)
      [] pc = "retry"   -> SetStatus(r, "RETRY_PENDING", NoLease, wait)
      [] pc = "fail"    -> SetStatus(r, "FAILED", NoLease, wait)
      [] pc = "cancel"  -> SetStatus(r, "CANCELLED", NoLease, FALSE)

(* A rejected write is a KeyError no caller of run_once catches: the       *)
(* process ends, like the one that crashes.                                *)
Settle(w) ==
    /\ worker[w].pc \in Writing
    /\ \/ /\ Owns(w)
          /\ \E wait \in BOOLEAN :
                job' = [job EXCEPT ![worker[w].job] =
                            Settled(@, worker[w].lease, worker[w].pc, wait)]
          /\ worker' = [worker EXCEPT ![w] = At("idle")]
       \/ /\ ~Owns(w)
          /\ worker' = [worker EXCEPT ![w] = At("down")]
          /\ UNCHANGED job
    /\ UNCHANGED <<issued, resets, caller, crashes>>

-----------------------------------------------------------------------------
(* Death of a worker process, and recover_after_restart in the next one.   *)

(* At "idle" this is also the regular exit after --max-jobs jobs.          *)
Crash(w) ==
    /\ crashes < MaxCrashes
    /\ worker[w].pc # "down"
    /\ crashes' = crashes + 1
    /\ worker' = [worker EXCEPT ![w] = At("down")]
    /\ UNCHANGED <<job, issued, resets, caller>>

Stale(j) == job[j].status \in Leased /\ ~job[j].fresh

(* The restarted process; the SELECT of mark_interrupted.  The supervisor  *)
(* starts it at any time, also before the dead one's heartbeat is old: then *)
(* its rows are not among those seen, and nobody looks again until another *)
(* process starts.                                                         *)
Restart(w) ==
    /\ worker[w].pc = "down"
    /\ worker' = [worker EXCEPT ![w] = Sweeping("close", {j \in Jobs : Stale(j)}, {})]
    /\ UNCHANGED <<job, issued, resets, caller, crashes>>

MarkInterruptedBlindly(w) ==         \* mutant: the UPDATE trusts the SELECT
    /\ worker[w].pc = "close"
    /\ job' = [j \in Jobs |-> IF j \in worker[w].seen
                              THEN Interrupted(job[j]) ELSE job[j]]
    /\ Goto(w, "scan")
    /\ UNCHANGED <<issued, resets, caller, crashes>>

(* Its UPDATE tests the status again, not the heartbeat.                   *)
MarkInterrupted(w) ==
    /\ worker[w].pc = "close"
    /\ job' = [j \in Jobs |-> IF j \in worker[w].seen /\ job[j].status \in Leased
                              THEN Interrupted(job[j]) ELSE job[j]]
    /\ Goto(w, "scan")
    /\ UNCHANGED <<issued, resets, caller, crashes>>

RecoverSelectWithinBudget(w) ==      \* mutant: rows past their last attempt are not selected
    /\ worker[w].pc = "scan"
    /\ LET found == {j \in Jobs : job[j].status = "INTERRUPTED" /\ WithinBudget(j)}
       IN  worker' = [worker EXCEPT ![w] = Sweeping("settle", found, {})]
    /\ UNCHANGED <<job, issued, resets, caller, crashes>>

(* recover_interrupted: the SELECT decides retry or not per row.           *)
RecoverSelect(w) ==
    /\ worker[w].pc = "scan"
    /\ LET found == {j \in Jobs : job[j].status = "INTERRUPTED"}
       IN  worker' = [worker EXCEPT ![w] =
                          Sweeping("settle", found, {j \in found : ~WithinBudget(j)})]
    /\ UNCHANGED <<job, issued, resets, caller, crashes>>

RecoverUpdate(w) ==
    /\ worker[w].pc = "settle"
    /\ job' = [j \in Jobs |-> IF j \in worker[w].seen /\ job[j].status = "INTERRUPTED"
                              THEN Recovered(job[j], j \in worker[w].spent) ELSE job[j]]
    /\ worker' = [worker EXCEPT ![w] = At("idle")]
    /\ UNCHANGED <<issued, resets, caller, crashes>>

-----------------------------------------------------------------------------
(* The operators.                                                          *)

(* request_cancel reads the row ...                                        *)
CancelRead(c, j) ==
    /\ caller[c] = NoCall
    /\ job[j].status \notin Terminal \cup {"ABSENT"}
    /\ caller' = [caller EXCEPT ![c] =
            [job |-> j, target |-> IF job[j].status \in Leased
                                   THEN "CANCEL_REQUESTED" ELSE "CANCELLED"]]
    /\ UNCHANGED <<job, issued, resets, worker, crashes>>

(* ... and then writes, whatever the row has become.                       *)
CancelWrite(c) ==
    /\ caller[c] # NoCall
    /\ job' = [job EXCEPT ![caller[c].job] =
                    SetStatus(@, caller[c].target, NoLease, FALSE)]
    /\ caller' = [caller EXCEPT ![c] = NoCall]
    /\ UNCHANGED <<issued, resets, worker, crashes>>

(* requeue_failed, with reset_attempts FALSE or TRUE.                      *)
DeadLetter(j) == job[j].status = "FAILED" /\ ~WithinBudget(j)

RequeueFailed(j, reset) ==
    /\ DeadLetter(j)
    /\ reset => resets[j] < MaxResets
    /\ job' = [job EXCEPT ![j] = Replayed(@, reset)]
    /\ resets' = [resets EXCEPT ![j] = IF reset THEN @ + 1 ELSE @]
    /\ UNCHANGED <<issued, worker, caller, crashes>>

-----------------------------------------------------------------------------
(* Time.                                                                   *)

HeartbeatExpires(j) ==
    /\ job[j].fresh
    /\ StallsPossible \/ \A w \in Workers : ~(worker[w].job = j /\ HoldsRunning(w))
    /\ job' = [job EXCEPT ![j].fresh = FALSE]
    /\ UNCHANGED <<issued, resets, worker, caller, crashes>>

BackoffElapses(j) ==
    /\ ~job[j].due
    /\ job' = [job EXCEPT ![j].due = TRUE]
    /\ UNCHANGED <<issued, resets, worker, caller, crashes>>

-----------------------------------------------------------------------------
Recover(w) == MarkInterrupted(w) \/ RecoverSelect(w) \/ RecoverUpdate(w)
EndRun(w) == StillOwned(w) \/ StillCancellable(w) \/ Settle(w)

WorkerStep(w) == \/ Restart(w) \/ Recover(w) \/ Crash(w)
                 \/ \E j \in Jobs : ClaimNext(w, j)
                 \/ CheckCancel(w) \/ Checkpoint(w) \/ HeartbeatLoop(w)
                 \/ HandlerEnds(w) \/ EndRun(w)

CallerStep(c) == CancelWrite(c) \/ \E j \in Jobs : CancelRead(c, j)

RowStep(j) == \/ Submit(j) \/ HeartbeatExpires(j) \/ BackoffElapses(j)
              \/ \E reset \in BOOLEAN : RequeueFailed(j, reset)

Next == \/ \E w \in Workers : WorkerStep(w)
        \/ \E c \in Callers : CallerStep(c)
        \/ \E j \in Jobs : RowStep(j)

Spec == Init /\ [][Next]_vars

(* A process that is up keeps taking its own steps; a handler, whose work  *)
(* is bounded by budgets, ends if it is given the chance again and again;  *)
(* the supervisor (restart: unless-stopped) starts a dead worker; time     *)
(* passes; a request_cancel that has read its row goes on to write.        *)
(* Submissions, cancellations, replays and crashes are never forced.       *)
Fairness ==
    /\ \A w \in Workers :
          /\ WF_vars(Restart(w)) /\ WF_vars(Recover(w)) /\ WF_vars(EndRun(w))
          /\ WF_vars(\E j \in Jobs : ClaimNext(w, j))
          /\ WF_vars(CheckCancel(w) \/ Checkpoint(w)) /\ SF_vars(HandlerEnds(w))
    /\ \A c \in Callers : WF_vars(CancelWrite(c))
    /\ \A j \in Jobs : WF_vars(HeartbeatExpires(j)) /\ WF_vars(BackoffElapses(j))

FairSpec == Spec /\ Fairness

-----------------------------------------------------------------------------
(* Properties.                                                             *)

(* Every variable keeps its type: no row is claimed past max_attempts, and *)
(* a process has a job exactly while it is inside run_once.                *)
TypeOK == /\ job \in [Jobs -> Row]
          /\ issued \in [Jobs -> Nat]
          /\ resets \in [Jobs -> 0 .. MaxResets]
          /\ worker \in [Workers -> Process]
          /\ \A w \in Workers : worker[w].pc \in Busy <=> worker[w].job # NoJob
          /\ caller \in [Callers -> Call]
          /\ \A c \in Callers : caller[c] # NoCall =>
                                  caller[c].job \in Jobs /\ caller[c].target # "none"
          /\ crashes \in 0 .. MaxCrashes

(* The lease in a row is the last one issued for it, a process works under *)
(* a lease that was issued, and two processes never under the same one:    *)
(* the token fences every earlier claimant, whatever recoveries, replays   *)
(* and cancellations came between.                                         *)
LeasesFence ==
    /\ \A j \in Jobs : job[j].lease \in {NoLease, issued[j]}
    /\ \A w \in Workers : worker[w].job # NoJob =>
                              worker[w].lease \in 1 .. issued[worker[w].job]
    /\ \A v, w \in Workers : worker[v].job # NoJob /\ worker[v].job = worker[w].job
                              /\ worker[v].lease = worker[w].lease => v = w

(* A result is there exactly when the job SUCCEEDED, and it is the result  *)
(* of the last attempt: a worker that lost its lease never publishes.      *)
PublishedByLastAttempt ==
    \A j \in Jobs : IF job[j].status = "SUCCEEDED"
                    THEN job[j].result = issued[j] /\ issued[j] > 0
                    ELSE job[j].result = NoLease

(* The claims ever made on a job are its current attempt counter plus one  *)
(* full budget per reset: crashes, recoveries and replays hand out no      *)
(* attempt that the counter does not account for.                          *)
RetryBudget ==
    \A j \in Jobs : issued[j] = job[j].attempt + MaxAttempts * resets[j]

(* At most ScopeLimit jobs of a tenant and principal are RUNNING.          *)
ScopeLimitKept ==
    \A s \in Scopes :
        Cardinality({j \in Jobs : /\ job[j].status = "RUNNING"
                                 /\ ScopeOf[j] = s}) <= ScopeLimit

(* A terminal row keeps its status, its result and its attempt counter,    *)
(* except that an operator replays a dead letter, or that a request_cancel *)
(* writes what it decided on when it read the row before it ended.         *)
TerminalFrozen ==
    [][\A j \in Jobs : job[j].status \in Terminal =>
          \/ \E reset \in BOOLEAN : RequeueFailed(j, reset)
          \/ \E c \in Callers : caller[c].job = j /\ CancelWrite(c)
          \/ /\ job'[j].status = job[j].status
             /\ job'[j].result = job[j].result
             /\ job'[j].attempt = job[j].attempt]_vars

(* A leased row that nobody works on: its worker died, or lost its lease.  *)
Lost(j) == /\ job[j].status \in Leased
           /\ ~\E w \in Workers : worker[w].job = j /\ Owns(w)

(* Lost, and no process is about to start or still has the row on its list *)
(* of stale ones: as things stand, no recovery will reach it.              *)
Stranded(j) == /\ Lost(j)
               /\ \A w \in Workers : worker[w].pc # "down" /\ j \notin worker[w].seen

(* A job waits in vain if it is stranded, if stranded rows use up the      *)
(* running limit of its scope, or if a recovery that stalled between its   *)
(* two statements gave it back although its last attempt is used up.       *)
Blocked(j) == \/ Stranded(j)
              \/ Cardinality({k \in Jobs : /\ job[k].status = "RUNNING" /\ Stranded(k)
                                           /\ ScopeOf[k] = ScopeOf[j]}) >= ScopeLimit
              \/ StallsPossible /\ job[j].status = "RETRY_PENDING" /\ ~WithinBudget(j)

(* A submitted job reaches a terminal status, through crashes, stalls,     *)
(* early restarts, cancellations and recoveries, unless it stays blocked   *)
(* for ever.                                                               *)
JobsSettle ==
    \A j \in Jobs : job[j].status = "QUEUED" ~>
                       (job[j].status \in Terminal \/ []Blocked(j))

(* What docs/architecture/multi_user_concurrency.md promises in line 22: a *)
(* row somebody holds a lease on becomes terminal only by a write with     *)
(* that lease, or by recovery.                                             *)
TerminalWritesFenced ==
    [][\A j \in Jobs : job[j].status \in Leased /\ job'[j].status \in Terminal =>
          \E w \in Workers : MarkInterrupted(w) \/ (worker[w].job = j /\ Owns(w) /\ Settle(w))]_vars

(* And in line 25: when a worker is lost, recovery takes its job back.     *)
LostJobsRecovered == \A j \in Jobs : Lost(j) ~> ~Lost(j)
=============================================================================
