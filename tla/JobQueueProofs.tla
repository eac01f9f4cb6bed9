--------------------------- MODULE JobQueueProofs ---------------------------
(***************************************************************************)
(* Proofs about JobQueue for every set of jobs, workers and callers and    *)
(* every bound.                                                            *)
(***************************************************************************)
EXTENDS JobQueue, FiniteSetTheorems, TLAPS

IInv == TypeOK /\ LeasesFence /\ PublishedByLastAttempt /\ RetryBudget

USE DEF NoLease, Lease

LEMMA ClaimedTyped ==
    ASSUME NEW r \in Row, NEW w \in Workers, NEW l \in Nat, r.attempt < MaxAttempts
    PROVE  Claimed(r, w, l) \in Row
BY BudgetAssumption DEF Claimed, Row, JobStatus, Leased

LEMMA SetStatusTyped ==
    ASSUME NEW r \in Row, NEW s \in JobStatus, NEW l \in Nat, NEW wait \in BOOLEAN
    PROVE  SetStatus(r, s, l, wait) \in Row
BY DEF SetStatus, Row

LEMMA ReleasedTyped ==
    ASSUME NEW r \in Row
    PROVE  /\ Interrupted(r) \in Row
           /\ \A b \in BOOLEAN : Recovered(r, b) \in Row /\ Replayed(r, b) \in Row
<1>. USE DEF JobStatus, Terminal, Waiting, Leased
<1>1. ASSUME NEW t \in JobStatus, NEW n \in 0 .. MaxAttempts
      PROVE  Released(r, t, n) \in Row
  BY DEF Released, Row
<1>2. r.attempt \in 0 .. MaxAttempts /\ 0 \in 0 .. MaxAttempts
  BY BudgetAssumption DEF Row
<1>3. Interrupted(r) \in Row
  BY <1>1, <1>2 DEF Interrupted
<1>4. ASSUME NEW b \in BOOLEAN PROVE Recovered(r, b) \in Row
  BY <1>1, <1>2 DEF Recovered
<1>5. ASSUME NEW b \in BOOLEAN PROVE Replayed(r, b) \in Row
  BY <1>1, <1>2 DEF Replayed
<1>. QED  BY <1>3, <1>4, <1>5

LEMMA InitIInv == Init => IInv
BY BudgetAssumption, LimitAssumption, NullAssumption
   DEF Init, IInv, TypeOK, LeasesFence, PublishedByLastAttempt, RetryBudget,
       AbsentRow, At, NoCall, Row, Process, Call, Location, Busy, InHandler,
       Ended, Writing, Recovering

-----------------------------------------------------------------------------
(* What every step but a claim and a replay does.                          *)

(* A changed row keeps its attempt, keeps its lease or loses it, and has a *)
(* result only if it becomes SUCCEEDED with the last lease issued for it.  *)
RowChanged(j) ==
    /\ job'[j].attempt = job[j].attempt
    /\ job'[j].lease \in {NoLease, job[j].lease}
    /\ job'[j].result = IF job'[j].status = "SUCCEEDED" THEN issued[j] ELSE NoLease
    /\ job'[j].status = "SUCCEEDED" => issued[j] > 0

RowsOK == /\ job' \in [Jobs -> Row]
          /\ \A j \in Jobs : job'[j] = job[j] \/ RowChanged(j)

(* A process keeps the job and the lease it has, or lets both go.          *)
ProcessesOK ==
    /\ worker' \in [Workers -> Process]
    /\ \A w \in Workers : worker'[w].pc \in Busy <=> worker'[w].job # NoJob
    /\ \A w \in Workers : \/ worker'[w].job = NoJob
                          \/ /\ worker'[w].job = worker[w].job
                             /\ worker'[w].lease = worker[w].lease

CallsOK ==
    /\ caller' \in [Callers -> Call]
    /\ \A c \in Callers : caller'[c] # NoCall =>
                            caller'[c].job \in Jobs /\ caller'[c].target # "none"

LEMMA StepInv ==
    ASSUME IInv, RowsOK, ProcessesOK, CallsOK,
           UNCHANGED <<issued, resets>>, crashes' \in 0 .. MaxCrashes
    PROVE  IInv'
<1>. USE DEF IInv
<1>1. TypeOK'
  BY DEF TypeOK, RowsOK, ProcessesOK, CallsOK
<1>2. LeasesFence'
  BY DEF LeasesFence, RowsOK, RowChanged, ProcessesOK
<1>3. PublishedByLastAttempt'
  BY DEF PublishedByLastAttempt, RowsOK, RowChanged
<1>4. RetryBudget'
  BY DEF RetryBudget, RowsOK, RowChanged
<1>. QED  BY <1>1, <1>2, <1>3, <1>4

(* The cases in which one of the three parts does not move at all.         *)
LEMMA Still ==
    ASSUME IInv
    PROVE  /\ UNCHANGED job => RowsOK
           /\ UNCHANGED worker => ProcessesOK
           /\ UNCHANGED caller => CallsOK
           /\ UNCHANGED crashes => crashes' \in 0 .. MaxCrashes
BY DEF IInv, TypeOK, RowsOK, ProcessesOK, CallsOK

(* A worker goes on with the job it has ...                                *)
LEMMA MoveOK ==
    ASSUME IInv, NEW w \in Workers, NEW l \in Busy, worker[w].pc \in Busy, Goto(w, l)
    PROVE  ProcessesOK
<1>1. worker' \in [Workers -> Process]
  <2>1. worker[w] \in Process /\ l \in Location
    BY DEF IInv, TypeOK, Location
  <2>2. [worker[w] EXCEPT !.pc = l] \in Process
    BY <2>1 DEF Process
  <2>. QED  BY <2>2 DEF IInv, TypeOK, Goto
<1>. QED  BY <1>1 DEF IInv, TypeOK, Process, ProcessesOK, Goto

(* ... or it ends up somewhere without a job.                              *)
LEMMA LetGoOK ==
    ASSUME IInv, NEW w \in Workers, NEW p \in Process, p.pc \notin Busy, p.job = NoJob,
           worker' = [worker EXCEPT ![w] = p]
    PROVE  ProcessesOK
BY DEF IInv, TypeOK, ProcessesOK

LEMMA AtTyped ==
    ASSUME NEW l \in {"down", "idle"} \cup Recovering
    PROVE  At(l) \in Process /\ At(l).pc \notin Busy /\ At(l).job = NoJob
BY DEF At, Process, Location, Busy, InHandler, Ended, Writing, Recovering

LEMMA SweepingTyped ==
    ASSUME NEW l \in Recovering, NEW S \in SUBSET Jobs, NEW T \in SUBSET Jobs
    PROVE  /\ Sweeping(l, S, T) \in Process
           /\ Sweeping(l, S, T).pc \notin Busy /\ Sweeping(l, S, T).job = NoJob
BY DEF Sweeping, Process, Location, Busy, InHandler, Ended, Writing, Recovering

(* One row is replaced.                                                    *)
LEMMA OneRowOK ==
    ASSUME IInv, NEW j \in Jobs, NEW r \in Row, job' = [job EXCEPT ![j] = r],
           r.attempt = job[j].attempt, r.lease \in {NoLease, job[j].lease},
           r.result = IF r.status = "SUCCEEDED" THEN issued[j] ELSE NoLease,
           r.status = "SUCCEEDED" => issued[j] > 0
    PROVE  RowsOK
BY DEF IInv, TypeOK, RowsOK, RowChanged

(* What IInv says of one row.                                              *)
LEMMA RowFacts ==
    ASSUME IInv, NEW j \in Jobs
    PROVE  /\ job[j] \in Row
           /\ job[j].status # "SUCCEEDED" => job[j].result = NoLease
           /\ job[j].status = "SUCCEEDED" => job[j].result = issued[j] /\ issued[j] > 0
           /\ issued[j] \in Nat /\ job[j].attempt \in 0 .. MaxAttempts
BY DEF IInv, TypeOK, PublishedByLastAttempt, Row

(* And of a process inside run_once.                                       *)
LEMMA BusyFacts ==
    ASSUME IInv, NEW w \in Workers, worker[w].pc \in Busy
    PROVE  /\ worker[w].job \in Jobs
           /\ worker[w].lease \in 1 .. issued[worker[w].job]
           /\ Owns(w) => worker[w].lease = issued[worker[w].job]
<1>1. worker[w].job \in Jobs
  BY DEF IInv, TypeOK, Process
<1>2. worker[w].lease \in 1 .. issued[worker[w].job]
  BY <1>1, NullAssumption DEF IInv, LeasesFence
<1>. QED  BY <1>1, <1>2, RowFacts DEF IInv, LeasesFence, Owns

-----------------------------------------------------------------------------
(* One lemma per action.                                                   *)

LEMMA SubmitInv == ASSUME IInv, NEW j \in Jobs, Submit(j) PROVE IInv'
<1>. DEFINE r == [job[j] EXCEPT !.status = "QUEUED"]
<1>1. r \in Row /\ r.attempt = job[j].attempt /\ r.lease = job[j].lease
      /\ r.result = NoLease /\ r.status = "QUEUED"
  BY RowFacts DEF Submit, Row, JobStatus, Waiting
<1>2. RowsOK
  <2>1. job' = [job EXCEPT ![j] = r]
    BY DEF Submit
  <2>. HIDE DEF r
  <2>. QED  BY <1>1, <2>1, OneRowOK
<1>. QED  BY <1>2, Still, StepInv DEF Submit

(* The heartbeat and the due flag are not part of the invariant.           *)
LEMMA TouchOK ==
    ASSUME IInv, NEW j \in Jobs, NEW b \in BOOLEAN,
           \/ job' = [job EXCEPT ![j].fresh = b]
           \/ job' = [job EXCEPT ![j].due = b]
    PROVE  RowsOK
<1>. DEFINE f == [job[j] EXCEPT !.fresh = b]
            d == [job[j] EXCEPT !.due = b]
<1>1. \A r \in {f, d} : /\ r \in Row /\ r.attempt = job[j].attempt
                        /\ r.lease = job[j].lease /\ r.result = job[j].result
                        /\ r.status = job[j].status
  BY RowFacts DEF Row
<1>2. job' = [job EXCEPT ![j] = f] \/ job' = [job EXCEPT ![j] = d]
  OBVIOUS
<1>. HIDE DEF f, d
<1>. QED  BY <1>1, <1>2, OneRowOK, RowFacts

LEMMA ClaimInv == ASSUME IInv, NEW w \in Workers, NEW j \in Jobs, ClaimNext(w, j) PROVE IInv'
<1>. DEFINE l == issued[j] + 1
            r == Claimed(job[j], w, l)
            p == Running(j, l)
<1>1. /\ job' = [job EXCEPT ![j] = r]
      /\ issued' = [issued EXCEPT ![j] = l]
      /\ worker' = [worker EXCEPT ![w] = p]
      /\ UNCHANGED <<resets, caller, crashes>>
  BY DEF ClaimNext
<1>2. /\ job[j] \in Row /\ job[j].attempt < MaxAttempts
      /\ job[j].result = NoLease /\ issued[j] \in Nat
  BY RowFacts DEF ClaimNext, Claimable, WithinBudget, Waiting
<1>3. /\ r \in Row /\ r.attempt = job[j].attempt + 1 /\ r.lease = l
      /\ r.result = NoLease /\ r.status = "RUNNING"
  <2>1. l \in Nat
    BY <1>2
  <2>2. r \in Row
    BY <1>2, <2>1, ClaimedTyped
  <2>. QED  BY <1>2, <2>2 DEF Claimed
<1>4. p \in Process /\ p.pc \in Busy /\ p.job = j /\ p.lease = l
  BY <1>2 DEF Running, Process, Location, Busy, InHandler
<1>. HIDE DEF r, p
<1>5. TypeOK'
  BY <1>1, <1>2, <1>3, <1>4, NullAssumption DEF IInv, TypeOK
<1>6. LeasesFence'
  BY <1>1, <1>2, <1>3, <1>4 DEF IInv, TypeOK, LeasesFence, Process
<1>7. PublishedByLastAttempt'
  BY <1>1, <1>2, <1>3 DEF IInv, TypeOK, PublishedByLastAttempt
<1>8. RetryBudget'
  <2>1. MaxAttempts * resets[j] \in Nat
    BY BudgetAssumption DEF IInv, TypeOK
  <2>. QED  BY <1>1, <1>2, <1>3, <2>1, RowFacts DEF IInv, TypeOK, RetryBudget
<1>. QED  BY <1>5, <1>6, <1>7, <1>8 DEF IInv

LEMMA CheckCancelInv == ASSUME IInv, NEW w \in Workers, CheckCancel(w) PROVE IInv'
<1>1. PICK l \in Busy : Goto(w, l)
  BY DEF CheckCancel, Busy, InHandler, Ended
<1>2. worker[w].pc \in Busy
  BY DEF CheckCancel, Busy, InHandler
<1>. QED  BY <1>1, <1>2, MoveOK, Still, StepInv DEF CheckCancel

LEMMA CheckpointInv == ASSUME IInv, NEW w \in Workers, Checkpoint(w) PROVE IInv'
<1>1. worker[w].pc \in Busy /\ "run" \in Busy /\ "raised" \in Busy
  BY DEF Checkpoint, Busy, InHandler, Ended
<1>2. ProcessesOK
  BY <1>1, MoveOK DEF Checkpoint
<1>3. RowsOK
  BY <1>1, BusyFacts, TouchOK, Still DEF Checkpoint
<1>. QED  BY <1>2, <1>3, Still, StepInv DEF Checkpoint

LEMMA HeartbeatLoopInv == ASSUME IInv, NEW w \in Workers, HeartbeatLoop(w) PROVE IInv'
<1>1. worker[w].pc \in Busy
  BY DEF HeartbeatLoop, Beating, Busy, InHandler, Ended, Writing
<1>2. RowsOK
  BY <1>1, BusyFacts, TouchOK DEF HeartbeatLoop
<1>. QED  BY <1>2, Still, StepInv DEF HeartbeatLoop

LEMMA HandlerEndsInv == ASSUME IInv, NEW w \in Workers, HandlerEnds(w) PROVE IInv'
<1>1. worker[w].pc \in Busy /\ "returned" \in Busy /\ "raised" \in Busy
  BY DEF HandlerEnds, Busy, InHandler, Ended
<1>. QED  BY <1>1, MoveOK, Still, StepInv DEF HandlerEnds

LEMMA StillOwnedInv == ASSUME IInv, NEW w \in Workers, StillOwned(w) PROVE IInv'
<1>1. worker[w].pc \in Busy
  BY DEF StillOwned, Busy, Ended
<1>2. CASE HoldsRunning(w)
  <2>1. PICK l \in Busy : Goto(w, l)
    BY <1>2 DEF StillOwned, Busy, Writing
  <2>. QED  BY <1>1, <2>1, MoveOK, Still, StepInv DEF StillOwned
<1>3. CASE ~HoldsRunning(w)
  BY <1>3, AtTyped, LetGoOK, Still, StepInv DEF StillOwned
<1>. QED  BY <1>2, <1>3

LEMMA StillCancellableInv == ASSUME IInv, NEW w \in Workers, StillCancellable(w) PROVE IInv'
<1>1. worker[w].pc \in Busy /\ "cancel" \in Busy
  BY DEF StillCancellable, Busy, Ended, Writing
<1>2. CASE MayCancel(w)
  BY <1>1, <1>2, MoveOK, Still, StepInv DEF StillCancellable
<1>3. CASE ~MayCancel(w)
  BY <1>3, AtTyped, LetGoOK, Still, StepInv DEF StillCancellable
<1>. QED  BY <1>2, <1>3

(* The one write that publishes a result: the lease it publishes under is  *)
(* in the row, hence the last one issued.                                  *)
LEMMA SettleInv == ASSUME IInv, NEW w \in Workers, Settle(w) PROVE IInv'
<1>1. worker[w].pc \in Busy
  BY DEF Settle, Busy
<1>2. CASE Owns(w)
  <2>. DEFINE j == worker[w].job
              l == worker[w].lease
  <2>1. PICK wait \in BOOLEAN : job' = [job EXCEPT ![j] = Settled(job[j], l, worker[w].pc, wait)]
    BY <1>2 DEF Settle
  <2>2. j \in Jobs /\ l = issued[j] /\ l \in Nat /\ l > 0 /\ job[j] \in Row
    BY <1>1, <1>2, BusyFacts, RowFacts
  <2>3. PICK s \in {"SUCCEEDED", "RETRY_PENDING", "FAILED", "CANCELLED"}, b \in BOOLEAN :
           job' = [job EXCEPT ![j] = SetStatus(job[j], s, IF s = "SUCCEEDED" THEN l ELSE NoLease, b)]
    BY <2>1 DEF Settle, Writing, Settled
  <2>. DEFINE r == SetStatus(job[j], s, IF s = "SUCCEEDED" THEN l ELSE NoLease, b)
  <2>4. r \in Row
    BY <2>2, SetStatusTyped DEF JobStatus, Terminal, Waiting
  <2>5. /\ r.attempt = job[j].attempt /\ r.lease \in {NoLease, job[j].lease} /\ r.status = s
        /\ r.result = IF s = "SUCCEEDED" THEN l ELSE NoLease
    BY DEF SetStatus
  <2>6. RowsOK
    <3>. HIDE DEF r, j, l
    <3>. QED  BY <2>2, <2>3, <2>4, <2>5, OneRowOK DEF r
  <2>. QED  BY <1>2, <2>6, AtTyped, LetGoOK, Still, StepInv DEF Settle
<1>3. CASE ~Owns(w)
  BY <1>3, AtTyped, LetGoOK, Still, StepInv DEF Settle
<1>. QED  BY <1>2, <1>3

LEMMA CrashInv == ASSUME IInv, NEW w \in Workers, Crash(w) PROVE IInv'
<1>1. crashes' \in 0 .. MaxCrashes
  BY LimitAssumption DEF Crash, IInv, TypeOK
<1>. QED  BY <1>1, AtTyped, LetGoOK, Still, StepInv DEF Crash

LEMMA RestartInv == ASSUME IInv, NEW w \in Workers, Restart(w) PROVE IInv'
<1>1. PICK S \in SUBSET Jobs : worker' = [worker EXCEPT ![w] = Sweeping("close", S, {})]
  BY DEF Restart
<1>2. "close" \in Recovering
  BY DEF Recovering
<1>. QED  BY <1>1, <1>2, SweepingTyped, LetGoOK, Still, StepInv DEF Restart

LEMMA MarkInterruptedInv == ASSUME IInv, NEW w \in Workers, MarkInterrupted(w) PROVE IInv'
<1>1. ASSUME NEW j \in Jobs, job[j].status \in Leased
      PROVE  Interrupted(job[j]) \in Row /\ (job'[j] = Interrupted(job[j]) => RowChanged(j))
  <2>1. Interrupted(job[j]) \in Row
    BY RowFacts, ReleasedTyped
  <2>. QED  BY <2>1, <1>1, RowFacts DEF Interrupted, Released, RowChanged, Leased
<1>2. RowsOK
  BY <1>1, RowFacts DEF MarkInterrupted, RowsOK
<1>3. ProcessesOK
  <2>1. [worker[w] EXCEPT !.pc = "scan"] \in Process
    BY DEF IInv, TypeOK, Process, Location, Recovering
  <2>2. worker[w].job = NoJob /\ "scan" \notin Busy
    BY DEF IInv, TypeOK, MarkInterrupted, Busy, InHandler, Ended, Writing
  <2>. QED  BY <2>1, <2>2, LetGoOK DEF MarkInterrupted, Goto, IInv, TypeOK, Process
<1>. QED  BY <1>2, <1>3, Still, StepInv DEF MarkInterrupted

LEMMA RecoverSelectInv == ASSUME IInv, NEW w \in Workers, RecoverSelect(w) PROVE IInv'
<1>. DEFINE S == {j \in Jobs : job[j].status = "INTERRUPTED"}
            T == {j \in S : ~WithinBudget(j)}
<1>1. worker' = [worker EXCEPT ![w] = Sweeping("settle", S, T)]
  BY DEF RecoverSelect
<1>2. "settle" \in Recovering /\ S \in SUBSET Jobs /\ T \in SUBSET Jobs
  BY DEF Recovering
<1>3. ProcessesOK
  <2>. HIDE DEF S, T
  <2>. QED  BY <1>1, <1>2, SweepingTyped, LetGoOK
<1>. QED  BY <1>3, Still, StepInv DEF RecoverSelect

LEMMA RecoverUpdateInv == ASSUME IInv, NEW w \in Workers, RecoverUpdate(w) PROVE IInv'
<1>1. ASSUME NEW j \in Jobs, job[j].status = "INTERRUPTED", NEW b \in BOOLEAN
      PROVE  Recovered(job[j], b) \in Row /\ (job'[j] = Recovered(job[j], b) => RowChanged(j))
  <2>1. Recovered(job[j], b) \in Row
    BY RowFacts, ReleasedTyped
  <2>. QED  BY <2>1, <1>1, RowFacts DEF Recovered, Released, RowChanged
<1>2. ASSUME NEW j \in Jobs
      PROVE  job'[j] \in Row /\ (job'[j] = job[j] \/ RowChanged(j))
  <2>1. CASE j \in worker[w].seen /\ job[j].status = "INTERRUPTED"
    <3>. DEFINE b == j \in worker[w].spent
    <3>1. job'[j] = Recovered(job[j], b) /\ b \in BOOLEAN
      BY <2>1 DEF RecoverUpdate
    <3>. HIDE DEF b
    <3>. QED  BY <1>1, <2>1, <3>1
  <2>2. CASE ~(j \in worker[w].seen /\ job[j].status = "INTERRUPTED")
    BY <2>2, RowFacts DEF RecoverUpdate
  <2>. QED  BY <2>1, <2>2
<1>3. RowsOK
  BY <1>2 DEF RecoverUpdate, RowsOK
<1>. QED  BY <1>3, AtTyped, LetGoOK, Still, StepInv DEF RecoverUpdate

LEMMA CancelReadInv == ASSUME IInv, NEW c \in Callers, NEW j \in Jobs, CancelRead(c, j) PROVE IInv'
<1>1. CallsOK
  BY DEF CancelRead, IInv, TypeOK, CallsOK, Call, NoCall
<1>. QED  BY <1>1, Still, StepInv DEF CancelRead

LEMMA CancelWriteInv == ASSUME IInv, NEW c \in Callers, CancelWrite(c) PROVE IInv'
<1>. DEFINE j == caller[c].job
            s == caller[c].target
            r == SetStatus(job[j], s, NoLease, FALSE)
<1>1. j \in Jobs /\ s \in {"CANCELLED", "CANCEL_REQUESTED"} /\ job[j] \in Row
  BY RowFacts DEF CancelWrite, IInv, TypeOK, Call
<1>2. r \in Row
  BY <1>1, SetStatusTyped DEF JobStatus, Terminal, Leased
<1>3. /\ r.attempt = job[j].attempt /\ r.lease \in {NoLease, job[j].lease}
      /\ r.result = NoLease /\ r.status = s
  BY DEF SetStatus
<1>4. RowsOK
  <2>1. job' = [job EXCEPT ![j] = r]
    BY DEF CancelWrite
  <2>. HIDE DEF r, j, s
  <2>. QED  BY <1>1, <1>2, <1>3, <2>1, OneRowOK
<1>5. CallsOK
  BY DEF CancelWrite, IInv, TypeOK, CallsOK, Call, NoCall
<1>. QED  BY <1>4, <1>5, Still, StepInv DEF CancelWrite

(* A reset moves one whole budget from the counter to the account.         *)
LEMMA RequeueFailedInv ==
    ASSUME IInv, NEW j \in Jobs, NEW reset \in BOOLEAN, RequeueFailed(j, reset)
    PROVE  IInv'
<1>. DEFINE r == Replayed(job[j], reset)
<1>1. r \in Row
  BY RowFacts, ReleasedTyped
<1>2. /\ r.attempt = IF reset THEN 0 ELSE job[j].attempt
      /\ r.lease = NoLease /\ r.status = "RETRY_PENDING" /\ r.result = NoLease
  BY RowFacts DEF Replayed, Released, RequeueFailed, DeadLetter
<1>3. job' = [job EXCEPT ![j] = r] /\ UNCHANGED <<issued, worker, caller, crashes>>
  BY DEF RequeueFailed
<1>. HIDE DEF r
<1>4. TypeOK'
  BY <1>1, <1>3, BudgetAssumption DEF IInv, TypeOK, RequeueFailed
<1>5. LeasesFence'
  BY <1>2, <1>3 DEF IInv, TypeOK, LeasesFence
<1>6. PublishedByLastAttempt'
  BY <1>2, <1>3 DEF IInv, TypeOK, PublishedByLastAttempt
<1>7. RetryBudget'
  <2>1. job[j].attempt = MaxAttempts
    BY RowFacts, BudgetAssumption DEF RequeueFailed, DeadLetter, WithinBudget
  <2>2. resets[j] \in Nat /\ MaxAttempts * (resets[j] + 1) = MaxAttempts * resets[j] + MaxAttempts
    BY BudgetAssumption DEF IInv, TypeOK
  <2>3. resets'[j] = IF reset THEN resets[j] + 1 ELSE resets[j]
    BY DEF RequeueFailed, IInv, TypeOK
  <2>4. issued[j] = job'[j].attempt + MaxAttempts * resets'[j]
    <3>1. job'[j].attempt = IF reset THEN 0 ELSE MaxAttempts
      BY <1>2, <1>3, <2>1 DEF IInv, TypeOK
    <3>2. issued[j] = MaxAttempts + MaxAttempts * resets[j] /\ MaxAttempts * resets[j] \in Nat
      BY <2>1, <2>2, BudgetAssumption DEF IInv, RetryBudget
    <3>. QED  BY <2>2, <2>3, <3>1, <3>2, BudgetAssumption
  <2>5. \A k \in Jobs \ {j} : job'[k] = job[k] /\ resets'[k] = resets[k]
    BY <1>3 DEF RequeueFailed, IInv, TypeOK
  <2>. QED  BY <1>3, <2>4, <2>5 DEF IInv, RetryBudget
<1>. QED  BY <1>4, <1>5, <1>6, <1>7 DEF IInv

LEMMA TimeInv ==
    ASSUME IInv, NEW j \in Jobs, HeartbeatExpires(j) \/ BackoffElapses(j)
    PROVE  IInv'
<1>1. RowsOK
  BY TouchOK DEF HeartbeatExpires, BackoffElapses
<1>. QED  BY <1>1, Still, StepInv DEF HeartbeatExpires, BackoffElapses

-----------------------------------------------------------------------------
LEMMA NextInv == IInv /\ [Next]_vars => IInv'
<1>. SUFFICES ASSUME IInv, [Next]_vars PROVE IInv'
  OBVIOUS
<1>1. ASSUME NEW w \in Workers, WorkerStep(w) PROVE IInv'
  <2>1. CASE Restart(w)  BY <2>1, RestartInv
  <2>2. CASE Recover(w)
    BY <2>2, MarkInterruptedInv, RecoverSelectInv, RecoverUpdateInv DEF Recover
  <2>3. CASE Crash(w)  BY <2>3, CrashInv
  <2>4. CASE \E j \in Jobs : ClaimNext(w, j)  BY <2>4, ClaimInv
  <2>5. CASE CheckCancel(w)  BY <2>5, CheckCancelInv
  <2>6. CASE Checkpoint(w)  BY <2>6, CheckpointInv
  <2>7. CASE HeartbeatLoop(w)  BY <2>7, HeartbeatLoopInv
  <2>8. CASE HandlerEnds(w)  BY <2>8, HandlerEndsInv
  <2>9. CASE EndRun(w)
    BY <2>9, StillOwnedInv, StillCancellableInv, SettleInv DEF EndRun
  <2>. QED
    BY <1>1, <2>1, <2>2, <2>3, <2>4, <2>5, <2>6, <2>7, <2>8, <2>9 DEF WorkerStep
<1>2. ASSUME NEW c \in Callers, CallerStep(c) PROVE IInv'
  BY <1>2, CancelReadInv, CancelWriteInv DEF CallerStep
<1>3. ASSUME NEW j \in Jobs, RowStep(j) PROVE IInv'
  BY <1>3, SubmitInv, TimeInv, RequeueFailedInv DEF RowStep
<1>4. CASE UNCHANGED vars
  BY <1>4, Still, StepInv DEF vars
<1>. QED  BY <1>1, <1>2, <1>3, <1>4 DEF Next

(* The inductive invariant holds in every reachable state.                 *)
THEOREM Invariance == Spec => []IInv
BY InitIInv, NextInv, PTL DEF Spec

(* Type correctness: in particular no row is claimed more often than       *)
(* max_attempts without a replay.                                          *)
THEOREM TypeCorrect == Spec => []TypeOK
<1>1. IInv => TypeOK
  BY DEF IInv
<1>. QED  BY <1>1, Invariance, PTL

(* Fencing: one process per lease, and the lease in a row is the last one. *)
THEOREM Fencing == Spec => []LeasesFence
<1>1. IInv => LeasesFence
  BY DEF IInv
<1>. QED  BY <1>1, Invariance, PTL

(* Only the last claimant of a job publishes its result.                   *)
THEOREM Publication == Spec => []PublishedByLastAttempt
<1>1. IInv => PublishedByLastAttempt
  BY DEF IInv
<1>. QED  BY <1>1, Invariance, PTL

(* Every claim is accounted for by the attempt counter and the resets.     *)
THEOREM AttemptsAccounted == Spec => []RetryBudget
<1>1. IInv => RetryBudget
  BY DEF IInv
<1>. QED  BY <1>1, Invariance, PTL

-----------------------------------------------------------------------------
(* The running limit and the stability of terminal rows rest on what one   *)
(* UPDATE may make of a row: only a claim starts it, a terminal row has no *)
(* owner, and nobody but an operator touches a row nobody owns.            *)

OwnersGone == \A j \in Jobs : job[j].status \in Terminal => job[j].owner = NoWorker

Starts(j) == job[j].status # "RUNNING" /\ job'[j].status = "RUNNING"
Kept(j) == /\ job'[j].status = job[j].status
           /\ job'[j].result = job[j].result
           /\ job'[j].attempt = job[j].attempt

Settles(j) == /\ ~Starts(j)
              /\ job'[j].status \in Terminal => job'[j].owner = NoWorker
              /\ job[j].status \in Terminal => Kept(j)

LEMMA Untouched ==
    ASSUME OwnersGone, NEW j \in Jobs, job'[j] = job[j] PROVE Settles(j)
BY DEF OwnersGone, Settles, Starts, Kept

(* The heartbeat and the due flag.                                         *)
LEMMA Touched ==
    ASSUME IInv, OwnersGone, NEW k \in Jobs, NEW b \in BOOLEAN,
           \/ job' = [job EXCEPT ![k].fresh = b]
           \/ job' = [job EXCEPT ![k].due = b],
           NEW j \in Jobs
    PROVE  Settles(j)
<1>1. job \in [Jobs -> Row]
  BY DEF IInv, TypeOK
<1>2. /\ job'[j].status = job[j].status /\ job'[j].result = job[j].result
      /\ job'[j].attempt = job[j].attempt /\ job'[j].owner = job[j].owner
  BY <1>1 DEF Row
<1>. QED  BY <1>2 DEF OwnersGone, Settles, Starts, Kept

(* A lease that is still in the row is one of a row that is not terminal.  *)
LEMMA SettleSettles ==
    ASSUME IInv, OwnersGone, NEW w \in Workers, Settle(w), NEW j \in Jobs
    PROVE  Settles(j)
<1>1. worker[w].pc \in Writing /\ worker[w].job \in Jobs /\ job \in [Jobs -> Row]
  BY BusyFacts DEF Settle, Busy, IInv, TypeOK
<1>2. CASE UNCHANGED job
  BY <1>2, Untouched
<1>3. CASE j # worker[w].job
  BY <1>1, <1>3, Untouched DEF Settle
<1>4. ASSUME j = worker[w].job, Owns(w), NEW wait \in BOOLEAN,
             job' = [job EXCEPT ![j] = Settled(job[j], worker[w].lease, worker[w].pc, wait)]
      PROVE  Settles(j)
  <2>1. job[j].status \notin Terminal
    BY <1>4, NullAssumption DEF Owns, OwnersGone
  <2>2. job'[j] = Settled(job[j], worker[w].lease, worker[w].pc, wait)
    BY <1>1, <1>4
  <2>3. job'[j].status # "RUNNING" /\ (job'[j].status \in Terminal => job'[j].owner = NoWorker)
    BY <1>1, <2>2 DEF Settled, SetStatus, Writing, Terminal
  <2>. QED  BY <2>1, <2>3 DEF Settles, Starts
<1>. QED  BY <1>1, <1>2, <1>3, <1>4 DEF Settle

LEMMA RecoverSettles ==
    ASSUME IInv, OwnersGone, NEW w \in Workers, Recover(w), NEW j \in Jobs
    PROVE  Settles(j)
<1>1. CASE UNCHANGED job
  BY <1>1, Untouched
<1>2. CASE MarkInterrupted(w)
  <2>1. \/ job'[j] = job[j]
        \/ job[j].status \in Leased /\ job'[j] = Interrupted(job[j])
    BY <1>2 DEF MarkInterrupted
  <2>2. CASE job[j].status \in Leased /\ job'[j] = Interrupted(job[j])
    BY <2>2 DEF Interrupted, Released, Settles, Starts, Terminal, Leased
  <2>. QED  BY <2>1, <2>2, Untouched
<1>3. CASE RecoverUpdate(w)
  <2>1. \/ job'[j] = job[j]
        \/ /\ job[j].status = "INTERRUPTED"
           /\ job'[j] = Recovered(job[j], j \in worker[w].spent)
    BY <1>3 DEF RecoverUpdate
  <2>2. CASE /\ job[j].status = "INTERRUPTED"
             /\ job'[j] = Recovered(job[j], j \in worker[w].spent)
    BY <2>2 DEF Recovered, Released, Settles, Starts, Terminal
  <2>. QED  BY <2>1, <2>2, Untouched
<1>. QED  BY <1>1, <1>2, <1>3 DEF Recover, RecoverSelect

LEMMA WorkerSettles ==
    ASSUME IInv, OwnersGone, NEW w \in Workers, WorkerStep(w),
           ~ \E k \in Jobs : ClaimNext(w, k), NEW j \in Jobs
    PROVE  Settles(j)
<1>1. CASE Restart(w) \/ Crash(w) \/ CheckCancel(w) \/ HandlerEnds(w) \/ StillOwned(w)
           \/ StillCancellable(w)
  BY <1>1, Untouched
     DEF Restart, Crash, CheckCancel, HandlerEnds, StillOwned, StillCancellable
<1>2. CASE Checkpoint(w) \/ HeartbeatLoop(w)
  <2>1. worker[w].job \in Jobs
    BY <1>2, BusyFacts DEF Checkpoint, HeartbeatLoop, Beating, Busy, InHandler, Ended, Writing
  <2>2. UNCHANGED job \/ job' = [job EXCEPT ![worker[w].job].fresh = TRUE]
    BY <1>2 DEF Checkpoint, HeartbeatLoop
  <2>. QED  BY <2>1, <2>2, Untouched, Touched
<1>. QED  BY <1>1, <1>2, RecoverSettles, SettleSettles DEF WorkerStep, EndRun

LEMMA ClockSettles ==
    ASSUME IInv, OwnersGone, NEW k \in Jobs, Submit(k) \/ HeartbeatExpires(k) \/ BackoffElapses(k),
           NEW j \in Jobs
    PROVE  Settles(j)
<1>1. CASE Submit(k)
  <2>1. job'[k].status = "QUEUED" /\ job[k].status = "ABSENT" /\ (j # k => job'[j] = job[j])
    BY <1>1 DEF Submit, IInv, TypeOK, Row
  <2>2. CASE j = k
    BY <2>1, <2>2 DEF Settles, Starts, Terminal
  <2>. QED  BY <2>1, <2>2, Untouched
<1>. QED  BY <1>1, Touched DEF HeartbeatExpires, BackoffElapses

(* The three steps that are not of this kind, row by row.                  *)
LEMMA ClaimRows ==
    ASSUME IInv, NEW w \in Workers, NEW k \in Jobs, ClaimNext(w, k)
    PROVE  /\ job'[k].status = "RUNNING" /\ job[k].status \in Waiting
           /\ \A j \in Jobs \ {k} : job'[j] = job[j]
BY DEF ClaimNext, Claimed, Claimable, IInv, TypeOK

LEMMA ReplayRows ==
    ASSUME IInv, NEW k \in Jobs, NEW reset \in BOOLEAN, RequeueFailed(k, reset)
    PROVE  /\ job'[k].status = "RETRY_PENDING"
           /\ \A j \in Jobs \ {k} : job'[j] = job[j]
BY DEF RequeueFailed, Replayed, Released, IInv, TypeOK

LEMMA CancelRows ==
    ASSUME IInv, NEW c \in Callers, CallerStep(c), NEW j \in Jobs
    PROVE  \/ job'[j] = job[j]
           \/ job'[j].status = "CANCEL_REQUESTED"
           \/ job'[j].status = "CANCELLED" /\ job'[j].owner = NoWorker
<1>1. ASSUME NEW k \in Jobs, CancelRead(c, k) PROVE job'[j] = job[j]
  BY <1>1 DEF CancelRead
<1>2. CASE CancelWrite(c)
  BY <1>2 DEF CancelWrite, SetStatus, IInv, TypeOK, Call, Terminal
<1>. QED  BY <1>1, <1>2 DEF CallerStep

LEMMA OwnersGoneInv == IInv /\ OwnersGone /\ [Next]_vars => OwnersGone'
<1>. SUFFICES ASSUME IInv, OwnersGone, [Next]_vars, NEW j \in Jobs
              PROVE  job'[j].status \in Terminal => job'[j].owner = NoWorker
  BY DEF OwnersGone
<1>1. CASE job'[j] = job[j]
  BY <1>1 DEF OwnersGone
<1>2. CASE Settles(j)
  BY <1>2 DEF Settles
<1>3. ASSUME NEW w \in Workers, NEW k \in Jobs, ClaimNext(w, k)
      PROVE  job'[j].status \in Terminal => job'[j].owner = NoWorker
  BY <1>1, <1>3, ClaimRows DEF Terminal
<1>4. ASSUME NEW k \in Jobs, NEW reset \in BOOLEAN, RequeueFailed(k, reset)
      PROVE  job'[j].status \in Terminal => job'[j].owner = NoWorker
  BY <1>1, <1>4, ReplayRows DEF Terminal
<1>5. ASSUME NEW c \in Callers, CallerStep(c)
      PROVE  job'[j].status \in Terminal => job'[j].owner = NoWorker
  BY <1>1, <1>5, CancelRows DEF Terminal
<1>6. CASE UNCHANGED vars
  BY <1>1, <1>6 DEF vars
<1>. QED
  BY <1>2, <1>3, <1>4, <1>5, <1>6, WorkerSettles, ClockSettles DEF Next, RowStep

-----------------------------------------------------------------------------
(* The running jobs of a scope, which no step but a claim adds to.         *)
RunningIn(s) == {j \in Jobs : job[j].status = "RUNNING" /\ ScopeOf[j] = s}

CountOK == \A s \in Scopes : IsFiniteSet(RunningIn(s)) /\ Cardinality(RunningIn(s)) <= ScopeLimit

LEMMA NothingStarted ==
    ASSUME CountOK, \A j \in Jobs : ~Starts(j)
    PROVE  CountOK'
<1>. SUFFICES ASSUME NEW s \in Scopes
              PROVE  /\ IsFiniteSet(RunningIn(s)')
                     /\ Cardinality(RunningIn(s)') <= ScopeLimit
  BY DEF CountOK
<1>1. RunningIn(s)' \in SUBSET RunningIn(s)
  BY DEF RunningIn, Starts
<1>2. /\ IsFiniteSet(RunningIn(s)')
      /\ Cardinality(RunningIn(s)') <= Cardinality(RunningIn(s))
  BY <1>1, FS_Subset DEF CountOK
<1>3. Cardinality(RunningIn(s)) \in Nat /\ Cardinality(RunningIn(s)') \in Nat
  BY <1>2, FS_CardinalityType DEF CountOK
<1>. QED  BY <1>2, <1>3, LimitAssumption DEF CountOK

(* The claim counts the scope inside its own transaction.                  *)
LEMMA ClaimCounts ==
    ASSUME IInv, CountOK, NEW w \in Workers, NEW k \in Jobs, ClaimNext(w, k)
    PROVE  CountOK'
<1>. SUFFICES ASSUME NEW s \in Scopes
              PROVE  /\ IsFiniteSet(RunningIn(s)')
                     /\ Cardinality(RunningIn(s)') <= ScopeLimit
  BY DEF CountOK
<1>1. /\ job'[k].status = "RUNNING" /\ job[k].status # "RUNNING"
      /\ \A j \in Jobs \ {k} : job'[j] = job[j]
  BY ClaimRows DEF Waiting
<1>2. IsFiniteSet(RunningIn(s)) /\ Cardinality(RunningIn(s)) \in Nat
  BY FS_CardinalityType DEF CountOK
<1>3. CASE ScopeOf[k] # s
  <2>1. RunningIn(s)' = RunningIn(s)
    BY <1>1, <1>3 DEF RunningIn
  <2>. QED  BY <2>1 DEF CountOK
<1>4. CASE ScopeOf[k] = s
  <2>1. RunningIn(s)' = RunningIn(s) \cup {k} /\ k \notin RunningIn(s)
    BY <1>1, <1>4 DEF RunningIn
  <2>2. /\ IsFiniteSet(RunningIn(s)')
        /\ Cardinality(RunningIn(s)') = Cardinality(RunningIn(s)) + 1
    BY <1>2, <2>1, FS_AddElement
  <2>3. Load(k) = Cardinality(RunningIn(s)) /\ Load(k) < ScopeLimit
    BY <1>4 DEF ClaimNext, Claimable, Load, RunningIn
  <2>. QED  BY <1>2, <2>2, <2>3, LimitAssumption
<1>. QED  BY <1>3, <1>4

LEMMA CountInv == IInv /\ OwnersGone /\ CountOK /\ [Next]_vars => CountOK'
<1>. SUFFICES ASSUME IInv, OwnersGone, CountOK, [Next]_vars PROVE CountOK'
  OBVIOUS
<1>1. ASSUME \A j \in Jobs : Settles(j) PROVE CountOK'
  BY <1>1, NothingStarted DEF Settles
<1>2. ASSUME NEW k \in Jobs, NEW reset \in BOOLEAN, RequeueFailed(k, reset) PROVE CountOK'
  <2>1. \A j \in Jobs : ~Starts(j)
    BY <1>2, ReplayRows DEF Starts
  <2>. QED  BY <2>1, NothingStarted
<1>3. ASSUME NEW c \in Callers, CallerStep(c) PROVE CountOK'
  <2>1. \A j \in Jobs : ~Starts(j)
    BY <1>3, CancelRows DEF Starts
  <2>. QED  BY <2>1, NothingStarted
<1>4. CASE UNCHANGED vars
  BY <1>4, NothingStarted DEF vars, Starts
<1>5. ASSUME NEW w \in Workers, WorkerStep(w) PROVE CountOK'
  BY <1>1, <1>5, WorkerSettles, ClaimCounts
<1>6. ASSUME NEW k \in Jobs, RowStep(k) PROVE CountOK'
  BY <1>1, <1>2, <1>6, ClockSettles DEF RowStep
<1>. QED  BY <1>3, <1>4, <1>5, <1>6 DEF Next

(* At most max_running_per_scope jobs of one tenant and principal run,     *)
(* however many workers claim at the same moment (claim_next counts inside *)
(* BEGIN IMMEDIATE, and nothing else starts a job).                        *)
THEOREM LimitHolds == Spec => []ScopeLimitKept
<1>1. Init => OwnersGone /\ CountOK
  <2>. SUFFICES ASSUME Init PROVE OwnersGone /\ CountOK
    OBVIOUS
  <2>1. \A s \in Scopes : RunningIn(s) = {}
    BY DEF Init, AbsentRow, RunningIn
  <2>. QED  BY <2>1, FS_EmptySet, LimitAssumption DEF Init, AbsentRow, OwnersGone, CountOK, Terminal
<1>2. IInv /\ OwnersGone /\ CountOK /\ [Next]_vars => OwnersGone' /\ CountOK'
  BY OwnersGoneInv, CountInv
<1>3. CountOK => ScopeLimitKept
  BY DEF CountOK, ScopeLimitKept, RunningIn
<1>. QED  BY <1>1, <1>2, <1>3, Invariance, PTL DEF Spec

(* A terminal row keeps its status, its result and its counter, whatever   *)
(* the workers, their late heartbeats, recoveries and other calls do:      *)
(* only an operator's replay of a dead letter takes it back, or the write  *)
(* of a request_cancel that read this very row before (repository.py,      *)
(* request_cancel and requeue_failed).                                     *)
THEOREM TerminalRowsStay == Spec => TerminalFrozen
<1>. DEFINE Moved(j) == \/ \E reset \in BOOLEAN : RequeueFailed(j, reset)
                        \/ \E c \in Callers : caller[c].job = j /\ CancelWrite(c)
            Frozen == \A j \in Jobs : job[j].status \in Terminal => Moved(j) \/ Kept(j)
<1>1. Init => OwnersGone
  BY DEF Init, AbsentRow, OwnersGone, Terminal
<1>2. IInv /\ OwnersGone /\ [Next]_vars => OwnersGone'
  BY OwnersGoneInv
<1>3. IInv /\ OwnersGone /\ [Next]_vars => [Frozen]_vars
  <2>. SUFFICES ASSUME IInv, OwnersGone, [Next]_vars, NEW j \in Jobs, job[j].status \in Terminal
                PROVE  Moved(j) \/ Kept(j)
    OBVIOUS
  <2>1. job'[j] = job[j] => Kept(j)
    BY DEF Kept
  <2>2. CASE Settles(j)
    BY <2>2 DEF Settles
  <2>3. ASSUME NEW w \in Workers, NEW k \in Jobs, ClaimNext(w, k) PROVE Kept(j)
    BY <2>1, <2>3, ClaimRows DEF Terminal, Waiting
  <2>4. ASSUME NEW k \in Jobs, NEW reset \in BOOLEAN, RequeueFailed(k, reset)
        PROVE  Moved(j) \/ Kept(j)
    BY <2>1, <2>4, ReplayRows
  <2>5. CASE UNCHANGED vars
    BY <2>1, <2>5 DEF vars
  <2>6. ASSUME NEW c \in Callers, CallerStep(c) PROVE Moved(j) \/ Kept(j)
    <3>1. CASE CancelWrite(c) /\ caller[c].job # j
      BY <2>1, <3>1 DEF CancelWrite, IInv, TypeOK
    <3>2. CASE \E k \in Jobs : CancelRead(c, k)
      BY <2>1, <3>2 DEF CancelRead
    <3>. QED  BY <2>6, <3>1, <3>2 DEF CallerStep
  <2>. QED
    BY <2>2, <2>3, <2>4, <2>5, <2>6, WorkerSettles, ClockSettles DEF Next, RowStep
<1>4. Frozen => \A j \in Jobs : job[j].status \in Terminal =>
          \/ \E reset \in BOOLEAN : RequeueFailed(j, reset)
          \/ \E c \in Callers : caller[c].job = j /\ CancelWrite(c)
          \/ /\ job'[j].status = job[j].status
             /\ job'[j].result = job[j].result
             /\ job'[j].attempt = job[j].attempt
  BY DEF Kept
<1>. QED  BY <1>1, <1>2, <1>3, <1>4, Invariance, PTL DEF Spec, TerminalFrozen
=============================================================================
