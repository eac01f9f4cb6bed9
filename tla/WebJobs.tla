------------------------------- MODULE WebJobs -------------------------------
(***************************************************************************)
(* The web process's JobManager: a job is a row of the jobs table and a    *)
(* closure in a thread pool.  The row outlives the process, the closure    *)
(* does not.  Every write of the row is a transaction of its own, and the  *)
(* writes of cancel() and of the thread are blind: they do not look at the *)
(* status they replace.  What a task does between two of its checkpoints   *)
(* belongs to the module that composes this one with a task.               *)
(*                                                                         *)
(* submit() with a key that is known returns the job that has it, in       *)
(* whatever status, and changes nothing.  Not modelled: the texts of       *)
(* events and errors, and the tenant check.                                *)
(***************************************************************************)
EXTENDS Naturals, FiniteSets

CONSTANTS
  Jobs,            \* jobs of kind "parse"; max_attempts is 1
  Threads,         \* max_workers of the pool
  NONE,
  MaxRestarts      \* bound on restarts of the web process

VARIABLES
  status,          \* status[j] in the jobs table, NONE before submit()
  thread,          \* where the closure of j is: NONE, "accepting", "pooled" or a place in _run
  events,          \* events[j]: the stages appended to the job's event stream
  result,          \* result[j]: web_results/<j>.json exists
  reference,       \* result_reference of j is set
  cancelling,      \* cancelling[j]: the status a cancel() has read, or NONE
  restarts

webVars == <<status, thread, events, result, reference, cancelling, restarts>>

Terminal == {"SUCCEEDED", "FAILED", "CANCELLED"}
Stopped(j) == status[j] \in {"CANCEL_REQUESTED", "CANCELLED"}
Busy == {j \in Jobs : thread[j] \notin {NONE, "accepting", "pooled"}}

WebInit ==
  /\ status = [j \in Jobs |-> NONE]
  /\ thread = [j \in Jobs |-> NONE]
  /\ events = [j \in Jobs |-> {}]
  /\ result = [j \in Jobs |-> FALSE]
  /\ reference = [j \in Jobs |-> FALSE]
  /\ cancelling = [j \in Jobs |-> NONE]
  /\ restarts = 0

At(j, place) == thread[j] = place
Move(j, place) == thread' = [thread EXCEPT ![j] = place]
AppendEvent(j, stage) == events' = [events EXCEPT ![j] = @ \cup {stage}]

\* set_status: the reference is replaced with the status.
SetStatus(j, value, referenced) ==
  /\ status' = [status EXCEPT ![j] = value]
  /\ reference' = [reference EXCEPT ![j] = referenced]

\* _emit appends the event unless a cancellation is requested; then it raises and
\* the thread's place becomes `raised`.
Emit(j, stage, next, raised) ==
  /\ IF Stopped(j)
       THEN Move(j, raised) /\ UNCHANGED events
       ELSE Move(j, next) /\ AppendEvent(j, stage)
  /\ UNCHANGED <<status, result, reference, cancelling, restarts>>

-----------------------------------------------------------------------------
(* submit()                                                                *)

Submit(j) ==
  /\ status[j] = NONE
  /\ SetStatus(j, "QUEUED", FALSE)
  /\ Move(j, "accepting")
  /\ UNCHANGED <<events, result, cancelling, restarts>>

\* The "queued" event, then the closure enters the pool.
EmitQueued(j) == At(j, "accepting") /\ Emit(j, "queued", "pooled", NONE)

-----------------------------------------------------------------------------
(* _run                                                                    *)

\* A thread takes the closure; the claim is refused unless the job waits.
Claim(j) ==
  /\ At(j, "pooled") /\ Cardinality(Busy) < Threads
  /\ IF status[j] = "QUEUED"
       THEN status' = [status EXCEPT ![j] = "RUNNING"] /\ Move(j, "claimed")
       ELSE Move(j, NONE) /\ UNCHANGED status
  /\ UNCHANGED <<events, result, reference, cancelling, restarts>>

\* Outside the try: a cancellation before it ends the thread and leaves the status.
EmitRunning(j) == At(j, "claimed") /\ Emit(j, "running", "task", NONE)

\* The emit of a task: heartbeat, which wants the status RUNNING, then _emit.
MayEmit(j) == At(j, "task") /\ status[j] = "RUNNING"

TaskReturns(j) ==
  /\ At(j, "task")
  /\ IF Stopped(j)
       THEN SetStatus(j, "CANCELLED", FALSE) /\ Move(j, NONE)
       ELSE Move(j, "commit") /\ UNCHANGED <<status, reference>>
  /\ UNCHANGED <<events, result, cancelling, restarts>>

TaskRaises(j) ==
  /\ At(j, "task")
  /\ Move(j, "except")
  /\ UNCHANGED <<status, events, result, reference, cancelling, restarts>>

WriteResult(j) ==
  /\ At(j, "commit")
  /\ result' = [result EXCEPT ![j] = TRUE]
  /\ Move(j, "finish")
  /\ UNCHANGED <<status, events, reference, cancelling, restarts>>

\* A failed write of the result is handled like an exception of the task.
WriteFails(j) ==
  /\ At(j, "commit")
  /\ Move(j, "except")
  /\ UNCHANGED <<status, events, result, reference, cancelling, restarts>>

HandleException(j) ==
  /\ At(j, "except")
  /\ IF Stopped(j)
       THEN SetStatus(j, "CANCELLED", FALSE) /\ Move(j, NONE)
       ELSE SetStatus(j, "FAILED", FALSE) /\ Move(j, "failed")
  /\ UNCHANGED <<events, result, cancelling, restarts>>

AppendFailed(j) ==
  /\ At(j, "failed")
  /\ AppendEvent(j, "failed") /\ Move(j, NONE)
  /\ UNCHANGED <<status, result, reference, cancelling, restarts>>

\* mutant: the status is exposed first.
CompletedAfterSucceeded(j) ==
  /\ At(j, "finish")
  /\ SetStatus(j, "SUCCEEDED", TRUE) /\ Move(j, "publish")
  /\ UNCHANGED <<events, result, cancelling, restarts>>

\* Outside the try as well.
EmitCompleted(j) == At(j, "finish") /\ Emit(j, "completed", "publish", NONE)

Publish(j) ==
  /\ At(j, "publish")
  /\ SetStatus(j, "SUCCEEDED", TRUE) /\ Move(j, NONE)
  /\ UNCHANGED <<events, result, cancelling, restarts>>

-----------------------------------------------------------------------------
(* cancel()                                                                *)

\* request_cancel reads the job; a finished one is left alone.
CancelReads(j) ==
  /\ cancelling[j] = NONE /\ status[j] \notin Terminal \cup {NONE}
  /\ cancelling' = [cancelling EXCEPT ![j] = status[j]]
  /\ UNCHANGED <<status, thread, events, result, reference, restarts>>

\* It writes what the status it read calls for; then the future is cancelled if
\* no thread has taken it.
CancelWrites(j) ==
  LET target == IF cancelling[j] = "QUEUED" THEN "CANCELLED" ELSE "CANCEL_REQUESTED" IN
  /\ cancelling[j] # NONE
  /\ IF At(j, "pooled")
       THEN SetStatus(j, "CANCELLED", FALSE) /\ Move(j, NONE) /\ UNCHANGED events
       ELSE /\ SetStatus(j, target, FALSE)
            /\ IF target = "CANCELLED" THEN UNCHANGED events ELSE AppendEvent(j, "cancelling")
            /\ UNCHANGED thread
  /\ cancelling' = [cancelling EXCEPT ![j] = NONE]
  /\ UNCHANGED <<result, restarts>>

-----------------------------------------------------------------------------
(* Restart                                                                 *)

\* mark_interrupted and recover_interrupted for "web." jobs: RUNNING becomes
\* INTERRUPTED and, its one attempt being used, FAILED.
Recovered(value) ==
  CASE value = "RUNNING" -> "FAILED"
    [] value = "CANCEL_REQUESTED" -> "CANCELLED"
    [] OTHER -> value

\* The process ends at any point; the next one recovers the orphans.  The pool and
\* the calls in progress are gone.
Restart ==
  /\ restarts < MaxRestarts
  /\ status' = [j \in Jobs |-> Recovered(status[j])]
  /\ thread' = [j \in Jobs |-> NONE]
  /\ cancelling' = [j \in Jobs |-> NONE]
  /\ restarts' = restarts + 1
  /\ UNCHANGED <<events, result, reference>>

\* What the manager does by itself, whatever the task.
ManagerStep(j) ==
  \/ Submit(j) \/ EmitQueued(j) \/ Claim(j) \/ EmitRunning(j)
  \/ WriteResult(j) \/ WriteFails(j) \/ HandleException(j) \/ AppendFailed(j)
  \/ EmitCompleted(j) \/ Publish(j)
  \/ CancelReads(j) \/ CancelWrites(j)
=============================================================================
