------------------------------ MODULE RunEvents ------------------------------
(***************************************************************************)
(* The events of a Scholar Run: RunEventStore (app/scholar/events.py), to  *)
(* which API processes and workers append, and the event stream of         *)
(* app/web/api.py, which replays the store to a client from its last       *)
(* cursor and falls back to a projection of the Run                        *)
(* (app/scholar/console.py) as long as the store has nothing.              *)
(*                                                                         *)
(* A process writes the Run, the queue and the events in transactions of   *)
(* their own; here it works off a list of such steps, chosen when it reads *)
(* what it decides on (module ScholarRun has the decisions in full).  An   *)
(* event is its event_id; the events of traced steps, whose ids are their  *)
(* cursors, are told apart by attempt and position and carry their type.   *)
(* The busy timeout of 30 s does not expire.                               *)
(***************************************************************************)
EXTENDS Naturals, Sequences, SequencesExt

CONSTANTS
  Histories,       \* lists of traced steps an attempt may make
  Outcomes,        \* how the work of an attempt, or a decision, may end
  Olds,            \* rows of Runs from before the store, besides NONE
  MaxAttempts,     \* of the two Jobs: [run, resume]
  MaxCalls,        \* bound on the calls of users
  MaxFaults,       \* bound on processes that die and connections that break
  NONE

VARIABLES
  row,             \* the Run: its status and what its stored result is made of
  queued,          \* the Jobs that wait: of the Run, and of its resumption
  attempt,
  store,           \* run_events: the event at each cursor
  transaction,     \* who holds the write transaction
  writer,          \* the processes that append
  refused,         \* events an append failed on because their cursor was taken
  client,          \* a connection of a client and what it received so far
  calls, mishaps

writerVars == <<row, queued, attempt, store, transaction, writer, refused, calls>>
eventVars == <<writerVars, client, mishaps>>

Final == {"COMPLETED", "FAILED", "CANCELLED"}
Terminal == Final \cup {"INTERRUPTED", "WAITING_USER"}

NoResult == [resumed |-> FALSE, traced |-> 0, patch |-> FALSE]
Absent == [status |-> "ABSENT", result |-> NoResult]

Writers == {"api", "worker"}
Waiting == [todo |-> <<>>, cursor |-> 0, job |-> NONE]

Step(kind) == <<kind, NONE>>
Append1(event) == <<"append", event>>
Complete(status, result) == <<"complete", [status |-> status, result |-> result]>>

RunEventsInit ==
  /\ row \in {Absent} \cup Olds
  /\ queued = {} /\ attempt = [run |-> 0, resume |-> 0]
  /\ store = <<>> /\ transaction = NONE
  /\ writer = [p \in Writers |-> Waiting] /\ refused = {}
  /\ client = [pc |-> "closed", last |-> 0, got |-> <<>>]
  /\ calls = 0 /\ mishaps = 0

-----------------------------------------------------------------------------
(* The lists of steps                                                      *)

Does(p, kind) == writer[p].todo # <<>> /\ Head(writer[p].todo)[1] = kind
Argument(p) == Head(writer[p].todo)[2]

Begins(p, steps, job) ==
  /\ writer[p].todo = <<>>
  /\ writer' = [writer EXCEPT ![p] = [todo |-> steps, cursor |-> 0, job |-> job]]

TakeJob(job, steps) ==
  /\ job \in queued
  /\ Begins("worker", steps, job)
  /\ queued' = queued \ {job}
  /\ attempt' = [attempt EXCEPT ![job] = @ + 1]
  /\ UNCHANGED <<row, store, transaction, refused, client, calls, mishaps>>

\* create: the Run, its Job, QUEUED, and the first event.
CreateRun ==
  /\ row = Absent
  /\ Begins("api", <<Step("create_run"), <<"submit", "run">>, Step("queue_run"),
                     Append1(<<"created">>)>>, NONE)
  /\ UNCHANGED <<row, queued, attempt, store, transaction, refused, client, calls, mishaps>>

\* _trace_event_type: a failed step that is no tool call is a RUN_FAILED event.
TraceEventType(step) ==
  CASE step.kind = "tool" -> IF step.status = "RUNNING" THEN "TOOL_STARTED" ELSE "TOOL_COMPLETED"
    [] step.kind # "tool" /\ step.status = "FAILED" -> "RUN_FAILED"
    [] OTHER -> "DOMAIN_RESULT"

TraceEvents(history, n) ==
  [i \in DOMAIN history |-> Append1(<<"trace", n, i, TraceEventType(history[i])>>)]

\* The result is persisted before its event.
Persisted(status, traced) ==
  <<Complete(status, [NoResult EXCEPT !.traced = traced, !.patch = status = "WAITING_USER"]),
    Append1(<<"terminal", status>>)>>

\* A cancelled or failing attempt, and what reconcile_job writes.
Broken(status, event) == <<Complete(status, NoResult), Append1(event)>>
Reconciled(status) == Broken(status, <<"reconciled", status>>)

\* The worker takes the Job; a Run that has ended or waits for a decision is left.
TakeRun ==
  \E history \in Histories :
    TakeJob("run",
      IF row.status \in Final \cup {"WAITING_USER"} THEN <<Step("done")>>
      ELSE <<Step("start_run"), Append1(<<"worker", attempt.run + 1>>)>>
           \o TraceEvents(history, attempt.run + 1) \o <<<<"work", Len(history)>>>>)

TakeResume == TakeJob("resume", <<Step("start_run"), Step("decided")>>)

\* execute: how the work ends; the event of a persisted ending is appended once more.
RunEndings(traced) ==
  {Persisted(status, traced) \o <<Append1(<<"terminal", status>>), Step("done")>> :
     status \in Outcomes}
  \cup {Append(Broken("CANCELLED", <<"cancelled", attempt.run>>), Step("done")),
        Append(Broken("INTERRUPTED", <<"interrupted", attempt.run>>), Step("failed"))}

\* A resumption persists the decision, or fails without an event of its own.
ResumeEndings ==
  {Append(Persisted(status, 1), Step("done")) : status \in Outcomes}
  \cup {<<Complete("INTERRUPTED", NoResult), Step("failed")>>}

WorkEnds ==
  /\ \E ending \in
       IF Does("worker", "work") THEN RunEndings(Argument("worker"))
       ELSE IF Does("worker", "decided") THEN ResumeEndings ELSE {} :
         writer' = [writer EXCEPT !["worker"].todo = ending]
  /\ UNCHANGED <<row, queued, attempt, store, transaction, refused, client, calls, mishaps>>

\* A user cancels, decides on the patch, or resumes an interrupted Run.
CancelCall ==
  /\ row.status # "ABSENT" /\ calls < MaxCalls
  /\ Begins("api", <<Step("request_cancel"), Step("cancel"), Append1(<<"cancelled">>)>>, NONE)
  /\ calls' = calls + 1
  /\ UNCHANGED <<row, queued, attempt, store, transaction, refused, client, mishaps>>

Resumption == <<<<"submit", "resume">>, Step("queue_run"), Append1(<<"resume", calls>>)>>

DecisionCall ==
  /\ row.status \in {"WAITING_USER", "QUEUED"} /\ calls < MaxCalls
  /\ Begins("api", <<Append1(<<"approval">>)>> \o Resumption, NONE)
  /\ calls' = calls + 1
  /\ UNCHANGED <<row, queued, attempt, store, transaction, refused, client, mishaps>>

ResumeCall ==
  /\ row.status = "INTERRUPTED" /\ calls < MaxCalls
  /\ Begins("api", Resumption, NONE)
  /\ calls' = calls + 1
  /\ UNCHANGED <<row, queued, attempt, store, transaction, refused, client, mishaps>>

-----------------------------------------------------------------------------
(* The steps                                                               *)

Goes(p) == writer' = [writer EXCEPT ![p].todo = Tail(@)]
Stops(p) == writer' = [writer EXCEPT ![p] = Waiting]

RowStep(p, kind, status) ==
  /\ Does(p, kind) /\ Goes(p)
  /\ row' = [row EXCEPT !.status = status]
  /\ UNCHANGED <<queued, attempt, store, transaction, refused, client, calls, mishaps>>

WriteRow(p) ==
  \/ RowStep(p, "create_run", "PENDING")
  \/ RowStep(p, "start_run", IF row.status \in {"PENDING", "QUEUED", "INTERRUPTED"}
                               THEN "RUNNING" ELSE row.status)
  \/ row.status \notin Final /\
     RowStep(p, "queue_run", IF row.status \in {"QUEUED", "RUNNING"} THEN row.status ELSE "QUEUED")
  \/ row.status \in {"PENDING", "QUEUED", "WAITING_USER"} /\ RowStep(p, "cancel", "CANCELLED")

\* queue_run raises for an ended Run; cancel leaves a running one to its worker, and
\* enqueue_resume returns at once for an ended one.
GivesUp(p) ==
  /\ \/ Does(p, "queue_run") /\ row.status \in Final
     \/ Does(p, "cancel") /\ row.status \notin {"PENDING", "QUEUED", "WAITING_USER"}
     \/ Does(p, "submit") /\ Argument(p) = "resume" /\ row.status \in Final
  /\ Stops(p)
  /\ UNCHANGED <<row, queued, attempt, store, transaction, refused, client, calls, mishaps>>

\* complete_run writes the status and the result, whatever was there.
CompleteRun(p) ==
  /\ Does(p, "complete") /\ Goes(p)
  /\ row' = Argument(p)
  /\ UNCHANGED <<queued, attempt, store, transaction, refused, client, calls, mishaps>>

WriteQueue(p) ==
  /\ \/ Does(p, "submit") /\ ~(Argument(p) = "resume" /\ row.status \in Final)
        /\ queued' = queued \cup {Argument(p)}
     \/ Does(p, "request_cancel") /\ queued' = {}
  /\ Goes(p)
  /\ UNCHANGED <<row, attempt, store, transaction, refused, client, calls, mishaps>>

\* The worker is done with its Job; or it failed, or died: the Job is queued again, or
\* has failed for good, and the Run is reconciled with it.
JobEnds ==
  LET job == writer["worker"].job
      again == attempt[job] < MaxAttempts[job]
      target == CASE again /\ row.status = "RUNNING" -> "INTERRUPTED"
                  [] ~again /\ row.status \notin Final -> "FAILED"
                  [] OTHER -> NONE
  IN
  /\ \/ Does("worker", "done") /\ Stops("worker") /\ UNCHANGED queued
     \/ /\ Does("worker", "failed")
        /\ queued' = IF again THEN queued \cup {job} ELSE queued
        /\ writer' = [writer EXCEPT !["worker"] =
             [Waiting EXCEPT !.todo = IF target = NONE THEN <<>> ELSE Reconciled(target)]]
  /\ UNCHANGED <<row, attempt, store, transaction, refused, client, calls, mishaps>>

-----------------------------------------------------------------------------
(* append                                                                  *)

\* mutant: a transaction that does not lock before it reads.
DeferredTransaction == TRUE

\* BEGIN IMMEDIATE waits for the other writers.
WriteTransaction == transaction = NONE

\* The transaction reads whether the event is there, and the last cursor.
BeginAppend(p) ==
  /\ Does(p, "append") /\ writer[p].cursor = 0 /\ WriteTransaction
  /\ IF Argument(p) \in Range(store)
       THEN Goes(p) /\ UNCHANGED transaction
       ELSE /\ writer' = [writer EXCEPT ![p].cursor = Len(store) + 1]
            /\ transaction' = p
  /\ UNCHANGED <<row, queued, attempt, store, refused, client, calls, mishaps>>

\* The row is inserted and committed; a cursor is there once (UNIQUE).
InsertEvent(p) ==
  /\ writer[p].cursor # 0
  /\ writer' = [writer EXCEPT ![p].todo = Tail(@), ![p].cursor = 0]
  /\ transaction' = NONE
  /\ IF writer[p].cursor = Len(store) + 1
       THEN store' = Append(store, Argument(p)) /\ UNCHANGED refused
       ELSE refused' = refused \cup {Argument(p)} /\ UNCHANGED store
  /\ UNCHANGED <<row, queued, attempt, client, calls, mishaps>>

\* A process dies; its transaction is rolled back, a worker's Job fails later.
Die(p) ==
  /\ writer[p].todo # <<>> /\ mishaps < MaxFaults
  /\ writer' = [writer EXCEPT ![p] =
       [@ EXCEPT !.cursor = 0, !.todo = IF writer[p].job = NONE THEN <<>> ELSE <<Step("failed")>>]]
  /\ transaction' = IF transaction = p THEN NONE ELSE transaction
  /\ mishaps' = mishaps + 1
  /\ UNCHANGED <<row, queued, attempt, store, refused, client, calls>>

-----------------------------------------------------------------------------
(* The event stream                                                        *)

\* list: the events after a cursor, each with its own.
ListAfter(last) == [i \in 1..(Len(store) - last) |-> <<last + i, store[last + i]>>]

\* run_events: the start, a resumption, the traced steps, the patch and the ending.
Projection(r) ==
  LET names == <<"RUN_STARTED">>
            \o (IF r.result.resumed THEN <<"RUN_RESUMED">> ELSE <<>>)
            \o [i \in 1..r.result.traced |-> "TRACED"]
            \o (IF r.result.patch THEN <<"PATCH">> ELSE <<>>)
            \o (IF r.status \in Terminal THEN <<r.status>> ELSE <<>>)
  IN [i \in DOMAIN names |-> <<i, <<"projected", names[i]>>>>]

\* The cursor of a projected event is its place.
After(events, last) == SubSeq(events, last + 1, Len(events))

Stream(pc) == client' = [client EXCEPT !.pc = pc]

\* The browser connects with the cursor of the last event it received.
Connect ==
  /\ client.pc = "closed" /\ row.status # "ABSENT"
  /\ Stream("list")
  /\ UNCHANGED <<writerVars, mishaps>>

\* What was read is sent event by event; the connection may break in between, and the
\* rest is lost.
Send(events) ==
  \E n \in 0..Len(events) :
    /\ client' = [client EXCEPT !.pc = IF n = Len(events) THEN "status" ELSE "closed",
                               !.last = IF n = 0 THEN @ ELSE events[n][1],
                               !.got = @ \o SubSeq(events, 1, n)]
    /\ n < Len(events) => mishaps < MaxFaults
    /\ mishaps' = IF n < Len(events) THEN mishaps + 1 ELSE mishaps

\* New events of the store; without any, the console is asked, which reads the store
\* again and projects the Run if nothing is there at all.
ListEvents ==
  /\ client.pc = "list"
  /\ IF Len(store) > client.last THEN Send(ListAfter(client.last))
     ELSE Stream("console") /\ UNCHANGED mishaps
  /\ UNCHANGED writerVars

AskConsole ==
  /\ client.pc = "console"
  /\ IF store # <<>> THEN Send(ListAfter(client.last)) ELSE Stream("project") /\ UNCHANGED mishaps
  /\ UNCHANGED writerVars

ProjectRun ==
  /\ client.pc = "project"
  /\ Send(After(Projection(row), client.last))
  /\ UNCHANGED writerVars

\* The status is read after the events; the browser does not come back after the end.
LookAtStatus ==
  /\ client.pc = "status"
  /\ Stream(IF row.status \in Terminal THEN "ended" ELSE "list")
  /\ UNCHANGED <<writerVars, mishaps>>

RunEventsNext ==
  \/ CreateRun \/ CancelCall \/ DecisionCall \/ ResumeCall
  \/ TakeRun \/ TakeResume \/ WorkEnds \/ JobEnds
  \/ \E p \in Writers :
       \/ WriteRow(p) \/ GivesUp(p) \/ CompleteRun(p) \/ WriteQueue(p)
       \/ BeginAppend(p) \/ InsertEvent(p) \/ Die(p)
  \/ Connect \/ ListEvents \/ AskConsole \/ ProjectRun \/ LookAtStatus

RunEventsSpec == RunEventsInit /\ [][RunEventsNext]_eventVars

-----------------------------------------------------------------------------
(* Properties                                                              *)

Projected(event) == event[2][1] = "projected"

\* Reconnecting and replaying is safe (the docstring of the store): whatever processes
\* append, die or repeat themselves, no append fails on a cursor that another process
\* took and no event is stored twice; and whenever its connections broke, a client has
\* received the events 1 to k of the Run, each once, as the store holds them, or as
\* they were projected before the store had any.
EventsReplay ==
  /\ refused = {} /\ IsInjective(store)
  /\ \A i \in DOMAIN client.got :
       /\ client.got[i][1] = i
       /\ \/ i \in DOMAIN store /\ client.got[i][2] = store[i]
          \/ \A j \in 1..i : Projected(client.got[j])
=============================================================================
