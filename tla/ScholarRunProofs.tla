-------------------------- MODULE ScholarRunProofs --------------------------
(***************************************************************************)
(* Proofs about ScholarRun, for every number of Runs, keys, sessions,      *)
(* workers, users, resumes and faults: a Run that drafts a patch is never  *)
(* COMPLETED without its human decision, of the Runs of one idempotency    *)
(* key only the one its Job names is worked on, and, while no live worker  *)
(* misses the stale window, a RUNNING Run always has somebody who answers  *)
(* for it.                                                                 *)
(*                                                                         *)
(* A Job that was submitted keeps its Run, a decided patch stays decided,  *)
(* a Run its key's Job names keeps that name.  So what a process knows of  *)
(* the Run it works for (WorkerOK, UserOK, CallOK) survives the steps of   *)
(* the others, although no transaction spans two of the stores.            *)
(***************************************************************************)
EXTENDS ScholarRun, TLAPS

RunStatuses == {"ABSENT", "RUNNING", "WAITING_USER"} \cup Startable \cup Final
JobStatuses == {"ABSENT"} \cup Waiting \cup Leased \cup JobTerminal
Closing == {"COMPLETED", "FAILED", "WAITING_USER"}
Outcomes == {"persist", "project", "confirm", "verify"}
InHand == Handling \cup Ending \cup Settling

RunRows == [status : RunStatuses, job : Jobs \cup {NoJob},
            patch : {"none", "AWAITING_APPROVAL"} \cup Decided,
            checkpoint : BOOLEAN, asked : BOOLEAN]
JobRows == [status : JobStatuses, attempt : Nat, owner : Workers \cup {"none"},
            run : Runs \cup {NoRun}, why : {"run", "user", "approval"}]
Callers == [op : {"idle", "reread", "cancel", "notify", "enqueue", "queue"},
            run : Runs \cup {NoRun}, job : Jobs \cup {NoJob}]
Processes == [pc : InHand \cup {"idle", "down", "reconcile"}, job : Jobs \cup {NoJob},
              seen : Closing \cup {"none", "CANCELLED", "INTERRUPTED"},
              todo : SUBSET (Jobs \X JobStatuses)]

TypeOK == /\ run \in [Runs -> RunRows]
          /\ job \in [Jobs -> JobRows]
          /\ call \in [Runs -> InCreate \cup {"new", "done", "dead"}]
          /\ user \in [Users -> Callers]
          /\ worker \in [Workers -> Processes]
          /\ faults \in Nat

Exists(j) == job[j].status # "ABSENT"
Named(r) == job[KeyOf[r]].run = r
Approved(r) == run[r].patch \in {"APPLIED", "REJECTED"}

JobOK(j) ==
    /\ Exists(j) => job[j].run \in Runs
    /\ ~Exists(j) => job[j].run = NoRun
    /\ j \in Keys /\ Exists(j) => KeyOf[job[j].run] = j

RunOK(r) ==
    /\ run[r].job # NoJob => Exists(run[r].job)
    /\ r \in Writing /\ run[r].status = "COMPLETED" => Approved(r)
    /\ ~Named(r) =>
          /\ ~run[r].checkpoint /\ run[r].patch = "none"
          /\ \/ run[r].status \in Final \cup {"ABSENT"}
             \/ call[r] \in InCreate \cup {"dead"}
             \/ \E j \in Resumes : job[j].run = r

CallOK(c) == call[c] = "bind" => Named(c)

UserOK(u) ==
    /\ user[u].op # "idle" => user[u].run \in Runs
    /\ user[u].op = "queue" => /\ user[u].job \in Resumes /\ Exists(user[u].job)
                               /\ job[user[u].job].run = user[u].run

WorkerOK(w) ==
    /\ worker[w].pc \in InHand \/ worker[w].seen # "none" =>
          worker[w].job \in Jobs /\ Exists(worker[w].job)
    /\ \A p \in worker[w].todo : Exists(p[1])
    /\ worker[w].pc \in Outcomes => worker[w].seen \in Closing
    /\ worker[w].seen # "none" => worker[w].pc \in Outcomes \cup {"reconcile"}
    /\ worker[w].pc = "reconcile" => worker[w].seen # "COMPLETED"
    /\ worker[w].pc \in Outcomes /\ worker[w].seen = "COMPLETED" /\ RunOf(w) \in Writing
          => Approved(RunOf(w))
    /\ worker[w].pc \in {"prepare", "work"} => Named(RunOf(w))

IInv == /\ TypeOK
        /\ \A j \in Jobs : JobOK(j)
        /\ \A r \in Runs : RunOK(r) /\ CallOK(r)
        /\ \A u \in Users : UserOK(u)
        /\ \A w \in Workers : WorkerOK(w)

(* Who answers for a RUNNING Run.  Without stalls a worker keeps the lease *)
(* of the Job in its hands.  A Job is responsible while it is leased and   *)
(* its worker has not yet closed the Run, and after that as long as a      *)
(* sweep has it on its list or will have it.                               *)
LeaseKept(w) ==
    worker[w].pc \in InHand => /\ job[worker[w].job].owner = w
                               /\ job[worker[w].job].status \in Leased
                               /\ worker[w].todo = {}

Sweeps(w, j) == \/ worker[w].pc = "down"
                \/ \E p \in worker[w].todo : p[1] = j /\ p[2] \in Moving

Responsible(j) ==
    \/ /\ job[j].status \in Leased
       /\ \A w \in Workers : worker[w].job = j /\ worker[w].pc \in Settling => job[j].owner # w
    \/ job[j].status \in Moving /\ \E w \in Workers : Sweeps(w, j)

WatchInv ==
    /\ \A w \in Workers : LeaseKept(w)
    /\ \A r \in Runs : run[r].status = "RUNNING" =>
           \E j \in Jobs : job[j].run = r /\ Responsible(j)

-----------------------------------------------------------------------------
LEMMA Initially == Init => IInv
  <1> SUFFICES ASSUME Init PROVE IInv
    OBVIOUS
  <1>1. TypeOK
    BY DEF Init, TypeOK, AbsentRun, AbsentJob, NoCall, Down, At, RunRows, JobRows, Callers,
           Processes, RunStatuses, JobStatuses
  <1>2. \A j \in Jobs : JobOK(j) /\ ~Exists(j)
    BY DEF Init, AbsentJob, JobOK, Exists
  <1>3. \A r \in Runs : RunOK(r) /\ CallOK(r)
    BY DEF Init, AbsentRun, RunOK, CallOK
  <1>4. \A u \in Users : UserOK(u)
    BY DEF Init, NoCall, UserOK
  <1>5. \A w \in Workers : WorkerOK(w)
    BY DEF Init, Down, At, WorkerOK, InHand, Handling, Ending, Settling, Outcomes
  <1> QED
    BY <1>1, <1>2, <1>3, <1>4, <1>5 DEF IInv

(* What every step keeps: a submitted Job and its Run, a decided patch.    *)
Kept == /\ \A j \in Jobs : Exists(j) => job'[j].status # "ABSENT" /\ job'[j].run = job[j].run
        /\ \A r \in Runs : Approved(r) => run'[r].patch \in {"APPLIED", "REJECTED"}

LEMMA NamesStay ==
    ASSUME IInv, Kept, NEW r \in Runs, Named(r)
    PROVE  job'[KeyOf[r]].run = r
  <1>1. KeyOf[r] \in Jobs /\ JobOK(KeyOf[r])
    BY CallAssumption DEF IInv, Jobs
  <1> QED
    BY <1>1, RunNullAssumption DEF Kept, Named, JobOK

(* A process or row that a step leaves alone still knows what it knew.     *)
LEMMA Frame ==
    ASSUME IInv, TypeOK', Kept,
           \A j \in Jobs : ~Exists(j) => JobOK(j)',
           \A r \in Runs : UNCHANGED <<run[r], call[r]>> \/ (RunOK(r)' /\ CallOK(r)'),
           \A u \in Users : UNCHANGED user[u] \/ UserOK(u)',
           \A w \in Workers : UNCHANGED worker[w] \/ WorkerOK(w)'
    PROVE  IInv'
  <1>1. ASSUME NEW j \in Jobs, Exists(j) PROVE JobOK(j)' /\ Exists(j)' /\ job'[j].run = job[j].run
    <2>1. JobOK(j)
      BY DEF IInv
    <2> QED
      BY <1>1, <2>1 DEF Kept, JobOK, Exists
  <1>2. ASSUME NEW r \in Runs, UNCHANGED <<run[r], call[r]>> PROVE RunOK(r)' /\ CallOK(r)'
    <2>1. RunOK(r) /\ CallOK(r)
      BY DEF IInv
    <2>2. Named(r) => Named(r)'
      BY NamesStay DEF Named
    <2>3. ASSUME NEW j \in Resumes, job[j].run = r PROVE job'[j].run = r
      <3>1. j \in Jobs /\ JobOK(j)
        BY DEF Jobs, IInv
      <3> QED
        BY <1>1, <2>3, <3>1, RunNullAssumption DEF JobOK
    <2>4. run[r].job \in Jobs \cup {NoJob}
      BY DEF IInv, TypeOK, RunRows
    <2>5. run[r].job # NoJob => Exists(run[r].job)'
      BY <1>1, <1>2, <2>1, <2>4 DEF RunOK, Exists
    <2> QED
      BY <1>2, <2>1, <2>2, <2>3, <2>5 DEF RunOK, CallOK, Approved, Exists
  <1>3. ASSUME NEW u \in Users, UNCHANGED user[u] PROVE UserOK(u)'
    <2>1. UserOK(u)
      BY DEF IInv
    <2>2. user[u].op = "queue" => user[u].job \in Jobs
      BY <2>1 DEF UserOK, Jobs
    <2> QED
      BY <1>1, <1>3, <2>1, <2>2 DEF UserOK, Exists
  <1>4. ASSUME NEW w \in Workers, UNCHANGED worker[w] PROVE WorkerOK(w)'
    <2>1. WorkerOK(w) /\ \A p \in worker[w].todo : p[1] \in Jobs
      BY DEF IInv, TypeOK, Processes
    <2>2. CASE worker[w].pc \in InHand \/ worker[w].seen # "none"
      <3>1. PICK j \in Jobs : j = worker[w].job /\ Exists(j) /\ job[j].run \in Runs
        BY <2>1, <2>2 DEF WorkerOK, IInv, JobOK
      <3>2. Exists(j)' /\ job'[j].run = job[j].run
        BY <1>1, <3>1
      <3>3. Named(job[j].run) => Named(job[j].run)'
        BY <3>1, <3>2, NamesStay DEF Named
      <3>4. Approved(job[j].run) => Approved(job[j].run)'
        BY <3>1, <3>2 DEF Kept, Approved
      <3>5. \A p \in worker[w].todo : Exists(p[1])'
        BY <1>1, <2>1 DEF WorkerOK, Exists
      <3> QED
        BY <1>4, <2>1, <3>1, <3>2, <3>3, <3>4, <3>5 DEF WorkerOK, RunOf, Exists, Named, Approved
    <2>3. CASE ~(worker[w].pc \in InHand \/ worker[w].seen # "none")
      BY <1>1, <1>4, <2>1, <2>3
         DEF WorkerOK, Exists, InHand, Handling, Outcomes
    <2> QED
      BY <2>2, <2>3
  <1> QED
    BY <1>1, <1>2, <1>3, <1>4 DEF IInv

-----------------------------------------------------------------------------
(* The Run a worker works for has that Job, or one it was resumed with.    *)
LEMMA WorkersRun ==
    ASSUME IInv, NEW w \in Workers, worker[w].pc \in InHand \/ worker[w].seen # "none"
    PROVE  /\ worker[w].job \in Jobs /\ Exists(worker[w].job) /\ RunOf(w) \in Runs
           /\ Named(RunOf(w)) \/ \E j \in Resumes : job[j].run = RunOf(w)
           /\ worker[w].job \in Keys => Named(RunOf(w))
  <1>1. PICK j \in Jobs : j = worker[w].job /\ Exists(j)
    BY DEF IInv, WorkerOK
  <1>2. JobOK(j)
    BY DEF IInv
  <1>3. job[j].run \in Runs /\ (j \in Keys => KeyOf[job[j].run] = j)
    BY <1>1, <1>2 DEF JobOK
  <1> QED
    BY <1>1, <1>3 DEF RunOf, Named, Jobs

(* What a worker may write into the row of a Run: no step of it invents a  *)
(* checkpoint or a patch for a Run its key's Job does not name, none       *)
(* undoes a decision, none completes a writing Run without one.            *)
Allowed(r, row) ==
    /\ row \in RunRows
    /\ row.job = run[r].job
    /\ row.checkpoint => run[r].checkpoint \/ Named(r)
    /\ row.patch = run[r].patch \/ (run[r].patch = "none" /\ Named(r))
    /\ r \in Writing /\ row.status = "COMPLETED" => row.patch \in {"APPLIED", "REJECTED"}

Written(r) == \/ UNCHANGED run
              \/ \E row : Allowed(r, row) /\ run' = [run EXCEPT ![r] = row]

LEMMA WriteFacts ==
    ASSUME IInv, NEW r \in Runs, Written(r), UNCHANGED <<job, call>>,
           Named(r) \/ \E j \in Resumes : job[j].run = r
    PROVE  /\ Kept /\ run' \in [Runs -> RunRows]
           /\ \A q \in Runs : UNCHANGED <<run[q], call[q]>> \/ (RunOK(q)' /\ CallOK(q)')
           /\ \A j \in Jobs : ~Exists(j) => JobOK(j)'
  <1>1. TypeOK /\ RunOK(r) /\ CallOK(r)
    BY DEF IInv
  <1>2. \A j \in Jobs : ~Exists(j) => JobOK(j)'
    BY DEF IInv, JobOK, Exists
  <1>3. CASE UNCHANGED run
    BY <1>1, <1>2, <1>3 DEF Kept, TypeOK, Approved, Exists
  <1>4. ASSUME NEW row, Allowed(r, row), run' = [run EXCEPT ![r] = row]
        PROVE  /\ Kept /\ run' \in [Runs -> RunRows]
               /\ \A q \in Runs : UNCHANGED <<run[q], call[q]>> \/ (RunOK(q)' /\ CallOK(q)')
    <2>1. run'[r] = row /\ \A q \in Runs \ {r} : run'[q] = run[q]
      BY <1>1, <1>4 DEF TypeOK
    <2>2. RunOK(r)' /\ CallOK(r)'
      BY <1>1, <1>4, <2>1 DEF RunOK, CallOK, Allowed, Named, Exists, Approved
    <2>3. Kept
      BY <1>4, <2>1 DEF Kept, Allowed, Approved, Exists
    <2>4. run' \in [Runs -> RunRows]
      BY <1>1, <1>4 DEF TypeOK, Allowed
    <2> QED
      BY <2>1, <2>2, <2>3, <2>4
  <1> QED
    BY <1>2, <1>3, <1>4 DEF Written

LEMMA Completing ==
    ASSUME IInv, NEW r \in Runs, NEW s \in RunStatuses, Complete(r, s),
           r \in Writing /\ s = "COMPLETED" => Approved(r)
    PROVE  Written(r)
  <1> DEFINE row == [run[r] EXCEPT !.status = s, !.asked = FALSE]
  <1>1. run[r] \in RunRows
    BY DEF IInv, TypeOK
  <1>2. Allowed(r, row)
    BY <1>1 DEF Allowed, RunRows, Approved
  <1>3. run' = [run EXCEPT ![r] = row]
    BY DEF Complete, IInv, TypeOK
  <1> QED
    BY <1>2, <1>3 DEF Written

LEMMA Starting ==
    ASSUME IInv, NEW r \in Runs, StartRun(r)
    PROVE  Written(r)
  <1> DEFINE row == [run[r] EXCEPT !.status = "RUNNING"]
  <1>1. run[r] \in RunRows
    BY DEF IInv, TypeOK
  <1>2. Allowed(r, row)
    BY <1>1 DEF Allowed, RunRows, RunStatuses
  <1> QED
    BY <1>2 DEF Written, StartRun

(* A step of a worker from one place of its handler to another.            *)
LEMMA Moved ==
    ASSUME IInv, NEW w \in Workers, worker[w].pc \in InHand, Written(RunOf(w)),
           NEW l \in InHand, NEW s \in Closing \cup {"none"}, Choose(w, l, s),
           l \in Outcomes <=> s # "none",
           s = "COMPLETED" /\ RunOf(w) \in Writing => Approved(RunOf(w)),
           l \in {"prepare", "work"} => Named(RunOf(w)),
           UNCHANGED <<job, call, user>>, faults' \in Nat
    PROVE  IInv'
  <1>1. PICK j \in Jobs, r \in Runs :
            /\ j = worker[w].job /\ r = RunOf(w) /\ Exists(j) /\ job[j].run = r
            /\ Named(r) \/ \E k \in Resumes : job[k].run = r
    BY WorkersRun DEF RunOf
  <1>2. /\ Kept /\ run' \in [Runs -> RunRows]
        /\ \A q \in Runs : UNCHANGED <<run[q], call[q]>> \/ (RunOK(q)' /\ CallOK(q)')
        /\ \A k \in Jobs : ~Exists(k) => JobOK(k)'
    BY <1>1, WriteFacts
  <1>3. TypeOK /\ WorkerOK(w) /\ worker[w] \in Processes
    BY DEF IInv, TypeOK
  <1> DEFINE p == [worker[w] EXCEPT !.pc = l, !.seen = s]
  <1>4. worker' = [worker EXCEPT ![w] = p]
    BY <1>3 DEF Choose, TypeOK
  <1>5. p \in Processes /\ p.pc = l /\ p.seen = s /\ p.job = j /\ p.todo = worker[w].todo
    BY <1>1, <1>3 DEF Processes
  <1> HIDE DEF p
  <1>6. worker'[w] = p /\ \A v \in Workers \ {w} : worker'[v] = worker[v]
    BY <1>3, <1>4 DEF TypeOK
  <1>7. TypeOK'
    BY <1>2, <1>3, <1>4, <1>5 DEF TypeOK
  <1>8. Approved(r) => Approved(r)'
    BY <1>2 DEF Kept, Approved
  <1>9. WorkerOK(w)'
    <2>1. l # "reconcile"
      BY DEF InHand, Handling, Ending, Settling
    <2> QED
      BY <1>1, <1>3, <1>5, <1>6, <1>8, <2>1 DEF WorkerOK, RunOf, Exists, Named
  <1> QED
    BY <1>2, <1>6, <1>7, <1>9, Frame

-----------------------------------------------------------------------------
(* The handler of a worker, place by place.                                *)
LEMMA Places ==
    /\ Outcomes \subseteq InHand /\ Outcomes \subseteq Handling
    /\ {"locate", "start", "prepare", "work", "resume", "cancelled", "raised", "returned",
        "retry", "abandon"} \subseteq InHand \ Outcomes
    /\ {"FAILED", "COMPLETED", "WAITING_USER"} \subseteq Closing /\ "none" \notin Closing
  BY DEF Outcomes, InHand, Handling, Ending, Settling, Closing

LEMMA LocateInv == ASSUME NEW w \in Workers, IInv, Locate(w) PROVE IInv'
  <1>1. worker[w].pc \in InHand /\ Written(RunOf(w)) /\ UNCHANGED <<job, call, user>>
    BY Places DEF Locate, Written
  <1>2. faults' \in Nat /\ (worker[w].job \in Keys => Named(RunOf(w)))
    BY <1>1, WorkersRun DEF Locate, IInv, TypeOK
  <1>3. PICK l \in {"returned", "start", "prepare", "resume"} :
            Goto(w, l) /\ (l = "prepare" => worker[w].job \in Keys)
    BY DEF Locate
  <1> QED
    BY <1>1, <1>2, <1>3, Moved, Places DEF Goto

LEMMA StartInv == ASSUME NEW w \in Workers, IInv, Start(w) PROVE IInv'
  <1>1. worker[w].pc \in InHand /\ UNCHANGED <<job, call, user>> /\ faults' \in Nat
    BY Places DEF Start, IInv, TypeOK
  <1>2. Written(RunOf(w)) /\ (worker[w].job \in Keys => Named(RunOf(w)))
    BY <1>1, WorkersRun, Starting DEF Start
  <1>3. PICK l \in {"prepare", "resume"} :
            Goto(w, l) /\ (l = "prepare" => worker[w].job \in Keys)
    BY DEF Start
  <1> QED
    BY <1>1, <1>2, <1>3, Moved, Places DEF Goto

LEMMA PrepareInv == ASSUME NEW w \in Workers, IInv, Prepare(w) PROVE IInv'
  <1>1. worker[w].pc \in InHand /\ UNCHANGED <<job, call, user>> /\ faults' \in Nat
    BY Places DEF Prepare, IInv, TypeOK
  <1>2. RunOf(w) \in Runs /\ Named(RunOf(w))
    BY <1>1, WorkersRun DEF Prepare, IInv, WorkerOK
  <1>3. Written(RunOf(w))
    BY <1>2, Starting DEF Prepare, Written
  <1>4. PICK l \in {"raised", "work"} : Goto(w, l)
    BY DEF Prepare
  <1> QED
    BY <1>1, <1>2, <1>3, <1>4, Moved, Places DEF Goto

LEMMA FlowEndsInv == ASSUME NEW w \in Workers, IInv, FlowEnds(w) PROVE IInv'
  <1>1. /\ worker[w].pc \in InHand /\ UNCHANGED <<job, call, user>> /\ faults' \in Nat
        /\ Written(RunOf(w))
    BY Places DEF FlowEnds, IInv, TypeOK, Written
  <1>2. PICK s \in Closing :
            Choose(w, "persist", s) /\ (s = "COMPLETED" => RunOf(w) \notin Writing)
    BY Places DEF FlowEnds
  <1> QED
    BY <1>1, <1>2, Moved, Places DEF Outcomes

LEMMA FlowCancelledInv == ASSUME NEW w \in Workers, IInv, FlowCancelled(w) PROVE IInv'
  BY Moved, Places DEF FlowCancelled, IInv, TypeOK, Written, Goto

LEMMA PersistResultInv == ASSUME NEW w \in Workers, IInv, PersistResult(w) PROVE IInv'
  <1>1. /\ worker[w].pc \in InHand /\ UNCHANGED <<job, call, user>> /\ faults' \in Nat
        /\ worker[w].seen \in Closing
        /\ worker[w].seen = "COMPLETED" /\ RunOf(w) \in Writing => Approved(RunOf(w))
    BY Places DEF PersistResult, IInv, TypeOK, WorkerOK, Outcomes, Fault
  <1>2. PICK r \in Runs : r = RunOf(w)
    BY <1>1, WorkersRun
  <1>3. Written(r)
    <2> DEFINE row == [run[r] EXCEPT !.status = worker[w].seen, !.asked = FALSE,
                                     !.checkpoint = FALSE]
    <2>1. run[r] \in RunRows
      BY DEF IInv, TypeOK
    <2>2. Allowed(r, row)
      BY <1>1, <1>2, <2>1
         DEF Allowed, RunRows, Approved, RunStatuses, Closing, Final
    <2>3. UNCHANGED run \/ run' = [run EXCEPT ![r] = row]
      BY <1>2 DEF PersistResult
    <2> QED
      BY <2>2, <2>3 DEF Written
  <1>4. PICK l \in {"confirm", "persist", "raised"}, s \in Closing \cup {"none"} :
            /\ Choose(w, l, s)
            /\ l \in {"confirm", "persist"} <=> s # "none"
            /\ s \in {"none", "FAILED", worker[w].seen}
    BY <1>1, Places DEF PersistResult, Carry, Goto
  <1> QED
    BY <1>1, <1>2, <1>3, <1>4, Moved, Places DEF Outcomes

LEMMA ReadPatchInv == ASSUME NEW w \in Workers, IInv, ReadPatch(w) PROVE IInv'
  <1>1. /\ worker[w].pc \in InHand /\ UNCHANGED <<job, call, user>> /\ faults' \in Nat
        /\ Written(RunOf(w))
    BY Places DEF ReadPatch, IInv, TypeOK, Written
  <1>2. RunOf(w) \in Runs
    BY <1>1, WorkersRun
  <1>3. CASE Replayable(RunOf(w)) /\ Goto(w, "prepare")
    <2>1. Named(RunOf(w))
      BY <1>2, <1>3 DEF Replayable, IInv, RunOK
    <2> QED
      BY <1>1, <1>3, <2>1, Moved, Places DEF Goto
  <1>4. CASE Goto(w, "raised")
    BY <1>1, <1>4, Moved, Places DEF Goto
  <1>5. CASE Choose(w, "project", PatchOutcome(run[RunOf(w)].patch))
    <2>1. PICK s \in Closing : s = PatchOutcome(run[RunOf(w)].patch)
      BY Places DEF PatchOutcome
    <2>2. s = "COMPLETED" => Approved(RunOf(w))
      BY <2>1 DEF PatchOutcome, Approved
    <2> QED
      BY <1>1, <1>5, <2>1, <2>2, Moved, Places DEF Outcomes
  <1> QED
    BY <1>3, <1>4, <1>5 DEF ReadPatch

LEMMA ProjectDecisionInv == ASSUME NEW w \in Workers, IInv, ProjectDecision(w) PROVE IInv'
  <1>1. /\ worker[w].pc \in InHand /\ UNCHANGED <<job, call, user>> /\ faults' \in Nat
        /\ worker[w].seen \in Closing
        /\ worker[w].seen = "COMPLETED" /\ RunOf(w) \in Writing => Approved(RunOf(w))
    BY Places DEF ProjectDecision, IInv, TypeOK, WorkerOK, Outcomes, Fault
  <1>2. RunOf(w) \in Runs /\ worker[w].seen \in RunStatuses
    BY <1>1, WorkersRun DEF Closing, RunStatuses, Final
  <1>3. Written(RunOf(w))
    BY <1>1, <1>2, Completing DEF ProjectDecision, Written
  <1>4. Choose(w, "confirm", worker[w].seen) \/ Choose(w, "raised", "none")
    BY DEF ProjectDecision, Carry, Goto
  <1> QED
    BY <1>1, <1>3, <1>4, Moved, Places DEF Outcomes

LEMMA ConfirmInv == ASSUME NEW w \in Workers, IInv, Confirm(w) PROVE IInv'
  <1>1. /\ worker[w].pc \in InHand /\ UNCHANGED <<job, call, user>> /\ faults' \in Nat
        /\ Written(RunOf(w)) /\ worker[w].seen \in Closing
        /\ worker[w].seen = "COMPLETED" /\ RunOf(w) \in Writing => Approved(RunOf(w))
    BY Places DEF Confirm, IInv, TypeOK, WorkerOK, Outcomes, Written
  <1>2. \/ Choose(w, "verify", worker[w].seen)
        \/ \E l \in {"cancelled", "raised"} : Choose(w, l, "none")
    BY DEF Confirm, Carry, Goto
  <1> QED
    BY <1>1, <1>2, Moved, Places DEF Outcomes

LEMMA HeartbeatFailsInv == ASSUME NEW w \in Workers, IInv, HeartbeatFails(w) PROVE IInv'
  <1>1. worker[w].pc \in InHand /\ UNCHANGED <<job, call, user>> /\ Written(RunOf(w))
    BY Places DEF HeartbeatFails, Outcomes, Written
  <1>2. faults' \in Nat
    BY DEF HeartbeatFails, Fault, IInv, TypeOK
  <1> QED
    BY <1>1, <1>2, Moved, Places DEF HeartbeatFails, Goto

LEMMA VerifyInv == ASSUME NEW w \in Workers, IInv, Verify(w) PROVE IInv'
  <1>1. /\ worker[w].pc \in InHand /\ UNCHANGED <<job, call, user>> /\ faults' \in Nat
        /\ worker[w].seen \in Closing
        /\ worker[w].seen = "COMPLETED" /\ RunOf(w) \in Writing => Approved(RunOf(w))
    BY Places DEF Verify, IInv, TypeOK, WorkerOK, Outcomes
  <1>2. RunOf(w) \in Runs /\ worker[w].seen \in RunStatuses
    BY <1>1, WorkersRun DEF Closing, RunStatuses, Final
  <1>3. Written(RunOf(w))
    BY <1>1, <1>2, Completing DEF Verify, Written
  <1> QED
    BY <1>1, <1>3, Moved, Places DEF Verify, Goto

LEMMA CatchInv ==
    ASSUME NEW w \in Workers, IInv, CatchCancelled(w) \/ CatchException(w) PROVE IInv'
  <1>1. worker[w].pc \in InHand /\ UNCHANGED <<job, call, user>> /\ faults' \in Nat
    BY Places DEF CatchCancelled, CatchException, IInv, TypeOK
  <1>2. PICK s \in {"CANCELLED", "INTERRUPTED"} : Complete(RunOf(w), s)
    BY DEF CatchCancelled, CatchException
  <1>3. Written(RunOf(w))
    BY <1>1, <1>2, WorkersRun, Completing DEF RunStatuses, Final, Startable
  <1>4. PICK l \in {"abandon", "retry"} : Goto(w, l)
    BY DEF CatchCancelled, CatchException
  <1> QED
    BY <1>1, <1>3, <1>4, Moved, Places DEF Goto

(* The two steps of a flow that leave the worker where it is.              *)
LEMMA FlowWritesInv ==
    ASSUME NEW w \in Workers, IInv, SaveCheckpoint(w) \/ Propose(w) PROVE IInv'
  <1>1. worker[w].pc = "work" /\ UNCHANGED <<job, call, user, worker, faults>>
    BY DEF SaveCheckpoint, Propose
  <1>2. PICK r \in Runs : r = RunOf(w) /\ Named(r)
    BY <1>1, WorkersRun, Places DEF IInv, WorkerOK
  <1>3. Written(r)
    <2>1. run[r] \in RunRows
      BY DEF IInv, TypeOK
    <2>2. CASE SaveCheckpoint(w)
      <3> DEFINE row == [run[r] EXCEPT !.checkpoint = TRUE]
      <3>1. Allowed(r, row)
        BY <1>2, <2>1 DEF Allowed, RunRows, IInv, RunOK, Approved
      <3> QED
        BY <1>2, <2>2, <3>1 DEF SaveCheckpoint, Written
    <2>3. CASE Propose(w)
      <3> DEFINE row == [run[r] EXCEPT !.patch = "AWAITING_APPROVAL"]
      <3>1. run[r].patch = "none" /\ ~(r \in Writing /\ run[r].status = "COMPLETED")
        BY <1>2, <2>3 DEF Propose, IInv, RunOK, Approved
      <3>2. Allowed(r, row)
        BY <1>2, <2>1, <3>1 DEF Allowed, RunRows
      <3> QED
        BY <1>2, <2>3, <3>2 DEF Propose, Written
    <2> QED
      BY <2>2, <2>3
  <1>4. /\ Kept /\ run' \in [Runs -> RunRows]
        /\ \A q \in Runs : UNCHANGED <<run[q], call[q]>> \/ (RunOK(q)' /\ CallOK(q)')
        /\ \A j \in Jobs : ~Exists(j) => JobOK(j)'
    BY <1>1, <1>2, <1>3, WriteFacts
  <1>5. TypeOK'
    BY <1>1, <1>4 DEF IInv, TypeOK
  <1> QED
    BY <1>1, <1>4, <1>5, Frame

-----------------------------------------------------------------------------
(* The steps of a worker on the Jobs table: the lease, its end, recovery.  *)

(* A change of submitted Jobs that moves one worker.                       *)
LEMMA JobStep ==
    ASSUME IInv, NEW w \in Workers, job' \in [Jobs -> JobRows],
           \A j \in Jobs : /\ Exists(j) => job'[j].status # "ABSENT"
                           /\ ~Exists(j) => job'[j].status = "ABSENT"
                           /\ job'[j].run = job[j].run,
           NEW p \in Processes, worker' = [worker EXCEPT ![w] = p], WorkerOK(w)',
           UNCHANGED <<run, call, user>>, faults' \in Nat
    PROVE  IInv'
  <1>1. TypeOK'
    BY DEF IInv, TypeOK
  <1>2. Kept
    BY DEF Kept, Approved
  <1>3. \A j \in Jobs : ~Exists(j) => JobOK(j)'
    BY DEF IInv, JobOK, Exists
  <1>4. \A v \in Workers : UNCHANGED worker[v] \/ WorkerOK(v)'
    BY DEF IInv, TypeOK
  <1> QED
    BY <1>1, <1>2, <1>3, <1>4, Frame

LEMMA ClaimInv == ASSUME NEW w \in Workers, NEW j \in Jobs, IInv, Claim(w, j) PROVE IInv'
  <1> DEFINE row == [job[j] EXCEPT !.status = "RUNNING", !.owner = w,
                                   !.attempt = job[j].attempt + 1]
             p == At("locate", j, "none", {})
  <1>1. TypeOK /\ Exists(j) /\ job[j] \in JobRows /\ job[j].attempt + 1 \in Nat
    BY DEF IInv, TypeOK, Claim, Waiting, Exists, JobRows
  <1>2. row \in JobRows /\ row.status = "RUNNING" /\ row.run = job[j].run
    BY <1>1 DEF JobRows, JobStatuses, Leased
  <1>3. job' = [job EXCEPT ![j] = row] /\ worker' = [worker EXCEPT ![w] = p]
    BY <1>1 DEF Claim, TypeOK
  <1> HIDE DEF row
  <1>4. p \in Processes
    BY Places DEF At, Processes
  <1>5. job' \in [Jobs -> JobRows] /\ job'[j] = row /\ \A k \in Jobs \ {j} : job'[k] = job[k]
    BY <1>1, <1>2, <1>3 DEF TypeOK
  <1>6. WorkerOK(w)'
    <2>1. worker'[w] = p
      BY <1>1, <1>3 DEF TypeOK
    <2> QED
      BY <1>2, <1>5, <2>1, Places DEF WorkerOK, At, Exists, Outcomes
  <1> QED
    BY <1>1, <1>2, <1>3, <1>4, <1>5, <1>6, JobStep DEF Claim, Exists, TypeOK

LEMMA SettleInv == ASSUME NEW w \in Workers, IInv, Settle(w) PROVE IInv'
  <1>1. worker[w].pc \in InHand
    BY DEF Settle, InHand
  <1>2. PICK j \in Jobs : j = worker[w].job /\ Exists(j) /\ job[j] \in JobRows
    BY <1>1, WorkersRun DEF IInv, TypeOK
  <1>3. PICK s \in JobStatuses \ {"ABSENT"} : s = NextJobStatus(w)
    BY <1>2
       DEF NextJobStatus, JobStatuses, JobTerminal, Waiting, Leased, JobRows, Exists
  <1> DEFINE row == [job[j] EXCEPT !.status = s,
                                   !.owner = IF s \in JobTerminal THEN "none" ELSE @]
             p == At("reconcile", j, "none", {<<j, s>>})
  <1>4. row \in JobRows /\ row.status = s /\ row.run = job[j].run
    BY <1>2 DEF JobRows
  <1>5. job' = [job EXCEPT ![j] = row] /\ worker' = [worker EXCEPT ![w] = p]
    BY <1>2, <1>3 DEF Settle, IInv, TypeOK
  <1> HIDE DEF row
  <1>6. p \in Processes
    BY Places DEF At, Processes
  <1>7. job' \in [Jobs -> JobRows] /\ job'[j] = row /\ \A k \in Jobs \ {j} : job'[k] = job[k]
    BY <1>4, <1>5 DEF IInv, TypeOK
  <1>8. WorkerOK(w)'
    <2>1. worker'[w] = p
      BY <1>5 DEF IInv, TypeOK
    <2> QED
      BY <1>4, <1>7, <2>1
         DEF WorkerOK, At, Exists, Outcomes, InHand, Handling, Ending, Settling
  <1> QED
    BY <1>2, <1>4, <1>5, <1>6, <1>7, <1>8, JobStep DEF Settle, Exists, IInv, TypeOK

LEMMA RestartInv == ASSUME NEW w \in Workers, IInv, Restart(w) PROVE IInv'
  <1>1. PICK S \in SUBSET {j \in Jobs : job[j].status \in Leased} :
           /\ job' = [j \in Jobs |-> IF j \in S THEN Recovered(j) ELSE job[j]]
           /\ worker' = [worker EXCEPT ![w] = AfterReconcile(
                {<<j, job'[j].status>> : j \in {k \in Jobs : job'[k].status \in Moving}})]
    <2> DEFINE after(S) == [j \in Jobs |-> IF j \in S THEN Recovered(j) ELSE job[j]]
    <2>1. PICK S \in SUBSET {j \in Jobs : job[j].status \in Leased} :
             /\ job' = after(S)
             /\ worker' = [worker EXCEPT ![w] = AfterReconcile(
                  {<<j, after(S)[j].status>> : j \in {k \in Jobs : after(S)[k].status \in Moving}})]
      BY ZenonT(30) DEF Restart
    <2>2. worker' = [worker EXCEPT ![w] = AfterReconcile(
                {<<j, job'[j].status>> : j \in {k \in Jobs : job'[k].status \in Moving}})]
      BY <2>1
    <2> QED
      BY <2>1, <2>2
  <1> DEFINE T == {<<j, job'[j].status>> : j \in {k \in Jobs : job'[k].status \in Moving}}
             p == AfterReconcile(T)
  <1>2. job \in [Jobs -> JobRows] /\ UNCHANGED <<run, call, user>> /\ faults' \in Nat
    BY DEF IInv, TypeOK, Restart
  <1>3. ASSUME NEW j \in S
        PROVE  /\ Recovered(j) \in JobRows /\ Recovered(j).run = job[j].run
               /\ Recovered(j).status \in Moving
    BY <1>2 DEF Recovered, JobRows, JobStatuses, JobTerminal, Waiting, Moving
  <1>4. job' \in [Jobs -> JobRows] /\ \A j \in Jobs : job'[j].run = job[j].run
    <2>1. ASSUME NEW j \in Jobs PROVE job'[j] \in JobRows /\ job'[j].run = job[j].run
      BY <1>1, <1>2, <1>3
    <2> QED
      BY <1>1, <2>1
  <1>5. \A j \in Jobs : Exists(j) <=> job'[j].status # "ABSENT"
    BY <1>1, <1>3 DEF Exists, Leased, Moving
  <1>6. \A q \in T : q[1] \in Jobs /\ job'[q[1]].status # "ABSENT" /\ q \in Jobs \X JobStatuses
    BY <1>4 DEF Moving, JobRows
  <1> HIDE DEF T
  <1>7. /\ p \in Processes /\ p.seen = "none" /\ p.pc \in {"idle", "reconcile"}
        /\ \A q \in p.todo : q \in T
    BY <1>6 DEF AfterReconcile, Idle, At, Processes
  <1>8. worker'[w] = p
    BY <1>1 DEF T, IInv, TypeOK
  <1> HIDE DEF p
  <1>9. WorkerOK(w)'
    BY <1>6, <1>7, <1>8
       DEF WorkerOK, Exists, Outcomes, InHand, Handling, Ending, Settling
  <1> QED
    BY <1>1, <1>2, <1>4, <1>5, <1>7, <1>9, JobStep DEF p, T

LEMMA CrashInv == ASSUME NEW w \in Workers, IInv, Crash(w) PROVE IInv'
  <1>1. Down \in Processes
    BY DEF Down, At, Processes
  <1>2. worker'[w] = Down /\ worker' = [worker EXCEPT ![w] = Down] /\ faults' \in Nat
    BY DEF Crash, Fault, IInv, TypeOK
  <1>3. WorkerOK(w)'
    BY <1>2 DEF WorkerOK, Down, At, Outcomes, InHand, Handling, Ending, Settling
  <1> QED
    BY <1>1, <1>2, <1>3, JobStep DEF Crash, IInv, TypeOK, Exists

LEMMA ReconcileReadInv ==
    ASSUME NEW w \in Workers, NEW p \in worker[w].todo, IInv, ReconcileRead(w, p) PROVE IInv'
  <1>1. worker[w] \in Processes /\ WorkerOK(w) /\ p \in Jobs \X JobStatuses
    BY DEF IInv, TypeOK, Processes
  <1>2. PICK q \in Processes :
           /\ worker' = [worker EXCEPT ![w] = q]
           /\ q.todo \subseteq worker[w].todo
           /\ \/ q.pc \in {"idle", "reconcile"} /\ q.seen = "none"
              \/ q.pc = "reconcile" /\ q.job = p[1] /\ q.seen \in {"FAILED", "CANCELLED", "INTERRUPTED"}
    <2> DEFINE target == Target(p[2], job[p[1]].run)
    <2>1. target \in {"none", "FAILED", "CANCELLED", "INTERRUPTED"}
      BY DEF Target
    <2>2. CASE target = "none"
      <3> DEFINE q == AfterReconcile(worker[w].todo \ {p})
      <3>1. worker' = [worker EXCEPT ![w] = q]
        BY <2>2 DEF ReconcileRead, IInv, TypeOK
      <3>2. q \in Processes /\ q.todo \subseteq worker[w].todo /\ q.pc \in {"idle", "reconcile"}
            /\ q.seen = "none"
        BY <1>1 DEF AfterReconcile, Idle, At, Processes
      <3> HIDE DEF q
      <3> QED
        BY <3>1, <3>2
    <2>3. CASE target # "none"
      <3> DEFINE q == At("reconcile", p[1], target, worker[w].todo)
      <3>1. worker' = [worker EXCEPT ![w] = q]
        BY <2>3 DEF ReconcileRead, IInv, TypeOK
      <3> HIDE DEF target
      <3>2. /\ q \in Processes /\ q.todo = worker[w].todo /\ q.pc = "reconcile"
            /\ q.job = p[1] /\ q.seen = target
        BY <1>1, <2>1 DEF At, Processes, Closing
      <3> HIDE DEF q
      <3> QED
        BY <2>1, <2>3, <3>1, <3>2
    <2> QED
      BY <2>2, <2>3
  <1>3. worker'[w] = q /\ UNCHANGED <<job, run, call, user, faults>>
    BY <1>2 DEF ReconcileRead, IInv, TypeOK
  <1>4. WorkerOK(w)'
    BY <1>1, <1>2, <1>3
       DEF WorkerOK, Exists, Outcomes, InHand, Handling, Ending, Settling
  <1> QED
    BY <1>2, <1>3, <1>4, JobStep DEF Exists, IInv, TypeOK

LEMMA ReconcileWriteInv == ASSUME NEW w \in Workers, IInv, ReconcileWrite(w) PROVE IInv'
  <1>1. /\ worker[w] \in Processes /\ WorkerOK(w) /\ worker[w].seen # "none"
        /\ worker[w].pc = "reconcile" /\ UNCHANGED <<job, call, user, faults>>
    BY DEF IInv, TypeOK, ReconcileWrite
  <1>2. PICK r \in Runs : /\ r = RunOf(w) /\ worker[w].job \in Jobs /\ Exists(worker[w].job)
                          /\ Named(r) \/ \E j \in Resumes : job[j].run = r
    BY <1>1, WorkersRun
  <1>3. worker[w].seen \in RunStatuses /\ worker[w].seen # "COMPLETED"
    BY <1>1 DEF Processes, Closing, WorkerOK, RunStatuses, Final, Startable
  <1>4. Written(r)
    BY <1>2, <1>3, Completing DEF ReconcileWrite
  <1>5. /\ Kept /\ run' \in [Runs -> RunRows]
        /\ \A o \in Runs : UNCHANGED <<run[o], call[o]>> \/ (RunOK(o)' /\ CallOK(o)')
        /\ \A j \in Jobs : ~Exists(j) => JobOK(j)'
    BY <1>1, <1>2, <1>4, WriteFacts
  <1> DEFINE q == AfterReconcile({p \in worker[w].todo : p[1] # worker[w].job})
  <1>6. q \in Processes /\ q.todo \subseteq worker[w].todo /\ q.pc \in {"idle", "reconcile"}
        /\ q.seen = "none"
    BY <1>1 DEF AfterReconcile, Idle, At, Processes
  <1>7. worker' = [worker EXCEPT ![w] = q]
    BY DEF ReconcileWrite, IInv, TypeOK
  <1> HIDE DEF q
  <1>8. worker'[w] = q /\ (\A v \in Workers \ {w} : worker'[v] = worker[v]) /\ TypeOK'
    BY <1>1, <1>5, <1>6, <1>7 DEF IInv, TypeOK
  <1>9. WorkerOK(w)'
    BY <1>1, <1>6, <1>8
       DEF WorkerOK, Exists, Outcomes, InHand, Handling, Ending, Settling
  <1> QED
    BY <1>1, <1>5, <1>8, <1>9, Frame

-----------------------------------------------------------------------------
(* create().                                                               *)
LEMMA CreateRunInv == ASSUME NEW c \in Runs, IInv, CreateRun(c) PROVE IInv'
  <1>1. TypeOK /\ RunOK(c) /\ CallOK(c) /\ run[c] \in RunRows
        /\ UNCHANGED <<job, user, worker, faults>> /\ call[c] = "new"
    BY DEF IInv, TypeOK, CreateRun
  <1> DEFINE row == [run[c] EXCEPT !.status = "PENDING"]
  <1>2. /\ row \in RunRows /\ row.patch = run[c].patch /\ row.checkpoint = run[c].checkpoint
        /\ row.job = run[c].job /\ row.status = "PENDING"
    BY <1>1 DEF RunRows, RunStatuses, Startable
  <1>3. \/ call' = [call EXCEPT ![c] = "done"] /\ UNCHANGED run
        \/ run' = [run EXCEPT ![c] = row] /\ call' = [call EXCEPT ![c] = "submit"]
    BY DEF CreateRun
  <1> HIDE DEF row
  <1>4. TypeOK'
    BY <1>1, <1>2, <1>3 DEF TypeOK, InCreate
  <1>5. /\ \A q \in Runs \ {c} : UNCHANGED <<run[q], call[q]>>
        /\ Kept
    BY <1>1, <1>2, <1>3 DEF TypeOK, Kept, Exists, Approved
  <1>6. RunOK(c)' /\ CallOK(c)'
    BY <1>1, <1>2, <1>3
       DEF TypeOK, RunOK, CallOK, Exists, Named, Approved, InCreate
  <1>7. \A j \in Jobs : JobOK(j)'
    BY <1>1 DEF IInv, JobOK, Exists
  <1> QED
    BY <1>1, <1>4, <1>5, <1>6, <1>7, Frame

LEMMA SubmitRunInv == ASSUME NEW c \in Runs, IInv, SubmitRun(c) PROVE IInv'
  <1>1. TypeOK /\ RunOK(c) /\ UNCHANGED <<run, user, worker, faults>> /\ call[c] = "submit"
    BY DEF IInv, SubmitRun
  <1>2. PICK k \in Jobs : k = KeyOf[c] /\ k \in Keys /\ JobOK(k) /\ job[k] \in JobRows
    BY CallAssumption DEF IInv, TypeOK, Jobs
  <1>3. CASE Exists(k)
    <2>1. call' = [call EXCEPT ![c] = "duplicate"] /\ UNCHANGED job
      BY <1>2, <1>3 DEF SubmitRun, Exists
    <2>2. TypeOK' /\ Kept /\ \A q \in Runs \ {c} : UNCHANGED <<run[q], call[q]>>
      BY <1>1, <2>1 DEF TypeOK, InCreate, Kept, Exists, Approved
    <2>3. RunOK(c)' /\ CallOK(c)'
      BY <1>1, <2>1 DEF TypeOK, RunOK, CallOK, Exists, Named, Approved, InCreate
    <2>4. \A j \in Jobs : JobOK(j)'
      BY <2>1 DEF IInv, JobOK, Exists
    <2> QED
      BY <1>1, <2>2, <2>3, <2>4, Frame
  <1>4. CASE ~Exists(k)
    <2> DEFINE row == [job[k] EXCEPT !.status = "QUEUED", !.run = c]
    <2>1. row \in JobRows /\ row.status = "QUEUED" /\ row.run = c
      BY <1>2 DEF JobRows, JobStatuses, Waiting
    <2>2. job' = [job EXCEPT ![k] = row] /\ call' = [call EXCEPT ![c] = "bind"]
      BY <1>2, <1>4 DEF SubmitRun, Exists
    <2> HIDE DEF row
    <2>3. TypeOK'
      BY <1>1, <2>1, <2>2 DEF TypeOK, InCreate
    <2>4. job'[k] = row /\ (\A j \in Jobs \ {k} : job'[j] = job[j]) /\ call'[c] = "bind"
          /\ \A q \in Runs \ {c} : UNCHANGED <<run[q], call[q]>>
      BY <1>1, <2>2 DEF TypeOK
    <2>5. Kept
      BY <1>1, <1>4, <2>4 DEF Kept, Exists, Approved
    <2>6. JobOK(k)'
      BY <1>2, <2>1, <2>4 DEF JobOK, Exists
    <2>7. \A j \in Jobs : JobOK(j)'
      BY <2>4, <2>6 DEF IInv, JobOK, Exists
    <2>8. Named(c)' /\ CallOK(c)'
      BY <1>2, <2>1, <2>4 DEF Named, CallOK
    <2>9. RunOK(c)'
      <3>1. run[c].job \in Jobs \cup {NoJob} /\ (run[c].job # NoJob => Exists(run[c].job)')
        BY <1>1, <2>1, <2>4 DEF TypeOK, RunRows, RunOK, Exists
      <3> QED
        BY <1>1, <2>8, <3>1 DEF RunOK, Exists, Approved
    <2> QED
      BY <1>1, <2>3, <2>4, <2>5, <2>7, <2>8, <2>9, Frame
  <1> QED
    BY <1>3, <1>4

(* The ways a call ends: the Run closed, or left as it is by a dead call.  *)
LEMMA CallEndsInv ==
    ASSUME NEW c \in Runs, IInv, call[c] \in InCreate, UNCHANGED <<job, user, worker>>,
           faults' \in Nat,
           \/ \E s \in {"FAILED", "CANCELLED"} :
                 Complete(c, s) /\ call' = [call EXCEPT ![c] = "done"]
           \/ call' = [call EXCEPT ![c] = "dead"] /\ UNCHANGED run
    PROVE  IInv'
  <1>1. TypeOK /\ RunOK(c) /\ run[c] \in RunRows
    BY DEF IInv, TypeOK
  <1>2. \A j \in Jobs : JobOK(j)'
    BY DEF IInv, JobOK, Exists
  <1>3. CASE call' = [call EXCEPT ![c] = "dead"] /\ UNCHANGED run
    <2>1. TypeOK' /\ Kept /\ \A q \in Runs \ {c} : UNCHANGED <<run[q], call[q]>>
      BY <1>1, <1>3 DEF TypeOK, Kept, Exists, Approved
    <2>2. RunOK(c)' /\ CallOK(c)'
      BY <1>1, <1>3 DEF TypeOK, RunOK, CallOK, Exists, Named, Approved
    <2> QED
      BY <1>2, <2>1, <2>2, Frame
  <1>4. ASSUME NEW s \in {"FAILED", "CANCELLED"}, Complete(c, s),
               call' = [call EXCEPT ![c] = "done"]
        PROVE  IInv'
    <2> DEFINE row == [run[c] EXCEPT !.status = s, !.asked = FALSE]
    <2>1. /\ row \in RunRows /\ row.patch = run[c].patch /\ row.checkpoint = run[c].checkpoint
          /\ row.job = run[c].job /\ row.status = s
      BY <1>1 DEF RunRows, RunStatuses, Final
    <2>2. run' = [run EXCEPT ![c] = row]
      BY <1>1, <1>4 DEF Complete, TypeOK
    <2> HIDE DEF row
    <2>3. TypeOK' /\ Kept /\ \A q \in Runs \ {c} : UNCHANGED <<run[q], call[q]>>
      BY <1>1, <1>4, <2>1, <2>2 DEF TypeOK, Kept, Exists, Approved
    <2>4. RunOK(c)' /\ CallOK(c)'
      BY <1>1, <1>4, <2>1, <2>2 DEF TypeOK, RunOK, CallOK, Exists, Named, Approved, Final
    <2> QED
      BY <1>2, <2>3, <2>4, Frame
  <1> QED
    BY <1>3, <1>4

LEMMA BindInv == ASSUME NEW c \in Runs, IInv, Bind(c) PROVE IInv'
  <1>1. TypeOK /\ RunOK(c) /\ UNCHANGED <<job, user, worker, faults>> /\ Named(c)
        /\ call' = [call EXCEPT ![c] = "done"] /\ run[c] \in RunRows
    BY DEF IInv, TypeOK, Bind, CallOK
  <1>2. KeyOf[c] \in Jobs /\ JobOK(KeyOf[c])
    BY CallAssumption DEF IInv, Jobs
  <1>3. Exists(KeyOf[c])
    BY <1>1, <1>2, RunNullAssumption DEF JobOK, Named
  <1> DEFINE row == [run[c] EXCEPT !.job = KeyOf[c],
                                   !.status = IF @ \in Queueable THEN "QUEUED" ELSE @]
  <1>4. /\ row \in RunRows /\ row.patch = run[c].patch /\ row.job = KeyOf[c]
        /\ row.status \in {"QUEUED", run[c].status}
    BY <1>1, <1>2 DEF RunRows, RunStatuses, Startable
  <1>5. run' = [run EXCEPT ![c] = row]
    BY <1>1 DEF Bind, TypeOK
  <1> HIDE DEF row
  <1>6. TypeOK' /\ Kept /\ \A q \in Runs \ {c} : UNCHANGED <<run[q], call[q]>>
    BY <1>1, <1>4, <1>5 DEF TypeOK, Kept, Exists, Approved
  <1>7. RunOK(c)' /\ CallOK(c)'
    BY <1>1, <1>3, <1>4, <1>5 DEF TypeOK, RunOK, CallOK, Exists, Named, Approved
  <1>8. \A j \in Jobs : JobOK(j)'
    BY <1>1 DEF IInv, JobOK, Exists
  <1> QED
    BY <1>1, <1>6, <1>7, <1>8, Frame

LEMMA CallStepInv == ASSUME NEW c \in Runs, IInv, CallStep(c) PROVE IInv'
  <1>1. CASE SubmitFails(c) \/ CloseDuplicate(c) \/ CallDies(c)
    <2>1. call[c] \in InCreate /\ UNCHANGED <<job, user, worker>> /\ faults' \in Nat
      BY <1>1 DEF SubmitFails, CloseDuplicate, CallDies, InCreate, Fault, IInv, TypeOK
    <2> QED
      BY <1>1, <2>1, CallEndsInv DEF SubmitFails, CloseDuplicate, CallDies
  <1> QED
    BY <1>1, CreateRunInv, SubmitRunInv, BindInv DEF CallStep

-----------------------------------------------------------------------------
(* The other API calls.                                                    *)
LEMMA UserMoves ==
    ASSUME IInv, NEW u \in Users, NEW c \in Callers, user' = [user EXCEPT ![u] = c],
           UserOK(u)', UNCHANGED <<call, worker>>, faults' \in Nat,
           job' \in [Jobs -> JobRows], run' \in [Runs -> RunRows], Kept,
           \A j \in Jobs : ~Exists(j) => JobOK(j)',
           \A r \in Runs : UNCHANGED run[r] \/ RunOK(r)'
    PROVE  IInv'
  <1>1. TypeOK'
    BY DEF IInv, TypeOK
  <1>2. \A v \in Users : UNCHANGED user[v] \/ UserOK(v)'
    BY DEF IInv, TypeOK
  <1>3. \A r \in Runs : CallOK(r)'
    BY NamesStay DEF IInv, CallOK, Named
  <1> QED
    BY <1>1, <1>2, <1>3, Frame

LEMMA Nothing == IInv /\ UNCHANGED <<run, job>> => Kept /\ \A j \in Jobs : JobOK(j)'
  BY DEF Kept, IInv, JobOK, Exists, Approved

LEMMA UserFacts ==
    ASSUME IInv, NEW u \in Users
    PROVE  /\ user[u] \in Callers /\ UserOK(u) /\ user \in [Users -> Callers]
           /\ run \in [Runs -> RunRows] /\ job \in [Jobs -> JobRows] /\ faults \in Nat
  BY DEF IInv, TypeOK

LEMMA OnlyReads ==
    ASSUME NEW u \in Users, IInv, CancelReread(u) \/ Notify(u) \/ UserDies(u) PROVE IInv'
  <1>1. PICK c \in Callers :
           /\ user' = [user EXCEPT ![u] = c]
           /\ \/ c = NoCall
              \/ c.op \in {"cancel", "enqueue"} /\ c.run = user[u].run /\ user[u].op # "idle"
    <2>1. NoCall \in Callers
      BY DEF NoCall, Callers
    <2>2. CASE user' = [user EXCEPT ![u] = NoCall]
      BY <2>1, <2>2
    <2>3. ASSUME NEW o \in {"cancel", "enqueue"}, user[u].op # "idle",
                 user' = [user EXCEPT ![u] = [user[u] EXCEPT !.op = o]]
          PROVE  \E c \in Callers : /\ user' = [user EXCEPT ![u] = c]
                                    /\ c.op = o /\ c.run = user[u].run
      <3> DEFINE c == [user[u] EXCEPT !.op = o]
      <3>1. c \in Callers /\ c.op = o /\ c.run = user[u].run
        BY UserFacts DEF Callers
      <3> QED
        BY <2>3, <3>1
    <2>4. CASE CancelReread(u)
      <3>1. \/ user' = [user EXCEPT ![u] = [user[u] EXCEPT !.op = "cancel"]]
            \/ user' = [user EXCEPT ![u] = NoCall]
        BY <2>4, UserFacts DEF CancelReread
      <3> QED
        BY <2>2, <2>3, <2>4, <3>1 DEF CancelReread
    <2>5. CASE Notify(u)
      <3>1. \/ user' = [user EXCEPT ![u] = [user[u] EXCEPT !.op = "enqueue"]]
            \/ user' = [user EXCEPT ![u] = NoCall]
        BY <2>5, UserFacts DEF Notify
      <3> QED
        BY <2>2, <2>3, <2>5, <3>1 DEF Notify
    <2> QED
      BY <2>2, <2>4, <2>5 DEF UserDies
  <1>2. UNCHANGED <<run, job, call, worker>> /\ faults' \in Nat
    BY UserFacts DEF CancelReread, Notify, UserDies, Fault
  <1>3. user'[u] = c
    BY <1>1, UserFacts
  <1>4. UserOK(u)'
    BY <1>1, <1>3, UserFacts DEF UserOK, NoCall
  <1> QED
    BY <1>1, <1>2, <1>4, Nothing, UserFacts, UserMoves

LEMMA CancelJobInv ==
    ASSUME NEW u \in Users, NEW r \in Runs, IInv, CancelJob(u, r) PROVE IInv'
  <1> DEFINE c == [op |-> "reread", run |-> r, job |-> NoJob]
  <1>1. c \in Callers /\ user' = [user EXCEPT ![u] = c] /\ UNCHANGED <<run, call, worker, faults>>
    BY DEF CancelJob, Callers
  <1>2. user'[u] = c
    BY <1>1, UserFacts
  <1>3. UserOK(u)'
    BY <1>2 DEF UserOK
  <1>4. CASE run[r].job = NoJob
    <2>1. UNCHANGED job
      BY <1>4 DEF CancelJob
    <2> QED
      BY <1>1, <1>3, <2>1, Nothing, UserFacts, UserMoves
  <1>5. CASE run[r].job # NoJob
    <2>1. PICK j \in Jobs : j = run[r].job /\ Exists(j) /\ job[j] \in JobRows
      BY <1>5, UserFacts DEF IInv, RunOK, RunRows
    <2>2. PICK s \in JobStatuses \ {"ABSENT"} : s = Cancelled(j)
      BY <2>1 DEF Cancelled, JobStatuses, JobTerminal, Leased
    <2> DEFINE row == [job[j] EXCEPT !.status = s]
    <2>3. row \in JobRows /\ row.status = s /\ row.run = job[j].run
      BY <2>1 DEF JobRows
    <2>4. job' = [job EXCEPT ![j] = row]
      BY <1>5, <2>1, <2>2, UserFacts DEF CancelJob
    <2> HIDE DEF row
    <2>5. /\ job' \in [Jobs -> JobRows] /\ job'[j] = row
          /\ \A k \in Jobs \ {j} : job'[k] = job[k]
      BY <2>3, <2>4, UserFacts
    <2>6. Kept /\ \A k \in Jobs : ~Exists(k) => JobOK(k)'
      BY <1>1, <2>1, <2>3, <2>5 DEF Kept, Approved, IInv, JobOK, Exists
    <2> QED
      BY <1>1, <1>3, <2>5, <2>6, UserFacts, UserMoves
  <1> QED
    BY <1>4, <1>5

LEMMA CancelRunInv == ASSUME NEW u \in Users, IInv, CancelRun(u) PROVE IInv'
  <1>1. PICK r \in Runs : r = user[u].run
    BY UserFacts DEF CancelRun, UserOK
  <1> DEFINE row == [run[r] EXCEPT !.status = "CANCELLED", !.asked = FALSE]
  <1>2. /\ row \in RunRows /\ row.patch = run[r].patch /\ row.checkpoint = run[r].checkpoint
        /\ row.job = run[r].job /\ row.status = "CANCELLED"
    BY UserFacts DEF RunRows, RunStatuses, Final
  <1>3. run' = [run EXCEPT ![r] = row] /\ UNCHANGED <<job, call, worker, faults>>
    BY <1>1, UserFacts DEF CancelRun, Complete
  <1> HIDE DEF row
  <1>4. run' \in [Runs -> RunRows] /\ run'[r] = row /\ \A q \in Runs \ {r} : run'[q] = run[q]
    BY <1>2, <1>3, UserFacts
  <1>5. RunOK(r)'
    BY <1>2, <1>3, <1>4 DEF IInv, RunOK, Exists, Named, Approved, Final
  <1>6. Kept /\ \A j \in Jobs : JobOK(j)'
    BY <1>2, <1>3, <1>4 DEF Kept, Exists, Approved, IInv, JobOK
  <1>7. NoCall \in Callers /\ user' = [user EXCEPT ![u] = NoCall] /\ user'[u] = NoCall
    BY UserFacts DEF CancelRun, NoCall, Callers
  <1>8. UserOK(u)'
    BY <1>7 DEF UserOK, NoCall
  <1> QED
    BY <1>3, <1>4, <1>5, <1>6, <1>7, <1>8, UserFacts, UserMoves

(* Only a Run that its key's Job names has a patch, and a patch that is    *)
(* decided takes no other decision.                                        *)
LEMMA DecideInv ==
    ASSUME NEW u \in Users, NEW r \in Runs, NEW d \in Decided, IInv, Decide(u, r, d)
    PROVE  IInv'
  <1> DEFINE row == [run[r] EXCEPT !.patch = d]
             c == [op |-> "notify", run |-> r, job |-> NoJob]
  <1>1. /\ row \in RunRows /\ row.patch = d /\ row.checkpoint = run[r].checkpoint
        /\ row.job = run[r].job /\ row.status = run[r].status
    BY UserFacts DEF RunRows
  <1>2. /\ run' = [run EXCEPT ![r] = row] /\ UNCHANGED <<job, call, worker, faults>>
        /\ c \in Callers /\ user' = [user EXCEPT ![u] = c]
    BY DEF Decide, Callers
  <1> HIDE DEF row
  <1>3. run[r].patch # "none" /\ (Approved(r) => d = run[r].patch)
    BY DEF Decide, Decided, Approved
  <1>4. run' \in [Runs -> RunRows] /\ run'[r] = row /\ \A q \in Runs \ {r} : run'[q] = run[q]
    BY <1>1, <1>2, UserFacts
  <1>5. RunOK(r)'
    BY <1>1, <1>2, <1>3, <1>4 DEF IInv, RunOK, Exists, Named, Approved
  <1>6. Kept /\ \A j \in Jobs : JobOK(j)'
    BY <1>1, <1>2, <1>3, <1>4 DEF Kept, Exists, Approved, IInv, JobOK
  <1>7. user'[u] = c
    BY <1>2, UserFacts
  <1>8. UserOK(u)'
    BY <1>7 DEF UserOK
  <1> QED
    BY <1>2, <1>4, <1>5, <1>6, <1>8, UserFacts, UserMoves

LEMMA EnqueueInv ==
    ASSUME NEW u \in Users, NEW r \in Runs, NEW j \in Resumes, IInv, ~Exists(j),
           NEW why \in {"user", "approval"}, job' = Submitted(j, r, why),
           NEW c \in Callers, user' = [user EXCEPT ![u] = c], c.op = "queue", c.run = r, c.job = j,
           \/ UNCHANGED run
           \/ run' = [run EXCEPT ![r].asked = TRUE],
           UNCHANGED <<call, worker, faults>>
    PROVE  IInv'
  <1> DEFINE row == [job[j] EXCEPT !.status = "QUEUED", !.run = r, !.why = why]
  <1>1. j \in Jobs /\ j \notin Keys
    BY RunNullAssumption DEF Jobs
  <1>2. row \in JobRows /\ row.status = "QUEUED" /\ row.run = r
    <2>1. job[j] \in JobRows /\ "QUEUED" \in JobStatuses /\ why \in {"run", "user", "approval"}
      BY <1>1, UserFacts DEF JobStatuses, Waiting
    <2> QED
      BY <2>1 DEF JobRows
  <1>3. job' = [job EXCEPT ![j] = row]
    BY DEF Submitted
  <1> HIDE DEF row
  <1>4. job' \in [Jobs -> JobRows] /\ job'[j] = row /\ \A k \in Jobs \ {j} : job'[k] = job[k]
    BY <1>1, <1>2, <1>3, UserFacts
  <1>5. \A k \in Jobs : ~Exists(k) => JobOK(k)'
    BY <1>1, <1>2, <1>4 DEF IInv, JobOK, Exists
  <1>6. /\ run' \in [Runs -> RunRows] /\ \A q \in Runs \ {r} : run'[q] = run[q]
        /\ run'[r].job = run[r].job /\ run'[r].patch = run[r].patch
        /\ run'[r].checkpoint = run[r].checkpoint /\ run'[r].status = run[r].status
    <2>1. CASE UNCHANGED run
      BY <2>1, UserFacts
    <2>2. CASE run' = [run EXCEPT ![r].asked = TRUE]
      <3> DEFINE asked == [run[r] EXCEPT !.asked = TRUE]
      <3>1. /\ asked \in RunRows /\ asked.job = run[r].job /\ asked.patch = run[r].patch
            /\ asked.checkpoint = run[r].checkpoint /\ asked.status = run[r].status
        <4>1. run[r] \in RunRows
          BY UserFacts
        <4> QED
          BY <4>1 DEF RunRows
      <3>2. run' = [run EXCEPT ![r] = asked]
        BY <2>2, UserFacts
      <3> HIDE DEF asked
      <3> QED
        BY <3>1, <3>2, UserFacts
    <2> QED
      BY <2>1, <2>2
  <1>7. Kept
    BY <1>1, <1>4, <1>6 DEF Kept, Exists, Approved
  <1>8. RunOK(r)'
    <2>1. RunOK(r) /\ run[r].job \in Jobs \cup {NoJob}
      BY UserFacts DEF IInv, RunRows
    <2>2. run[r].job # NoJob => Exists(run[r].job)'
      BY <1>2, <1>4, <1>6, <2>1 DEF RunOK, Exists
    <2>3. Named(r) => Named(r)'
      BY <1>7, NamesStay DEF Named
    <2>4. job'[j].run = r
      BY <1>2, <1>4
    <2> QED
      BY <1>6, <2>1, <2>2, <2>3, <2>4 DEF RunOK, Exists, Approved
  <1>9. user'[u] = c
    BY UserFacts
  <1>10. UserOK(u)'
    BY <1>2, <1>4, <1>9 DEF UserOK, Exists
  <1> QED
    BY <1>4, <1>5, <1>6, <1>7, <1>8, <1>10, UserFacts, UserMoves

LEMMA EnqueueByUserInv ==
    ASSUME NEW u \in Users, NEW r \in Runs, NEW j \in Resumes, IInv, EnqueueByUser(u, r, j)
    PROVE  IInv'
  <1> DEFINE c == [op |-> "queue", run |-> r, job |-> j]
  <1>1. c \in Callers /\ user' = [user EXCEPT ![u] = c]
    BY DEF EnqueueByUser, Callers, Jobs
  <1>2. /\ job[j].status = "ABSENT" /\ ~Exists(j)
        /\ job' = Submitted(j, r, "user") /\ run' = [run EXCEPT ![r].asked = TRUE]
        /\ UNCHANGED <<call, worker, faults>>
    BY DEF EnqueueByUser, Exists
  <1> QED
    BY <1>1, <1>2, EnqueueInv DEF Exists

LEMMA EnqueueByApprovalInv ==
    ASSUME NEW u \in Users, NEW j \in Resumes, IInv, EnqueueByApproval(u, j) PROVE IInv'
  <1>1. PICK r \in Runs : r = user[u].run
    BY UserFacts DEF EnqueueByApproval, UserOK
  <1>2. ~Exists(j) /\ UNCHANGED <<run, call, worker, faults>>
    BY DEF EnqueueByApproval, Exists
  <1>3. CASE user' = [user EXCEPT ![u] = NoCall] /\ UNCHANGED job
    <2>1. NoCall \in Callers /\ user'[u] = NoCall
      BY <1>3, UserFacts DEF NoCall, Callers
    <2>2. UserOK(u)'
      BY <2>1 DEF UserOK, NoCall
    <2> QED
      BY <1>2, <1>3, <2>1, <2>2, Nothing, UserFacts, UserMoves
  <1>4. CASE /\ job' = Submitted(j, r, "approval")
             /\ user' = [user EXCEPT ![u].op = "queue", ![u].job = j]
    <2> DEFINE c == [user[u] EXCEPT !.op = "queue", !.job = j]
    <2>1. c \in Callers /\ c.op = "queue" /\ c.run = r /\ c.job = j
      BY <1>1, UserFacts DEF Callers, Jobs
    <2>2. user' = [user EXCEPT ![u] = c]
      BY <1>4, UserFacts
    <2> HIDE DEF c
    <2> QED
      BY <1>2, <1>4, <2>1, <2>2, EnqueueInv
  <1> QED
    BY <1>1, <1>3, <1>4 DEF EnqueueByApproval

LEMMA RequeueInv == ASSUME NEW u \in Users, IInv, Requeue(u) PROVE IInv'
  <1>1. PICK r \in Runs, j \in Resumes :
            r = user[u].run /\ j = user[u].job /\ Exists(j) /\ job[j].run = r
    BY UserFacts DEF Requeue, UserOK
  <1> DEFINE row == [run[r] EXCEPT !.status = "QUEUED", !.job = j]
  <1>2. /\ row \in RunRows /\ row.patch = run[r].patch /\ row.checkpoint = run[r].checkpoint
        /\ row.job = j /\ row.status = "QUEUED"
    BY UserFacts DEF RunRows, RunStatuses, Startable, Jobs
  <1>3. /\ UNCHANGED run \/ run' = [run EXCEPT ![r] = row]
        /\ UNCHANGED <<job, call, worker, faults>>
    BY <1>1, UserFacts DEF Requeue, QueueRun
  <1> HIDE DEF row
  <1>4. /\ run' \in [Runs -> RunRows] /\ \A q \in Runs \ {r} : run'[q] = run[q]
        /\ UNCHANGED run[r] \/ run'[r] = row
    BY <1>2, <1>3, UserFacts
  <1>5. UNCHANGED run[r] \/ RunOK(r)'
    BY <1>1, <1>2, <1>3, <1>4 DEF IInv, RunOK, Exists, Named, Approved
  <1>6. Kept /\ \A k \in Jobs : JobOK(k)'
    BY <1>2, <1>3, <1>4 DEF Kept, Exists, Approved, IInv, JobOK
  <1>7. NoCall \in Callers /\ user' = [user EXCEPT ![u] = NoCall] /\ user'[u] = NoCall
    BY UserFacts DEF Requeue, NoCall, Callers
  <1>8. UserOK(u)'
    BY <1>7 DEF UserOK, NoCall
  <1> QED
    BY <1>3, <1>4, <1>5, <1>6, <1>7, <1>8, UserFacts, UserMoves

-----------------------------------------------------------------------------
LEMMA NextInv == IInv /\ [Next]_vars => IInv'
  <1> SUFFICES ASSUME IInv, [Next]_vars PROVE IInv'
    OBVIOUS
  <1>1. ASSUME NEW u \in Users, UserStep(u) PROVE IInv'
    BY <1>1, OnlyReads, CancelJobInv, CancelRunInv, DecideInv, EnqueueByUserInv,
       EnqueueByApprovalInv, RequeueInv
       DEF UserStep, CancelStep, ResumeStep
  <1>2. ASSUME NEW w \in Workers, WorkerStep(w) PROVE IInv'
    <2>1. CASE FlowStep(w)
      BY <2>1, LocateInv, StartInv, PrepareInv, FlowWritesInv, FlowEndsInv, FlowCancelledInv
         DEF FlowStep
    <2>2. CASE HandlerStep(w)
      BY <2>2, PersistResultInv, ReadPatchInv, ProjectDecisionInv, ConfirmInv, HeartbeatFailsInv,
         VerifyInv, CatchInv, SettleInv
         DEF HandlerStep
    <2>3. CASE ReconcileStep(w)
      BY <2>3, ReconcileReadInv, ReconcileWriteInv DEF ReconcileStep
    <2> QED
      BY <1>2, <2>1, <2>2, <2>3, CrashInv, RestartInv, ClaimInv DEF WorkerStep
  <1>3. CASE UNCHANGED vars
    BY <1>3, Nothing, Frame DEF vars, IInv, TypeOK
  <1> QED
    BY <1>1, <1>2, <1>3, CallStepInv DEF Next

LEMMA Invariance == Spec => []IInv
  BY Initially, NextInv, PTL DEF Spec

(* A Run that drafts a patch is COMPLETED only after its patch was applied *)
(* or rejected (CrewAIBackend.resume, persist_result and _verify), on any  *)
(* interleaving of workers, users, recoveries, crashes and store failures. *)
THEOREM NoRunPassesItsHuman == Spec => []HumanGate
  <1>1. IInv => HumanGate
    BY CallAssumption DEF IInv, RunOK, HumanGate, Approved
  <1> QED
    BY <1>1, Invariance, PTL

(* Of the Runs created under one idempotency key only the one that the Job *)
(* of the key names is worked on; the others are closed, or their call is  *)
(* still going on or dead, or a user resumed them (create and              *)
(* _mark_duplicate_run_cancelled).                                         *)
THEOREM OneRunOfAKey == Spec => []OneRunPerKey
  <1>1. IInv => OneRunPerKey
    BY DEF IInv, RunOK, OneRunPerKey, Named
  <1> QED
    BY <1>1, Invariance, PTL

-----------------------------------------------------------------------------
(* A RUNNING Run is watched, while no live worker misses the stale window. *)

(* What the API calls do: no Run becomes RUNNING, a leased Job stays       *)
(* leased, and a Job that sweeps look for stays one.                       *)
Quiet == /\ UNCHANGED worker
         /\ \A r \in Runs : run'[r].status = "RUNNING" => run[r].status = "RUNNING"
         /\ \A j \in Jobs : Exists(j) =>
               /\ job'[j].run = job[j].run /\ job'[j].owner = job[j].owner
               /\ job[j].status \in Leased => job'[j].status \in Leased
               /\ job[j].status \in Moving => job'[j].status \in Moving

LEMMA InHandFacts ==
    ASSUME IInv, NEW w \in Workers, worker[w].pc \in InHand
    PROVE  /\ worker[w].job \in Jobs /\ Exists(worker[w].job) /\ RunOf(w) \in Runs
           /\ worker[w].pc \notin {"down", "idle", "reconcile"}
  BY WorkersRun DEF InHand, Handling, Ending, Settling

LEMMA Apart == /\ \A s : s \in Leased \cup Moving => s # "ABSENT"
               /\ \A s \in Leased : s \notin Moving /\ s \notin Waiting
               /\ Settling \subseteq InHand
  BY DEF Leased, Moving, Waiting, Settling, InHand

LEMMA QuietWatch == ASSUME IInv, WatchInv, Quiet PROVE WatchInv'
  <1>1. ASSUME NEW w \in Workers PROVE LeaseKept(w)'
    BY InHandFacts DEF Quiet, LeaseKept, WatchInv
  <1>2. ASSUME NEW j \in Jobs, Responsible(j) PROVE Responsible(j)' /\ job'[j].run = job[j].run
    <2>1. Exists(j)
      BY <1>2, Apart DEF Responsible, Exists
    <2> QED
      BY <1>2, <2>1 DEF Quiet, Responsible, Sweeps
  <1> QED
    BY <1>1, <1>2 DEF WatchInv, Quiet

LEMMA CallsQuiet == ASSUME IInv, NEW c \in Runs, CallStep(c) PROVE Quiet
  <1>1. /\ run \in [Runs -> RunRows] /\ job \in [Jobs -> JobRows]
        /\ KeyOf[c] \in Jobs /\ JobOK(KeyOf[c])
    BY CallAssumption DEF IInv, TypeOK, Jobs
  <1>2. CASE SubmitRun(c)
    <2>1. UNCHANGED <<run, worker>>
      BY <1>2 DEF SubmitRun
    <2>2. \A j \in Jobs : Exists(j) => job'[j] = job[j]
      BY <1>1, <1>2 DEF SubmitRun, Exists
    <2> QED
      BY <2>1, <2>2 DEF Quiet
  <1>3. CASE CreateRun(c) \/ Bind(c)
    BY <1>1, <1>3 DEF CreateRun, Bind, Quiet, RunRows
  <1>4. CASE SubmitFails(c) \/ CloseDuplicate(c) \/ CallDies(c)
    BY <1>1, <1>4 DEF SubmitFails, CloseDuplicate, CallDies, Complete, Quiet, RunRows
  <1> QED
    BY <1>2, <1>3, <1>4 DEF CallStep

LEMMA UsersQuiet == ASSUME IInv, NEW u \in Users, UserStep(u) PROVE Quiet
  <1>1. CASE CancelReread(u) \/ Notify(u) \/ UserDies(u)
    BY <1>1 DEF CancelReread, Notify, UserDies, Quiet
  <1>2. CASE CancelRun(u) \/ Requeue(u) \/ \E r \in Runs, d \in Decided : Decide(u, r, d)
    <2>1. UNCHANGED <<job, worker>>
      BY <1>2 DEF CancelRun, Requeue, Decide
    <2>2. \A r \in Runs : run'[r].status = "RUNNING" => run[r].status = "RUNNING"
      BY <1>2, UserFacts DEF CancelRun, Requeue, Decide, Complete, QueueRun, RunRows
    <2> QED
      BY <2>1, <2>2 DEF Quiet
  <1>3. ASSUME NEW j \in Resumes, EnqueueByApproval(u, j) \/ \E r \in Runs : EnqueueByUser(u, r, j)
        PROVE  Quiet
    <2>1. UNCHANGED worker /\ ~Exists(j) /\ j \in Jobs
      BY <1>3 DEF EnqueueByApproval, EnqueueByUser, Exists, Jobs
    <2>2. \A r \in Runs : run'[r].status = run[r].status
      BY <1>3, UserFacts DEF EnqueueByApproval, EnqueueByUser, RunRows
    <2>3. \A k \in Jobs : Exists(k) => job'[k] = job[k]
      BY <1>3, <2>1, UserFacts DEF EnqueueByApproval, EnqueueByUser, Submitted
    <2> QED
      BY <2>1, <2>2, <2>3 DEF Quiet
  <1>4. ASSUME NEW r \in Runs, CancelJob(u, r) PROVE Quiet
    <2>1. UNCHANGED <<run, worker>>
      BY <1>4 DEF CancelJob
    <2>2. CASE run[r].job = NoJob
      BY <1>4, <2>1, <2>2 DEF CancelJob, Quiet
    <2>3. CASE run[r].job # NoJob
      <3>1. PICK j \in Jobs : j = run[r].job /\ job[j] \in JobRows
        BY <2>3, UserFacts DEF RunRows
      <3>2. job' = [job EXCEPT ![j].status = Cancelled(j)]
        BY <1>4, <2>3, <3>1 DEF CancelJob
      <3>3. /\ job[j].status \in Leased => Cancelled(j) \in Leased
            /\ job[j].status \in Moving => Cancelled(j) \in Moving
        BY DEF Cancelled, Leased, Moving, JobTerminal
      <3>4. /\ job'[j].status = Cancelled(j) /\ job'[j].run = job[j].run
            /\ job'[j].owner = job[j].owner /\ \A k \in Jobs \ {j} : job'[k] = job[k]
        BY <3>1, <3>2, UserFacts DEF JobRows
      <3> QED
        BY <2>1, <3>3, <3>4 DEF Quiet
    <2> QED
      BY <2>2, <2>3
  <1> QED
    BY <1>1, <1>2, <1>3, <1>4 DEF UserStep, CancelStep, ResumeStep

(* A handler goes on: it may start its own Run, and has closed it before   *)
(* it settles its Job.                                                     *)
LEMMA HandlerWatch ==
    ASSUME IInv, WatchInv, NEW w \in Workers, worker[w].pc \in InHand,
           NEW l \in InHand, NEW s, Choose(w, l, s), UNCHANGED job,
           \A r \in Runs : run'[r].status = "RUNNING" => run[r].status = "RUNNING" \/ r = RunOf(w),
           l \in Settling => run'[RunOf(w)].status # "RUNNING"
    PROVE  WatchInv'
  <1>1. worker \in [Workers -> Processes] /\ worker[w] \in Processes
    BY DEF IInv, TypeOK
  <1>2. /\ worker'[w].pc = l /\ worker'[w].job = worker[w].job /\ worker'[w].todo = worker[w].todo
        /\ \A v \in Workers \ {w} : worker'[v] = worker[v]
    BY <1>1 DEF Choose, Processes
  <1>3. LeaseKept(w) /\ worker[w].pc # "down" /\ worker[w].job \in Jobs /\ RunOf(w) \in Runs
    BY InHandFacts DEF WatchInv
  <1>4. ASSUME NEW v \in Workers PROVE LeaseKept(v)'
    BY <1>2, <1>3 DEF WatchInv, LeaseKept
  <1>5. ASSUME NEW r \in Runs, run'[r].status = "RUNNING"
        PROVE  \E j \in Jobs : job'[j].run = r /\ Responsible(j)'
    <2>1. CASE r = RunOf(w)
      <3>1. l \notin Settling
        BY <1>5, <2>1
      <3>2. PICK j \in Jobs : j = worker[w].job /\ job[j].run = r
        BY <1>3, <2>1 DEF RunOf
      <3>3. Responsible(j)' /\ job'[j].run = r
        BY <1>2, <1>3, <3>1, <3>2 DEF LeaseKept, Responsible
      <3> QED
        BY <3>3
    <2>2. CASE r # RunOf(w)
      <3>1. PICK j \in Jobs : job[j].run = r /\ Responsible(j)
        BY <1>5, <2>2 DEF WatchInv
      <3>2. j # worker[w].job
        BY <2>2, <3>1 DEF RunOf
      <3>3. ~Sweeps(w, j)
        BY <1>3 DEF LeaseKept, Sweeps
      <3>4. Responsible(j)'
        BY <1>2, <3>1, <3>2, <3>3 DEF Responsible, Sweeps
      <3> QED
        BY <3>1, <3>4
    <2> QED
      BY <2>1, <2>2
  <1> QED
    BY <1>4, <1>5 DEF WatchInv

LEMMA FlowWatch == ASSUME IInv, WatchInv, NEW w \in Workers, FlowStep(w) PROVE WatchInv'
  <1>1. run \in [Runs -> RunRows] /\ UNCHANGED job
    BY DEF IInv, TypeOK, FlowStep, Locate, Start, Prepare, SaveCheckpoint, Propose, FlowEnds,
           FlowCancelled
  <1>2. CASE SaveCheckpoint(w) \/ Propose(w)
    <2>1. Quiet
      BY <1>1, <1>2 DEF SaveCheckpoint, Propose, Quiet, RunRows
    <2> QED
      BY <2>1, QuietWatch
  <1>3. CASE Locate(w)
    <2>1. worker[w].pc \in InHand /\ UNCHANGED run
      BY <1>3, Places DEF Locate
    <2>2. PICK l \in {"returned", "start", "prepare", "resume"} :
             Goto(w, l) /\ (l = "returned" => run[RunOf(w)].status # "RUNNING")
      BY <1>3 DEF Locate, Final
    <2> QED
      BY <1>1, <2>1, <2>2, HandlerWatch, Places DEF Goto, Settling
  <1>4. CASE Start(w) \/ Prepare(w)
    <2>1. worker[w].pc \in InHand
      BY <1>4, Places DEF Start, Prepare
    <2>2. PICK l \in {"prepare", "resume", "raised", "work"} : Goto(w, l)
      BY <1>4 DEF Start, Prepare
    <2>3. \A r \in Runs : run'[r].status = "RUNNING" => run[r].status = "RUNNING" \/ r = RunOf(w)
      BY <1>1, <1>4 DEF Start, Prepare, StartRun
    <2> QED
      BY <1>1, <2>1, <2>2, <2>3, HandlerWatch, Places DEF Goto, Settling
  <1>5. CASE FlowEnds(w) \/ FlowCancelled(w)
    <2>1. worker[w].pc \in InHand /\ UNCHANGED run
      BY <1>5, Places DEF FlowEnds, FlowCancelled
    <2>2. PICK l \in {"persist", "cancelled"}, s \in Closing \cup {"none"} : Choose(w, l, s)
      BY <1>5, Places DEF FlowEnds, FlowCancelled, Goto
    <2>3. l \in InHand /\ l \notin Settling
      BY <2>2, Places DEF Settling, Outcomes
    <2> QED
      BY <1>1, <2>1, <2>2, <2>3, HandlerWatch
  <1> QED
    BY <1>2, <1>3, <1>4, <1>5 DEF FlowStep

LEMMA HandlerStepWatch ==
    ASSUME IInv, WatchInv, NEW w \in Workers, HandlerStep(w), ~Settle(w) PROVE WatchInv'
  <1>1. run \in [Runs -> RunRows] /\ UNCHANGED job
    BY DEF IInv, TypeOK, HandlerStep, PersistResult, ReadPatch, ProjectDecision, Confirm,
           HeartbeatFails, Verify, CatchCancelled, CatchException
  <1>2. worker[w].pc \in InHand /\ (worker[w].pc \in Outcomes => worker[w].seen \in Closing)
    BY Places DEF IInv, WorkerOK, HandlerStep, PersistResult, ReadPatch, ProjectDecision, Confirm,
                  HeartbeatFails, Verify, CatchCancelled, CatchException, Outcomes
  <1>3. RunOf(w) \in Runs
    BY <1>2, InHandFacts
  <1>4. CASE PersistResult(w) \/ ProjectDecision(w)
    <2>1. \A r \in Runs : run'[r].status = "RUNNING" => run[r].status = "RUNNING"
      <3>1. CASE PersistResult(w)
        BY <1>1, <1>2, <3>1 DEF PersistResult, Complete, RunRows, Outcomes, Closing
      <3>2. CASE ProjectDecision(w)
        BY <1>1, <1>2, <3>2 DEF ProjectDecision, Complete, RunRows, Outcomes, Closing
      <3>. QED  BY <1>4, <3>1, <3>2
    <2>2. PICK l, s : l \in {"confirm", "persist", "raised"} /\ Choose(w, l, s)
      BY <1>4 DEF PersistResult, ProjectDecision, Carry, Goto
    <2>3. l \in InHand /\ l \notin Settling
      BY <2>2, Places DEF Settling, Outcomes
    <2> QED
      BY <1>1, <1>2, <2>1, <2>2, <2>3, HandlerWatch
  <1>5. CASE ReadPatch(w) \/ Confirm(w) \/ HeartbeatFails(w)
    <2>1. UNCHANGED run
      BY <1>5 DEF ReadPatch, Confirm, HeartbeatFails
    <2>2. PICK l, s : l \in {"prepare", "raised", "project", "cancelled", "verify"} /\ Choose(w, l, s)
      BY <1>5 DEF ReadPatch, Confirm, HeartbeatFails, Carry, Goto
    <2>3. l \in InHand /\ l \notin Settling
      BY <2>2, Places DEF Settling, Outcomes
    <2> QED
      BY <1>1, <1>2, <2>1, <2>2, <2>3, HandlerWatch
  <1>6. CASE Verify(w)
    <2>1. worker[w].seen # "RUNNING"
      BY <1>2, <1>6 DEF Verify, Outcomes, Closing
    <2>2. /\ \A r \in Runs : run'[r].status = "RUNNING" => run[r].status = "RUNNING"
          /\ run'[RunOf(w)].status # "RUNNING"
      BY <1>1, <1>3, <1>6, <2>1 DEF Verify, Complete, RunRows
    <2> QED
      BY <1>1, <1>2, <1>6, <2>2, HandlerWatch, Places DEF Verify, Goto
  <1>7. CASE CatchCancelled(w) \/ CatchException(w)
    <2>1. /\ \A r \in Runs : run'[r].status = "RUNNING" => run[r].status = "RUNNING"
          /\ run'[RunOf(w)].status # "RUNNING"
      BY <1>1, <1>3, <1>7 DEF CatchCancelled, CatchException, Complete, RunRows
    <2>2. PICK l \in {"abandon", "retry"} : Goto(w, l)
      BY <1>7 DEF CatchCancelled, CatchException
    <2> QED
      BY <1>1, <1>2, <2>1, <2>2, HandlerWatch, Places DEF Goto
  <1> QED
    BY <1>4, <1>5, <1>6, <1>7 DEF HandlerStep

LEMMA ClaimWatch ==
    ASSUME IInv, WatchInv, NEW w \in Workers, NEW j \in Jobs, Claim(w, j) PROVE WatchInv'
  <1>1. job \in [Jobs -> JobRows] /\ worker \in [Workers -> Processes] /\ UNCHANGED run
    BY DEF IInv, TypeOK, Claim
  <1>2. /\ worker[w] = Idle /\ worker'[w] = At("locate", j, "none", {})
        /\ \A v \in Workers \ {w} : worker'[v] = worker[v]
    BY <1>1 DEF Claim
  <1>3. /\ job[j].status \in Waiting /\ job'[j].status = "RUNNING" /\ job'[j].owner = w
        /\ job'[j].run = job[j].run /\ \A k \in Jobs \ {j} : job'[k] = job[k]
    BY <1>1 DEF Claim, JobRows
  <1>4. "RUNNING" \in Leased /\ "locate" \notin Settling
    BY DEF Leased, Settling
  <1>5. ASSUME NEW v \in Workers PROVE LeaseKept(v)'
    <2>1. CASE v = w
      BY <1>2, <1>3, <1>4, <2>1 DEF LeaseKept, At
    <2>2. CASE v # w
      BY <1>2, <1>3, <2>2, InHandFacts, Apart DEF LeaseKept, WatchInv
    <2> QED
      BY <2>1, <2>2
  <1>6. Responsible(j)'
    BY <1>2, <1>3, <1>4 DEF Responsible, At
  <1>7. ASSUME NEW k \in Jobs \ {j}, Responsible(k) PROVE Responsible(k)' /\ job'[k].run = job[k].run
    BY <1>2, <1>3, <1>4, <1>7 DEF Responsible, Sweeps, At, Idle
  <1> QED
    BY <1>1, <1>3, <1>5, <1>6, <1>7 DEF WatchInv

(* The Job that is settled was not responsible for a RUNNING Run any more. *)
LEMMA SettleWatch == ASSUME IInv, WatchInv, NEW w \in Workers, Settle(w) PROVE WatchInv'
  <1>1. job \in [Jobs -> JobRows] /\ worker \in [Workers -> Processes] /\ UNCHANGED run
    BY DEF IInv, TypeOK, Settle
  <1>2. worker[w].pc \in Settling /\ worker[w].pc \in InHand
    BY Apart DEF Settle
  <1>3. PICK j \in Jobs : /\ j = worker[w].job /\ job[j].owner = w /\ job[j].status \in Leased
                          /\ worker[w].todo = {} /\ worker[w].pc # "down"
    BY <1>2, InHandFacts DEF WatchInv, LeaseKept
  <1>4. \A k \in Jobs \ {j} : job'[k] = job[k]
    BY <1>1, <1>3 DEF Settle
  <1>5. worker'[w].pc = "reconcile" /\ \A v \in Workers \ {w} : worker'[v] = worker[v]
    BY <1>1 DEF Settle, At
  <1>6. "reconcile" \notin InHand /\ "reconcile" \notin Settling
    BY DEF InHand, Handling, Ending, Settling
  <1>7. ASSUME NEW v \in Workers PROVE LeaseKept(v)'
    <2>1. CASE v = w
      BY <1>5, <1>6, <2>1 DEF LeaseKept
    <2>2. CASE v # w
      BY <1>3, <1>4, <1>5, <2>2, InHandFacts DEF LeaseKept, WatchInv
    <2> QED
      BY <2>1, <2>2
  <1>8. ~Responsible(j)
    BY <1>2, <1>3, Apart DEF Responsible
  <1>9. ASSUME NEW k \in Jobs \ {j}, Responsible(k) PROVE Responsible(k)' /\ job'[k].run = job[k].run
    BY <1>3, <1>4, <1>5, <1>6, <1>9 DEF Responsible, Sweeps
  <1> QED
    BY <1>1, <1>7, <1>8, <1>9 DEF WatchInv

LEMMA CrashWatch == ASSUME IInv, WatchInv, NEW w \in Workers, Crash(w) PROVE WatchInv'
  <1>1. /\ worker'[w] = Down /\ UNCHANGED <<run, job>>
        /\ \A v \in Workers \ {w} : worker'[v] = worker[v]
    BY DEF IInv, TypeOK, Crash
  <1>2. "down" \notin InHand /\ "down" \notin Settling
    BY DEF InHand, Handling, Ending, Settling
  <1>3. ASSUME NEW v \in Workers PROVE LeaseKept(v)'
    BY <1>1, <1>2 DEF LeaseKept, WatchInv, Down, At
  <1>4. ASSUME NEW k \in Jobs, Responsible(k) PROVE Responsible(k)'
    <2>1. \A v \in Workers : Sweeps(v, k) => Sweeps(v, k)'
      BY <1>1 DEF Sweeps, Down, At
    <2> QED
      BY <1>1, <1>2, <1>4, <2>1 DEF Responsible, Down, At
  <1> QED
    BY <1>1, <1>3, <1>4 DEF WatchInv

(* The next process of a worker recovers some of the leases nobody holds   *)
(* and lists every Job that it, or one before it, took the lease from.     *)
LEMMA RestartWatch ==
    ASSUME StallsPossible = FALSE, IInv, WatchInv, NEW w \in Workers, Restart(w) PROVE WatchInv'
  <1>1. PICK S \in SUBSET {j \in Jobs : job[j].status \in Leased} :
           /\ \A j \in S : ~Held(j)
           /\ job' = [j \in Jobs |-> IF j \in S THEN Recovered(j) ELSE job[j]]
           /\ worker' = [worker EXCEPT ![w] = AfterReconcile(
                {<<j, job'[j].status>> : j \in {k \in Jobs : job'[k].status \in Moving}})]
    <2> DEFINE after(S) == [j \in Jobs |-> IF j \in S THEN Recovered(j) ELSE job[j]]
    <2>1. PICK S \in SUBSET {j \in Jobs : job[j].status \in Leased} :
             /\ \A j \in S : Held(j) => StallsPossible
             /\ job' = after(S)
             /\ worker' = [worker EXCEPT ![w] = AfterReconcile(
                  {<<j, after(S)[j].status>> : j \in {k \in Jobs : after(S)[k].status \in Moving}})]
      BY ZenonT(30) DEF Restart
    <2>2. worker' = [worker EXCEPT ![w] = AfterReconcile(
                {<<j, job'[j].status>> : j \in {k \in Jobs : job'[k].status \in Moving}})]
      BY <2>1
    <2> QED
      BY <2>1, <2>2
  <1> DEFINE T == {<<j, job'[j].status>> : j \in {k \in Jobs : job'[k].status \in Moving}}
  <1>2. job \in [Jobs -> JobRows] /\ worker \in [Workers -> Processes] /\ UNCHANGED run
        /\ worker[w].pc = "down"
    BY DEF IInv, TypeOK, Restart
  <1>3. \A j \in S : Recovered(j).run = job[j].run /\ Recovered(j).status \in Moving
    BY <1>2 DEF Recovered, JobRows, Moving
  <1>4. /\ worker'[w].todo = T /\ worker'[w].pc \in {"idle", "reconcile"}
        /\ \A v \in Workers \ {w} : worker'[v] = worker[v]
    BY <1>1, <1>2 DEF AfterReconcile, Idle, At
  <1>5. ASSUME NEW j \in Jobs, job'[j].status \in Moving
        PROVE  \E p \in T : p[1] = j /\ p[2] \in Moving
    <2>1. <<j, job'[j].status>> \in T
      BY <1>5
    <2> QED
      BY <1>5, <2>1
  <1> HIDE DEF T
  <1>6. worker'[w].pc \notin InHand
    BY <1>4 DEF InHand, Handling, Ending, Settling
  <1>7. ASSUME NEW v \in Workers PROVE LeaseKept(v)'
    <2>1. CASE v = w
      BY <1>6, <2>1 DEF LeaseKept
    <2>2. CASE v # w /\ worker[v].pc \in InHand
      <3>1. LeaseKept(v) /\ worker[v].job \in Jobs
        BY <2>2, InHandFacts DEF WatchInv
      <3>2. Held(worker[v].job)
        BY <2>2, <3>1 DEF Held, LeaseKept, InHand
      <3>3. job'[worker[v].job] = job[worker[v].job]
        BY <1>1, <3>1, <3>2
      <3> QED
        BY <1>4, <2>2, <3>1, <3>3 DEF LeaseKept
    <2> QED
      BY <1>4, <2>1, <2>2 DEF LeaseKept
  <1>8. ASSUME NEW k \in Jobs, Responsible(k) PROVE Responsible(k)' /\ job'[k].run = job[k].run
    <2>1. CASE k \in S
      <3>1. job'[k].status \in Moving /\ job'[k].run = job[k].run
        BY <1>1, <1>3, <2>1
      <3>2. Sweeps(w, k)'
        BY <1>4, <1>5, <3>1 DEF Sweeps
      <3> QED
        BY <3>1, <3>2 DEF Responsible
    <2>2. CASE k \notin S /\ job[k].status \in Moving
      <3>1. job'[k] = job[k]
        BY <1>1, <2>2
      <3>2. Sweeps(w, k)'
        BY <1>4, <1>5, <2>2, <3>1 DEF Sweeps
      <3> QED
        BY <2>2, <3>1, <3>2 DEF Responsible
    <2>3. CASE k \notin S /\ job[k].status \notin Moving
      <3>1. job'[k] = job[k]
        BY <1>1, <2>3
      <3> QED
        BY <1>4, <1>6, <1>8, <2>3, <3>1, Apart DEF Responsible
    <2> QED
      BY <2>1, <2>2, <2>3
  <1> QED
    BY <1>2, <1>7, <1>8 DEF WatchInv

(* A sweep drops a Job from its list only when it can move no RUNNING Run, *)
(* or after it has closed that Run.                                        *)
LEMMA ReconcileWatch ==
    ASSUME IInv, WatchInv, NEW w \in Workers, ReconcileStep(w) PROVE WatchInv'
  <1>1. /\ run \in [Runs -> RunRows] /\ worker \in [Workers -> Processes] /\ UNCHANGED job
        /\ worker[w].pc = "reconcile"
    BY DEF IInv, TypeOK, ReconcileStep, ReconcileRead, ReconcileWrite
  <1>2. worker'[w].pc \in {"idle", "reconcile"} /\ \A v \in Workers \ {w} : worker'[v] = worker[v]
    BY <1>1 DEF ReconcileStep, ReconcileRead, ReconcileWrite, AfterReconcile, Idle, At
  <1>3. worker'[w].pc \notin InHand /\ worker'[w].pc \notin Settling
    BY <1>2 DEF InHand, Handling, Ending, Settling
  <1>4. \A v \in Workers : LeaseKept(v)'
    BY <1>1, <1>2, <1>3 DEF LeaseKept, WatchInv
  <1>5. ASSUME NEW r \in Runs, run'[r].status = "RUNNING"
        PROVE  /\ run[r].status = "RUNNING"
               /\ \A j \in Jobs : job[j].run = r /\ Sweeps(w, j) => Sweeps(w, j)'
    <2>1. CASE ReconcileWrite(w)
      <3>1. /\ worker[w].seen # "RUNNING" /\ worker[w].job \in Jobs /\ RunOf(w) \in Runs
            /\ Complete(RunOf(w), worker[w].seen)
        BY <1>1, <2>1, WorkersRun DEF ReconcileWrite, Processes, Closing
      <3>2. r # RunOf(w) /\ run[r].status = "RUNNING"
        BY <1>1, <1>5, <3>1 DEF Complete, RunRows
      <3>3. worker'[w].todo = {p \in worker[w].todo : p[1] # worker[w].job}
        BY <1>1, <2>1 DEF ReconcileWrite, AfterReconcile, Idle, At
      <3> QED
        BY <1>1, <3>2, <3>3 DEF Sweeps, RunOf
    <2>2. ASSUME NEW p \in worker[w].todo, ReconcileRead(w, p)
          PROVE  /\ run[r].status = "RUNNING"
                 /\ \A j \in Jobs : job[j].run = r /\ Sweeps(w, j) => Sweeps(w, j)'
      <3>1. run[r].status = "RUNNING"
        BY <1>5, <2>2 DEF ReconcileRead
      <3>2. \/ worker'[w].todo = worker[w].todo
            \/ worker'[w].todo = worker[w].todo \ {p} /\ Target(p[2], job[p[1]].run) = "none"
        BY <1>1, <2>2 DEF ReconcileRead, AfterReconcile, Idle, At
      <3>3. job[p[1]].run = r /\ p[2] \in Moving => Target(p[2], job[p[1]].run) # "none"
        BY <3>1 DEF Target, Moving, Final
      <3> QED
        BY <1>1, <3>1, <3>2, <3>3 DEF Sweeps
    <2> QED
      BY <2>1, <2>2 DEF ReconcileStep
  <1>6. ASSUME NEW r \in Runs, run'[r].status = "RUNNING"
        PROVE  \E j \in Jobs : job'[j].run = r /\ Responsible(j)'
    <2>1. PICK j \in Jobs : job[j].run = r /\ Responsible(j)
      BY <1>5, <1>6 DEF WatchInv
    <2>2. \A v \in Workers : Sweeps(v, j) => Sweeps(v, j)'
      BY <1>2, <1>5, <1>6, <2>1 DEF Sweeps
    <2>3. Responsible(j)'
      BY <1>1, <1>2, <1>3, <2>1, <2>2 DEF Responsible
    <2>4. job'[j].run = r
      BY <1>1, <2>1
    <2> QED
      BY <2>3, <2>4
  <1> QED
    BY <1>4, <1>6 DEF WatchInv

LEMMA WatchNext ==
    ASSUME StallsPossible = FALSE, IInv, WatchInv, [Next]_vars PROVE WatchInv'
  <1>1. CASE UNCHANGED vars
    BY <1>1, QuietWatch DEF vars, Quiet
  <1>2. ASSUME NEW w \in Workers, WorkerStep(w) PROVE WatchInv'
    BY <1>2, FlowWatch, HandlerStepWatch, SettleWatch, ReconcileWatch, CrashWatch, RestartWatch,
       ClaimWatch
       DEF WorkerStep
  <1> QED
    BY <1>1, <1>2, CallsQuiet, UsersQuiet, QuietWatch DEF Next

(* Without stalls a Run is RUNNING only while one of its Jobs is leased or *)
(* in a worker's hands, or is on the list of a sweep or of a process still *)
(* to start, whatever dies and whichever store refuses a write (start_run, *)
(* run_once, recover_stale_running and reconcile_jobs).                    *)
THEOREM RunningRunsAreWatched ==
    ASSUME StallsPossible = FALSE PROVE Spec => []RunningIsWatched
  <1>1. Init => WatchInv
    BY DEF Init, WatchInv, LeaseKept, Down, At, AbsentRun, InHand, Handling, Ending, Settling
  <1>2. IInv /\ WatchInv /\ [Next]_vars => WatchInv'
    BY WatchNext
  <1>3. WatchInv => RunningIsWatched
    BY DEF WatchInv, RunningIsWatched, Responsible, Sweeps, Answers
  <1> QED
    BY <1>1, <1>2, <1>3, Invariance, PTL DEF Spec
=============================================================================
