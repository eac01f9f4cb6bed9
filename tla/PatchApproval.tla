--------------------------- MODULE PatchApproval ---------------------------
(***************************************************************************)
(* The human decision on a draft patch and the guarded write it causes:    *)
(* app/scholar/approval/service.py over the project database               *)
(* (app/scholar/project.py), the section file (app/scholar/manuscript.py)  *)
(* and references.bib (app/scholar/citation/bibliography.py), with the     *)
(* build reports of app/scholar/approval/build.py and an editor that saves *)
(* both files whenever it likes.                                           *)
(*                                                                         *)
(* A request is one call of approve() in an API thread or a CLI process.   *)
(* Each file operation and each SQLite transaction is one action, so that  *)
(* a process may die, and the editor may save, between any two of them.    *)
(*                                                                         *)
(* A hash is its content.  The content of the section is the text as it    *)
(* was, a text the user saved, or the text of a patch, named by the patch. *)
(* The bibliography is the set of works it has an entry for; which key a   *)
(* work goes by, and the citation rewriting that follows from it, is left  *)
(* out.  One section is enough: the guards compare no two of them.         *)
(***************************************************************************)
EXTENDS Naturals, FiniteSets

CONSTANTS
    Patches,         \* draft patches, each an immutable text
    Requests,        \* concurrent calls of approve()
    Edits,           \* texts the user may save
    Works,           \* works a patch may cite
    UserWorks,       \* those the user may add to the bibliography by hand
    UserRemoves,     \* TRUE: the user may also remove entries
    FaultsPossible,  \* TRUE: a file operation may raise OSError or ValueError
    MaxCrashes,      \* bound: requests whose process dies
    Original,        \* the text before anybody wrote
    NoRequest, NoPatch

ASSUME ContentAssumption == /\ Original \notin Edits \cup Patches
                            /\ Edits \cap Patches = {}
ASSUME WorkAssumption == UserWorks \subseteq Works
ASSUME FlagAssumption == UserRemoves \in BOOLEAN /\ FaultsPossible \in BOOLEAN
ASSUME BoundAssumption == MaxCrashes \in Nat
ASSUME NullAssumption == NoRequest \notin Requests /\ NoPatch \notin Patches

VARIABLES
    patch,       \* table patches
    audits,      \* table patch_audits: the kinds of entry of each patch
    projection,  \* table manuscript_state: version 0 is no row
    registry,    \* table citation_registry: works with a resolved binding
    tex,         \* the section file
    bib,         \* references.bib
    lock,        \* holder of the project write lock
    request,     \* the calls of approve()
    written,     \* history: how often the text of a patch replaced the file
    bibWritten,  \* history: patches whose additions replaced references.bib
    crashes,
    left         \* history: patches whose call was ended by a death or an exception

tables == <<patch, audits, projection, registry>>
files == <<tex, bib, written, bibWritten>>
ends == <<crashes, left>>
vars == <<tables, files, lock, request, ends>>

-----------------------------------------------------------------------------
Undecided == {"ABSENT", "AWAITING_APPROVAL"}
InProgress == {"APPROVED", "APPLYING"}
Applied == {"APPLIED", "BUILD_FAILED"}

(* The two ways of ending without an apply.                                *)
Refusing == {"conflict", "fail"}

(* What a call holds: its decision, whether the hash it expects matches,   *)
(* the section, revision and bibliography it has read, whether it changed  *)
(* references.bib, and the code it will answer with.                       *)
Idle == [pc |-> "idle", patch |-> NoPatch, verdict |-> "ACCEPT", match |-> TRUE,
         seen |-> Original, rev |-> 0, bib |-> {}, touched |-> FALSE, code |-> "NONE"]

(* adds are the bibliography changes of a patch, a subset of what it cites *)
AbsentPatch == [status |-> "ABSENT", base |-> Original, blocked |-> FALSE, cites |-> {},
                adds |-> {}, bibBase |-> {}, code |-> "NONE"]

Init == /\ patch = [p \in Patches |-> AbsentPatch]
        /\ audits = [p \in Patches |-> {}]
        /\ projection = [version |-> 0, hash |-> Original]
        /\ registry = {}
        /\ tex = Original
        /\ bib = {}
        /\ lock = NoRequest
        /\ request = [q \in Requests |-> Idle]
        /\ written = [p \in Patches |-> 0]
        /\ bibWritten = {}
        /\ crashes = 0
        /\ left = {}

-----------------------------------------------------------------------------
(* The writer: the base of a patch is the file as it was read, and what it *)
(* cites is resolved against the bibliography of that moment.  A second    *)
(* registration of the same proposal changes nothing.                      *)
RegisterPatch(p) ==
    /\ patch[p].status = "ABSENT"
    /\ \E blocked \in BOOLEAN, cites \in SUBSET Works :
          patch' = [patch EXCEPT ![p] =
              [status |-> "AWAITING_APPROVAL", base |-> tex, blocked |-> blocked,
               cites |-> cites, adds |-> cites \ bib, bibBase |-> bib, code |-> "NONE"]]
    /\ UNCHANGED <<audits, projection, registry, files, lock, request, ends>>

(* The editor, which knows nothing of the lock.                            *)
SaveSection(e) ==
    /\ tex # e
    /\ tex' = e
    /\ UNCHANGED <<tables, bib, written, bibWritten, lock, request, ends>>

SaveBibliography(v) ==
    /\ \/ v \in UserWorks /\ v \notin bib /\ bib' = bib \cup {v}
       \/ UserRemoves /\ v \in bib /\ bib' = bib \ {v}
    /\ UNCHANGED <<tables, tex, written, bibWritten, lock, request, ends>>

-----------------------------------------------------------------------------
(* approve(): match says whether the client sent the base hash of the patch *)
Decide(q, p) ==
    /\ request[q].pc = "idle"
    /\ patch[p].status # "ABSENT"
    /\ \E verdict \in {"ACCEPT", "REJECT"}, match \in BOOLEAN :
          request' = [request EXCEPT ![q] =
              [Idle EXCEPT !.pc = "waiting", !.patch = p, !.verdict = verdict, !.match = match]]
    /\ UNCHANGED <<tables, files, lock, ends>>

LockIgnored(q) ==                    \* mutant: write_lock is not taken
    /\ request[q].pc = "waiting"
    /\ lock' = q
    /\ request' = [request EXCEPT ![q].pc = "deciding"]
    /\ UNCHANGED <<tables, files, ends>>
Lock(q) ==
    /\ request[q].pc = "waiting"
    /\ lock = NoRequest
    /\ lock' = q
    /\ request' = [request EXCEPT ![q].pc = "deciding"]
    /\ UNCHANGED <<tables, files, ends>>

(* 30 s without the file lock: ProjectWriteBusyError.                      *)
LockTimesOut(q) ==
    /\ request[q].pc = "waiting"
    /\ lock \notin {NoRequest, q}
    /\ request' = [request EXCEPT ![q] = Idle]
    /\ UNCHANGED <<tables, files, lock, ends>>

Target(q) == request[q].patch
Row(q) == patch[Target(q)]
Goto(q, l) == request' = [request EXCEPT ![q].pc = l]

Leave(q) ==
    /\ request' = [request EXCEPT ![q] = Idle]
    /\ lock' = NoRequest

(* An exception that no handler of the call catches: the row stays as it is. *)
Raise(q) ==
    /\ Leave(q)
    /\ left' = left \cup {Target(q)}
    /\ UNCHANGED <<patch, crashes>>

(* transition_patch under its expected status                              *)
Transition(q, from, to, code) ==
    /\ Row(q).status = from
    /\ patch' = [patch EXCEPT ![Target(q)].status = to, ![Target(q)].code = code]

OpenOrInterrupted(q) ==              \* mutant: an interrupted apply may be accepted again
    Row(q).status \in {"AWAITING_APPROVAL", "APPLYING"}
Open(q) == Row(q).status = "AWAITING_APPROVAL"

(* A decision that writes nothing: a wrong hash in a REJECT, a patch that  *)
(* is already decided, the idempotent answer for one that is applied.      *)
Answer(q) ==
    /\ request[q].pc = "deciding"
    /\ ~Open(q) \/ (request[q].verdict = "REJECT" /\ ~request[q].match)
    /\ Leave(q)
    /\ UNCHANGED <<tables, files, ends>>

Reject(q) ==
    /\ request[q].pc = "deciding" /\ request[q].verdict = "REJECT" /\ request[q].match
    /\ Open(q)
    /\ Transition(q, "AWAITING_APPROVAL", "REJECTED", "NONE")
    /\ Goto(q, "rejected")
    /\ UNCHANGED <<audits, projection, registry, files, lock, ends>>

(* ACCEPT with a hash that is not the patch's.                             *)
RefuseStaleDecision(q) ==
    /\ request[q].pc = "deciding" /\ request[q].verdict = "ACCEPT" /\ ~request[q].match
    /\ Open(q)
    /\ Transition(q, Row(q).status, "CONFLICT", "PATCH_CONFLICT")
    /\ Goto(q, "refused")
    /\ UNCHANGED <<audits, projection, registry, files, lock, ends>>

Audit(q, kind) == audits' = [audits EXCEPT ![Target(q)] = @ \cup {kind}]

(* The review gate: a BLOCKER or HIGH issue.                               *)
Block(q) ==
    /\ request[q].pc = "deciding" /\ request[q].verdict = "ACCEPT" /\ request[q].match
    /\ Open(q) /\ Row(q).blocked
    /\ Audit(q, "blocked")
    /\ Leave(q)
    /\ UNCHANGED <<patch, projection, registry, files, ends>>

Approve(q) ==
    /\ request[q].pc = "deciding" /\ request[q].verdict = "ACCEPT" /\ request[q].match
    /\ Open(q) /\ ~Row(q).blocked
    /\ Transition(q, Row(q).status, "APPROVED", "NONE")
    /\ Goto(q, "approved")
    /\ UNCHANGED <<audits, projection, registry, files, lock, ends>>

StartApply(q) ==
    /\ request[q].pc = "approved"
    /\ Transition(q, "APPROVED", "APPLYING", "NONE")
    /\ Goto(q, "scan")
    /\ UNCHANGED <<audits, projection, registry, files, lock, ends>>

-----------------------------------------------------------------------------
(* The revision a project without a saved projection is taken to have is 1. *)
Revision == IF projection.version = 0 THEN 1 ELSE projection.version

(* _apply.  First the file as it is, with the revision of the projection,  *)
(* before the first try: a file that cannot be read ends the call.         *)
ScanManuscript(q) ==
    /\ request[q].pc = "scan"
    /\ \/ /\ request' = [request EXCEPT
                ![q].seen = tex,
                ![q].rev = Revision,
                ![q].pc = IF Row(q).cites = {} THEN "check" ELSE "bib"]
          /\ UNCHANGED <<patch, lock, ends>>
       \/ FaultsPossible /\ Raise(q)
    /\ UNCHANGED <<audits, projection, registry, files>>

(* The bibliography no longer carries the proposal: a work the patch found *)
(* there is gone, or additions are still to be made to another file than   *)
(* the one previewed.                                                      *)
BibStale(q) == \/ ~(Row(q).cites \ Row(q).adds \subseteq bib)
               \/ bib # Row(q).bibBase /\ ~(Row(q).adds \subseteq bib)

Refuse(q, l, code) == request' = [request EXCEPT ![q].pc = l, ![q].code = code]

(* A clash (two entries of one work, a key taken by another) can only have *)
(* come with an edit since the preview.                                    *)
ReconcileSkipsAdds(q) ==             \* mutant: additions are never written
    /\ request[q].pc = "bib"
    /\ Goto(q, "check")
    /\ UNCHANGED <<tables, files, lock, ends>>
Reconcile(q) ==
    /\ request[q].pc = "bib"
    /\ \/ /\ BibStale(q) \/ bib # Row(q).bibBase
          /\ Refuse(q, "conflict", "BIB_CONFLICT")
       \/ ~BibStale(q) /\ Row(q).adds \subseteq bib /\ Goto(q, "check")
       \/ /\ ~BibStale(q) /\ ~(Row(q).adds \subseteq bib)
          /\ request' = [request EXCEPT ![q].pc = "addbib", ![q].bib = bib]
    /\ UNCHANGED <<tables, files, lock, ends>>

(* write_changes: the file must still be the one just read ...             *)
TestBibliography(q) ==
    /\ request[q].pc = "addbib"
    /\ IF bib = request[q].bib THEN Goto(q, "putbib")
                               ELSE Refuse(q, "conflict", "BIB_CONFLICT")
    /\ UNCHANGED <<tables, files, lock, ends>>

(* ... and is read once more to append to: an edit since the test is kept  *)
(* if it came before that read, and overwritten if it came after.          *)
ReplaceBibliography(q) ==
    /\ request[q].pc = "putbib"
    /\ \/ /\ \E old \in {bib, request[q].bib} : bib' = old \cup Row(q).adds
          /\ bibWritten' = bibWritten \cup {Target(q)}
          /\ Goto(q, "resync")
       \/ /\ FaultsPossible
          /\ Refuse(q, "conflict", "BIB_CONFLICT")
          /\ UNCHANGED <<bib, bibWritten>>
    /\ UNCHANGED <<tables, tex, written, lock, ends>>

ResyncBibliography(q) ==
    /\ request[q].pc = "resync"
    /\ \/ request' = [request EXCEPT ![q].touched = bib # request[q].bib, ![q].pc = "check"]
       \/ FaultsPossible /\ Refuse(q, "conflict", "BIB_CONFLICT")
    /\ UNCHANGED <<tables, files, lock, ends>>

(* The section against the base hash, as scanned and as it is now.         *)
CheckSection(q) ==
    /\ request[q].pc = "check"
    /\ IF request[q].seen = Row(q).base /\ tex = Row(q).base
       THEN Goto(q, "puttex")
       ELSE IF request[q].touched THEN Refuse(q, "fail", "PARTIAL_APPLY")
                                  ELSE Refuse(q, "conflict", "PATCH_CONFLICT")
    /\ UNCHANGED <<tables, files, lock, ends>>

ApplyFails(q) ==
    /\ FaultsPossible
    /\ Refuse(q, "fail", IF request[q].touched THEN "PARTIAL_APPLY" ELSE "PATCH_APPLY_FAILED")

(* os.replace                                                              *)
ReplaceSection(q) ==
    /\ request[q].pc = "puttex"
    /\ \/ /\ tex' = Target(q)
          /\ written' = [written EXCEPT ![Target(q)] = @ + 1]
          /\ Goto(q, "rescan")
       \/ ApplyFails(q) /\ UNCHANGED <<tex, written>>
    /\ UNCHANGED <<tables, bib, bibWritten, lock, ends>>

Rescan(q) ==
    /\ request[q].pc = "rescan"
    /\ \/ request' = [request EXCEPT ![q].seen = tex, ![q].pc = "project"]
       \/ ApplyFails(q)
    /\ UNCHANGED <<tables, files, lock, ends>>

(* save_manuscript_state under expected_version.  When it cannot save, the *)
(* apply is partial if the bibliography was written; otherwise the         *)
(* exception is raised again, and the patch stays APPLYING.                *)
SaveProjection(q) ==
    /\ request[q].pc = "project"
    /\ \/ /\ request[q].rev = Revision
          /\ projection' = [version |-> request[q].rev + 1, hash |-> request[q].seen]
          /\ Goto(q, "audit")
          /\ UNCHANGED <<patch, lock, ends>>
       \/ /\ request[q].rev # Revision \/ FaultsPossible
          /\ \/ /\ request[q].touched
                /\ Refuse(q, "fail", "PARTIAL_APPLY")
                /\ UNCHANGED <<patch, lock, ends>>
             \/ ~request[q].touched /\ Raise(q)
          /\ UNCHANGED projection
    /\ UNCHANGED <<audits, registry, files>>

AuditSkipped(q) ==                   \* mutant: the audit is left to the end
    /\ request[q].pc = "audit"
    /\ Goto(q, "bind")
    /\ UNCHANGED <<tables, files, lock, ends>>
AuditApplied(q) ==
    /\ request[q].pc = "audit"
    /\ Audit(q, "applied")
    /\ Goto(q, "bind")
    /\ UNCHANGED <<patch, projection, registry, files, lock, ends>>

PersistBindings(q) ==
    /\ request[q].pc = "bind"
    /\ registry' = registry \cup Row(q).adds
    /\ Goto(q, "commit")
    /\ UNCHANGED <<patch, audits, projection, files, lock, ends>>

Commit(q) ==
    /\ request[q].pc = "commit"
    /\ Transition(q, "APPLYING", "APPLIED", "NONE")
    /\ Leave(q)
    /\ UNCHANGED <<audits, projection, registry, files, ends>>

(* _conflict, _bibliography_conflict, _partial_apply and a failed apply.   *)
CloseAsRead(q) ==                    \* mutant: expects the status the record was read with
    /\ request[q].pc \in Refusing
    /\ Transition(q, "AWAITING_APPROVAL", "CONFLICT", request[q].code)
    /\ Goto(q, "refused")
    /\ UNCHANGED <<audits, projection, registry, files, lock, ends>>
Close(q) ==
    /\ request[q].pc \in Refusing
    /\ Transition(q, "APPLYING", IF request[q].pc = "conflict" THEN "CONFLICT" ELSE "FAILED",
                  request[q].code)
    /\ Goto(q, "refused")
    /\ UNCHANGED <<audits, projection, registry, files, lock, ends>>

AuditRefusal(q) ==
    /\ request[q].pc \in {"refused", "rejected"}
    /\ Audit(q, request[q].pc)
    /\ Leave(q)
    /\ UNCHANGED <<patch, projection, registry, files, ends>>

(* The process dies, or an exception nobody catches (a locked or full      *)
(* database) ends the call: in both cases the lock is released.            *)
Crash(q) ==
    /\ crashes < MaxCrashes
    /\ request[q].pc # "idle"
    /\ crashes' = crashes + 1
    /\ left' = left \cup {Target(q)}
    /\ request' = [request EXCEPT ![q] = Idle]
    /\ lock' = IF lock = q THEN NoRequest ELSE lock
    /\ UNCHANGED <<tables, files>>

-----------------------------------------------------------------------------
(* report_build of a failed build, which takes no lock.  The build rows    *)
(* themselves are read by nobody here.                                     *)
ReportFailedBuild(p) ==
    /\ patch[p].status = "APPLIED"
    /\ patch' = [patch EXCEPT ![p].status = "BUILD_FAILED"]
    /\ audits' = [audits EXCEPT ![p] = @ \cup {"build"}]
    /\ UNCHANGED <<projection, registry, files, lock, request, ends>>

-----------------------------------------------------------------------------
InLock(q) ==
    \/ Answer(q) \/ Reject(q) \/ RefuseStaleDecision(q) \/ Block(q) \/ Approve(q)
    \/ StartApply(q) \/ ScanManuscript(q) \/ Reconcile(q) \/ TestBibliography(q)
    \/ ReplaceBibliography(q) \/ ResyncBibliography(q) \/ CheckSection(q)
    \/ ReplaceSection(q) \/ Rescan(q) \/ SaveProjection(q) \/ AuditApplied(q)
    \/ PersistBindings(q) \/ Commit(q) \/ Close(q) \/ AuditRefusal(q)

RequestStep(q) == \/ \E p \in Patches : Decide(q, p)
                  \/ Lock(q) \/ LockTimesOut(q) \/ InLock(q) \/ Crash(q)

PatchStep(p) == RegisterPatch(p) \/ ReportFailedBuild(p)

Next == \/ \E q \in Requests : RequestStep(q)
        \/ \E p \in Patches : PatchStep(p)
        \/ \E e \in Edits : SaveSection(e)
        \/ \E v \in Works : SaveBibliography(v)

Spec == Init /\ [][Next]_vars

(* A call that has begun goes on, and takes the lock if it is free again   *)
(* and again or times out; nobody has to decide, save, or die.             *)
Fairness == \A q \in Requests : WF_vars(InLock(q)) /\ WF_vars(Lock(q) \/ LockTimesOut(q))
FairSpec == Spec /\ Fairness

-----------------------------------------------------------------------------
(* Properties.                                                             *)

(* The text of a patch replaces the file at most once, and its row tells:  *)
(* exactly once if it is applied, never if it is undecided, rejected or in *)
(* conflict, whatever is accepted twice, crashes or is retried.            *)
AppliedExactlyOnce ==
    \A p \in Patches :
        /\ written[p] <= 1
        /\ patch[p].status \in Applied => written[p] = 1
        /\ patch[p].status \in Undecided \cup {"APPROVED", "REJECTED", "CONFLICT"}
             => written[p] = 0

(* A patch is called APPLIED only after the audit of the write and the     *)
(* resolution of its new citations are stored, even if the process dies.   *)
AppliedIsRecorded ==
    \A p \in Patches : patch[p].status \in Applied =>
                            "applied" \in audits[p] /\ patch[p].adds \subseteq registry

(* While nobody removes entries, a patch text gets into the manuscript     *)
(* only when every work it cites is in references.bib.                     *)
CitationsResolve ==
    \A p \in Patches : written[p] > 0 => patch[p].cites \subseteq bib

(* The text of another patch is only replaced by a patch drafted on it:    *)
(* two users who draft and accept concurrently never lose one's text.      *)
PatchesSeeEachOther ==
    [][\A q \in Requests : ReplaceSection(q) /\ written' # written /\ tex \in Patches
                              => tex = Row(q).base]_vars

(* A patch in progress gets its outcome, unless its own call died or was   *)
(* ended by an exception of the first scan or of the saved projection,     *)
(* which leaves it in progress for good: no lock, no refused write and no   *)
(* other decision keeps it in between.                                     *)
ApprovalConcludesOrRaised ==
    \A p \in Patches : patch[p].status \in InProgress
                          ~> patch[p].status \notin InProgress \/ p \in left
=============================================================================
