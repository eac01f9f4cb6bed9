------------------------ MODULE PatchApprovalProofs ------------------------
(***************************************************************************)
(* Proofs about PatchApproval, for every number of patches, calls, edits,  *)
(* works and crashes: a patch text replaces the section file at most once  *)
(* and its row tells, an applied patch is recorded, a patch text is only   *)
(* replaced by a patch drafted on it, and, while nobody removes entries,   *)
(* every citation of a written patch resolves.                             *)
(*                                                                         *)
(* The argument is the project write lock: a call that is past it holds    *)
(* it, so that what the call knows of its patch (PhaseOK) can only be      *)
(* changed by the call itself.  A crash forgets the knowledge and leaves   *)
(* the row, whose status alone carries AppliedExactlyOnce.                 *)
(***************************************************************************)
EXTENDS PatchApproval, TLAPS

USE DEF ends

Texts == {Original} \cup Edits \cup Patches
Statuses == {"ABSENT", "AWAITING_APPROVAL", "APPROVED", "APPLYING", "APPLIED", "REJECTED",
             "CONFLICT", "FAILED", "BUILD_FAILED"}
Codes == {"NONE", "PATCH_CONFLICT", "BIB_CONFLICT", "PARTIAL_APPLY", "PATCH_APPLY_FAILED"}

(* Where a call is, by what it knows of the row and the file.              *)
Outside == {"idle", "waiting"}
BeforeWrite == {"scan", "bib", "addbib", "putbib", "resync", "check", "puttex", "conflict"}
AfterWrite == {"rescan", "project", "audit", "bind", "commit"}
Writing == BeforeWrite \cup AfterWrite \cup {"fail"}
Places == Outside \cup Writing \cup {"deciding", "approved", "refused", "rejected"}

Rows == [status : Statuses, base : Texts, blocked : BOOLEAN, cites : SUBSET Works,
         adds : SUBSET Works, bibBase : SUBSET Works, code : Codes]
Calls == [pc : Places, patch : Patches \cup {NoPatch}, verdict : {"ACCEPT", "REJECT"},
          match : BOOLEAN, seen : Texts, rev : Nat, bib : SUBSET Works, touched : BOOLEAN,
          code : Codes]

TypeOK == /\ patch \in [Patches -> Rows]
          /\ audits \in [Patches -> SUBSET {"blocked", "applied", "refused", "rejected", "build"}]
          /\ projection \in [version : Nat, hash : Texts]
          /\ registry \in SUBSET Works
          /\ tex \in Texts
          /\ bib \in SUBSET Works
          /\ lock \in Requests \cup {NoRequest}
          /\ request \in [Requests -> Calls]
          /\ written \in [Patches -> Nat]
          /\ bibWritten \in SUBSET Patches
          /\ crashes \in Nat

(* A call past the lock holds it, and what it knows at each place.         *)
PhaseOK(q) ==
    /\ request[q].pc \notin Outside => lock = q
    /\ request[q].pc # "idle" => Target(q) \in Patches /\ Row(q).status # "ABSENT"
    /\ request[q].pc = "approved" => Row(q).status = "APPROVED"
    /\ request[q].pc \in Writing => Row(q).status = "APPLYING"
    /\ request[q].pc \in BeforeWrite => written[Target(q)] = 0
    /\ request[q].pc \in AfterWrite => written[Target(q)] = 1
    /\ request[q].pc = "puttex" /\ tex \in Patches => tex = Row(q).base
    /\ request[q].pc \in {"bind", "commit"} => "applied" \in audits[Target(q)]
    /\ request[q].pc = "commit" => Row(q).adds \subseteq registry

IInv == /\ TypeOK
        /\ \A q \in Requests : PhaseOK(q)
        /\ AppliedExactlyOnce
        /\ AppliedIsRecorded

(* The bibliography, while nobody removes entries: what a call has read of *)
(* it carries every citation of a written patch, and what it goes on with  *)
(* carries those of its own.                                               *)
BibliographyOK(q) ==
    /\ request[q].pc \in {"addbib", "putbib"} =>
          /\ request[q].bib \subseteq bib
          /\ Row(q).cites \ Row(q).adds \subseteq request[q].bib
          /\ \A p \in Patches : written[p] > 0 => patch[p].cites \subseteq request[q].bib
    /\ request[q].pc \in {"resync", "check", "puttex"} => Row(q).cites \subseteq bib

CitationsInv == CitationsResolve /\ \A q \in Requests : BibliographyOK(q)

-----------------------------------------------------------------------------
RowOK(p) ==
    /\ written[p] <= 1
    /\ patch[p].status \in Applied => written[p] = 1
    /\ patch[p].status \in Undecided \cup {"APPROVED", "REJECTED", "CONFLICT"}
         => written[p] = 0
    /\ patch[p].status \in Applied =>
          "applied" \in audits[p] /\ patch[p].adds \subseteq registry

LEMMA RowsAreOK == AppliedExactlyOnce /\ AppliedIsRecorded <=> \A p \in Patches : RowOK(p)
  BY DEF RowOK, AppliedExactlyOnce, AppliedIsRecorded

LEMMA Initially == Init => IInv
  <1> SUFFICES ASSUME Init PROVE IInv
    OBVIOUS
  <1>1. TypeOK
    BY NullAssumption
       DEF Init, TypeOK, AbsentPatch, Idle, Rows, Calls, Statuses, Codes, Places, Outside, Texts
  <1>2. \A q \in Requests : PhaseOK(q)
    BY DEF Init, Idle, PhaseOK, Outside, Writing, BeforeWrite, AfterWrite
  <1>3. \A p \in Patches : RowOK(p)
    BY DEF Init, AbsentPatch, RowOK, Applied, Undecided
  <1> QED
    BY <1>1, <1>2, <1>3, RowsAreOK DEF IInv

(* What a step of the lock holder has to show: its own place and row.  The *)
(* other calls are outside the lock and know only that their row exists.   *)
LEMMA HolderStep ==
    ASSUME NEW q \in Requests, NEW p \in Patches, IInv,
           request[q].pc \notin Outside, Target(q) = p,
           TypeOK',
           \A k \in Requests \ {q} : request'[k] = request[k],
           \A o \in Patches \ {p} :
               patch'[o] = patch[o] /\ audits'[o] = audits[o] /\ written'[o] = written[o],
           registry \subseteq registry',
           patch'[p].status # "ABSENT",
           PhaseOK(q)',
           RowOK(p)'
    PROVE  IInv'
  <1>1. ASSUME NEW o \in Patches, o # p PROVE RowOK(o)'
    <2>1. RowOK(o)
      BY RowsAreOK DEF IInv
    <2> QED
      BY <1>1, <2>1 DEF RowOK
  <1>2. ASSUME NEW k \in Requests, k # q PROVE PhaseOK(k)'
    <2>1. lock = q /\ PhaseOK(k)
      BY DEF IInv, PhaseOK
    <2>2. request[k].pc \in Outside /\ request'[k] = request[k]
      BY <1>2, <2>1 DEF PhaseOK
    <2>3. request[k].pc # "idle" => request[k].patch \in Patches
                                    /\ patch'[request[k].patch].status # "ABSENT"
      <3> SUFFICES ASSUME request[k].pc # "idle"
                   PROVE  request[k].patch \in Patches
                          /\ patch'[request[k].patch].status # "ABSENT"
        OBVIOUS
      <3>1. request[k].patch \in Patches /\ patch[request[k].patch].status # "ABSENT"
        BY <2>1 DEF PhaseOK, Target, Row
      <3> QED
        BY <3>1
    <2> QED
      BY <2>2, <2>3 DEF PhaseOK, Outside, Writing, BeforeWrite, AfterWrite, Target, Row
  <1>3. AppliedExactlyOnce' /\ AppliedIsRecorded'
    BY <1>1 DEF RowOK, AppliedExactlyOnce, AppliedIsRecorded
  <1> QED
    BY <1>2, <1>3 DEF IInv

(* What the lock holder may rely on.                                       *)
LEMMA HolderFacts ==
    ASSUME NEW q \in Requests, IInv, request[q].pc \notin Outside
    PROVE  /\ TypeOK /\ PhaseOK(q) /\ lock = q /\ Target(q) \in Patches
           /\ RowOK(Target(q)) /\ Row(q).status # "ABSENT"
           /\ Row(q) \in Rows /\ request[q] \in Calls
  <1>1. TypeOK /\ PhaseOK(q)
    BY DEF IInv
  <1>2. lock = q /\ Target(q) \in Patches /\ Row(q).status # "ABSENT"
    BY <1>1 DEF PhaseOK, Outside
  <1> QED
    BY <1>1, <1>2, RowsAreOK DEF TypeOK, IInv, Row

-----------------------------------------------------------------------------
(* The steps of a call that only move it: TypeOK, and where it goes.       *)
LEMMA MoveInv ==
    ASSUME NEW q \in Requests, IInv, request[q].pc \notin Outside,
           NEW r \in Calls, request' = [request EXCEPT ![q] = r], r.patch = Target(q),
           r.pc \notin {"idle", "waiting"},
           UNCHANGED <<patch, audits, registry, written, lock, crashes>>,
           projection' \in [version : Nat, hash : Texts], tex' \in Texts,
           bib' \in SUBSET Works, bibWritten' \in SUBSET Patches,
           PhaseOK(q)'
    PROVE  IInv'
  <1>1. TypeOK /\ RowOK(Target(q)) /\ Row(q).status # "ABSENT"
    BY HolderFacts
  <1>2. TypeOK'
    BY <1>1 DEF TypeOK
  <1>3. \A k \in Requests \ {q} : request'[k] = request[k]
    BY <1>1 DEF TypeOK
  <1>4. PICK p \in Patches : Target(q) = p /\ RowOK(p)
    BY HolderFacts
  <1>5. RowOK(p)'
    BY <1>4 DEF RowOK
  <1> QED
    BY <1>1, <1>2, <1>3, <1>4, <1>5, HolderStep DEF Row

(* Where Goto leads: the same call at another place.                       *)
LEMMA GotoCall ==
    ASSUME NEW q \in Requests, IInv, NEW l \in Places, Goto(q, l)
    PROVE  \E c \in Calls : /\ request' = [request EXCEPT ![q] = c]
                             /\ c.patch = Target(q) /\ c.pc = l /\ c.bib = request[q].bib
  <1> DEFINE c == [request[q] EXCEPT !.pc = l]
  <1>1. request[q] \in Calls
    BY DEF IInv, TypeOK
  <1>2. c \in Calls /\ c.patch = Target(q) /\ c.pc = l /\ c.bib = request[q].bib
    BY <1>1 DEF Calls, Target
  <1> QED
    BY <1>2 DEF Goto

-----------------------------------------------------------------------------
(* The decision.                                                           *)
LEMMA DecideInv == ASSUME NEW q \in Requests, NEW p \in Patches, IInv, Decide(q, p) PROVE IInv'
  <1>1. PICK verdict \in {"ACCEPT", "REJECT"}, match \in BOOLEAN :
           request' = [request EXCEPT ![q] = [Idle EXCEPT
               !.pc = "waiting", !.patch = p, !.verdict = verdict, !.match = match]]
    BY DEF Decide
  <1>2. TypeOK /\ UNCHANGED <<tables, files, lock, crashes>> /\ patch[p].status # "ABSENT"
    BY DEF IInv, Decide
  <1>3. TypeOK'
    BY <1>1, <1>2 DEF TypeOK, tables, files, Idle, Calls, Texts, Codes, Places, Outside
  <1>4. ASSUME NEW k \in Requests PROVE PhaseOK(k)'
    <2>1. CASE k = q
      BY <1>1, <1>2, <2>1
         DEF TypeOK, PhaseOK, Target, Row, tables, files, Idle, Outside, Writing, BeforeWrite,
             AfterWrite
    <2>2. CASE k # q
      <3>1. request'[k] = request[k] /\ PhaseOK(k)
        BY <1>1, <1>2, <2>2 DEF TypeOK, IInv
      <3> QED
        BY <1>2, <3>1 DEF PhaseOK, Target, Row, tables, files
    <2> QED
      BY <2>1, <2>2
  <1> QED
    BY <1>2, <1>3, <1>4
       DEF IInv, AppliedExactlyOnce, AppliedIsRecorded, tables, files

LEMMA LockInv == ASSUME NEW q \in Requests, IInv, Lock(q) PROVE IInv'
  <1>1. TypeOK /\ UNCHANGED <<tables, files, crashes>> /\ lock = NoRequest /\ lock' = q
    BY DEF IInv, Lock
  <1>2. TypeOK'
    BY <1>1 DEF TypeOK, Lock, tables, files, Calls, Places
  <1>3. ASSUME NEW k \in Requests PROVE PhaseOK(k)'
    <2>1. PhaseOK(k) /\ request[k].pc \in Outside
      BY <1>1, NullAssumption DEF IInv, PhaseOK
    <2>2. CASE k = q
      BY <1>1, <2>1, <2>2
         DEF Lock, TypeOK, PhaseOK, Target, Row, tables, files, Outside, Writing, BeforeWrite,
             AfterWrite
    <2>3. CASE k # q
      <3>1. request'[k] = request[k]
        BY <1>1, <2>3 DEF TypeOK, Lock
      <3> QED
        BY <1>1, <2>1, <3>1 DEF PhaseOK, Target, Row, tables, files
    <2> QED
      BY <2>2, <2>3
  <1> QED
    BY <1>1, <1>2, <1>3
       DEF IInv, AppliedExactlyOnce, AppliedIsRecorded, tables, files

(* A call that ends, however it ends, and lets the lock go if it had it.   *)
LEMMA ForgetInv ==
    ASSUME NEW q \in Requests, IInv, request' = [request EXCEPT ![q] = Idle],
           lock' = lock \/ (lock = q /\ lock' = NoRequest),
           UNCHANGED <<tables, files>>, crashes' \in Nat
    PROVE  IInv'
  <1>1. TypeOK
    BY DEF IInv
  <1>2. Idle \in Calls
    BY DEF Idle, Calls, Texts, Codes, Places, Outside
  <1>3. TypeOK'
    BY <1>1, <1>2 DEF TypeOK, tables, files
  <1>4. ASSUME NEW k \in Requests PROVE PhaseOK(k)'
    <2>1. CASE k = q
      BY <1>1, <2>1 DEF TypeOK, PhaseOK, Idle, Outside, Writing, BeforeWrite, AfterWrite
    <2>2. CASE k # q
      <3>1. request'[k] = request[k] /\ PhaseOK(k)
        BY <1>1, <2>2 DEF TypeOK, IInv
      <3> QED
        BY <2>2, <3>1 DEF PhaseOK, Target, Row, tables, files
    <2> QED
      BY <2>1, <2>2
  <1> QED
    BY <1>3, <1>4 DEF IInv, AppliedExactlyOnce, AppliedIsRecorded, tables, files

LEMMA LockTimesOutInv == ASSUME NEW q \in Requests, IInv, LockTimesOut(q) PROVE IInv'
  BY ForgetInv DEF LockTimesOut, IInv, TypeOK

LEMMA AnswerInv == ASSUME NEW q \in Requests, IInv, Answer(q) PROVE IInv'
  <1>1. lock = q
    BY DEF IInv, PhaseOK, Answer, Outside
  <1> QED
    BY <1>1, ForgetInv DEF Answer, Leave, IInv, TypeOK

LEMMA CrashInv == ASSUME NEW q \in Requests, IInv, Crash(q) PROVE IInv'
  <1>1. crashes' \in Nat
    BY DEF IInv, TypeOK, Crash
  <1> QED
    BY <1>1, ForgetInv DEF Crash

-----------------------------------------------------------------------------
(* The steps that move a patch from one status to the next.                *)
LEMMA TransitionInv ==
    ASSUME NEW q \in Requests, IInv, request[q].pc \notin Outside,
           NEW from, NEW to \in Statuses, NEW code \in Codes, Transition(q, from, to, code),
           NEW c \in Calls, request' = [request EXCEPT ![q] = c], c.patch = Target(q),
           \/ /\ c.pc = "approved" /\ to = "APPROVED" /\ from \in Undecided
           \/ /\ c.pc = "rejected" /\ to = "REJECTED" /\ from \in Undecided
           \/ /\ c.pc = "scan" /\ to = "APPLYING" /\ from = "APPROVED"
           \/ /\ c.pc = "refused" /\ to = "CONFLICT"
              /\ from \in Undecided \/ request[q].pc = "conflict"
           \/ /\ c.pc = "refused" /\ to = "FAILED",
           UNCHANGED <<audits, projection, registry, files, lock, crashes>>
    PROVE  IInv'
  <1>1. PICK p \in Patches : Target(q) = p
    BY HolderFacts
  <1>2. /\ TypeOK /\ PhaseOK(q) /\ lock = q /\ RowOK(p) /\ patch[p].status # "ABSENT"
        /\ patch[p] \in Rows /\ patch[p].status = from
    BY <1>1, HolderFacts DEF Row, Transition
  <1> DEFINE r == [patch[p] EXCEPT !.status = to, !.code = code]
  <1>3. r \in Rows /\ r.status = to /\ r.adds = patch[p].adds
    BY <1>2 DEF Rows
  <1>4. patch' = [patch EXCEPT ![p] = r]
    BY <1>1, <1>2 DEF Transition, TypeOK
  <1> HIDE DEF r
  <1>5. patch'[p] = r /\ request'[q] = c
    BY <1>2, <1>4 DEF TypeOK
  <1>6. RowOK(p)'
    BY <1>1, <1>2, <1>3, <1>5 DEF RowOK, PhaseOK, BeforeWrite, files, Undecided, Applied
  <1>7. PhaseOK(q)'
    BY <1>1, <1>2, <1>3, <1>5
       DEF PhaseOK, RowOK, Undecided, Outside, Writing, BeforeWrite, AfterWrite, Target, Row,
           files
  <1> QED
    BY <1>1, <1>2, <1>3, <1>4, <1>6, <1>7, HolderStep DEF TypeOK, files

LEMMA RejectInv == ASSUME NEW q \in Requests, IInv, Reject(q) PROVE IInv'
  <1>1. request[q] \in Calls /\ request[q].pc \notin Outside
    BY DEF IInv, TypeOK, Reject, Outside
  <1>2. PICK c \in Calls : /\ request' = [request EXCEPT ![q] = c]
                           /\ c.patch = Target(q) /\ c.pc = "rejected"
    BY GotoCall DEF Reject, Places
  <1> QED
    BY <1>1, <1>2, TransitionInv DEF Reject, Statuses, Codes, Undecided

LEMMA RefuseStaleDecisionInv ==
    ASSUME NEW q \in Requests, IInv, RefuseStaleDecision(q) PROVE IInv'
  <1>1. request[q] \in Calls /\ request[q].pc \notin Outside
    BY DEF IInv, TypeOK, RefuseStaleDecision, Outside
  <1>2. PICK c \in Calls : /\ request' = [request EXCEPT ![q] = c]
                           /\ c.patch = Target(q) /\ c.pc = "refused"
    BY GotoCall DEF RefuseStaleDecision, Places
  <1>3. Row(q).status \in Undecided
    BY DEF RefuseStaleDecision, Open, Undecided
  <1> QED
    BY <1>1, <1>2, <1>3, TransitionInv DEF RefuseStaleDecision, Statuses, Codes

LEMMA ApproveInv == ASSUME NEW q \in Requests, IInv, Approve(q) PROVE IInv'
  <1>1. request[q] \in Calls /\ request[q].pc \notin Outside
    BY DEF IInv, TypeOK, Approve, Outside
  <1>2. PICK c \in Calls : /\ request' = [request EXCEPT ![q] = c]
                           /\ c.patch = Target(q) /\ c.pc = "approved"
    BY GotoCall DEF Approve, Places
  <1>3. Row(q).status \in Undecided
    BY DEF Approve, Open, Undecided
  <1> QED
    BY <1>1, <1>2, <1>3, TransitionInv DEF Approve, Statuses, Codes

LEMMA StartApplyInv == ASSUME NEW q \in Requests, IInv, StartApply(q) PROVE IInv'
  <1>1. request[q] \in Calls /\ request[q].pc \notin Outside
    BY DEF IInv, TypeOK, StartApply, Outside
  <1>2. PICK c \in Calls : /\ request' = [request EXCEPT ![q] = c]
                           /\ c.patch = Target(q) /\ c.pc = "scan"
    BY GotoCall DEF StartApply, Places, Writing, BeforeWrite
  <1> QED
    BY <1>1, <1>2, TransitionInv DEF StartApply, Statuses, Codes

LEMMA CloseInv == ASSUME NEW q \in Requests, IInv, Close(q) PROVE IInv'
  <1>1. request[q] \in Calls /\ request[q].pc \notin Outside
    BY DEF IInv, TypeOK, Close, Outside, Refusing
  <1>2. PICK c \in Calls : /\ request' = [request EXCEPT ![q] = c]
                           /\ c.patch = Target(q) /\ c.pc = "refused"
    BY GotoCall DEF Close, Places
  <1> DEFINE to == IF request[q].pc = "conflict" THEN "CONFLICT" ELSE "FAILED"
  <1>3. PICK t \in Statuses, code \in Codes : t = to /\ code = request[q].code
    BY <1>1 DEF Statuses, Calls
  <1>4. Transition(q, "APPLYING", t, code)
    BY <1>3 DEF Close
  <1> QED
    BY <1>1, <1>2, <1>3, <1>4, TransitionInv DEF Close, Refusing

(* The steps that record: an audit entry, and the two that end with one.   *)
LEMMA AuditAppliedInv == ASSUME NEW q \in Requests, IInv, AuditApplied(q) PROVE IInv'
  <1>1. PICK p \in Patches : Target(q) = p
    BY HolderFacts DEF AuditApplied, Outside
  <1>2. TypeOK /\ PhaseOK(q) /\ lock = q /\ RowOK(p) /\ request[q] \in Calls
        /\ request[q].pc = "audit" /\ patch[p].status # "ABSENT"
    BY <1>1, HolderFacts DEF AuditApplied, Outside, Row
  <1> DEFINE c == [request[q] EXCEPT !.pc = "bind"]
             a == audits[p] \cup {"applied"}
  <1>3. c \in Calls
    BY <1>2 DEF Calls, Places, Writing, AfterWrite
  <1>4. request' = [request EXCEPT ![q] = c] /\ audits' = [audits EXCEPT ![p] = a]
    BY <1>1, <1>2 DEF AuditApplied, Goto, Audit
  <1>5. request'[q] = c /\ audits'[p] = a
    BY <1>2, <1>4 DEF TypeOK
  <1>6. TypeOK'
    BY <1>2, <1>3, <1>4 DEF TypeOK, AuditApplied, files
  <1>7. PhaseOK(q)'
    BY <1>1, <1>2, <1>5
       DEF PhaseOK, AuditApplied, files, Outside, Writing, BeforeWrite, AfterWrite, Target, Row
  <1>8. RowOK(p)'
    BY <1>2, <1>5 DEF RowOK, AuditApplied, files
  <1>9. \A k \in Requests \ {q} : request'[k] = request[k]
    BY <1>2, <1>4 DEF TypeOK
  <1>10. \A o \in Patches \ {p} : audits'[o] = audits[o]
    BY <1>2, <1>4 DEF TypeOK
  <1> QED
    BY <1>1, <1>2, <1>6, <1>7, <1>8, <1>9, <1>10, HolderStep DEF AuditApplied, files, Outside

(* An entry in the audit that ends the call.                               *)
LEMMA LastAudit ==
    ASSUME NEW q \in Requests, IInv, request[q].pc \notin Outside,
           NEW kind \in {"blocked", "refused", "rejected"}, Audit(q, kind), Leave(q),
           UNCHANGED <<patch, projection, registry, files, crashes>>
    PROVE  IInv'
  <1>1. PICK p \in Patches : Target(q) = p
    BY HolderFacts
  <1>2. TypeOK /\ lock = q /\ RowOK(p) /\ patch[p].status # "ABSENT"
    BY <1>1, HolderFacts DEF Row
  <1>3. Idle \in Calls /\ request'[q] = Idle
    BY <1>2 DEF Leave, TypeOK, Idle, Calls, Texts, Codes, Places, Outside
  <1>4. audits'[p] = audits[p] \cup {kind} /\ \A o \in Patches \ {p} : audits'[o] = audits[o]
    BY <1>1, <1>2 DEF Audit, TypeOK
  <1>5. TypeOK'
    BY <1>1, <1>2, <1>3 DEF TypeOK, Audit, Leave, files
  <1>6. PhaseOK(q)'
    BY <1>3 DEF PhaseOK, Idle, Outside, Writing, BeforeWrite, AfterWrite
  <1>7. RowOK(p)'
    BY <1>2, <1>4 DEF RowOK, files
  <1>8. \A k \in Requests \ {q} : request'[k] = request[k]
    BY <1>2 DEF Leave, TypeOK
  <1> QED
    BY <1>1, <1>2, <1>4, <1>5, <1>6, <1>7, <1>8, HolderStep DEF files

LEMMA BlockInv == ASSUME NEW q \in Requests, IInv, Block(q) PROVE IInv'
  BY LastAudit DEF Block, Outside

LEMMA AuditRefusalInv == ASSUME NEW q \in Requests, IInv, AuditRefusal(q) PROVE IInv'
  <1>1. PICK kind \in {"refused", "rejected"} : kind = request[q].pc
    BY DEF AuditRefusal
  <1> QED
    BY <1>1, LastAudit DEF AuditRefusal, Outside

LEMMA PersistBindingsInv == ASSUME NEW q \in Requests, IInv, PersistBindings(q) PROVE IInv'
  <1>1. PICK p \in Patches : Target(q) = p
    BY HolderFacts DEF PersistBindings, Outside
  <1>2. TypeOK /\ PhaseOK(q) /\ RowOK(p) /\ request[q].pc = "bind" /\ patch[p] \in Rows
        /\ patch[p].status # "ABSENT" /\ lock = q
    BY <1>1, HolderFacts DEF PersistBindings, Outside, Row
  <1>3. PICK c \in Calls : request' = [request EXCEPT ![q] = c] /\ c.patch = p /\ c.pc = "commit"
    BY <1>1, GotoCall DEF PersistBindings, Places, Writing, AfterWrite
  <1>4. request'[q] = c /\ \A k \in Requests \ {q} : request'[k] = request[k]
    BY <1>2, <1>3 DEF TypeOK
  <1>5. registry' = registry \cup patch[p].adds /\ patch[p].adds \subseteq Works
    BY <1>1, <1>2 DEF PersistBindings, Row, Rows
  <1>6. TypeOK'
    BY <1>2, <1>3, <1>5 DEF TypeOK, PersistBindings, files
  <1>7. PhaseOK(q)'
    BY <1>1, <1>2, <1>3, <1>4, <1>5
       DEF PhaseOK, PersistBindings, files, Outside, Writing, BeforeWrite, AfterWrite, Target, Row
  <1>8. RowOK(p)'
    BY <1>2, <1>5 DEF RowOK, PersistBindings, files
  <1> QED
    BY <1>1, <1>2, <1>4, <1>5, <1>6, <1>7, <1>8, HolderStep DEF PersistBindings, files, Outside

LEMMA CommitInv == ASSUME NEW q \in Requests, IInv, Commit(q) PROVE IInv'
  <1>1. PICK p \in Patches : Target(q) = p
    BY HolderFacts DEF Commit, Outside
  <1>2. TypeOK /\ PhaseOK(q) /\ RowOK(p) /\ request[q].pc = "commit" /\ patch[p] \in Rows
    BY <1>1, HolderFacts DEF Commit, Outside, Row
  <1>3. Idle \in Calls /\ request'[q] = Idle /\ \A k \in Requests \ {q} : request'[k] = request[k]
    BY <1>2 DEF Commit, Leave, TypeOK, Idle, Calls, Texts, Codes, Places, Outside
  <1> DEFINE r == [patch[p] EXCEPT !.status = "APPLIED", !.code = "NONE"]
  <1>4. patch' = [patch EXCEPT ![p] = r]
    BY <1>1, <1>2 DEF Commit, Transition, TypeOK
  <1>5. r \in Rows /\ r.status = "APPLIED" /\ r.adds = patch[p].adds
    BY <1>2 DEF Rows, Statuses, Codes
  <1> HIDE DEF r
  <1>6. patch'[p] = r /\ \A o \in Patches \ {p} : patch'[o] = patch[o]
    BY <1>2, <1>4 DEF TypeOK
  <1>7. TypeOK'
    BY <1>2, <1>3, <1>4, <1>5 DEF TypeOK, Commit, Leave, files
  <1>8. PhaseOK(q)'
    BY <1>3 DEF PhaseOK, Idle, Outside, Writing, BeforeWrite, AfterWrite
  <1>9. RowOK(p)'
    BY <1>1, <1>2, <1>5, <1>6
       DEF RowOK, PhaseOK, Commit, files, Undecided, AfterWrite, Target, Row
  <1> QED
    BY <1>1, <1>2, <1>3, <1>5, <1>6, <1>7, <1>8, <1>9, HolderStep DEF Commit, files, Outside

-----------------------------------------------------------------------------
(* The steps of an apply that change neither tables nor the manuscript:    *)
(* the next place asks for nothing that is not known already, except at    *)
(* "puttex", where the file must be the base.                              *)
LEMMA ApplyingMove ==
    ASSUME NEW q \in Requests, IInv,
           NEW c \in Calls, request' = [request EXCEPT ![q] = c], c.patch = Target(q),
           \/ request[q].pc \in BeforeWrite /\ c.pc \in BeforeWrite \cup {"fail"}
           \/ request[q].pc \in AfterWrite /\ c.pc \in {"rescan", "project", "audit", "fail"},
           c.pc = "puttex" => tex' = Row(q).base,
           UNCHANGED <<patch, audits, registry, written, lock, crashes>>,
           projection' \in [version : Nat, hash : Texts], tex' \in Texts,
           bib' \in SUBSET Works, bibWritten' \in SUBSET Patches
    PROVE  IInv'
  <1>1. request[q].pc \notin Outside /\ c.pc \notin Outside
    BY DEF Outside, BeforeWrite, AfterWrite
  <1>2. PICK p \in Patches : Target(q) = p
    BY <1>1, HolderFacts
  <1>3. TypeOK /\ PhaseOK(q) /\ lock = q /\ patch[p].status # "ABSENT"
    BY <1>1, <1>2, HolderFacts DEF Row
  <1>4. request'[q] = c
    BY <1>3 DEF TypeOK
  <1>5. PhaseOK(q)'
    BY <1>1, <1>2, <1>3, <1>4 DEF PhaseOK, Outside, Writing, BeforeWrite, AfterWrite, Target, Row
  <1> QED
    BY <1>1, <1>5, MoveInv DEF Outside

LEMMA CallTypes ==
    ASSUME IInv, NEW q \in Requests
    PROVE  /\ request[q] \in Calls /\ request[q].patch = Target(q)
           /\ tex \in Texts /\ bib \in SUBSET Works /\ bibWritten \in SUBSET Patches
           /\ projection \in [version : Nat, hash : Texts]
  BY DEF IInv, TypeOK, Target

LEMMA Destinations ==
    /\ BeforeWrite \cup {"fail"} \cup AfterWrite \subseteq Places
    /\ {"bib", "addbib", "putbib", "resync", "check", "puttex", "conflict"} \subseteq BeforeWrite
    /\ {"rescan", "project", "audit"} \subseteq AfterWrite
    /\ \A l \in BeforeWrite \cup {"fail"} \cup AfterWrite : l # "puttex" \/ l \in BeforeWrite
  BY DEF BeforeWrite, AfterWrite, Places, Writing

(* An exception ends the call and leaves the row as it is.                 *)
LEMMA RaiseInv ==
    ASSUME NEW q \in Requests, IInv, request[q].pc \notin Outside, Raise(q),
           UNCHANGED <<audits, projection, registry, files>>
    PROVE  IInv'
  <1>1. lock = q /\ crashes \in Nat
    BY HolderFacts DEF IInv, TypeOK
  <1> QED
    BY <1>1, ForgetInv DEF Raise, Leave, tables

LEMMA ScanManuscriptInv == ASSUME NEW q \in Requests, IInv, ScanManuscript(q) PROVE IInv'
  <1> DEFINE l == IF Row(q).cites = {} THEN "check" ELSE "bib"
             c == [request[q] EXCEPT !.seen = tex, !.rev = Revision, !.pc = l]
  <1>1. l \in {"check", "bib"}
    OBVIOUS
  <1>2. CASE Raise(q)
    BY <1>2, RaiseInv DEF ScanManuscript, Outside
  <1>3. CASE request' = [request EXCEPT ![q] = c] /\ UNCHANGED <<patch, lock, ends>>
    <2> HIDE DEF l
    <2>1. Revision \in Nat
      BY CallTypes DEF Revision
    <2>2. c \in Calls /\ c.patch = Target(q) /\ c.pc = l
      BY <1>1, <2>1, CallTypes, Destinations DEF Calls
    <2> HIDE DEF c
    <2> QED
      BY <1>1, <1>3, <2>2, ApplyingMove, CallTypes DEF ScanManuscript, tables, files, BeforeWrite
  <1> QED
    BY <1>2, <1>3 DEF ScanManuscript

(* A refused apply.                                                        *)
LEMMA RefuseCall ==
    ASSUME NEW q \in Requests, IInv, NEW l \in Places, NEW code \in Codes, Refuse(q, l, code)
    PROVE  \E c \in Calls : /\ request' = [request EXCEPT ![q] = c]
                             /\ c.patch = Target(q) /\ c.pc = l
  <1> DEFINE c == [request[q] EXCEPT !.pc = l, !.code = code]
  <1>1. c \in Calls /\ c.patch = Target(q) /\ c.pc = l
    BY CallTypes DEF Calls
  <1> QED
    BY <1>1 DEF Refuse

LEMMA ReconcileInv == ASSUME NEW q \in Requests, IInv, Reconcile(q) PROVE IInv'
  <1>1. PICK c \in Calls : /\ request' = [request EXCEPT ![q] = c] /\ c.patch = Target(q)
                           /\ c.pc \in {"conflict", "check", "addbib"}
    <2>1. CASE Refuse(q, "conflict", "BIB_CONFLICT")
      BY <2>1, RefuseCall, Destinations DEF Codes
    <2>2. CASE Goto(q, "check")
      BY <2>2, GotoCall, Destinations
    <2>3. CASE request' = [request EXCEPT ![q].pc = "addbib", ![q].bib = bib]
      <3> DEFINE c == [request[q] EXCEPT !.pc = "addbib", !.bib = bib]
      <3>1. c \in Calls /\ c.patch = Target(q) /\ c.pc = "addbib"
        BY CallTypes, Destinations DEF Calls
      <3>2. request' = [request EXCEPT ![q] = c]
        BY <2>3, CallTypes DEF IInv, TypeOK
      <3> QED
        BY <3>1, <3>2
    <2> QED
      BY <2>1, <2>2, <2>3 DEF Reconcile
  <1> QED
    BY <1>1, ApplyingMove, CallTypes DEF Reconcile, tables, files, BeforeWrite

LEMMA TestBibliographyInv == ASSUME NEW q \in Requests, IInv, TestBibliography(q) PROVE IInv'
  <1>1. PICK c \in Calls : /\ request' = [request EXCEPT ![q] = c] /\ c.patch = Target(q)
                           /\ c.pc \in {"conflict", "putbib"}
    BY GotoCall, RefuseCall, Destinations DEF TestBibliography, Codes
  <1> QED
    BY <1>1, ApplyingMove, CallTypes DEF TestBibliography, tables, files, BeforeWrite

LEMMA ReplaceBibliographyInv ==
    ASSUME NEW q \in Requests, IInv, ReplaceBibliography(q) PROVE IInv'
  <1>1. PICK c \in Calls : /\ request' = [request EXCEPT ![q] = c] /\ c.patch = Target(q)
                           /\ c.pc \in {"conflict", "resync"}
    BY GotoCall, RefuseCall, Destinations DEF ReplaceBibliography, Codes
  <1>2. Row(q).adds \in SUBSET Works /\ request[q].bib \in SUBSET Works /\ Target(q) \in Patches
    BY HolderFacts DEF ReplaceBibliography, Outside, Rows, Calls
  <1>3. bib' \in SUBSET Works /\ bibWritten' \in SUBSET Patches
    BY <1>2, CallTypes DEF ReplaceBibliography
  <1> QED
    BY <1>1, <1>3, ApplyingMove, CallTypes DEF ReplaceBibliography, tables, BeforeWrite

LEMMA ResyncBibliographyInv ==
    ASSUME NEW q \in Requests, IInv, ResyncBibliography(q) PROVE IInv'
  <1>1. PICK c \in Calls : /\ request' = [request EXCEPT ![q] = c] /\ c.patch = Target(q)
                           /\ c.pc \in {"conflict", "check"}
    <2>1. CASE FaultsPossible /\ Refuse(q, "conflict", "BIB_CONFLICT")
      BY <2>1, RefuseCall, Destinations DEF Codes
    <2>2. CASE request' = [request EXCEPT ![q].touched = bib # request[q].bib, ![q].pc = "check"]
      <3> DEFINE d == bib # request[q].bib
                 c == [request[q] EXCEPT !.touched = d, !.pc = "check"]
      <3>1. request' = [request EXCEPT ![q] = c]
        BY <2>2, CallTypes DEF IInv, TypeOK
      <3>2. d \in BOOLEAN
        OBVIOUS
      <3> HIDE DEF d
      <3>3. c \in Calls /\ c.patch = Target(q) /\ c.pc = "check"
        BY <3>2, CallTypes, Destinations DEF Calls
      <3> QED
        BY <3>1, <3>3
    <2> QED
      BY <2>1, <2>2 DEF ResyncBibliography
  <1> QED
    BY <1>1, ApplyingMove, CallTypes DEF ResyncBibliography, tables, files, BeforeWrite

LEMMA CheckSectionInv == ASSUME NEW q \in Requests, IInv, CheckSection(q) PROVE IInv'
  <1>1. PICK c \in Calls : /\ request' = [request EXCEPT ![q] = c] /\ c.patch = Target(q)
                           /\ c.pc \in {"conflict", "fail", "puttex"}
                           /\ c.pc = "puttex" => tex = Row(q).base
    BY GotoCall, RefuseCall, Destinations DEF CheckSection, Codes
  <1> QED
    BY <1>1, ApplyingMove, CallTypes DEF CheckSection, tables, files, BeforeWrite

LEMMA ApplyFailsCall ==
    ASSUME NEW q \in Requests, IInv, ApplyFails(q)
    PROVE  \E c \in Calls : /\ request' = [request EXCEPT ![q] = c]
                             /\ c.patch = Target(q) /\ c.pc = "fail"
  BY RefuseCall, Destinations DEF ApplyFails, Codes

(* The write itself: this call alone is inside the lock, and the text was  *)
(* not written before.                                                     *)
LEMMA ReplaceSectionInv == ASSUME NEW q \in Requests, IInv, ReplaceSection(q) PROVE IInv'
  <1>1. CASE ApplyFails(q) /\ UNCHANGED <<tex, written>>
    BY <1>1, ApplyFailsCall, ApplyingMove, CallTypes DEF ReplaceSection, tables, BeforeWrite
  <1>2. CASE /\ tex' = Target(q)
             /\ written' = [written EXCEPT ![Target(q)] = @ + 1]
             /\ Goto(q, "rescan")
    <2>1. PICK p \in Patches : Target(q) = p
      BY HolderFacts DEF ReplaceSection, Outside
    <2>2. /\ TypeOK /\ PhaseOK(q) /\ RowOK(p) /\ request[q].pc = "puttex" /\ lock = q
          /\ patch[p].status # "ABSENT"
      BY <2>1, HolderFacts DEF ReplaceSection, Outside, Row
    <2>3. PICK c \in Calls : /\ request' = [request EXCEPT ![q] = c]
                             /\ c.patch = p /\ c.pc = "rescan"
      BY <1>2, <2>1, GotoCall, Destinations
    <2>4. request'[q] = c /\ \A k \in Requests \ {q} : request'[k] = request[k]
      BY <2>2, <2>3 DEF TypeOK
    <2>5. written[p] = 0 /\ patch[p].status = "APPLYING"
      BY <2>1, <2>2 DEF PhaseOK, Writing, BeforeWrite, Row
    <2>6. written'[p] = 1 /\ \A o \in Patches \ {p} : written'[o] = written[o]
      BY <1>2, <2>1, <2>2, <2>5 DEF TypeOK
    <2>7. written' \in [Patches -> Nat]
      BY <1>2, <2>1, <2>2 DEF TypeOK
    <2>8. TypeOK'
      BY <1>2, <2>1, <2>2, <2>3, <2>7 DEF TypeOK, ReplaceSection, tables, Texts
    <2>9. PhaseOK(q)'
      BY <2>1, <2>2, <2>3, <2>4, <2>5, <2>6
         DEF PhaseOK, ReplaceSection, tables, Outside, Writing, BeforeWrite, AfterWrite, Target,
             Row
    <2>10. RowOK(p)'
      BY <2>2, <2>5, <2>6 DEF RowOK, ReplaceSection, tables, Applied, Undecided
    <2> QED
      BY <2>1, <2>2, <2>4, <2>6, <2>8, <2>9, <2>10, HolderStep
         DEF ReplaceSection, tables, Outside
  <1> QED
    BY <1>1, <1>2 DEF ReplaceSection

LEMMA RescanInv == ASSUME NEW q \in Requests, IInv, Rescan(q) PROVE IInv'
  <1>1. PICK c \in Calls : /\ request' = [request EXCEPT ![q] = c] /\ c.patch = Target(q)
                           /\ c.pc \in {"project", "fail"}
    <2>1. CASE ApplyFails(q)
      BY <2>1, ApplyFailsCall
    <2>2. CASE request' = [request EXCEPT ![q].seen = tex, ![q].pc = "project"]
      <3> DEFINE c == [request[q] EXCEPT !.seen = tex, !.pc = "project"]
      <3>1. request' = [request EXCEPT ![q] = c]
        BY <2>2, CallTypes DEF IInv, TypeOK
      <3>2. c \in Calls /\ c.patch = Target(q) /\ c.pc = "project"
        BY CallTypes, Destinations DEF Calls
      <3> QED
        BY <3>1, <3>2
    <2> QED
      BY <2>1, <2>2 DEF Rescan
  <1> QED
    BY <1>1, ApplyingMove, CallTypes DEF Rescan, tables, files, AfterWrite

LEMMA SaveProjectionInv == ASSUME NEW q \in Requests, IInv, SaveProjection(q) PROVE IInv'
  <1>1. lock = q /\ request[q].pc = "project" /\ request[q] \in Calls
    BY HolderFacts DEF SaveProjection, Outside, IInv, TypeOK
  <1>2. CASE Raise(q) /\ UNCHANGED projection
    BY <1>1, <1>2, RaiseInv DEF SaveProjection, Outside
  <1>3. CASE ~(Raise(q) /\ UNCHANGED projection)
    <2>1. PICK c \in Calls : /\ request' = [request EXCEPT ![q] = c] /\ c.patch = Target(q)
                             /\ c.pc \in {"audit", "fail"}
      BY <1>3, GotoCall, RefuseCall, Destinations DEF SaveProjection, Codes
    <2>2. projection' \in [version : Nat, hash : Texts]
      BY <1>1, CallTypes DEF SaveProjection, Calls
    <2>3. UNCHANGED <<patch, lock, ends>>
      BY <1>3 DEF SaveProjection
    <2> QED
      BY <1>1, <2>1, <2>2, <2>3, ApplyingMove, CallTypes DEF SaveProjection, files, AfterWrite
  <1> QED
    BY <1>2, <1>3

-----------------------------------------------------------------------------
(* The others: the writer, the editor, the build.                          *)
LEMMA RegisterPatchInv == ASSUME NEW p \in Patches, IInv, RegisterPatch(p) PROVE IInv'
  <1>1. PICK blocked \in BOOLEAN, cites \in SUBSET Works :
           patch' = [patch EXCEPT ![p] =
               [status |-> "AWAITING_APPROVAL", base |-> tex, blocked |-> blocked,
                cites |-> cites, adds |-> cites \ bib, bibBase |-> bib, code |-> "NONE"]]
    BY DEF RegisterPatch
  <1>2. TypeOK /\ patch[p].status = "ABSENT" /\ RowOK(p)
    BY RowsAreOK DEF IInv, RegisterPatch
  <1>3. patch'[p].status = "AWAITING_APPROVAL" /\ \A o \in Patches \ {p} : patch'[o] = patch[o]
    BY <1>1, <1>2 DEF TypeOK
  <1>4. TypeOK'
    BY <1>1, <1>2 DEF RegisterPatch, TypeOK, files, Rows, Statuses, Codes
  <1>5. ASSUME NEW k \in Requests PROVE PhaseOK(k)'
    <2>1. PhaseOK(k) /\ request'[k] = request[k]
      BY DEF IInv, RegisterPatch
    <2>2. request[k].pc # "idle" => request[k].patch \in Patches \ {p}
      BY <1>2, <2>1 DEF PhaseOK, Target, Row
    <2>3. request[k].pc # "idle" => patch'[request[k].patch] = patch[request[k].patch]
      BY <1>3, <2>2
    <2> QED
      BY <2>1, <2>2, <2>3
         DEF PhaseOK, Target, Row, RegisterPatch, files, Outside, Writing, BeforeWrite, AfterWrite
  <1>6. ASSUME NEW o \in Patches PROVE RowOK(o)'
    <2>1. RowOK(o)
      BY RowsAreOK DEF IInv
    <2> QED
      BY <1>2, <1>3, <2>1 DEF RowOK, RegisterPatch, files, Applied, Undecided
  <1>7. AppliedExactlyOnce' /\ AppliedIsRecorded'
    BY <1>6 DEF RowOK, AppliedExactlyOnce, AppliedIsRecorded
  <1> QED
    BY <1>4, <1>5, <1>7 DEF IInv

LEMMA ReportFailedBuildInv == ASSUME NEW p \in Patches, IInv, ReportFailedBuild(p) PROVE IInv'
  <1>1. TypeOK /\ patch[p].status = "APPLIED" /\ patch[p] \in Rows
    BY DEF IInv, ReportFailedBuild, TypeOK
  <1> DEFINE r == [patch[p] EXCEPT !.status = "BUILD_FAILED"]
             a == audits[p] \cup {"build"}
  <1>2. r \in Rows /\ r.status = "BUILD_FAILED" /\ r.adds = patch[p].adds /\ r.base = patch[p].base
    BY <1>1 DEF Rows, Statuses
  <1>3. patch' = [patch EXCEPT ![p] = r] /\ audits' = [audits EXCEPT ![p] = a]
    BY <1>1 DEF ReportFailedBuild, TypeOK
  <1> HIDE DEF r
  <1>4. /\ patch'[p] = r /\ \A o \in Patches \ {p} : patch'[o] = patch[o]
        /\ \A o \in Patches : audits[o] \subseteq audits'[o]
    BY <1>1, <1>3 DEF TypeOK
  <1>5. TypeOK'
    BY <1>1, <1>2, <1>3 DEF ReportFailedBuild, TypeOK, files
  <1>6. ASSUME NEW k \in Requests PROVE PhaseOK(k)'
    <2>1. PhaseOK(k) /\ UNCHANGED <<request[k], tex, lock, written, registry>>
      BY DEF IInv, ReportFailedBuild, files
    <2>2. CASE request[k].pc = "idle"
      BY <2>1, <2>2 DEF PhaseOK, Outside, Writing, BeforeWrite, AfterWrite
    <2>3. CASE request[k].pc # "idle"
      <3>1. PICK o \in Patches : o = request[k].patch
        BY <2>1, <2>3 DEF PhaseOK, Target
      <3>2. CASE o # p
        BY <1>4, <2>1, <3>1, <3>2 DEF PhaseOK, Target, Row
      <3>3. CASE o = p
        <4>1. request[k].pc \notin Writing \cup {"approved"}
          BY <1>1, <2>1, <3>1, <3>3 DEF PhaseOK, Target, Row
        <4> QED
          BY <1>2, <1>4, <2>1, <3>1, <3>3, <4>1
             DEF PhaseOK, Target, Row, Writing, BeforeWrite, AfterWrite
      <3> QED
        BY <3>2, <3>3
    <2> QED
      BY <2>2, <2>3
  <1>7. ASSUME NEW o \in Patches PROVE RowOK(o)'
    <2>1. RowOK(o)
      BY RowsAreOK DEF IInv
    <2> QED
      BY <1>1, <1>2, <1>4, <2>1 DEF RowOK, ReportFailedBuild, files, Applied, Undecided
  <1>8. AppliedExactlyOnce' /\ AppliedIsRecorded'
    BY <1>7 DEF RowOK, AppliedExactlyOnce, AppliedIsRecorded
  <1> QED
    BY <1>5, <1>6, <1>8 DEF IInv

(* What the user saves is nobody's patch.                                  *)
LEMMA SaveInv ==
    ASSUME IInv, (\E e \in Edits : SaveSection(e)) \/ (\E v \in Works : SaveBibliography(v))
    PROVE  IInv'
  <1>1. /\ UNCHANGED <<tables, written, bibWritten, lock, request, crashes>>
        /\ tex' = tex \/ tex' \in Edits
    BY DEF SaveSection, SaveBibliography
  <1>2. TypeOK'
    BY <1>1, WorkAssumption DEF IInv, TypeOK, SaveSection, SaveBibliography, tables, Texts
  <1>3. tex' \in Patches => tex' = tex
    BY <1>1, ContentAssumption
  <1>4. ASSUME NEW k \in Requests PROVE PhaseOK(k)'
    BY <1>1, <1>3 DEF IInv, PhaseOK, Target, Row, tables
  <1> QED
    BY <1>1, <1>2, <1>4 DEF IInv, AppliedExactlyOnce, AppliedIsRecorded, tables

-----------------------------------------------------------------------------
LEMMA NextInv == IInv /\ [Next]_vars => IInv'
  <1> SUFFICES ASSUME IInv, [Next]_vars PROVE IInv'
    OBVIOUS
  <1>1. ASSUME NEW q \in Requests, InLock(q) PROVE IInv'
    BY <1>1, AnswerInv, RejectInv, RefuseStaleDecisionInv, BlockInv, ApproveInv, StartApplyInv,
       ScanManuscriptInv, ReconcileInv, TestBibliographyInv, ReplaceBibliographyInv,
       ResyncBibliographyInv, CheckSectionInv, ReplaceSectionInv, RescanInv, SaveProjectionInv,
       AuditAppliedInv, PersistBindingsInv, CommitInv, CloseInv, AuditRefusalInv
       DEF InLock
  <1>2. ASSUME NEW q \in Requests, RequestStep(q) PROVE IInv'
    BY <1>1, <1>2, DecideInv, LockInv, LockTimesOutInv, CrashInv DEF RequestStep
  <1>3. ASSUME NEW p \in Patches, PatchStep(p) PROVE IInv'
    BY <1>3, RegisterPatchInv, ReportFailedBuildInv DEF PatchStep
  <1>4. CASE UNCHANGED vars
    BY <1>4
       DEF vars, tables, files, IInv, TypeOK, PhaseOK, Target, Row, AppliedExactlyOnce,
           AppliedIsRecorded
  <1> QED
    BY <1>2, <1>3, <1>4, SaveInv DEF Next

LEMMA Invariance == Spec => []IInv
  BY Initially, NextInv, PTL DEF Spec

(* The text of a patch replaces the section file at most once, and the     *)
(* status of its row says whether it did (apply_patch and approve), for    *)
(* any number of concurrent calls, editor saves, faults and crashes.       *)
THEOREM ExactlyOnce == Spec => []AppliedExactlyOnce
  <1>1. IInv => AppliedExactlyOnce
    BY DEF IInv
  <1> QED
    BY <1>1, Invariance, PTL

(* A row that says APPLIED has its audit entry and its citation bindings.  *)
THEOREM Recorded == Spec => []AppliedIsRecorded
  <1>1. IInv => AppliedIsRecorded
    BY DEF IInv
  <1> QED
    BY <1>1, Invariance, PTL

(* When the text of one patch replaces that of another, the writer drafted *)
(* it on that text: the base check of apply_patch, under the write lock.   *)
THEOREM SeenBeforeReplaced == Spec => PatchesSeeEachOther
  <1>1. IInv /\ [Next]_vars =>
           [\A q \in Requests : ReplaceSection(q) /\ written' # written /\ tex \in Patches
                                    => tex = Row(q).base]_vars
    BY DEF IInv, PhaseOK, ReplaceSection
  <1> QED
    BY <1>1, Invariance, PTL DEF Spec, PatchesSeeEachOther

-----------------------------------------------------------------------------
(* Citations, while nobody removes entries.  Most steps keep the citations *)
(* of every registered patch, do not shrink references.bib and write no    *)
(* patch text: they only have to show what the calls they move know.       *)
LEMMA QuietStep ==
    ASSUME IInv, CitationsInv, bib \subseteq bib', UNCHANGED written,
           \A p \in Patches : patch[p].status # "ABSENT" =>
               patch'[p].cites = patch[p].cites /\ patch'[p].adds = patch[p].adds,
           \A k \in Requests : request'[k] = request[k] \/ BibliographyOK(k)'
    PROVE  CitationsInv'
  <1>1. \A p \in Patches : written[p] > 0 => patch'[p].cites = patch[p].cites
    BY RowsAreOK DEF IInv, RowOK, Undecided
  <1>2. CitationsResolve'
    BY <1>1 DEF CitationsInv, CitationsResolve
  <1>3. ASSUME NEW k \in Requests, request'[k] = request[k] PROVE BibliographyOK(k)'
    <2>1. BibliographyOK(k)
      BY DEF CitationsInv
    <2>2. CASE request[k].pc \in Outside
      BY <1>3, <2>2 DEF BibliographyOK, Outside
    <2>3. CASE request[k].pc \notin Outside
      <3>1. PICK p \in Patches : Target(k) = p
        BY <2>3, HolderFacts
      <3>2. patch'[p].cites = patch[p].cites /\ patch'[p].adds = patch[p].adds
        BY <2>3, <3>1, HolderFacts DEF Row
      <3> QED
        BY <1>1, <1>3, <2>1, <3>1, <3>2 DEF BibliographyOK, Target, Row
    <2> QED
      BY <2>2, <2>3
  <1> QED
    BY <1>2, <1>3 DEF CitationsInv

(* A call that has moved to a place where it knows nothing of the file.    *)
Knowing == {"addbib", "putbib", "resync", "check", "puttex"}

LEMMA Unknowing ==
    ASSUME NEW q \in Requests, request'[q].pc \notin Knowing
    PROVE  BibliographyOK(q)'
  BY DEF Knowing, BibliographyOK

(* The steps of a call other than those of its apply that read the file.   *)
LEMMA TableStep ==
    ASSUME NEW q \in Requests, IInv, CitationsInv,
           \/ Answer(q) \/ Reject(q) \/ RefuseStaleDecision(q) \/ Block(q) \/ Approve(q)
           \/ StartApply(q) \/ Rescan(q) \/ SaveProjection(q) \/ AuditApplied(q)
           \/ PersistBindings(q) \/ Commit(q) \/ Close(q) \/ AuditRefusal(q)
           \/ LockTimesOut(q) \/ Lock(q) \/ Crash(q) \/ \E p \in Patches : Decide(q, p)
           \/ ScanManuscript(q) /\ Raise(q)
    PROVE  CitationsInv'
  <1>1. request \in [Requests -> Calls] /\ patch \in [Patches -> Rows]
    BY DEF IInv, TypeOK
  <1>2. UNCHANGED <<bib, written>>
    BY DEF files, Answer, Reject, RefuseStaleDecision, Block, Approve, StartApply, Rescan,
           SaveProjection, AuditApplied, PersistBindings, Commit, Close, AuditRefusal,
           LockTimesOut, Lock, Crash, Decide, ScanManuscript
  <1>3. PICK c : request' = [request EXCEPT ![q] = c] /\ c.pc \notin Knowing
    <2>1. \/ request' = [request EXCEPT ![q] = Idle]
          \/ \E l \in Places \ Knowing : Goto(q, l)
          \/ \E code : Refuse(q, "fail", code)
          \/ request' = [request EXCEPT ![q].seen = tex, ![q].pc = "project"]
          \/ \E p \in Patches : Decide(q, p)
      BY DEF Places, Outside, Writing, BeforeWrite, AfterWrite, Knowing, ApplyFails, Goto, Leave,
             Raise, Answer, Reject, RefuseStaleDecision, Block, Approve, StartApply, Rescan,
             SaveProjection, AuditApplied, PersistBindings, Commit, Close, AuditRefusal,
             LockTimesOut, Lock, Crash
    <2>2. request[q] \in Calls
      BY <1>1
    <2>3. CASE request' = [request EXCEPT ![q] = Idle]
      <3>1. Idle.pc \notin Knowing
        BY DEF Idle, Knowing
      <3> QED
        BY <2>3, <3>1
    <2>4. ASSUME NEW l \in Places \ Knowing, Goto(q, l)
          PROVE  \E c : request' = [request EXCEPT ![q] = c] /\ c.pc \notin Knowing
      BY <2>4, GotoCall
    <2>5. ASSUME NEW code, Refuse(q, "fail", code)
          PROVE  \E c : request' = [request EXCEPT ![q] = c] /\ c.pc \notin Knowing
      <3> DEFINE c == [request[q] EXCEPT !.pc = "fail", !.code = code]
      <3>1. c.pc = "fail" /\ request' = [request EXCEPT ![q] = c]
        BY <1>1, <2>2, <2>5 DEF Refuse, Calls
      <3> QED
        BY <3>1 DEF Knowing
    <2>6. CASE request' = [request EXCEPT ![q].seen = tex, ![q].pc = "project"]
      <3> DEFINE c == [request[q] EXCEPT !.seen = tex, !.pc = "project"]
      <3>1. c.pc = "project" /\ request' = [request EXCEPT ![q] = c]
        BY <1>1, <2>2, <2>6 DEF Calls
      <3> QED
        BY <3>1 DEF Knowing
    <2>7. ASSUME NEW p \in Patches, Decide(q, p)
          PROVE  \E c : request' = [request EXCEPT ![q] = c] /\ c.pc \notin Knowing
      <3>1. PICK verdict, match :
               request' = [request EXCEPT ![q] = [Idle EXCEPT
                   !.pc = "waiting", !.patch = p, !.verdict = verdict, !.match = match]]
        BY <2>7 DEF Decide
      <3> DEFINE c == [Idle EXCEPT !.pc = "waiting", !.patch = p, !.verdict = verdict,
                                   !.match = match]
      <3>2. c.pc = "waiting" /\ request' = [request EXCEPT ![q] = c]
        BY <3>1 DEF Idle
      <3> QED
        BY <3>2 DEF Knowing
    <2> QED
      BY <2>1, <2>3, <2>4, <2>5, <2>6, <2>7
  <1>4. \A p \in Patches : patch'[p].cites = patch[p].cites /\ patch'[p].adds = patch[p].adds
    <2>1. CASE \/ Reject(q) \/ RefuseStaleDecision(q) \/ Approve(q) \/ StartApply(q)
               \/ Commit(q) \/ Close(q)
      <3>1. \E from, to, code : Transition(q, from, to, code)
        BY <2>1 DEF Reject, RefuseStaleDecision, Approve, StartApply, Commit, Close
      <3>2. PICK to, code :
               patch' = [patch EXCEPT ![Target(q)].status = to, ![Target(q)].code = code]
        BY <3>1 DEF Transition
      <3> QED
        BY <1>1, <3>2 DEF Rows
    <2>2. CASE \/ Answer(q) \/ Block(q) \/ Rescan(q) \/ SaveProjection(q) \/ AuditApplied(q)
               \/ PersistBindings(q) \/ AuditRefusal(q) \/ LockTimesOut(q) \/ Lock(q)
               \/ Crash(q) \/ (\E p \in Patches : Decide(q, p))
               \/ ScanManuscript(q) /\ Raise(q)
      BY <2>2
         DEF tables, Answer, Block, Rescan, SaveProjection, AuditApplied, PersistBindings,
             AuditRefusal, LockTimesOut, Lock, Crash, Decide, Raise
    <2> QED
      BY <2>1, <2>2
  <1>5. request'[q] = c /\ \A k \in Requests \ {q} : request'[k] = request[k]
    BY <1>1, <1>3
  <1>6. BibliographyOK(q)'
    BY <1>3, <1>5, Unknowing
  <1> QED
    BY <1>2, <1>4, <1>5, <1>6, QuietStep

(* The steps of an apply that read or write references.bib or the section. *)
LEMMA ApplyStep ==
    ASSUME NEW q \in Requests, IInv, CitationsInv,
           \/ ScanManuscript(q) /\ ~Raise(q)
           \/ Reconcile(q) \/ TestBibliography(q) \/ ResyncBibliography(q) \/ CheckSection(q)
    PROVE  CitationsInv'
  <1>1. /\ request \in [Requests -> Calls] /\ request[q].pc \notin Outside
        /\ UNCHANGED <<tables, bib, written>>
    BY DEF IInv, TypeOK, Outside, tables, files, ScanManuscript, Reconcile, TestBibliography,
           ResyncBibliography, CheckSection
  <1>2. PICK p \in Patches : Target(q) = p
    BY <1>1, HolderFacts
  <1>3. \A k \in Requests \ {q} : request'[k] = request[k]
    BY <1>1
       DEF ScanManuscript, Reconcile, TestBibliography, ResyncBibliography, CheckSection, Goto,
           Refuse
  <1>4. request'[q].patch = p /\ request[q] \in Calls /\ BibliographyOK(q) /\ CitationsResolve
    BY <1>1, <1>2
       DEF ScanManuscript, Reconcile, TestBibliography, ResyncBibliography, CheckSection, Goto,
           Refuse, Target, Calls, CitationsInv
  <1>5. BibliographyOK(q)'
    <2>1. CASE ScanManuscript(q) /\ ~Raise(q)
      BY <1>1, <1>2, <1>4, <2>1 DEF ScanManuscript, BibliographyOK, Target, Row, tables, Calls
    <2>2. CASE Reconcile(q)
      BY <1>1, <1>2, <1>4, <2>2
         DEF Reconcile, BibStale, Goto, Refuse, BibliographyOK, Target, Row, tables, Calls,
             CitationsResolve
    <2>3. CASE TestBibliography(q)
      BY <1>1, <1>2, <1>4, <2>3
         DEF TestBibliography, Goto, Refuse, BibliographyOK, Target, Row, tables, Calls
    <2>4. CASE ResyncBibliography(q)
      BY <1>1, <1>2, <1>4, <2>4
         DEF ResyncBibliography, Refuse, BibliographyOK, Target, Row, tables, Calls
    <2>5. CASE CheckSection(q)
      BY <1>1, <1>2, <1>4, <2>5
         DEF CheckSection, Goto, Refuse, BibliographyOK, Target, Row, tables, Calls
    <2> QED
      BY <2>1, <2>2, <2>3, <2>4, <2>5
  <1> QED
    BY <1>1, <1>3, <1>5, QuietStep DEF tables

(* A write of references.bib may lose an entry the user has just added,    *)
(* but none that the call has read.                                        *)
LEMMA ReplaceBibliographyStep ==
    ASSUME NEW q \in Requests, IInv, CitationsInv, ReplaceBibliography(q)
    PROVE  CitationsInv'
  <1>1. PICK p \in Patches : Target(q) = p
    BY HolderFacts DEF ReplaceBibliography, Outside
  <1>2. /\ request \in [Requests -> Calls] /\ request[q] \in Calls /\ lock = q
        /\ request[q].pc = "putbib" /\ BibliographyOK(q) /\ UNCHANGED <<patch, written>>
    BY HolderFacts DEF IInv, TypeOK, ReplaceBibliography, Outside, CitationsInv, tables
  <1>3. /\ \A k \in Requests \ {q} : request'[k] = request[k]
        /\ request'[q].patch = p /\ request'[q].pc \in {"resync", "conflict"}
        /\ request'[q].pc = "resync" => bib' = bib \cup patch[p].adds
                                         \/ bib' = request[q].bib \cup patch[p].adds
    BY <1>1, <1>2 DEF ReplaceBibliography, Goto, Refuse, Target, Row, Calls
  <1>4. request[q].bib \subseteq bib'
    BY <1>1, <1>2 DEF ReplaceBibliography, BibliographyOK
  <1>5. CitationsResolve'
    BY <1>2, <1>4 DEF BibliographyOK, CitationsResolve
  <1>6. BibliographyOK(q)'
    BY <1>1, <1>2, <1>3 DEF BibliographyOK, Target, Row
  <1>7. ASSUME NEW k \in Requests, k # q PROVE BibliographyOK(k)'
    <2>1. request[k].pc \in Outside /\ request'[k] = request[k]
      BY <1>2, <1>3, <1>7 DEF IInv, PhaseOK
    <2> QED
      BY <2>1 DEF BibliographyOK, Outside
  <1> QED
    BY <1>5, <1>6, <1>7 DEF CitationsInv

(* The write of the section, whose citations the check has found resolved. *)
LEMMA ReplaceSectionStep ==
    ASSUME NEW q \in Requests, IInv, CitationsInv, ReplaceSection(q)
    PROVE  CitationsInv'
  <1>1. PICK p \in Patches : Target(q) = p
    BY HolderFacts DEF ReplaceSection, Outside
  <1>2. /\ request \in [Requests -> Calls] /\ request[q] \in Calls
        /\ request[q].pc = "puttex" /\ BibliographyOK(q) /\ UNCHANGED <<patch, bib>>
        /\ written \in [Patches -> Nat] /\ lock = q
    BY HolderFacts DEF IInv, TypeOK, ReplaceSection, Outside, CitationsInv, tables
  <1>3. /\ \A k \in Requests \ {q} : request'[k] = request[k]
        /\ request'[q].pc \in {"rescan", "fail"}
    BY <1>2 DEF ReplaceSection, Goto, ApplyFails, Refuse, Calls
  <1>4. \A o \in Patches \ {p} : written'[o] = written[o]
    BY <1>1, <1>2 DEF ReplaceSection
  <1>5. patch[p].cites \subseteq bib
    BY <1>1, <1>2 DEF BibliographyOK, Row
  <1>6. CitationsResolve'
    BY <1>2, <1>4, <1>5 DEF CitationsInv, CitationsResolve
  <1>7. ASSUME NEW k \in Requests PROVE BibliographyOK(k)'
    <2>1. CASE k = q
      BY <1>3, <2>1, Unknowing DEF Knowing
    <2>2. CASE k # q
      <3>1. request[k].pc \in Outside /\ request'[k] = request[k]
        BY <1>2, <1>3, <2>2 DEF IInv, PhaseOK
      <3> QED
        BY <3>1 DEF BibliographyOK, Outside
    <2> QED
      BY <2>1, <2>2
  <1> QED
    BY <1>6, <1>7 DEF CitationsInv

(* While nobody removes entries from references.bib, the manuscript holds  *)
(* no patch text with a citation that has no entry there, although an      *)
(* editor saves the file between the steps of an apply (apply_patch,       *)
(* reconcile and write_changes).                                           *)
THEOREM EveryCitationResolves == ASSUME UserRemoves = FALSE PROVE Spec => []CitationsResolve
  <1>1. Init => CitationsInv
    BY DEF Init, Idle, CitationsInv, CitationsResolve, BibliographyOK
  <1>2. IInv /\ CitationsInv /\ [Next]_vars => CitationsInv'
    <2> SUFFICES ASSUME IInv, CitationsInv, [Next]_vars PROVE CitationsInv'
      OBVIOUS
    <2>1. ASSUME NEW q \in Requests, RequestStep(q) PROVE CitationsInv'
      BY <2>1, TableStep, ApplyStep, ReplaceBibliographyStep, ReplaceSectionStep
         DEF RequestStep, InLock
    <2>2. ASSUME NEW p \in Patches, RegisterPatch(p) PROVE CitationsInv'
      <3>1. /\ \A o \in Patches : patch[o].status # "ABSENT" => patch'[o] = patch[o]
            /\ UNCHANGED <<bib, written, request>>
        BY <2>2 DEF RegisterPatch, files, IInv, TypeOK
      <3> QED
        BY <3>1, QuietStep
    <2>3. ASSUME NEW p \in Patches, ReportFailedBuild(p) PROVE CitationsInv'
      <3>1. /\ \A o \in Patches : patch'[o].cites = patch[o].cites /\ patch'[o].adds = patch[o].adds
            /\ UNCHANGED <<bib, written, request>>
        BY <2>3 DEF ReportFailedBuild, files, IInv, TypeOK, Rows
      <3> QED
        BY <3>1, QuietStep
    <2>4. CASE (\E e \in Edits : SaveSection(e)) \/ (\E v \in Works : SaveBibliography(v))
      <3>1. bib \subseteq bib' /\ UNCHANGED <<patch, written, request>>
        BY <2>4 DEF SaveSection, SaveBibliography, tables
      <3> QED
        BY <3>1, QuietStep
    <2>5. CASE UNCHANGED vars
      BY <2>5, QuietStep DEF vars, tables, files
    <2> QED
      BY <2>1, <2>2, <2>3, <2>4, <2>5 DEF Next, PatchStep
  <1>3. CitationsInv => CitationsResolve
    BY DEF CitationsInv
  <1> QED
    BY <1>1, <1>2, <1>3, Invariance, PTL DEF Spec
=============================================================================
