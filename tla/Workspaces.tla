----------------------------- MODULE Workspaces -----------------------------
(***************************************************************************)
(* The default workspace and its versioned scopes, kept by                 *)
(* app/workspaces/service.py in one JSON file.  A scope version is the set *)
(* of documents a retrieval may use; requests name a version and expect it *)
(* to stay what it was.  Neither operation is one write: ensure_default    *)
(* puts the workspace, the scope and the memberships, and                  *)
(* replace_scope_documents puts the memberships, the scope and, last, the  *)
(* version that publishes them.  The process can die between two writes.   *)
(*                                                                         *)
(* One caller at a time.  Every put of the repository is one step here; it *)
(* is an unlocked load and save of the whole file.                         *)
(***************************************************************************)
EXTENDS Naturals

CONSTANTS
  Documents        \* canonical documents, by document_id

VARIABLES
  corpus,          \* the documents under data/canonical
  version,         \* workspace.scope_version; 0: there is no workspace yet
  scopes,          \* the stored ResearchScope snapshots: version -> documents
  members,         \* the stored WorkspaceDocument records
  call,            \* where the running service call is
  planned          \* the documents that call works on

wsVars == <<version, scopes, members, call, planned>>
workspaceVars == <<corpus, wsVars>>

NotRemoved == 0

Calls == {"none", "default_scope", "default_members", "replace_scope", "replace_version"}

Membership == [document: Documents, added: Nat, removed: Nat]

Init ==
  /\ corpus \in SUBSET Documents
  /\ version = 0
  /\ scopes = [v \in {} |-> {}]
  /\ members = {}
  /\ call = "none"
  /\ planned = {}

\* active_document_ids: a version's documents, when its snapshot is stored.
HasScope(v) == v \in DOMAIN scopes

\* evidence_grade finds a membership that holds at version v.
GradedAt(d, v) ==
  \E m \in members : /\ m.document = d
                     /\ m.added <= v
                     /\ m.removed = NotRemoved \/ v < m.removed

Member(d, v) == [document |-> d, added |-> v, removed |-> NotRemoved]

WithScope(v, docs) == [w \in DOMAIN scopes \cup {v} |-> IF w = v THEN docs ELSE scopes[w]]

-----------------------------------------------------------------------------
\* A document is parsed into the corpus; nothing in the code takes one out.
AddDocument ==
  /\ \E d \in Documents \ corpus : corpus' = corpus \cup {d}
  /\ UNCHANGED wsVars

-----------------------------------------------------------------------------
(* ensure_default, when there is no workspace                              *)

PutDefaultWorkspace ==
  /\ call = "none" /\ version = 0
  /\ version' = 1
  /\ planned' = corpus
  /\ call' = "default_scope"
  /\ UNCHANGED <<corpus, scopes, members>>

PutDefaultScope ==
  /\ call = "default_scope"
  /\ scopes' = WithScope(1, planned)
  /\ call' = "default_members"
  /\ UNCHANGED <<corpus, version, members, planned>>

PutDefaultMembers ==
  /\ call = "default_members"
  /\ members' = {Member(d, 1) : d \in planned}
  /\ call' = "none" /\ planned' = {}
  /\ UNCHANGED <<corpus, version, scopes>>

-----------------------------------------------------------------------------
(* synchronize_default_documents and replace_scope_documents               *)

OutOfDate == version > 0 /\ HasScope(version) /\ scopes[version] # corpus

\* mutant: memberships are only closed.
ClosedMembers(requested) ==
  LET leaving == {m \in members : m.document \in scopes[version] \ requested}
  IN  (members \ leaving) \cup {[m EXCEPT !.removed = version + 1] : m \in leaving}

\* The memberships of the next version: a document that leaves is closed at it,
\* one that arrives is opened at it.  Some membership of every leaving document
\* must be open (active_by_id[document_id]).
NextMembers(requested) ==
  LET next    == version + 1
      active  == scopes[version]
      leaving == {m \in members : m.document \in active \ requested /\ m.removed = NotRemoved}
  IN  (members \ leaving)
        \cup {[m EXCEPT !.removed = next] : m \in leaving}
        \cup {Member(d, next) : d \in requested \ active}

PutMembers ==
  /\ call = "none" /\ OutOfDate
  /\ \A d \in scopes[version] \ corpus :
       \E m \in members : m.document = d /\ m.removed = NotRemoved
  /\ members' = NextMembers(corpus)
  /\ planned' = corpus
  /\ call' = "replace_scope"
  /\ UNCHANGED <<corpus, version, scopes>>

\* mutant: the new snapshot is stored under the version that is published.
PutScopeInPlace ==
  /\ call = "replace_scope"
  /\ scopes' = WithScope(version, planned)
  /\ call' = "replace_version"
  /\ UNCHANGED <<corpus, version, members, planned>>

PutScope ==
  /\ call = "replace_scope"
  /\ scopes' = WithScope(version + 1, planned)
  /\ call' = "replace_version"
  /\ UNCHANGED <<corpus, version, members, planned>>

PublishVersion ==
  /\ call = "replace_version"
  /\ version' = version + 1
  /\ call' = "none" /\ planned' = {}
  /\ UNCHANGED <<corpus, scopes, members>>

\* The process dies between two puts; what was put stays.
CallLost ==
  /\ call # "none"
  /\ call' = "none" /\ planned' = {}
  /\ UNCHANGED <<corpus, version, scopes, members>>

-----------------------------------------------------------------------------
ServiceStep ==
  \/ PutDefaultWorkspace \/ PutDefaultScope \/ PutDefaultMembers
  \/ PutMembers \/ PutScope \/ PublishVersion

Next == AddDocument \/ ServiceStep \/ CallLost

Spec == Init /\ [][Next]_workspaceVars

-----------------------------------------------------------------------------
TypeOK ==
  /\ corpus \in SUBSET Documents
  /\ version \in Nat
  /\ DOMAIN scopes \in SUBSET Nat
  /\ \A v \in DOMAIN scopes : scopes[v] \in SUBSET Documents
  /\ members \in SUBSET Membership
  /\ call \in Calls
  /\ planned \in SUBSET Documents

\* The default workspace was set up to the end: its first snapshot is stored and
\* every document of it has the membership that opened it.
DefaultComplete ==
  /\ HasScope(1)
  /\ \A d \in scopes[1] : Member(d, 1) \in members

\* A published scope can be used as a whole: from version 1 to the published one
\* every snapshot is stored and every document of it has an evidence grade,
\* whatever put the process died after.  ensure_default is the exception: what it
\* leaves half done no later call repairs, so it must have run to its end.
ScopeWhole ==
  DefaultComplete =>
    \A v \in 1..version : HasScope(v) /\ \A d \in scopes[v] : GradedAt(d, v)

\* A request that names a published scope version keeps getting the same documents:
\* no step changes or drops a stored snapshot of a published version, and the
\* published version never goes back.
ScopeStable ==
  [][/\ version' >= version
     /\ \A v \in 1..version : HasScope(v) => v \in DOMAIN scopes' /\ scopes'[v] = scopes[v]
    ]_workspaceVars
=============================================================================
