-------------------------- MODULE MCPatchApproval --------------------------
(***************************************************************************)
(* The instances of PatchApproval that TLC checks: in a behaviour either   *)
(* two decisions and the editor meet over patches that cite nothing, or    *)
(* one decision at a time meets a user who edits the bibliography.  In the *)
(* first, one caller only ever accepts and one patch has no blocking       *)
(* issue; the other caller and the other patch do everything.  In the      *)
(* second no patch has one.                                                *)
(***************************************************************************)
EXTENDS PatchApproval

CONSTANTS p1, p2, q1, q2, e1, v1

VARIABLE cast      \* what this behaviour is about

MCInit == Init /\ cast \in {"texts", "citations"}

MCNext == /\ Next /\ UNCHANGED cast
          /\ cast = "texts" => /\ bib' = {}
                               /\ \A p \in Patches : patch'[p].cites = {}
                               /\ request'[q1].verdict = "ACCEPT" /\ request'[q1].match
                               /\ ~patch'[p2].blocked
          /\ cast = "citations" => /\ tex' \notin Edits
                                   /\ \A p \in Patches : ~patch'[p].blocked
                                   /\ \A q \in Requests \ {q1} : request'[q].pc = "idle"

MCSpec == MCInit /\ [][MCNext]_<<cast, vars>> /\ Fairness
=============================================================================
