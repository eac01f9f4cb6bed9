---------------------------- MODULE FlowContract ----------------------------
(***************************************************************************)
(* What a Run may rely on while a flow works for it: the three steps that  *)
(* module ScholarRun takes for a whole flow (SaveCheckpoint, Propose and   *)
(* FlowEnds).  Module ManagerFlow implements this contract, crashes and    *)
(* replays included, which is what makes those three steps enough.         *)
(***************************************************************************)

VARIABLES
    drafting,   \* the Run's route drafts a patch
    saved,      \* the Run has a checkpoint
    proposed,   \* the Run's patch is registered
    result      \* of the flow

contractVars == <<drafting, saved, proposed, result>>

Init == /\ drafting \in BOOLEAN
        /\ saved = FALSE
        /\ proposed = FALSE
        /\ result = "none"

(* A checkpoint is written before a capability is called.                  *)
Save == /\ result = "none"
        /\ saved' = TRUE
        /\ UNCHANGED <<drafting, proposed, result>>

(* One proposal, by a drafting route, never before a checkpoint.           *)
Propose == /\ result = "none"
           /\ drafting /\ saved /\ ~proposed
           /\ proposed' = TRUE
           /\ UNCHANGED <<drafting, saved, result>>

(* The end takes the checkpoint with it.  A drafting route never completes *)
(* by itself, it waits for the human; the others never wait.               *)
End == /\ result = "none"
       /\ \/ result' = "FAILED"
          \/ result' = "COMPLETED" /\ ~drafting /\ saved
          \/ result' = "WAITING_HUMAN_APPROVAL" /\ proposed
       /\ saved' = FALSE
       /\ UNCHANGED <<drafting, proposed>>

Next == Save \/ Propose \/ End

Spec == Init /\ [][Next]_contractVars
=============================================================================
