----------------------------- MODULE MCDeployed -----------------------------
(***************************************************************************)
(* A deployed service from outside and from inside: a behaviour is about   *)
(* Runs, Jobs, workers and users (ScholarRun), where a flow is the three   *)
(* steps of FlowContract, or about one flow (ManagerFlow).  In a behaviour *)
(* about Runs the one flow of ManagerFlow fails before anything else.      *)
(***************************************************************************)
EXTENDS MCScholarRun, ManagerFlow

CONSTANTS t1, t2

VARIABLE cast   \* "runs" or "flow"

MCInit ==
  /\ cast \in {"runs", "flow"} /\ Init /\ FlowInit
  /\ cast = "runs" => route = "RESEARCH"

Flows == FlowNext /\ (cast = "runs" => Fails)

MCNext ==
  /\ UNCHANGED cast
  /\ \/ Flows /\ UNCHANGED vars
     \/ cast = "runs" /\ result # "none" /\ Next /\ UNCHANGED flowVars

MCSpec == /\ MCInit /\ [][MCNext]_<<cast, vars, flowVars>>
          /\ cast = "runs" => Fairness
          /\ WF_flowVars(Flows /\ Works /\ UNCHANGED vars)
=============================================================================
