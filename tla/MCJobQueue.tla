----------------------------- MODULE MCJobQueue -----------------------------
(***************************************************************************)
(* The instances of JobQueue that TLC checks: in a behaviour either one    *)
(* job meets a canceller, a replay and two deaths, or two jobs of a scope  *)
(* meet one death.                                                         *)
(***************************************************************************)
EXTENDS JobQueue, TLC

CONSTANTS j1, j2, w1, w2, c1, tenantA

OneScope == [j \in Jobs |-> tenantA]

VARIABLE cast      \* what this behaviour is about

MCInit == Init /\ cast \in {"one", "two"}

MCNext == /\ Next /\ UNCHANGED cast
          /\ cast = "one" => \A j \in Jobs \ {j1} : job'[j] = AbsentRow
          /\ cast = "two" => UNCHANGED <<caller, resets>> /\ crashes' <= 1

MCSpec == MCInit /\ [][MCNext]_<<cast, vars>> /\ Fairness
=============================================================================
