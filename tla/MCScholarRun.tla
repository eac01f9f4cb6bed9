---------------------------- MODULE MCScholarRun ----------------------------
EXTENDS ScholarRun, TLC

CONSTANTS r1, r2, k1, k2, s1, s2, w1, w2

(* Two calls with one key that reach different sessions.                   *)
SameKey == (r1 :> k1) @@ (r2 :> k1)
TwoSessions == (r1 :> s1) @@ (r2 :> s2)

(* One call.                                                               *)
OneKey == r1 :> k1
One == r1 :> s1

(* The steps of an instance with one call, up to the bound on its faults.  *)
OneCallNext == Next /\ faults' <= MaxFaults
OneCallSpec == Init /\ [][OneCallNext]_vars

(* Workers are told apart only by their names.                             *)
WorkerSymmetry == Permutations({w1, w2})
=============================================================================
