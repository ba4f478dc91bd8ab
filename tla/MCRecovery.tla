------------------------------ MODULE MCRecovery ------------------------------
(***************************************************************************)
(* Two executions, so that an approval key comes back in the second with    *)
(* its first request decided, recovered or dropped, and two keys, so that a *)
(* recovery is cut between two approvals.                                   *)
(***************************************************************************)
EXTENDS Recovery, TLC

CONSTANTS x1, x2, k1, k2

Symmetry == Permutations(Execution) \cup Permutations(Key)
===============================================================================
