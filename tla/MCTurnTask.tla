------------------------------ MODULE MCTurnTask ------------------------------
(***************************************************************************)
(* One execution with three requests: one during a call, one while the turn *)
(* is awaited and one that is interrupted, and two of them with one key.    *)
(***************************************************************************)
EXTENDS TurnTask

CONSTANTS t1, r1, r2, r3, k1, k2

AllOfT1 == [r \in Request |-> t1]
RepeatedKey == [r \in Request |-> IF r = r3 THEN k2 ELSE k1]
===============================================================================
