---------------------------- MODULE MCEventReplay ----------------------------
(***************************************************************************)
(* Three turns that compete for the replay bytes, with room for two        *)
(* records, and a subscriber that comes, falls behind and comes back.       *)
(***************************************************************************)
EXTENDS EventReplay

CONSTANTS t1, t2, t3, s1

FirstTurn == [s \in Subscriber |-> t1]
===============================================================================
