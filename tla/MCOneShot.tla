------------------------------ MODULE MCOneShot ------------------------------
(***************************************************************************)
(* Both attempts, each with up to three approval requests: a first one, one *)
(* repeated or refused by the session, and one that is not handled.         *)
(***************************************************************************)
EXTENDS OneShot
===============================================================================
