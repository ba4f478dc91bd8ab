---------------------------- MODULE MCJsonlReader ----------------------------
(***************************************************************************)
(* Two calls and the wait, up to three messages nothing called for, of two  *)
(* sizes; two of the large ones are over the limit of the bytes, three of   *)
(* the small ones over that of the messages.                                *)
(***************************************************************************)
EXTENDS JsonlReader
===============================================================================
