---------------------------------- MODULE Lists ----------------------------------
(***************************************************************************)
(* What the modules of the buffers have in common.                          *)
(***************************************************************************)
EXTENDS SequencesExt

\* The elements of a list that are in a set, in their order.
Filter(list, kept) == FoldLeft(LAMBDA r, e : IF e \in kept THEN Append(r, e) ELSE r, <<>>, list)
===============================================================================
