------------------------------- MODULE AppendLog -------------------------------
(***************************************************************************)
(* What the journal promises of its appends: an append takes effect in one  *)
(* step between its call and its return, or not at all.  One that returned  *)
(* Ok is in the log, one that returned WriterStopped never gets there, one  *)
(* that failed is not there unless it carried captures, and one whose       *)
(* caller went away may still take effect, once.                            *)
(***************************************************************************)
EXTENDS Naturals, Sequences

CONSTANTS
    Id,       \* the calls of append
    Plain     \* those without captures to store

VARIABLES rows, result

Undecided == {"open", "dropped"}

LogInit ==
    /\ rows = <<>>
    /\ result = [i \in Id |-> "none"]

Written(i) == \E n \in 1 .. Len(rows) : rows[n] = i

Call(i) ==
    /\ result[i] = "none"
    /\ result' = [result EXCEPT ![i] = "open"]
    /\ UNCHANGED rows

Commit(i) ==
    /\ result[i] \in Undecided /\ ~Written(i)
    /\ rows' = Append(rows, i)
    /\ UNCHANGED result

Drop(i) ==
    /\ result[i] = "open"
    /\ result' = [result EXCEPT ![i] = "dropped"]
    /\ UNCHANGED rows

\* What an answer says of the log.
Agrees(i, r) ==
    CASE r = "ok"      -> Written(i)
      [] r = "failed"  -> i \in Plain => ~Written(i)
      [] r = "stopped" -> ~Written(i)
      [] r = "lost"    -> TRUE

\* A writer that stops and a process that ends settle several calls at once.
Settle(r) ==
    /\ \E I \in SUBSET Id :
        /\ \A i \in I : result[i] = "open" /\ Agrees(i, r)
        /\ result' = [i \in Id |-> IF i \in I THEN r ELSE result[i]]
    /\ UNCHANGED rows

LogNext ==
    \/ \E i \in Id : Call(i) \/ Commit(i) \/ Drop(i)
    \/ \E r \in {"ok", "failed", "stopped", "lost"} : Settle(r)

LogSpec == LogInit /\ [][LogNext]_<<rows, result>>
===============================================================================
