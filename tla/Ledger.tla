-------------------------------- MODULE Ledger --------------------------------
(***************************************************************************)
(* What the journal promises of executions: each is opened once and closed  *)
(* once, either by its own terminal record or by the recovery of a later    *)
(* start, and a closed execution stays as it was closed.                    *)
(***************************************************************************)
CONSTANT Execution

VARIABLE entry

Closed == {"completed", "interrupted", "failed", "unknown"}

LedgerInit == entry = [x \in Execution |-> "absent"]

Open(x) == entry[x] = "absent" /\ entry' = [entry EXCEPT ![x] = "open"]

Close(x) ==
    /\ entry[x] = "open"
    /\ \E status \in Closed : entry' = [entry EXCEPT ![x] = status]

LedgerNext == \E x \in Execution : Open(x) \/ Close(x)

LedgerSpec == LedgerInit /\ [][LedgerNext]_entry
===============================================================================
