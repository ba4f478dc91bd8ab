------------------------------- MODULE Recovery -------------------------------
(***************************************************************************)
(* The journal (src/src/journal.rs) across crashes and restarts: the        *)
(* append-only events of executions and approvals, the projection a start   *)
(* makes of them row by row, the recovery records it appends before it is   *)
(* ready, and the executions it then runs, of which each may be abandoned   *)
(* or cut off by a crash between any two appends.                           *)
(***************************************************************************)
EXTENDS Naturals, Sequences, FiniteSets

CONSTANTS
    Execution,      \* execution ids, each used for one execution
    NoExecution,    \* not an execution
    Key,            \* approval request keys
    NoKey,          \* not a key
    AppendFails     \* may an append of recovery fail?

ASSUME RecoveryAssumption ==
    /\ NoExecution \notin Execution
    /\ NoKey \notin Key
    /\ AppendFails \in BOOLEAN

VARIABLES
    log,       \* the rows of journal_events, in the order of their ids
    mode,      \* what the process does; "down" after a crash
    row,       \* rows the projection has read
    executions, approvals,                         \* the maps it builds
    unresolved_executions, unresolved_approvals,   \* and the sets
    running,   \* the execution of the process
    asked      \* the approval key its handler is at

projection == <<row, executions, approvals, unresolved_executions, unresolved_approvals>>
current == <<running, asked>>
vars == <<log, mode, projection, current>>

-------------------------------------------------------------------------------
\* The ExecutionTerminalStatus of ExecutionCompleted, RecoveryExecutionUnknown, the
\* ApprovalTerminalDecision of ApprovalDecided, RecoveryApprovalDenied.
Ending == {"completed", "interrupted", "failed"}
ExecutionEnd == Ending \cup {"unknown"}
Decision == {"allowed", "denied", "timedout"}
ApprovalEnd == Decision \cup {"denied_on_restart"}

Event ==
    [kind : {"started"} \cup ExecutionEnd, exec : Execution, key : {NoKey}]
    \cup [kind : {"requested"} \cup Decision, exec : Execution, key : Key]
    \cup [kind : {"denied_on_restart"}, exec : {NoExecution}, key : Key]

TypeOK ==
    /\ log \in Seq(Event)
    /\ mode \in {"down", "project", "recover", "ready"}
    /\ row \in Nat
    /\ executions \in [Execution -> {"none"} \cup ExecutionEnd]
    /\ approvals \in [Key -> {"none"} \cup ApprovalEnd]
    /\ unresolved_executions \in SUBSET Execution
    /\ unresolved_approvals \in SUBSET Key
    /\ running \in Execution \cup {NoExecution}
    /\ asked \in Key \cup {NoKey}

EmptyProjection ==
    /\ row' = 0
    /\ executions' = [x \in Execution |-> "none"]
    /\ approvals' = [k \in Key |-> "none"]
    /\ unresolved_executions' = {}
    /\ unresolved_approvals' = {}

Init ==
    /\ log = <<>>
    /\ mode = "down"
    /\ row = 0
    /\ executions = [x \in Execution |-> "none"]
    /\ approvals = [k \in Key |-> "none"]
    /\ unresolved_executions = {}
    /\ unresolved_approvals = {}
    /\ running = NoExecution
    /\ asked = NoKey

AppendEvent(kind, x, k) == log' = Append(log, [kind |-> kind, exec |-> x, key |-> k])

-------------------------------------------------------------------------------
(* The projection, one row of the loop at a time. *)

Start ==
    /\ mode = "down"
    /\ mode' = "project"
    /\ EmptyProjection
    /\ UNCHANGED <<log, current>>

\* Mutants of EndsExecution and EndsApproval: recovery records are not read back.
EndsByItself(e) == e.kind \in Ending
EndsByDecision(e) == e.kind \in Decision

EndsExecution(e) == e.kind \in ExecutionEnd
EndsApproval(e) == e.kind \in ApprovalEnd

ReadRow ==
    /\ mode = "project" /\ row < Len(log)
    /\ row' = row + 1
    /\ LET e == log[row + 1]
       IN  /\ unresolved_executions' =
                IF e.kind = "started" THEN unresolved_executions \cup {e.exec}
                ELSE IF EndsExecution(e) THEN unresolved_executions \ {e.exec}
                ELSE unresolved_executions
           /\ executions' =
                IF EndsExecution(e) THEN [executions EXCEPT ![e.exec] = e.kind] ELSE executions
           /\ unresolved_approvals' =
                IF e.kind = "requested" THEN unresolved_approvals \cup {e.key}
                ELSE IF EndsApproval(e) THEN unresolved_approvals \ {e.key}
                ELSE unresolved_approvals
           /\ approvals' =
                IF EndsApproval(e) THEN [approvals EXCEPT ![e.key] = e.kind] ELSE approvals
    /\ UNCHANGED <<log, mode, current>>

EndProjection ==
    /\ mode = "project" /\ row = Len(log)
    /\ mode' = "recover"
    /\ UNCHANGED <<log, projection, current>>

-------------------------------------------------------------------------------
(* persist_recovery: executions, then approvals, then the server is ready. *)

RecoverExecution ==
    /\ mode = "recover"
    /\ \E x \in unresolved_executions :
        /\ AppendEvent("unknown", x, NoKey)
        /\ unresolved_executions' = unresolved_executions \ {x}
    /\ UNCHANGED <<mode, row, executions, approvals, unresolved_approvals, current>>

RecoverApproval ==
    /\ mode = "recover" /\ unresolved_executions = {}
    /\ \E k \in unresolved_approvals :
        /\ AppendEvent("denied_on_restart", NoExecution, k)
        /\ unresolved_approvals' = unresolved_approvals \ {k}
    /\ UNCHANGED <<mode, row, executions, approvals, unresolved_executions, current>>

\* Mutant of NothingToRecover: the approvals are forgotten.
NoExecutionToRecover == unresolved_executions = {}

NothingToRecover == unresolved_executions = {} /\ unresolved_approvals = {}

BecomeReady ==
    /\ mode = "recover" /\ NothingToRecover
    /\ mode' = "ready"
    /\ UNCHANGED <<log, projection, current>>

\* A failed append ends the start; what was appended stays.
RecoveryFails ==
    /\ AppendFails /\ mode = "recover" /\ ~NothingToRecover
    /\ mode' = "down"
    /\ UNCHANGED <<log, projection, current>>

-------------------------------------------------------------------------------
(* The executions of a ready process, one at a time. *)

Recorded(kind, x, k) ==
    \E i \in 1 .. Len(log) : log[i] = [kind |-> kind, exec |-> x, key |-> k]

StartExecution(x) ==
    /\ mode = "ready" /\ running = NoExecution
    /\ ~Recorded("started", x, NoKey)
    /\ AppendEvent("started", x, NoKey)
    /\ running' = x
    /\ UNCHANGED <<mode, projection, asked>>

\* The receipt; a key is asked for once in an execution (SeenApprovals).
RequestApproval(k) ==
    /\ running # NoExecution /\ asked = NoKey
    /\ ~Recorded("requested", running, k)
    /\ AppendEvent("requested", running, k)
    /\ asked' = k
    /\ UNCHANGED <<mode, projection, running>>

DecideApproval(decision) ==
    /\ asked # NoKey
    /\ AppendEvent(decision, running, asked)
    /\ asked' = NoKey
    /\ UNCHANGED <<mode, projection, running>>

\* The handler is dropped between the receipt and the decision.
DropHandler ==
    /\ asked # NoKey
    /\ asked' = NoKey
    /\ UNCHANGED <<log, mode, projection, running>>

\* Mutant of StopsRunning: a completed execution goes on.
KeepsRunning == UNCHANGED current

StopsRunning == running' = NoExecution /\ asked' = NoKey

CompleteExecution(status) ==
    /\ running # NoExecution
    /\ AppendEvent(status, running, NoKey)
    /\ StopsRunning
    /\ UNCHANGED <<mode, projection>>

\* An ambiguous outcome, a failed spawn or a failed append: no terminal record.
AbandonExecution ==
    /\ running # NoExecution
    /\ StopsRunning
    /\ UNCHANGED <<log, mode, projection>>

Crash ==
    /\ mode # "down"
    /\ mode' = "down"
    /\ running' = NoExecution /\ asked' = NoKey
    /\ UNCHANGED <<log, projection>>

Next ==
    \/ Start \/ ReadRow \/ EndProjection
    \/ RecoverExecution \/ RecoverApproval \/ BecomeReady \/ RecoveryFails
    \/ \E x \in Execution : StartExecution(x)
    \/ \E k \in Key : RequestApproval(k)
    \/ \E decision \in Decision : DecideApproval(decision)
    \/ \E status \in Ending : CompleteExecution(status)
    \/ DropHandler \/ AbandonExecution \/ Crash

Spec == Init /\ [][Next]_vars

-------------------------------------------------------------------------------
(* Properties. *)

Starts(l, i, x) == l[i].kind = "started" /\ l[i].exec = x
Ends(l, i, x) == l[i].kind \in ExecutionEnd /\ l[i].exec = x
Requests(l, i, k) == l[i].kind = "requested" /\ l[i].key = k
Decides(l, i, k) == l[i].kind \in ApprovalEnd /\ l[i].key = k

\* The executions, and the approval keys, that the first n rows leave unresolved.
UnresolvedExecutions(l, n) ==
    {x \in Execution : \E i \in 1 .. n : Starts(l, i, x) /\ \A j \in i + 1 .. n : ~Ends(l, j, x)}
UnresolvedApprovals(l, n) ==
    {k \in Key : \E i \in 1 .. n : Requests(l, i, k) /\ \A j \in i + 1 .. n : ~Decides(l, j, k)}

\* journal.rs:514-603: the loop, which only adds and removes, ends with what the
\* journal leaves unresolved, and recovery keeps it so record by record, whatever
\* crashes cut earlier recoveries short.
ProjectionIsExact ==
    mode = "recover" =>
        /\ unresolved_executions = UnresolvedExecutions(log, Len(log))
        /\ unresolved_approvals = UnresolvedApprovals(log, Len(log))

\* tests/cp5_journal_recovery.rs:99-141: a start is ready only when nothing is left
\* unresolved in the journal, approvals included.
ReadyMeansResolved ==
    [][mode # "ready" /\ mode' = "ready" =>
        /\ UnresolvedExecutions(log, Len(log)) = {}
        /\ UnresolvedApprovals(log, Len(log)) = {}]_vars

Rows(kinds, k) == {i \in 1 .. Len(log) : log[i].kind \in kinds /\ log[i].key = k}

\* client.rs:1070-1199, orchestrator.rs:580-588: a request is decided at most once,
\* by its handler or by recovery, over any number of restarts and reuses of its key.
DecidedOnce ==
    \A k \in Key : Cardinality(Rows(ApprovalEnd, k)) <= Cardinality(Rows({"requested"}, k))

\* The state of an execution in a journal: how it ended last, if it did.
Entry(l, x) ==
    IF \E i \in 1 .. Len(l) : Ends(l, i, x)
      THEN CHOOSE s \in ExecutionEnd : \E i \in 1 .. Len(l) :
             /\ Ends(l, i, x) /\ l[i].kind = s
             /\ \A j \in i + 1 .. Len(l) : ~Ends(l, j, x)
    ELSE IF \E i \in 1 .. Len(l) : Starts(l, i, x) THEN "open"
    ELSE "absent"

\* orchestrator.rs:570-589, 826-1003: the executions in the journal are a ledger: each
\* is opened once and closed once, by itself or by recovery, and its end stands.
L == INSTANCE Ledger WITH entry <- [x \in Execution |-> Entry(log, x)]
ImplementsLedger == L!LedgerSpec
===============================================================================
