---------------------------- MODULE RecoveryProofs ----------------------------
(***************************************************************************)
(* Proofs about Recovery: the projection is exact, a start is ready only    *)
(* when nothing is unresolved, and the executions in the journal are a      *)
(* ledger, for every journal and any number of crashes.                     *)
(***************************************************************************)
EXTENDS Recovery, SequenceTheorems, FiniteSetTheorems, TLAPS

LEMMA Appended ==
    ASSUME NEW l \in Seq(Event), NEW e \in Event
    PROVE  /\ Append(l, e) \in Seq(Event)
           /\ Len(l) \in Nat /\ Len(Append(l, e)) = Len(l) + 1
           /\ \A i \in 1 .. Len(l) : Append(l, e)[i] = l[i]
           /\ Append(l, e)[Len(l) + 1] = e
  BY AppendProperties

LEMMA EventTypes ==
    ASSUME NEW e \in Event
    PROVE  /\ e.kind \in {"started"} \cup ExecutionEnd => e.exec \in Execution /\ e.key = NoKey
           /\ e.kind \in {"requested"} \cup ApprovalEnd => e.key \in Key
           /\ e.kind \in {"started", "requested"} \cup ExecutionEnd \cup ApprovalEnd
           /\ e = [kind |-> e.kind, exec |-> e.exec, key |-> e.key]
  BY DEF Event, ExecutionEnd, ApprovalEnd, Ending, Decision

-------------------------------------------------------------------------------
(* The loop of the projection. *)

\* What one more row does to the unresolved executions.
LEMMA NextRowOfExecutions ==
    ASSUME NEW l \in Seq(Event), NEW n \in Nat, n < Len(l)
    PROVE  UnresolvedExecutions(l, n + 1) =
               IF l[n + 1].kind = "started" THEN UnresolvedExecutions(l, n) \cup {l[n + 1].exec}
               ELSE IF l[n + 1].kind \in ExecutionEnd
                 THEN UnresolvedExecutions(l, n) \ {l[n + 1].exec}
               ELSE UnresolvedExecutions(l, n)
  <1>1. l[n + 1] \in Event
    OBVIOUS
  <1>2. \A i : i \in 1 .. n + 1 <=> i \in 1 .. n \/ i = n + 1
    OBVIOUS
  <1>3. \A i \in 1 .. n : \A j : j \in i + 1 .. n + 1 <=> j \in i + 1 .. n \/ j = n + 1
    OBVIOUS
  <1>4. ~ \E j : j \in n + 1 + 1 .. n + 1
    OBVIOUS
  <1>5. "started" \notin ExecutionEnd
    BY DEF ExecutionEnd, Ending
  <1>6. ASSUME NEW x \in Execution
        PROVE  x \in UnresolvedExecutions(l, n + 1) <=>
                 \/ Starts(l, n + 1, x)
                 \/ x \in UnresolvedExecutions(l, n) /\ ~Ends(l, n + 1, x)
    BY <1>2, <1>3, <1>4 DEF UnresolvedExecutions
  <1>7. l[n + 1].kind = "started" => l[n + 1].exec \in Execution
    BY <1>1, EventTypes
  <1>8. CASE l[n + 1].kind = "started"
    BY <1>5, <1>6, <1>7, <1>8 DEF Starts, Ends, UnresolvedExecutions
  <1>9. CASE l[n + 1].kind # "started"
    BY <1>6, <1>9 DEF Starts, Ends, UnresolvedExecutions
  <1> QED BY <1>8, <1>9

\* And to the unresolved approvals.
LEMMA NextRowOfApprovals ==
    ASSUME NEW l \in Seq(Event), NEW n \in Nat, n < Len(l)
    PROVE  UnresolvedApprovals(l, n + 1) =
               IF l[n + 1].kind = "requested" THEN UnresolvedApprovals(l, n) \cup {l[n + 1].key}
               ELSE IF l[n + 1].kind \in ApprovalEnd
                 THEN UnresolvedApprovals(l, n) \ {l[n + 1].key}
               ELSE UnresolvedApprovals(l, n)
  <1>1. l[n + 1] \in Event
    OBVIOUS
  <1>2. \A i : i \in 1 .. n + 1 <=> i \in 1 .. n \/ i = n + 1
    OBVIOUS
  <1>3. \A i \in 1 .. n : \A j : j \in i + 1 .. n + 1 <=> j \in i + 1 .. n \/ j = n + 1
    OBVIOUS
  <1>4. ~ \E j : j \in n + 1 + 1 .. n + 1
    OBVIOUS
  <1>5. "requested" \notin ApprovalEnd
    BY DEF ApprovalEnd, Decision
  <1>6. ASSUME NEW k \in Key
        PROVE  k \in UnresolvedApprovals(l, n + 1) <=>
                 \/ Requests(l, n + 1, k)
                 \/ k \in UnresolvedApprovals(l, n) /\ ~Decides(l, n + 1, k)
    BY <1>2, <1>3, <1>4 DEF UnresolvedApprovals
  <1>7. l[n + 1].kind = "requested" => l[n + 1].key \in Key
    BY <1>1, EventTypes
  <1>8. CASE l[n + 1].kind = "requested"
    BY <1>5, <1>6, <1>7, <1>8 DEF Requests, Decides, UnresolvedApprovals
  <1>9. CASE l[n + 1].kind # "requested"
    BY <1>6, <1>9 DEF Requests, Decides, UnresolvedApprovals
  <1> QED BY <1>8, <1>9

\* Rows appended later do not change what the earlier ones leave unresolved.
LEMMA EarlierRows ==
    ASSUME NEW l \in Seq(Event), NEW e \in Event
    PROVE  /\ UnresolvedExecutions(Append(l, e), Len(l)) = UnresolvedExecutions(l, Len(l))
           /\ UnresolvedApprovals(Append(l, e), Len(l)) = UnresolvedApprovals(l, Len(l))
  <1>1. \A i \in 1 .. Len(l) : Append(l, e)[i] = l[i]
    BY Appended
  <1>2. Len(l) \in Nat
    OBVIOUS
  <1>3. \A i \in 1 .. Len(l) : \A j \in i + 1 .. Len(l) : j \in 1 .. Len(l)
    BY <1>2
  <1> QED BY <1>1, <1>3
          DEF UnresolvedExecutions, UnresolvedApprovals, Starts, Ends, Requests, Decides

-------------------------------------------------------------------------------
(* Types. *)

LEMMA AppendType ==
    ASSUME TypeOK, NEW kind, NEW x, NEW k, AppendEvent(kind, x, k),
           [kind |-> kind, exec |-> x, key |-> k] \in Event
    PROVE  log' \in Seq(Event)
  BY Appended DEF TypeOK, AppendEvent

\* An execution runs and a handler waits only in a ready process.
RunsWhenReady ==
    /\ running # NoExecution => mode = "ready"
    /\ asked # NoKey => running # NoExecution

LEMMA TypeStep ==
    ASSUME TypeOK, RunsWhenReady, [Next]_vars
    PROVE  TypeOK' /\ RunsWhenReady'
  <1> USE DEF projection, current
  <1>1. CASE Start
    BY <1>1 DEF Start, EmptyProjection, TypeOK, RunsWhenReady
  <1>2. CASE ReadRow
    <2>1. log[row + 1] \in Event /\ row' \in Nat
      BY <1>2 DEF ReadRow, TypeOK
    <2>2. unresolved_executions' \in SUBSET Execution /\ unresolved_approvals' \in SUBSET Key
      BY <1>2, <2>1, EventTypes DEF ReadRow, TypeOK
    <2>3. executions' \in [Execution -> {"none"} \cup ExecutionEnd]
      BY <1>2, <2>1, EventTypes DEF ReadRow, TypeOK, EndsExecution
    <2>4. approvals' \in [Key -> {"none"} \cup ApprovalEnd]
      BY <1>2, <2>1, EventTypes DEF ReadRow, TypeOK, EndsApproval
    <2> QED BY <1>2, <2>1, <2>2, <2>3, <2>4 DEF ReadRow, TypeOK, RunsWhenReady
  <1>3. CASE EndProjection \/ BecomeReady \/ RecoveryFails
    BY <1>3 DEF EndProjection, BecomeReady, RecoveryFails, TypeOK, RunsWhenReady
  <1>4. CASE RecoverExecution
    <2>1. log' \in Seq(Event)
      BY <1>4, AppendType DEF RecoverExecution, TypeOK, Event, ExecutionEnd
    <2> QED BY <1>4, <2>1 DEF RecoverExecution, TypeOK, RunsWhenReady
  <1>5. CASE RecoverApproval
    <2>1. log' \in Seq(Event)
      BY <1>5, AppendType DEF RecoverApproval, TypeOK, Event
    <2> QED BY <1>5, <2>1 DEF RecoverApproval, TypeOK, RunsWhenReady
  <1>6. ASSUME NEW x \in Execution, StartExecution(x) PROVE TypeOK' /\ RunsWhenReady'
    <2>1. log' \in Seq(Event)
      BY <1>6, AppendType DEF StartExecution, TypeOK, Event
    <2> QED BY <1>6, <2>1 DEF StartExecution, TypeOK, RunsWhenReady
  <1>7. ASSUME NEW k \in Key, RequestApproval(k) PROVE TypeOK' /\ RunsWhenReady'
    <2>1. log' \in Seq(Event)
      BY <1>7, AppendType DEF RequestApproval, TypeOK, Event
    <2> QED BY <1>7, <2>1 DEF RequestApproval, TypeOK, RunsWhenReady
  <1>8. ASSUME NEW decision \in Decision, DecideApproval(decision) PROVE TypeOK' /\ RunsWhenReady'
    <2>1. log' \in Seq(Event)
      BY <1>8, AppendType DEF DecideApproval, TypeOK, RunsWhenReady, Event
    <2> QED BY <1>8, <2>1 DEF DecideApproval, TypeOK, RunsWhenReady
  <1>9. ASSUME NEW status \in Ending, CompleteExecution(status) PROVE TypeOK' /\ RunsWhenReady'
    <2>1. log' \in Seq(Event)
      BY <1>9, AppendType DEF CompleteExecution, TypeOK, Event, ExecutionEnd
    <2> QED BY <1>9, <2>1 DEF CompleteExecution, StopsRunning, TypeOK, RunsWhenReady
  <1>10. CASE DropHandler \/ AbandonExecution \/ Crash
    BY <1>10 DEF DropHandler, AbandonExecution, Crash, StopsRunning, TypeOK, RunsWhenReady
  <1>11. CASE UNCHANGED vars
    BY <1>11 DEF vars, TypeOK, RunsWhenReady
  <1> QED BY <1>1, <1>2, <1>3, <1>4, <1>5, <1>6, <1>7, <1>8, <1>9, <1>10, <1>11 DEF Next

LEMMA TypeAlways == Spec => [](TypeOK /\ RunsWhenReady)
  <1>1. Init => TypeOK /\ RunsWhenReady
    BY DEF Init, TypeOK, RunsWhenReady
  <1>2. TypeOK /\ RunsWhenReady /\ [Next]_vars => (TypeOK /\ RunsWhenReady)'
    BY TypeStep
  <1> QED BY <1>1, <1>2, PTL DEF Spec

\* The variables of the journal and of its projection keep their types.
THEOREM RecoveryTypeCorrect == Spec => []TypeOK
  BY TypeAlways, PTL

-------------------------------------------------------------------------------
(* The projection. *)

\* While it reads, the sets are what the rows read so far leave unresolved.
ProjectionInv ==
    mode = "project" =>
        /\ row <= Len(log)
        /\ unresolved_executions = UnresolvedExecutions(log, row)
        /\ unresolved_approvals = UnresolvedApprovals(log, row)

\* A recovery record removes what it recovers.
LEMMA RecoveryRecord ==
    ASSUME TypeOK, NEW kind, NEW x, NEW k, AppendEvent(kind, x, k),
           [kind |-> kind, exec |-> x, key |-> k] \in Event,
           kind \in ExecutionEnd \/ kind \in ApprovalEnd
    PROVE  /\ UnresolvedExecutions(log', Len(log')) =
                IF kind \in ExecutionEnd THEN UnresolvedExecutions(log, Len(log)) \ {x}
                ELSE UnresolvedExecutions(log, Len(log))
           /\ UnresolvedApprovals(log', Len(log')) =
                IF kind \in ApprovalEnd THEN UnresolvedApprovals(log, Len(log)) \ {k}
                ELSE UnresolvedApprovals(log, Len(log))
  <1> DEFINE e == [kind |-> kind, exec |-> x, key |-> k]
  <1>1. log \in Seq(Event) /\ e \in Event /\ log' = Append(log, e)
    BY DEF TypeOK, AppendEvent
  <1>2. /\ log' \in Seq(Event) /\ Len(log) \in Nat /\ Len(log') = Len(log) + 1
        /\ log'[Len(log) + 1] = e
    BY <1>1, Appended
  <1>3. kind # "started" /\ kind # "requested"
    BY DEF ExecutionEnd, ApprovalEnd, Ending, Decision
  <1>4. /\ UnresolvedExecutions(log', Len(log)) = UnresolvedExecutions(log, Len(log))
        /\ UnresolvedApprovals(log', Len(log)) = UnresolvedApprovals(log, Len(log))
    BY <1>1, EarlierRows
  <1>5. e.kind = kind /\ e.exec = x /\ e.key = k
    OBVIOUS
  <1> HIDE DEF e
  <1>6. Len(log) < Len(log')
    BY <1>2
  <1> QED BY <1>2, <1>3, <1>4, <1>5, <1>6, NextRowOfExecutions, NextRowOfApprovals

LEMMA ProjectionStep ==
    ASSUME TypeOK, RunsWhenReady, ProjectionInv, ProjectionIsExact, [Next]_vars
    PROVE  ProjectionInv' /\ ProjectionIsExact'
  <1> USE DEF projection, current
  <1>1. CASE Start
    <2>1. UnresolvedExecutions(log, 0) = {} /\ UnresolvedApprovals(log, 0) = {}
      BY DEF UnresolvedExecutions, UnresolvedApprovals
    <2> QED BY <1>1, <2>1 DEF Start, EmptyProjection, ProjectionInv, ProjectionIsExact, TypeOK
  <1>2. CASE ReadRow
    <2>1. log \in Seq(Event) /\ row \in Nat /\ row < Len(log) /\ row' = row + 1
      BY <1>2 DEF ReadRow, TypeOK
    <2>2. unresolved_executions' = UnresolvedExecutions(log, row + 1)
      BY <1>2, <2>1, NextRowOfExecutions DEF ReadRow, ProjectionInv, EndsExecution
    <2>3. unresolved_approvals' = UnresolvedApprovals(log, row + 1)
      BY <1>2, <2>1, NextRowOfApprovals DEF ReadRow, ProjectionInv, EndsApproval
    <2>4. log' = log /\ mode' = "project"
      BY <1>2 DEF ReadRow
    <2>5. row' <= Len(log')
      BY <2>1, <2>4
    <2>6. ProjectionInv'
      BY <2>1, <2>2, <2>3, <2>4, <2>5 DEF ProjectionInv
    <2> QED BY <2>4, <2>6 DEF ProjectionIsExact
  <1>3. CASE EndProjection
    BY <1>3 DEF EndProjection, ProjectionInv, ProjectionIsExact
  <1>4. CASE RecoverExecution
    <2>1. PICK x \in Execution : /\ AppendEvent("unknown", x, NoKey)
                                 /\ unresolved_executions' = unresolved_executions \ {x}
      BY <1>4 DEF RecoverExecution, TypeOK
    <2>2. /\ [kind |-> "unknown", exec |-> x, key |-> NoKey] \in Event
          /\ "unknown" \in ExecutionEnd /\ "unknown" \notin ApprovalEnd
      BY DEF Event, ExecutionEnd, ApprovalEnd, Decision
    <2> QED BY <1>4, <2>1, <2>2, RecoveryRecord
            DEF RecoverExecution, ProjectionInv, ProjectionIsExact
  <1>5. CASE RecoverApproval
    <2>1. PICK k \in Key : /\ AppendEvent("denied_on_restart", NoExecution, k)
                           /\ unresolved_approvals' = unresolved_approvals \ {k}
      BY <1>5 DEF RecoverApproval, TypeOK
    <2>2. /\ [kind |-> "denied_on_restart", exec |-> NoExecution, key |-> k] \in Event
          /\ "denied_on_restart" \in ApprovalEnd /\ "denied_on_restart" \notin ExecutionEnd
      BY DEF Event, ExecutionEnd, ApprovalEnd, Ending
    <2> QED BY <1>5, <2>1, <2>2, RecoveryRecord
            DEF RecoverApproval, ProjectionInv, ProjectionIsExact
  <1>6. CASE \/ BecomeReady \/ RecoveryFails \/ Crash
    BY <1>6 DEF BecomeReady, RecoveryFails, Crash, ProjectionInv, ProjectionIsExact
  <1>7. CASE \/ \E x \in Execution : StartExecution(x)
             \/ \E k \in Key : RequestApproval(k)
             \/ \E decision \in Decision : DecideApproval(decision)
             \/ \E status \in Ending : CompleteExecution(status)
             \/ DropHandler \/ AbandonExecution
    <2>1. mode = "ready" /\ mode' = mode
      BY <1>7 DEF StartExecution, RequestApproval, DecideApproval, CompleteExecution,
                  DropHandler, AbandonExecution, RunsWhenReady
    <2> QED BY <2>1 DEF ProjectionInv, ProjectionIsExact
  <1>8. CASE UNCHANGED vars
    BY <1>8 DEF vars, ProjectionInv, ProjectionIsExact
  <1> QED BY <1>1, <1>2, <1>3, <1>4, <1>5, <1>6, <1>7, <1>8 DEF Next

LEMMA ProjectionAlways ==
    Spec => [](TypeOK /\ RunsWhenReady /\ ProjectionInv /\ ProjectionIsExact)
  <1>1. Init => ProjectionInv /\ ProjectionIsExact
    BY DEF Init, ProjectionInv, ProjectionIsExact
  <1>2. TypeOK /\ RunsWhenReady /\ ProjectionInv /\ ProjectionIsExact /\ [Next]_vars
          => (ProjectionInv /\ ProjectionIsExact)'
    BY ProjectionStep
  <1> QED BY <1>1, <1>2, TypeAlways, PTL DEF Spec

\* journal.rs:514-603, orchestrator.rs:570-589: at every point of a recovery the two
\* sets are exactly what the journal, with the records already appended, leaves open.
THEOREM ProjectionCorrect == Spec => []ProjectionIsExact
  BY ProjectionAlways, PTL

\* orchestrator.rs:1005-1023: a process that becomes ready left nothing unresolved.
THEOREM ReadyIsResolved == Spec => ReadyMeansResolved
  <1>1. ASSUME TypeOK, RunsWhenReady, ProjectionIsExact, [Next]_vars,
               mode # "ready", mode' = "ready"
        PROVE  /\ UnresolvedExecutions(log, Len(log)) = {}
               /\ UnresolvedApprovals(log, Len(log)) = {}
    <2>1. BecomeReady
      BY <1>1 DEF Next, vars, Start, ReadRow, EndProjection, RecoverExecution, RecoverApproval,
                  RecoveryFails, StartExecution, RequestApproval, DecideApproval,
                  CompleteExecution, DropHandler, AbandonExecution, Crash, RunsWhenReady
    <2> QED BY <1>1, <2>1 DEF BecomeReady, NothingToRecover, ProjectionIsExact
  <1>2. TypeOK /\ RunsWhenReady /\ ProjectionIsExact /\ [Next]_vars =>
          [mode # "ready" /\ mode' = "ready" =>
             /\ UnresolvedExecutions(log, Len(log)) = {}
             /\ UnresolvedApprovals(log, Len(log)) = {}]_vars
    BY <1>1
  <1> QED BY <1>2, ProjectionAlways, PTL DEF Spec, ReadyMeansResolved

-------------------------------------------------------------------------------
(* The ledger of executions. *)

Started(l, x) == \E i \in 1 .. Len(l) : Starts(l, i, x)
Ended(l, x) == \E i \in 1 .. Len(l) : Ends(l, i, x)

\* In the journal an execution ends once, after it was started.
OneEnd(l) == \A x \in Execution : \A i, j \in 1 .. Len(l) :
            Ends(l, i, x) /\ Ends(l, j, x) => i = j
EndAfterStart(l) == \A x \in Execution : \A i, j \in 1 .. Len(l) :
            Starts(l, i, x) /\ Ends(l, j, x) => i < j
EndedWasStarted(l) == \A x \in Execution : Ended(l, x) => Started(l, x)
LogInv(l) == OneEnd(l) /\ EndAfterStart(l) /\ EndedWasStarted(l)

LEMMA EntryIs ==
    ASSUME NEW l \in Seq(Event), OneEnd(l), NEW x \in Execution
    PROVE  /\ \A i \in 1 .. Len(l) : Ends(l, i, x) => Entry(l, x) = l[i].kind
           /\ ~Ended(l, x) /\ Started(l, x) => Entry(l, x) = "open"
           /\ ~Ended(l, x) /\ ~Started(l, x) => Entry(l, x) = "absent"
  <1>1. ASSUME NEW i \in 1 .. Len(l), Ends(l, i, x) PROVE Entry(l, x) = l[i].kind
    <2> DEFINE IsEnd(s) == \E j \in 1 .. Len(l) :
                 /\ Ends(l, j, x) /\ l[j].kind = s
                 /\ \A m \in j + 1 .. Len(l) : ~Ends(l, m, x)
    <2>1. \A m \in i + 1 .. Len(l) : m \in 1 .. Len(l) /\ m # i
      OBVIOUS
    <2>2. \A m \in i + 1 .. Len(l) : ~Ends(l, m, x)
      BY <1>1, <2>1 DEF OneEnd
    <2>3. l[i].kind \in ExecutionEnd /\ IsEnd(l[i].kind)
      BY <1>1, <2>2 DEF Ends
    <2>4. \A s : IsEnd(s) => s = l[i].kind
      BY <1>1 DEF OneEnd
    <2>5. (CHOOSE s \in ExecutionEnd : IsEnd(s)) = l[i].kind
      <3> HIDE DEF IsEnd
      <3> QED BY <2>3, <2>4
    <2> QED BY <1>1, <2>5 DEF Entry
  <1> QED BY <1>1 DEF Entry, Ended, Started

\* What one more record adds to what is known of the executions.
LEMMA RowsAppended ==
    ASSUME NEW l \in Seq(Event), NEW e \in Event
    PROVE  LET m == Append(l, e)
           IN  /\ \A i \in 1 .. Len(m) : i \in 1 .. Len(l) \/ i = Len(m)
               /\ \A i \in 1 .. Len(l) : i \in 1 .. Len(m) /\ i < Len(m) /\ m[i] = l[i]
               /\ Len(m) \in 1 .. Len(m) /\ m[Len(m)] = e /\ m \in Seq(Event)
               /\ \A i \in 1 .. Len(l) : \A x : /\ Ends(m, i, x) <=> Ends(l, i, x)
                                                /\ Starts(m, i, x) <=> Starts(l, i, x)
               /\ \A x : /\ Ends(m, Len(m), x) <=> e.kind \in ExecutionEnd /\ x = e.exec
                         /\ Starts(m, Len(m), x) <=> e.kind = "started" /\ x = e.exec
               /\ \A x : /\ Ended(m, x) <=> Ended(l, x) \/ (e.kind \in ExecutionEnd /\ x = e.exec)
                         /\ Started(m, x) <=> Started(l, x) \/ (e.kind = "started" /\ x = e.exec)
  <1> DEFINE m == Append(l, e)
  <1>1. /\ m \in Seq(Event) /\ Len(l) \in Nat /\ Len(m) = Len(l) + 1 /\ m[Len(l) + 1] = e
        /\ \A i \in 1 .. Len(l) : m[i] = l[i]
    BY Appended
  <1> HIDE DEF m
  <1>2. /\ \A i \in 1 .. Len(m) : i \in 1 .. Len(l) \/ i = Len(m)
        /\ \A i \in 1 .. Len(l) : i \in 1 .. Len(m) /\ i < Len(m) /\ m[i] = l[i]
        /\ Len(m) \in 1 .. Len(m) /\ m[Len(m)] = e
    BY <1>1
  <1>3. /\ \A i \in 1 .. Len(l) : \A x : /\ Ends(m, i, x) <=> Ends(l, i, x)
                                         /\ Starts(m, i, x) <=> Starts(l, i, x)
        /\ \A x : /\ Ends(m, Len(m), x) <=> e.kind \in ExecutionEnd /\ x = e.exec
                  /\ Starts(m, Len(m), x) <=> e.kind = "started" /\ x = e.exec
    BY <1>2 DEF Ends, Starts
  <1>4. \A x : /\ Ended(m, x) <=> Ended(l, x) \/ (e.kind \in ExecutionEnd /\ x = e.exec)
               /\ Started(m, x) <=> Started(l, x) \/ (e.kind = "started" /\ x = e.exec)
    BY <1>2, <1>3 DEF Ended, Started
  <1> QED BY <1>1, <1>2, <1>3, <1>4 DEF m

\* A record that neither starts a known execution nor ends a closed one keeps the
\* order of the journal.
LEMMA LogInvAppended ==
    ASSUME NEW l \in Seq(Event), NEW e \in Event, LogInv(l),
           e.kind = "started" => ~Started(l, e.exec),
           e.kind \in ExecutionEnd => Started(l, e.exec) /\ ~Ended(l, e.exec)
    PROVE  LogInv(Append(l, e))
  <1> DEFINE m == Append(l, e)
  <1>1. /\ \A i \in 1 .. Len(m) : i \in 1 .. Len(l) \/ i = Len(m)
        /\ \A i \in 1 .. Len(l) : i \in 1 .. Len(m) /\ i < Len(m)
        /\ \A i \in 1 .. Len(l) : \A x : /\ Ends(m, i, x) <=> Ends(l, i, x)
                                         /\ Starts(m, i, x) <=> Starts(l, i, x)
        /\ \A x : /\ Ends(m, Len(m), x) <=> e.kind \in ExecutionEnd /\ x = e.exec
                  /\ Starts(m, Len(m), x) <=> e.kind = "started" /\ x = e.exec
        /\ \A x : /\ Ended(m, x) <=> Ended(l, x) \/ (e.kind \in ExecutionEnd /\ x = e.exec)
                  /\ Started(m, x) <=> Started(l, x) \/ (e.kind = "started" /\ x = e.exec)
    BY RowsAppended
  <1>2. "started" \notin ExecutionEnd
    BY DEF ExecutionEnd, Ending
  <1>3. e.kind = "started" => ~Ended(l, e.exec)
    BY EventTypes DEF LogInv, EndedWasStarted
  <1> HIDE DEF m
  <1>4. OneEnd(m)
    <2> SUFFICES ASSUME NEW x \in Execution, NEW i \in 1 .. Len(m), NEW j \in 1 .. Len(m),
                        Ends(m, i, x), Ends(m, j, x), i # j
                 PROVE  FALSE
      BY DEF OneEnd
    <2>1. CASE i \in 1 .. Len(l) /\ j \in 1 .. Len(l)
      BY <1>1, <2>1 DEF LogInv, OneEnd
    <2>2. CASE ~(i \in 1 .. Len(l) /\ j \in 1 .. Len(l))
      BY <1>1, <2>2 DEF Ended
    <2> QED BY <2>1, <2>2
  <1>5. EndAfterStart(m)
    <2> SUFFICES ASSUME NEW x \in Execution, NEW i \in 1 .. Len(m), NEW j \in 1 .. Len(m),
                        Starts(m, i, x), Ends(m, j, x)
                 PROVE  i < j
      BY DEF EndAfterStart
    <2>1. CASE i \in 1 .. Len(l) /\ j \in 1 .. Len(l)
      BY <1>1, <2>1 DEF LogInv, EndAfterStart
    <2>2. CASE i \in 1 .. Len(l) /\ j = Len(m)
      BY <1>1, <2>2
    <2>3. CASE i = Len(m)
      BY <1>1, <1>2, <1>3, <2>3 DEF Ended
    <2> QED BY <1>1, <2>1, <2>2, <2>3
  <1>6. EndedWasStarted(m)
    BY <1>1 DEF LogInv, EndedWasStarted
  <1> QED BY <1>4, <1>5, <1>6 DEF LogInv, m

\* The entry of an execution that the new record does not concern, and of the one
\* that it does.
LEMMA EntryAppended ==
    ASSUME NEW l \in Seq(Event), NEW e \in Event, OneEnd(l), OneEnd(Append(l, e)),
           NEW x \in Execution
    PROVE  /\ x # e.exec \/ e.kind \notin {"started"} \cup ExecutionEnd
                => Entry(Append(l, e), x) = Entry(l, x)
           /\ x = e.exec /\ e.kind \in ExecutionEnd => Entry(Append(l, e), x) = e.kind
  <1> DEFINE m == Append(l, e)
  <1>1. /\ \A i \in 1 .. Len(l) : i \in 1 .. Len(m) /\ m[i] = l[i]
        /\ Len(m) \in 1 .. Len(m) /\ m[Len(m)] = e /\ m \in Seq(Event)
        /\ \A i \in 1 .. Len(l) : Ends(m, i, x) <=> Ends(l, i, x)
        /\ Ends(m, Len(m), x) <=> e.kind \in ExecutionEnd /\ x = e.exec
        /\ Ended(m, x) <=> Ended(l, x) \/ (e.kind \in ExecutionEnd /\ x = e.exec)
        /\ Started(m, x) <=> Started(l, x) \/ (e.kind = "started" /\ x = e.exec)
    BY RowsAppended
  <1>2. OneEnd(m)
    OBVIOUS
  <1> HIDE DEF m
  <1>3. ASSUME x # e.exec \/ e.kind \notin {"started"} \cup ExecutionEnd
        PROVE  Entry(m, x) = Entry(l, x)
    <2>1. CASE Ended(l, x)
      <3>1. PICK i \in 1 .. Len(l) : Ends(l, i, x)
        BY <2>1 DEF Ended
      <3> QED BY <1>1, <1>2, <3>1, EntryIs
    <2>2. CASE ~Ended(l, x)
      BY <1>1, <1>2, <1>3, <2>2, EntryIs
    <2> QED BY <2>1, <2>2
  <1>4. ASSUME x = e.exec, e.kind \in ExecutionEnd PROVE Entry(m, x) = e.kind
    BY <1>1, <1>2, <1>4, EntryIs
  <1> QED BY <1>3, <1>4 DEF m

Entries == [x \in Execution |-> Entry(log, x)]

\* One more record is a step of the ledger, or leaves it alone.
LEMMA LedgerAppended ==
    ASSUME TypeOK, LogInv(log), NEW kind, NEW x, NEW k, AppendEvent(kind, x, k),
           [kind |-> kind, exec |-> x, key |-> k] \in Event,
           kind = "started" => ~Started(log, x),
           kind \in ExecutionEnd => Started(log, x) /\ ~Ended(log, x)
    PROVE  /\ LogInv(log') /\ [L!LedgerNext]_Entries
           /\ \A y : /\ Ended(log', y) <=> Ended(log, y) \/ (kind \in ExecutionEnd /\ y = x)
                     /\ Started(log', y) <=> Started(log, y) \/ (kind = "started" /\ y = x)
  <1> DEFINE e == [kind |-> kind, exec |-> x, key |-> k]
  <1>1. log \in Seq(Event) /\ e \in Event /\ log' = Append(log, e)
    BY DEF TypeOK, AppendEvent
  <1>2. e.kind = kind /\ e.exec = x
    OBVIOUS
  <1> HIDE DEF e
  <1>3. LogInv(log')
    BY <1>1, <1>2, LogInvAppended
  <1>4. log' \in Seq(Event) /\ OneEnd(log) /\ OneEnd(log')
    BY <1>1, <1>3, RowsAppended DEF LogInv
  <1>5. \A y : /\ Ended(log', y) <=> Ended(log, y) \/ (kind \in ExecutionEnd /\ y = x)
               /\ Started(log', y) <=> Started(log, y) \/ (kind = "started" /\ y = x)
    BY <1>1, <1>2, RowsAppended
  <1>6. \A y \in Execution : y # x \/ kind \notin {"started"} \cup ExecutionEnd
          => Entry(log', y) = Entry(log, y)
    BY <1>1, <1>2, <1>4, EntryAppended
  <1>7. CASE kind \notin {"started"} \cup ExecutionEnd
    BY <1>3, <1>5, <1>6, <1>7 DEF Entries
  <1>8. CASE kind = "started"
    <2>1. x \in Execution /\ ~Started(log, x) /\ ~Ended(log, x)
      BY <1>1, <1>2, <1>8, EventTypes DEF LogInv, EndedWasStarted
    <2>2. kind \notin ExecutionEnd
      BY <1>8 DEF ExecutionEnd, Ending
    <2>3. Entry(log, x) = "absent" /\ Entry(log', x) = "open"
      BY <1>1, <1>4, <1>5, <1>8, <2>1, <2>2, EntryIs
    <2>4. Entries' = [Entries EXCEPT ![x] = "open"] /\ Entries[x] = "absent"
      BY <1>6, <2>1, <2>3 DEF Entries
    <2>5. L!Open(x)
      BY <2>4 DEF L!Open, Entries
    <2> QED BY <1>3, <1>5, <2>1, <2>5 DEF L!LedgerNext
  <1>9. CASE kind \in ExecutionEnd
    <2>1. x \in Execution /\ Started(log, x) /\ ~Ended(log, x)
      BY <1>1, <1>2, <1>9, EventTypes
    <2>2. Entry(log, x) = "open" /\ Entry(log', x) = kind
      BY <1>1, <1>2, <1>4, <1>9, <2>1, EntryIs, EntryAppended
    <2>3. Entries' = [Entries EXCEPT ![x] = kind] /\ Entries[x] = "open"
      BY <1>6, <2>1, <2>2 DEF Entries
    <2>4. L!Close(x)
      BY <1>9, <2>3 DEF L!Close, L!Closed, Entries, ExecutionEnd, Ending
    <2> QED BY <1>3, <1>5, <2>1, <2>4 DEF L!LedgerNext
  <1> QED BY <1>7, <1>8, <1>9

\* The order of the journal, and the execution of the process is open.
LedgerInv ==
    /\ LogInv(log)
    /\ running # NoExecution => Started(log, running) /\ ~Ended(log, running)

\* What an execution to recover is known to be.
LEMMA UnresolvedIsOpen ==
    ASSUME TypeOK, LogInv(log), NEW x \in UnresolvedExecutions(log, Len(log))
    PROVE  x \in Execution /\ Started(log, x) /\ ~Ended(log, x)
  <1>1. PICK i \in 1 .. Len(log) : /\ Starts(log, i, x)
                                   /\ \A j \in i + 1 .. Len(log) : ~Ends(log, j, x)
    BY DEF UnresolvedExecutions
  <1>2. x \in Execution
    BY DEF UnresolvedExecutions
  <1>3. ASSUME NEW j \in 1 .. Len(log), Ends(log, j, x) PROVE FALSE
    <2>1. i < j
      BY <1>1, <1>2, <1>3 DEF LogInv, EndAfterStart
    <2>2. j \in i + 1 .. Len(log)
      BY <2>1 DEF TypeOK
    <2> QED BY <1>1, <1>3, <2>2
  <1> QED BY <1>1, <1>2, <1>3 DEF Started, Ended

LEMMA LedgerStep ==
    ASSUME TypeOK, RunsWhenReady, ProjectionIsExact, LedgerInv, [Next]_vars
    PROVE  LedgerInv' /\ [L!LedgerNext]_Entries
  <1> USE DEF projection, current
  <1>1. CASE \/ Start \/ ReadRow \/ EndProjection \/ BecomeReady \/ RecoveryFails
             \/ DropHandler \/ AbandonExecution \/ Crash \/ UNCHANGED vars
    <2>1. log' = log /\ running' \in {running, NoExecution}
      BY <1>1 DEF Start, ReadRow, EndProjection, BecomeReady, RecoveryFails, DropHandler,
                  AbandonExecution, StopsRunning, Crash, vars
    <2>2. Entries' = Entries
      BY <2>1 DEF Entries
    <2> QED BY <2>1, <2>2 DEF LedgerInv
  <1>2. CASE RecoverExecution
    <2>1. PICK x \in unresolved_executions : AppendEvent("unknown", x, NoKey)
      BY <1>2 DEF RecoverExecution
    <2>2. x \in UnresolvedExecutions(log, Len(log)) /\ mode = "recover" /\ running' = running
      BY <1>2, <2>1 DEF RecoverExecution, ProjectionIsExact
    <2>3. x \in Execution /\ Started(log, x) /\ ~Ended(log, x)
      BY <2>2, UnresolvedIsOpen DEF LedgerInv
    <2>4. [kind |-> "unknown", exec |-> x, key |-> NoKey] \in Event /\ "unknown" # "started"
      BY <2>3 DEF Event, ExecutionEnd
    <2>5. LogInv(log') /\ [L!LedgerNext]_Entries
      BY <2>1, <2>3, <2>4, LedgerAppended DEF LedgerInv
    <2> QED BY <2>2, <2>5 DEF LedgerInv, RunsWhenReady
  <1>3. CASE RecoverApproval
    <2>1. PICK k \in Key : AppendEvent("denied_on_restart", NoExecution, k)
      BY <1>3 DEF RecoverApproval, TypeOK
    <2>2. /\ [kind |-> "denied_on_restart", exec |-> NoExecution, key |-> k] \in Event
          /\ "denied_on_restart" \notin {"started"} \cup ExecutionEnd
      BY DEF Event, ExecutionEnd, Ending
    <2>3. LogInv(log') /\ [L!LedgerNext]_Entries
      BY <2>1, <2>2, LedgerAppended DEF LedgerInv
    <2> QED BY <1>3, <2>3 DEF RecoverApproval, LedgerInv, RunsWhenReady
  <1>4. ASSUME NEW x \in Execution, StartExecution(x)
        PROVE  LedgerInv' /\ [L!LedgerNext]_Entries
    <2>1. [kind |-> "started", exec |-> x, key |-> NoKey] \in Event /\ "started" \notin ExecutionEnd
      BY DEF Event, ExecutionEnd, Ending
    <2>2. ~Started(log, x)
      <3> SUFFICES ASSUME NEW i \in 1 .. Len(log), Starts(log, i, x) PROVE FALSE
        BY DEF Started
      <3>1. log[i] = [kind |-> "started", exec |-> x, key |-> NoKey]
        BY EventTypes DEF Starts, TypeOK
      <3> QED BY <1>4, <3>1 DEF StartExecution, Recorded
    <2>3. AppendEvent("started", x, NoKey) /\ running' = x
      BY <1>4 DEF StartExecution
    <2>4. ~Ended(log, x)
      BY <2>2 DEF LedgerInv, LogInv, EndedWasStarted
    <2> QED BY <2>1, <2>2, <2>3, <2>4, LedgerAppended DEF LedgerInv
  <1>5. ASSUME NEW k \in Key, RequestApproval(k) PROVE LedgerInv' /\ [L!LedgerNext]_Entries
    <2>1. AppendEvent("requested", running, k) /\ running' = running /\ running \in Execution
      BY <1>5 DEF RequestApproval, TypeOK
    <2>2. /\ [kind |-> "requested", exec |-> running, key |-> k] \in Event
          /\ "requested" \notin {"started"} \cup ExecutionEnd
      BY <2>1 DEF Event, ExecutionEnd, Ending
    <2> QED BY <2>1, <2>2, LedgerAppended DEF LedgerInv
  <1>6. ASSUME NEW decision \in Decision, DecideApproval(decision)
        PROVE  LedgerInv' /\ [L!LedgerNext]_Entries
    <2>1. /\ AppendEvent(decision, running, asked) /\ running' = running
          /\ running \in Execution /\ asked \in Key
      BY <1>6 DEF DecideApproval, TypeOK, RunsWhenReady
    <2>2. /\ [kind |-> decision, exec |-> running, key |-> asked] \in Event
          /\ decision \notin {"started"} \cup ExecutionEnd
      BY <2>1 DEF Event, ExecutionEnd, Ending, Decision
    <2> QED BY <2>1, <2>2, LedgerAppended DEF LedgerInv
  <1>7. ASSUME NEW status \in Ending, CompleteExecution(status)
        PROVE  LedgerInv' /\ [L!LedgerNext]_Entries
    <2>1. /\ AppendEvent(status, running, NoKey) /\ running' = NoExecution
          /\ running \in Execution /\ Started(log, running) /\ ~Ended(log, running)
      BY <1>7 DEF CompleteExecution, StopsRunning, TypeOK, LedgerInv
    <2>2. [kind |-> status, exec |-> running, key |-> NoKey] \in Event /\ status # "started"
      BY <2>1 DEF Event, ExecutionEnd, Ending
    <2> QED BY <2>1, <2>2, LedgerAppended DEF LedgerInv
  <1> QED BY <1>1, <1>2, <1>3, <1>4, <1>5, <1>6, <1>7 DEF Next

\* orchestrator.rs:570-589, 826-1003: over any number of crashes and restarts, an
\* execution in the journal is opened once and closed once, and its end stands.
THEOREM RecoveryImplementsLedger == Spec => ImplementsLedger
  <1>1. Init => LedgerInv /\ L!LedgerInit
    BY DEF Init, LedgerInv, LogInv, OneEnd, EndAfterStart, EndedWasStarted, Ended, Started,
           L!LedgerInit, Entry
  <1>2. TypeOK /\ RunsWhenReady /\ ProjectionIsExact /\ LedgerInv /\ [Next]_vars
          => LedgerInv' /\ [L!LedgerNext]_Entries
    BY LedgerStep
  <1>3. [L!LedgerNext]_Entries <=> [L!LedgerNext]_[x \in Execution |-> Entry(log, x)]
    BY DEF Entries
  <1> QED BY <1>1, <1>2, <1>3, ProjectionAlways, PTL DEF Spec, ImplementsLedger, L!LedgerSpec
-------------------------------------------------------------------------------
(* Requests and decisions. *)

Count(kinds, k) == Cardinality(Rows(kinds, k))
Outstanding(k) == k \in UnresolvedApprovals(log, Len(log))

LEMMA CountIsNat == ASSUME TypeOK, NEW kinds, NEW k PROVE Count(kinds, k) \in Nat
  <1>1. IsFiniteSet(1 .. Len(log))
    BY FS_Interval DEF TypeOK
  <1>2. Rows(kinds, k) \subseteq 1 .. Len(log)
    BY DEF Rows
  <1> QED BY <1>1, <1>2, FS_Subset, FS_CardinalityType DEF Count

\* What one more record adds to the count of the records of a key.
LEMMA CountAppended ==
    ASSUME TypeOK, NEW kind, NEW x, NEW q, AppendEvent(kind, x, q),
           [kind |-> kind, exec |-> x, key |-> q] \in Event, NEW kinds, NEW k
    PROVE  Count(kinds, k)' = IF kind \in kinds /\ q = k THEN Count(kinds, k) + 1
                                ELSE Count(kinds, k)
  <1> DEFINE n == Len(log)
  <1>1. /\ n \in Nat /\ Len(log') = n + 1
        /\ \A i \in 1 .. n : log'[i] = log[i]
        /\ log'[n + 1] = [kind |-> kind, exec |-> x, key |-> q]
    BY Appended DEF TypeOK, AppendEvent
  <1>2. \A i : i \in 1 .. n + 1 <=> i \in 1 .. n \/ i = n + 1
    BY <1>1
  <1>3. n + 1 \notin Rows(kinds, k) /\ IsFiniteSet(Rows(kinds, k))
    <2>1. n + 1 \notin 1 .. n /\ Rows(kinds, k) \subseteq 1 .. n
      BY <1>1 DEF Rows
    <2>2. IsFiniteSet(1 .. n)
      BY <1>1, FS_Interval
    <2>3. IsFiniteSet(Rows(kinds, k))
      BY <2>1, <2>2, FS_Subset
    <2> QED BY <2>1, <2>3
  <1>4. CASE kind \in kinds /\ q = k
    <2>1. Rows(kinds, k)' = Rows(kinds, k) \cup {n + 1}
      BY <1>1, <1>2, <1>4 DEF Rows
    <2> QED BY <1>3, <1>4, <2>1, FS_AddElement DEF Count
  <1>5. CASE ~(kind \in kinds /\ q = k)
    <2>1. Rows(kinds, k)' = Rows(kinds, k)
      BY <1>1, <1>2, <1>5 DEF Rows
    <2> QED BY <1>5, <2>1 DEF Count
  <1> QED BY <1>4, <1>5

\* Every decision has a request of its own, and so has every request that is still
\* outstanding; the one a handler is at is outstanding.
DecidedInv ==
    /\ \A k \in Key : Count(ApprovalEnd, k) + (IF Outstanding(k) THEN 1 ELSE 0)
                        <= Count({"requested"}, k)
    /\ asked # NoKey => Outstanding(asked)

LEMMA OutstandingAppended ==
    ASSUME TypeOK, NEW kind, NEW x, NEW q, AppendEvent(kind, x, q),
           [kind |-> kind, exec |-> x, key |-> q] \in Event, NEW k
    PROVE  Outstanding(k)' <=>
             \/ kind = "requested" /\ k = q
             \/ Outstanding(k) /\ ~(kind \in ApprovalEnd /\ k = q)
  <1> DEFINE e == [kind |-> kind, exec |-> x, key |-> q]
  <1>1. log \in Seq(Event) /\ e \in Event /\ log' = Append(log, e)
    BY DEF TypeOK, AppendEvent
  <1>2. /\ log' \in Seq(Event) /\ Len(log) \in Nat /\ Len(log') = Len(log) + 1
        /\ log'[Len(log) + 1] = e
    BY <1>1, Appended
  <1>3. UnresolvedApprovals(log', Len(log)) = UnresolvedApprovals(log, Len(log))
    BY <1>1, EarlierRows
  <1>4. e.kind = kind /\ e.key = q /\ "requested" \notin ApprovalEnd
    BY DEF ApprovalEnd, Decision
  <1> HIDE DEF e
  <1>5. Len(log) < Len(log')
    BY <1>2
  <1> QED BY <1>2, <1>3, <1>4, <1>5, NextRowOfApprovals DEF Outstanding

\* A record that decides nothing keeps the balance, and one that decides an
\* outstanding request too.
LEMMA BalanceAppended ==
    ASSUME TypeOK, DecidedInv, NEW kind, NEW x, NEW q, AppendEvent(kind, x, q),
           [kind |-> kind, exec |-> x, key |-> q] \in Event,
           kind \in ApprovalEnd => Outstanding(q)
    PROVE  \A k \in Key : Count(ApprovalEnd, k)' + (IF Outstanding(k)' THEN 1 ELSE 0)
                            <= Count({"requested"}, k)'
  <1> SUFFICES ASSUME NEW k \in Key
               PROVE  Count(ApprovalEnd, k)' + (IF Outstanding(k)' THEN 1 ELSE 0)
                        <= Count({"requested"}, k)'
    OBVIOUS
  <1>1. /\ Count(ApprovalEnd, k) \in Nat /\ Count({"requested"}, k) \in Nat
        /\ Count(ApprovalEnd, k) + (IF Outstanding(k) THEN 1 ELSE 0) <= Count({"requested"}, k)
    BY CountIsNat DEF DecidedInv
  <1>2. Count(ApprovalEnd, k)' =
          IF kind \in ApprovalEnd /\ q = k THEN Count(ApprovalEnd, k) + 1
            ELSE Count(ApprovalEnd, k)
    BY CountAppended
  <1>3. Count({"requested"}, k)' =
          IF kind \in {"requested"} /\ q = k THEN Count({"requested"}, k) + 1
            ELSE Count({"requested"}, k)
    BY CountAppended
  <1>4. Outstanding(k)' <=> \/ kind = "requested" /\ k = q
                            \/ Outstanding(k) /\ ~(kind \in ApprovalEnd /\ k = q)
    BY OutstandingAppended
  <1>5. "requested" \notin ApprovalEnd
    BY DEF ApprovalEnd, Decision
  <1>6. CASE kind \in ApprovalEnd /\ q = k
    <2>1. Outstanding(k) /\ ~Outstanding(k)'
      BY <1>4, <1>5, <1>6
    <2>2. /\ Count(ApprovalEnd, k)' = Count(ApprovalEnd, k) + 1
          /\ Count({"requested"}, k)' = Count({"requested"}, k)
      BY <1>2, <1>3, <1>5, <1>6
    <2> QED BY <1>1, <2>1, <2>2
  <1>7. CASE kind = "requested" /\ q = k
    <2>1. /\ Count(ApprovalEnd, k)' = Count(ApprovalEnd, k)
          /\ Count({"requested"}, k)' = Count({"requested"}, k) + 1
      BY <1>2, <1>3, <1>5, <1>7
    <2> QED BY <1>1, <2>1
  <1>8. CASE ~(kind \in ApprovalEnd /\ q = k) /\ ~(kind = "requested" /\ q = k)
    <2>1. /\ Count(ApprovalEnd, k)' = Count(ApprovalEnd, k)
          /\ Count({"requested"}, k)' = Count({"requested"}, k)
          /\ Outstanding(k)' <=> Outstanding(k)
      BY <1>2, <1>3, <1>4, <1>8
    <2> QED BY <1>1, <2>1
  <1> QED BY <1>6, <1>7, <1>8

LEMMA DecidedStep ==
    ASSUME TypeOK, RunsWhenReady, ProjectionIsExact, DecidedInv, [Next]_vars
    PROVE  DecidedInv'
  <1> USE DEF projection, current
  <1>1. ASSUME log' = log, asked' \in {asked, NoKey} PROVE DecidedInv'
    BY <1>1 DEF DecidedInv, Count, Rows, Outstanding
  <1>2. CASE \/ Start \/ ReadRow \/ EndProjection \/ BecomeReady \/ RecoveryFails
             \/ DropHandler \/ AbandonExecution \/ Crash \/ UNCHANGED vars
    BY <1>1, <1>2 DEF Start, ReadRow, EndProjection, BecomeReady, RecoveryFails, DropHandler,
                      AbandonExecution, StopsRunning, Crash, vars
  <1>3. ASSUME NEW kind \in {"started"} \cup ExecutionEnd, NEW x \in Execution,
               AppendEvent(kind, x, NoKey), asked' \in {asked, NoKey}
        PROVE  DecidedInv'
    <2>1. /\ [kind |-> kind, exec |-> x, key |-> NoKey] \in Event
          /\ kind \notin ApprovalEnd /\ kind # "requested"
      BY DEF Event, ExecutionEnd, Ending, ApprovalEnd, Decision
    <2>2. \A k : Outstanding(k)' <=> Outstanding(k)
      BY <1>3, <2>1, OutstandingAppended
    <2>3. asked' # NoKey => Outstanding(asked)'
      BY <1>3, <2>2 DEF DecidedInv
    <2> QED BY <1>3, <2>1, <2>3, BalanceAppended DEF DecidedInv, Outstanding
  <1>4. CASE RecoverExecution
    <2>1. PICK x \in Execution : AppendEvent("unknown", x, NoKey)
      BY <1>4 DEF RecoverExecution, TypeOK
    <2> QED BY <1>3, <1>4, <2>1 DEF RecoverExecution, ExecutionEnd
  <1>5. CASE RecoverApproval
    <2>1. PICK k \in Key : AppendEvent("denied_on_restart", NoExecution, k) /\ Outstanding(k)
      BY <1>5 DEF RecoverApproval, TypeOK, ProjectionIsExact, Outstanding
    <2>2. [kind |-> "denied_on_restart", exec |-> NoExecution, key |-> k] \in Event
      BY DEF Event
    <2>3. asked = NoKey /\ asked' = NoKey
      BY <1>5 DEF RecoverApproval, RunsWhenReady
    <2> QED BY <2>1, <2>2, <2>3, BalanceAppended DEF DecidedInv
  <1>6. ASSUME NEW x \in Execution, StartExecution(x) PROVE DecidedInv'
    BY <1>3, <1>6 DEF StartExecution
  <1>7. ASSUME NEW k \in Key, RequestApproval(k) PROVE DecidedInv'
    <2>1. /\ [kind |-> "requested", exec |-> running, key |-> k] \in Event
          /\ AppendEvent("requested", running, k) /\ asked' = k
          /\ "requested" \notin ApprovalEnd
      BY <1>7 DEF RequestApproval, TypeOK, Event, ApprovalEnd, Decision
    <2>2. Outstanding(k)'
      BY <2>1, OutstandingAppended
    <2>3. Outstanding(asked)'
      BY <2>1, <2>2 DEF Outstanding
    <2> QED BY <2>1, <2>3, BalanceAppended DEF DecidedInv
  <1>8. ASSUME NEW decision \in Decision, DecideApproval(decision) PROVE DecidedInv'
    <2>1. /\ [kind |-> decision, exec |-> running, key |-> asked] \in Event
          /\ AppendEvent(decision, running, asked) /\ asked' = NoKey /\ Outstanding(asked)
      BY <1>8 DEF DecideApproval, TypeOK, RunsWhenReady, Event, DecidedInv
    <2> QED BY <2>1, BalanceAppended DEF DecidedInv
  <1>9. ASSUME NEW status \in Ending, CompleteExecution(status) PROVE DecidedInv'
    BY <1>3, <1>9 DEF CompleteExecution, StopsRunning, ExecutionEnd, TypeOK
  <1> QED BY <1>2, <1>4, <1>5, <1>6, <1>7, <1>8, <1>9 DEF Next

\* client.rs:1070-1199, orchestrator.rs:580-588: over any number of restarts and reuses
\* of its key a request is decided at most once, by its handler or by recovery.
THEOREM DecisionsAreRequested == Spec => []DecidedOnce
  <1>1. Init => DecidedInv
    <2> SUFFICES ASSUME Init PROVE DecidedInv
      OBVIOUS
    <2>1. /\ \A kinds, k : Rows(kinds, k) = {}
          /\ \A k : ~Outstanding(k)
      BY DEF Init, Rows, Outstanding, UnresolvedApprovals
    <2>2. \A kinds, k : Count(kinds, k) = 0
      BY <2>1, FS_EmptySet DEF Count
    <2>3. asked = NoKey
      BY DEF Init
    <2> QED BY <2>1, <2>2, <2>3 DEF DecidedInv
  <1>2. TypeOK /\ RunsWhenReady /\ ProjectionIsExact /\ DecidedInv /\ [Next]_vars => DecidedInv'
    BY DecidedStep
  <1>3. TypeOK /\ DecidedInv => DecidedOnce
    <2> SUFFICES ASSUME TypeOK, DecidedInv, NEW k \in Key
                 PROVE  Count(ApprovalEnd, k) <= Count({"requested"}, k)
      BY DEF DecidedOnce, Count
    <2> QED BY CountIsNat DEF DecidedInv
  <1> QED BY <1>1, <1>2, <1>3, ProjectionAlways, PTL DEF Spec

===============================================================================
